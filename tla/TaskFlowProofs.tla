--------------------------- MODULE TaskFlowProofs ---------------------------
(***************************************************************************)
(* Proofs about TaskFlow, for any tasks, projects, flows, writers and mix  *)
(* of operations: its type invariant, that a task keeps a status of its own*)
(* project's flow, and that a parent_task is set within a project.         *)
(*                                                                         *)
(* Both safety properties rest on the row locks.  What a writer found out  *)
(* when it checked (Knows) is about tasks that it holds, FOR SHARE or FOR  *)
(* NO KEY UPDATE, or that only it is about to insert.  No card is held both*)
(* ways by two writers (Locks), so no other writer's step moves one of     *)
(* them (OthersKeep), and what was checked is still so when it commits.    *)
(***************************************************************************)
EXTENDS TaskFlow, TLAPS

(* A card's two kinds of lock exclude each other between writers, and only *)
(* a card that is there is locked.                                         *)
Locks ==
    \A t \in Tasks :
        /\ \A v \in Writers : excl[t] = v => share[t] \subseteq {v}
        /\ project[t] = None => share[t] = {} /\ excl[t] = None

(* Two inserts in flight are of two tasks.                                 *)
OwnInserts ==
    \A v, w \in Writers : v # w /\ At(v, "insert") /\ At(w, "insert") => work[v].task # work[w].task

(* A status that may be set or started with in a project.                  *)
StatusFits(s, p) == s \in Statuses /\ p \in Projects /\ HomeOf[s] = p /\ s \in States(p)

(* What a status change holds and knows until it commits.                  *)
Setting(w) ==
    LET t == work[w].task
    IN  t \in Tasks /\ w \in share[t] /\ project[t] # None /\ StatusFits(work[w].status, project[t])

(* What a change of a parent task holds and knows.                         *)
Linking(w) ==
    LET t == work[w].task
    IN  /\ t \in Tasks /\ w \in share[t] /\ project[t] # None
        /\ At(w, "lockParent") => work[w].parent \in Tasks
        /\ At(w, "setLink") /\ work[w].parent # None =>
              w \in share[work[w].parent] /\ project[work[w].parent] = project[t]

(* What an insert holds and knows.                                         *)
Inserting(w) ==
    /\ work[w].task \in Tasks /\ project[work[w].task] = None
    /\ StatusFits(work[w].status, work[w].to)
    /\ work[w].parent # None => w \in share[work[w].parent] /\ project[work[w].parent] = work[w].to

(* A move's tasks exist, and all but those still to lock are held.         *)
Moving(w) ==
    /\ work[w].task \in work[w].moved \ work[w].todo
    /\ StatusFits(work[w].status, work[w].to)
    /\ work[w].todo \subseteq work[w].moved /\ (At(w, "lock") \/ work[w].todo = {})
    /\ \A t \in work[w].moved : t \in Tasks /\ project[t] # None
    /\ \A t \in work[w].moved \ work[w].todo : excl[t] = w

Knows(w) ==
    /\ At(w, "setStatus") => Setting(w)
    /\ At(w, "lockParent") \/ At(w, "setLink") => Linking(w)
    /\ At(w, "insert") => Inserting(w)
    /\ At(w, "walk") \/ At(w, "lock") \/ At(w, "apply") \/ At(w, "move") => Moving(w)

Inv == TypeOK /\ Locks /\ OwnInserts /\ StatusOfProject /\ \A w \in Writers : Knows(w)

(* What a step of w leaves to the others: their work, their locks and the  *)
(* project of every task they hold or are about to insert.                 *)
OthersKeep(w) ==
    /\ \A v \in Writers \ {w} : work'[v] = work[v]
    /\ \A v \in Writers \ {w}, t \in Tasks :
          /\ v \in share'[t] <=> v \in share[t]
          /\ excl'[t] = v <=> excl[t] = v
          /\ v \in share[t] \/ excl[t] = v \/ (At(v, "insert") /\ work[v].task = t) => project'[t] = project[t]
    /\ \A t \in Tasks : project[t] # None => project'[t] # None

-----------------------------------------------------------------------------
(* A writer that starts anew, or goes on to another step.                  *)
LEMMA NewWork ==
    ASSUME TypeOK, NEW w \in Writers, NEW x \in Work, work' = [work EXCEPT ![w] = x]
    PROVE  work' \in [Writers -> Work] /\ work'[w] = x /\ \A v \in Writers \ {w} : work'[v] = work[v]
BY DEF TypeOK

(* Nothing is asked of a writer that does nothing.                         *)
LEMMA IdleWork == Idle \in Work /\ Idle.pc = "idle"
BY DEF Idle, Work, PCs

(* The descendants of a task are tasks in its project.                     *)
LEMMA DescendantsThere ==
    ASSUME NEW r \in Tasks
    PROVE  Descendants(r) \subseteq {t \in Tasks \ {r} : project[t] = project[r]}
<1> DEFINE D == {t \in Tasks : project[t] = project[r]}
<1>1. D \in SUBSET Tasks /\ \A t \in Tasks : project[t] = project[r] /\ link[t] \in D \cup {r} => t \in D
  OBVIOUS
<1> QED BY <1>1 DEF Descendants

(* Letting the locks go keeps the variables' types.                        *)
LEMMA FinishTypes ==
    ASSUME TypeOK, NEW w \in Writers, Finish(w)
    PROVE  /\ share' \in [Tasks -> SUBSET Writers] /\ excl' \in [Tasks -> Writers \cup {None}]
           /\ work' \in [Writers -> Work] /\ At(w, "idle")'
<1>1. work' \in [Writers -> Work] /\ work'[w] = Idle
  BY IdleWork, NewWork DEF Finish
<1> QED BY <1>1, IdleWork DEF Finish, TypeOK, At

(* The variables are well typed, whatever the flows and whoever writes.    *)
THEOREM TypeCorrect == Spec => []TypeOK
<1>1. Init => TypeOK
  BY IdleWork DEF Init, TypeOK
<1>2. TypeOK /\ [Next]_vars => TypeOK'
  <2> SUFFICES ASSUME TypeOK, [Next]_vars PROVE TypeOK'
    OBVIOUS
  <2>1. ASSUME NEW w \in Writers, CheckStatus(w) PROVE TypeOK'
    <3>1. PICK t \in Tasks, s \in Statuses :
             TakeShare(w, t) /\ work' = [work EXCEPT ![w] =
                [Idle EXCEPT !.pc = "setStatus", !.task = t, !.status = s]]
      BY <2>1 DEF CheckStatus
    <3>2. [Idle EXCEPT !.pc = "setStatus", !.task = t, !.status = s] \in Work
      BY DEF Idle, Work, PCs
    <3>3. work' \in [Writers -> Work]
      BY <3>1, <3>2, NewWork
    <3> QED BY <2>1, <3>1, <3>3 DEF CheckStatus, TakeShare, rows, TypeOK
  <2>2. ASSUME NEW w \in Writers, WriteStatus(w) PROVE TypeOK'
    <3>1. work[w] \in Work
      BY DEF TypeOK
    <3> QED BY <2>2, <3>1, FinishTypes DEF WriteStatus, Work, TypeOK
  <2>3. ASSUME NEW w \in Writers, LockChild(w) PROVE TypeOK'
    <3>1. PICK t \in Tasks, p \in Tasks \cup {None} :
             TakeShare(w, t) /\ work' = [work EXCEPT ![w] = [Idle EXCEPT
                !.pc = IF p = None THEN "setLink" ELSE "lockParent", !.task = t, !.parent = p]]
      BY <2>3 DEF LockChild
    <3>2. [Idle EXCEPT !.pc = IF p = None THEN "setLink" ELSE "lockParent",
                       !.task = t, !.parent = p] \in Work
      BY DEF Idle, Work, PCs
    <3>3. work' \in [Writers -> Work]
      BY <3>1, <3>2, NewWork
    <3> QED BY <2>3, <3>1, <3>3 DEF LockChild, TakeShare, rows, TypeOK
  <2>4. ASSUME NEW w \in Writers, LockParent(w) PROVE TypeOK'
    <3>1. [work[w] EXCEPT !.pc = "setLink"] \in Work
      BY DEF Work, PCs, TypeOK
    <3>2. work' = [work EXCEPT ![w] = [work[w] EXCEPT !.pc = "setLink"]]
      BY <2>4 DEF LockParent
    <3>3. work' \in [Writers -> Work]
      BY <3>1, <3>2, NewWork
    <3>4. share' \in [Tasks -> SUBSET Writers]
      BY <2>4 DEF LockParent, TakeShare, TypeOK
    <3> QED BY <2>4, <3>3, <3>4 DEF LockParent, rows, TypeOK
  <2>5. ASSUME NEW w \in Writers, WriteLink(w) PROVE TypeOK'
    <3>1. work[w] \in Work
      BY DEF TypeOK
    <3> QED BY <2>5, <3>1, FinishTypes DEF WriteLink, Work, TypeOK
  <2>6. ASSUME NEW w \in Writers, CheckInsert(w) PROVE TypeOK'
    <3>1. PICK t \in Tasks, p \in Projects, s \in Statuses, u \in Tasks \cup {None} :
             /\ Fresh(t)
             /\ Enterable(w, p, s)
             /\ IF u = None THEN UNCHANGED share ELSE InProject(w, u, p) /\ TakeShare(w, u)
             /\ work' = [work EXCEPT ![w] =
                   [Idle EXCEPT !.pc = "insert", !.task = t, !.to = p, !.status = s, !.parent = u]]
      BY <2>6 DEF CheckInsert
    <3>2. [Idle EXCEPT !.pc = "insert", !.task = t, !.to = p, !.status = s, !.parent = u] \in Work
      BY DEF Idle, Work, PCs
    <3>3. work' \in [Writers -> Work]
      BY <3>1, <3>2, NewWork
    <3>4. share' \in [Tasks -> SUBSET Writers]
      BY <3>1 DEF TakeShare, TypeOK
    <3> QED BY <2>6, <3>3, <3>4 DEF CheckInsert, rows, TypeOK
  <2>7. ASSUME NEW w \in Writers, WriteInsert(w) PROVE TypeOK'
    <3>1. work[w] \in Work
      BY DEF TypeOK
    <3> QED BY <2>7, <3>1, FinishTypes DEF WriteInsert, Work, TypeOK
  <2>8. ASSUME NEW w \in Writers, LockRoot(w) PROVE TypeOK'
    <3>1. PICK t \in Tasks, p \in Projects, s \in Statuses, alone \in BOOLEAN :
             /\ project[t] \notin {None, p}
             /\ CanExclude(w, t)
             /\ Enterable(w, p, s)
             /\ TakeExclusive(w, t)
             /\ work' = [work EXCEPT ![w] = [Idle EXCEPT
                   !.pc = IF alone THEN "apply" ELSE "walk", !.alone = alone,
                   !.task = t, !.to = p, !.status = s, !.moved = {t}]]
      BY <2>8 DEF LockRoot
    <3>2. [Idle EXCEPT !.pc = IF alone THEN "apply" ELSE "walk", !.alone = alone,
                       !.task = t, !.to = p, !.status = s, !.moved = {t}] \in Work
      BY DEF Idle, Work, PCs
    <3>3. work' \in [Writers -> Work]
      BY <3>1, <3>2, NewWork
    <3>4. excl' \in [Tasks -> Writers \cup {None}]
      BY <3>1 DEF TakeExclusive, TypeOK
    <3> QED BY <2>8, <3>3, <3>4 DEF LockRoot, rows, TypeOK
  <2>9. ASSUME NEW w \in Writers, Walk(w) PROVE TypeOK'
    <3> DEFINE found == Descendants(work[w].task)
               moved == work[w].moved
               stop == [work[w] EXCEPT !.pc = "apply",
                           !.moved = {t \in moved : project[t] = project[work[w].task]}]
               more == [work[w] EXCEPT !.pc = "lock", !.todo = found \ moved, !.moved = moved \cup found]
    <3>1. work[w] \in Work /\ found \subseteq Tasks
      BY DEF TypeOK, Descendants
    <3>2. stop \in Work /\ more \in Work
      BY <3>1 DEF Work, PCs
    <3>3. work' = [work EXCEPT ![w] = IF found \subseteq moved THEN stop ELSE more]
      BY <2>9 DEF Walk
    <3>4. work' \in [Writers -> Work]
      BY <3>2, <3>3, NewWork
    <3> QED BY <2>9, <3>4 DEF Walk, rows, TypeOK
  <2>10. ASSUME NEW w \in Writers, LockNext(w) PROVE TypeOK'
    <3>1. PICK t \in work[w].todo :
             /\ CanExclude(w, t)
             /\ TakeExclusive(w, t)
             /\ work' = [work EXCEPT ![w] =
                   [work[w] EXCEPT !.todo = work[w].todo \ {t}, !.pc = IF work[w].todo = {t} THEN "walk" ELSE "lock"]]
      BY <2>10 DEF LockNext
    <3>2. work[w] \in Work
      BY DEF TypeOK
    <3>3. [work[w] EXCEPT !.todo = work[w].todo \ {t}, !.pc = IF work[w].todo = {t} THEN "walk" ELSE "lock"] \in Work
      BY <3>2 DEF Work, PCs
    <3>4. work' \in [Writers -> Work]
      BY <3>1, <3>3, NewWork
    <3> QED BY <2>10, <3>1, <3>4 DEF LockNext, TakeExclusive, rows, TypeOK
  <2>11. ASSUME NEW w \in Writers, Apply(w) PROVE TypeOK'
    <3>1. work' = [work EXCEPT ![w] = [work[w] EXCEPT !.pc = "move", !.gone = Unlinks(w)]]
      BY <2>11 DEF Apply
    <3>2. work[w] \in Work /\ Unlinks(w) \subseteq Tasks
      BY DEF TypeOK, Unlinks
    <3>3. [work[w] EXCEPT !.pc = "move", !.gone = Unlinks(w)] \in Work
      BY <3>2 DEF Work, PCs
    <3>4. work' \in [Writers -> Work]
      BY <3>1, <3>3, NewWork
    <3> QED BY <2>11, <3>4 DEF Apply, rows, TypeOK
  <2>12. ASSUME NEW w \in Writers, WriteMove(w) PROVE TypeOK'
    <3>1. work[w] \in Work
      BY DEF TypeOK
    <3> QED BY <2>12, <3>1, FinishTypes DEF WriteMove, Work, TypeOK
  <2>13. ASSUME NEW w \in Writers, Abort(w) PROVE TypeOK'
    BY <2>13, FinishTypes DEF Abort, rows, TypeOK
  <2>14. CASE UNCHANGED vars
    BY <2>14 DEF vars, TypeOK
  <2> QED
    BY <2>1, <2>2, <2>3, <2>4, <2>5, <2>6, <2>7, <2>8, <2>9, <2>10, <2>11, <2>12, <2>13, <2>14
       DEF Next, Update, Insert, Move
<1> QED BY <1>1, <1>2, PTL DEF Spec

-----------------------------------------------------------------------------
(* What another writer knows outlasts a step of w.                         *)
LEMMA OthersKnow ==
    ASSUME Inv, NEW w \in Writers, OthersKeep(w), NEW v \in Writers \ {w}
    PROVE  Knows(v)'
<1>1. Knows(v) /\ work'[v] = work[v] /\ work[v] \in Work
  BY DEF Inv, OthersKeep, TypeOK
<1>2. /\ work[v].task \in Tasks \cup {None} /\ work[v].parent \in Tasks \cup {None}
      /\ work[v].moved \subseteq Tasks
  BY <1>1 DEF Work
<1>3. At(v, "setStatus")' => Setting(v)'
  BY <1>1, <1>2 DEF Knows, At, Setting, OthersKeep, StatusFits, States
<1>4. At(v, "lockParent")' \/ At(v, "setLink")' => Linking(v)'
  BY <1>1, <1>2 DEF Knows, At, Linking, OthersKeep
<1>5. At(v, "insert")' => Inserting(v)'
  BY <1>1, <1>2 DEF Knows, At, Inserting, OthersKeep, StatusFits, States
<1>6. At(v, "walk")' \/ At(v, "lock")' \/ At(v, "apply")' \/ At(v, "move")' => Moving(v)'
  BY <1>1, <1>2 DEF Knows, At, Moving, OthersKeep, StatusFits, States
<1> QED BY <1>3, <1>4, <1>5, <1>6 DEF Knows

(* What a step of w has to show.                                           *)
LEMMA StepKeeps ==
    ASSUME Inv, NEW w \in Writers, TypeOK', OthersKeep(w), Knows(w)', Locks', OwnInserts', StatusOfProject'
    PROVE  Inv'
BY OthersKnow DEF Inv

(* What is left to show of a step that ends w's transaction.               *)
LEMMA FinishKeeps ==
    ASSUME Inv, NEW w \in Writers, TypeOK', Finish(w), StatusOfProject',
           \A t \in Tasks : project'[t] # project[t] =>
              /\ project'[t] # None
              /\ \A v \in Writers \ {w} : /\ v \notin share[t] /\ excl[t] # v
                                          /\ ~(At(v, "insert") /\ work[v].task = t)
    PROVE  Inv'
<1>1. work'[w] = Idle /\ \A v \in Writers \ {w} : work'[v] = work[v]
  BY IdleWork, NewWork DEF Finish, Inv
<1>2. At(w, "idle")' /\ Knows(w)'
  BY <1>1, IdleWork DEF Knows, At
<1>3. \A t \in Tasks, v \in Writers \ {w} : (v \in share'[t] <=> v \in share[t]) /\ (excl'[t] = v <=> excl[t] = v)
  BY NoneIsNothing DEF Finish, Inv, TypeOK
<1>4. OthersKeep(w)
  BY <1>1, <1>3 DEF OthersKeep
<1>5. Locks'
  BY NoneIsNothing DEF Finish, Inv, TypeOK, Locks
<1>6. OwnInserts'
  BY <1>1, <1>2 DEF Inv, OwnInserts, At
<1> QED BY <1>2, <1>4, <1>5, <1>6, StepKeeps

(* A step that takes a card's row FOR SHARE, or none, and writes no row.   *)
LEMMA ShareKeeps ==
    ASSUME Inv, NEW w \in Writers, NEW t \in Tasks, NEW x \in Work, TypeOK', UNCHANGED <<rows, excl>>,
           work' = [work EXCEPT ![w] = x], Knows(w)', OwnInserts',
           UNCHANGED share \/ (project[t] # None /\ CanShare(w, t) /\ TakeShare(w, t))
    PROVE  Inv'
<1>1. \A v \in Writers \ {w} : work'[v] = work[v]
  BY NewWork DEF Inv
<1>2. OthersKeep(w)
  BY <1>1 DEF OthersKeep, rows, TakeShare, Inv, TypeOK
<1>3. Locks'
  BY NoneIsNothing DEF Inv, TypeOK, Locks, CanShare, TakeShare, rows
<1>4. StatusOfProject'
  BY DEF Inv, StatusOfProject, rows, States
<1> QED BY <1>2, <1>3, <1>4, StepKeeps

(* A step of a move that takes a card's row, or none, and writes none.     *)
LEMMA ExcludeKeeps ==
    ASSUME Inv, NEW w \in Writers, NEW t \in Tasks, NEW x \in Work, TypeOK', UNCHANGED <<rows, share>>,
           work' = [work EXCEPT ![w] = x], Knows(w)', x.pc # "insert",
           UNCHANGED excl \/ (project[t] # None /\ CanExclude(w, t) /\ TakeExclusive(w, t))
    PROVE  Inv'
<1>1. work'[w] = x /\ \A v \in Writers \ {w} : work'[v] = work[v]
  BY NewWork DEF Inv
<1>2. OthersKeep(w)
  BY <1>1, NoneIsNothing DEF OthersKeep, rows, TakeExclusive, CanExclude, Inv, TypeOK
<1>3. Locks'
  BY NoneIsNothing DEF Inv, TypeOK, Locks, CanExclude, TakeExclusive, rows
<1>4. StatusOfProject'
  BY DEF Inv, StatusOfProject, rows, States
<1>5. OwnInserts'
  BY <1>1 DEF Inv, OwnInserts, At
<1> QED BY <1>2, <1>3, <1>4, <1>5, StepKeeps

-----------------------------------------------------------------------------
(* One lemma per action: it keeps the invariant, given that it keeps types. *)
(* The status it is to write is one of the project the task is held in.    *)
LEMMA CheckStatusKeeps == ASSUME Inv, TypeOK', NEW w \in Writers, CheckStatus(w) PROVE Inv'
<1>1. PICK t \in Tasks, s \in Statuses :
         /\ project[t] # None
         /\ CanShare(w, t)
         /\ Allowed(w, project[t], status[t], s)
         /\ TakeShare(w, t)
         /\ work' = [work EXCEPT ![w] = [Idle EXCEPT !.pc = "setStatus", !.task = t, !.status = s]]
  BY DEF CheckStatus
<1> DEFINE x == [Idle EXCEPT !.pc = "setStatus", !.task = t, !.status = s]
<1>2. x \in Work /\ x.pc = "setStatus" /\ x.task = t /\ x.status = s
  BY DEF Idle, Work, PCs
<1> HIDE DEF x
<1>3. work'[w] = x
  BY <1>1, <1>2, NewWork DEF Inv, x
<1>4. StatusFits(s, project[t])
  BY <1>1 DEF Allowed, StatusFits, Inv, TypeOK, StatusOfProject
<1>5. project' = project /\ w \in share'[t]
  BY <1>1 DEF CheckStatus, rows, TakeShare, Inv, TypeOK
<1>6. Knows(w)'
  BY <1>1, <1>2, <1>3, <1>4, <1>5 DEF Knows, At, Setting, StatusFits, States
<1>7. OwnInserts'
  BY <1>1, <1>2, <1>3, NewWork DEF Inv, OwnInserts, At, x
<1> QED BY <1>1, <1>2, <1>6, <1>7, ShareKeeps DEF CheckStatus, x

(* The task is still in the project the status was checked for.            *)
LEMMA WriteStatusKeeps == ASSUME Inv, TypeOK', NEW w \in Writers, WriteStatus(w) PROVE Inv'
<1>1. Setting(w)
  BY DEF WriteStatus, Inv, Knows
<1>2. StatusOfProject'
  BY <1>1 DEF WriteStatus, Setting, StatusFits, Inv, TypeOK, StatusOfProject, States
<1> QED BY <1>2, FinishKeeps DEF WriteStatus

(* The task whose parent changes is there, and held.                       *)
LEMMA LockChildKeeps == ASSUME Inv, TypeOK', NEW w \in Writers, LockChild(w) PROVE Inv'
<1>1. PICK t \in Tasks, p \in Tasks \cup {None} :
         /\ project[t] # None
         /\ CanShare(w, t)
         /\ TakeShare(w, t)
         /\ work' = [work EXCEPT ![w] = [Idle EXCEPT
               !.pc = IF p = None THEN "setLink" ELSE "lockParent", !.task = t, !.parent = p]]
  BY DEF LockChild
<1> DEFINE x == [Idle EXCEPT !.pc = IF p = None THEN "setLink" ELSE "lockParent", !.task = t, !.parent = p]
<1>2. /\ x \in Work /\ x.task = t /\ x.parent = p
      /\ x.pc = IF p = None THEN "setLink" ELSE "lockParent"
  BY DEF Idle, Work, PCs
<1> HIDE DEF x
<1>3. work'[w] = x
  BY <1>1, <1>2, NewWork DEF Inv, x
<1>4. project' = project /\ w \in share'[t]
  BY <1>1 DEF LockChild, rows, TakeShare, Inv, TypeOK
<1>5. Knows(w)'
  BY <1>1, <1>2, <1>3, <1>4 DEF Knows, At, Linking
<1>6. OwnInserts'
  BY <1>1, <1>2, <1>3, NewWork DEF Inv, OwnInserts, At, x
<1> QED BY <1>1, <1>2, <1>5, <1>6, ShareKeeps DEF LockChild, x

(* The parent is held in the task's project.                               *)
LEMMA LockParentKeeps == ASSUME Inv, TypeOK', NEW w \in Writers, LockParent(w) PROVE Inv'
<1> DEFINE x == [work[w] EXCEPT !.pc = "setLink"]
<1>1. Linking(w) /\ work[w].parent \in Tasks /\ work[w] \in Work
  BY DEF LockParent, Inv, Knows, Linking, TypeOK
<1>2. /\ x \in Work /\ x.task = work[w].task /\ x.parent = work[w].parent /\ x.pc = "setLink"
      /\ work' = [work EXCEPT ![w] = x]
  BY <1>1 DEF Work, PCs, LockParent
<1> HIDE DEF x
<1>3. work'[w] = x
  BY <1>2, NewWork DEF Inv
<1>4. project' = project /\ w \in share'[x.task] /\ w \in share'[x.parent]
  BY <1>1, <1>2 DEF LockParent, Linking, rows, TakeShare, Inv, TypeOK
<1>5. Knows(w)'
  BY <1>1, <1>2, <1>3, <1>4 DEF Knows, At, Linking, LockParent, InProject
<1>6. OwnInserts'
  BY <1>2, <1>3, NewWork DEF Inv, OwnInserts, At
<1> QED BY <1>1, <1>2, <1>5, <1>6, ShareKeeps DEF LockParent, InProject

(* No status and no project changes.                                       *)
LEMMA WriteLinkKeeps == ASSUME Inv, TypeOK', NEW w \in Writers, WriteLink(w) PROVE Inv'
<1>1. StatusOfProject'
  BY DEF WriteLink, Inv, StatusOfProject, States
<1> QED BY <1>1, FinishKeeps DEF WriteLink

(* The new task is this insert's alone, its parent held.                   *)
LEMMA CheckInsertKeeps == ASSUME Inv, TypeOK', NEW w \in Writers, CheckInsert(w) PROVE Inv'
<1>1. PICK t \in Tasks, p \in Projects, s \in Statuses, u \in Tasks \cup {None} :
         /\ Fresh(t)
         /\ Enterable(w, p, s)
         /\ IF u = None THEN UNCHANGED share ELSE InProject(w, u, p) /\ TakeShare(w, u)
         /\ work' = [work EXCEPT ![w] =
               [Idle EXCEPT !.pc = "insert", !.task = t, !.to = p, !.status = s, !.parent = u]]
  BY DEF CheckInsert
<1> DEFINE x == [Idle EXCEPT !.pc = "insert", !.task = t, !.to = p, !.status = s, !.parent = u]
<1>2. x \in Work /\ x.pc = "insert" /\ x.task = t /\ x.to = p /\ x.status = s /\ x.parent = u
  BY DEF Idle, Work, PCs
<1> HIDE DEF x
<1>3. work' = [work EXCEPT ![w] = x]
  BY <1>1 DEF x
<1>4. work'[w] = x /\ \A v \in Writers \ {w} : work'[v] = work[v]
  BY <1>2, <1>3, NewWork DEF Inv
<1>5. StatusFits(s, p)
  BY <1>1 DEF Enterable, StatusFits
<1>6. /\ project' = project /\ project[t] = None
      /\ u # None => w \in share'[u] /\ project[u] = p
  BY <1>1 DEF CheckInsert, Fresh, rows, InProject, TakeShare, Inv, TypeOK
<1>7. Knows(w)'
  BY <1>2, <1>4, <1>5, <1>6 DEF Knows, At, Inserting, StatusFits, States
<1>8. OwnInserts'
  BY <1>1, <1>2, <1>4 DEF Inv, OwnInserts, At, Fresh
<1>9. UNCHANGED share \/ (u \in Tasks /\ project[u] # None /\ CanShare(w, u) /\ TakeShare(w, u))
  BY <1>1 DEF InProject
<1>10. UNCHANGED <<rows, excl>>
  BY DEF CheckInsert
<1>11. CASE UNCHANGED share
  BY <1>2, <1>3, <1>7, <1>8, <1>10, <1>11, ShareKeeps
<1>12. CASE u \in Tasks /\ project[u] # None /\ CanShare(w, u) /\ TakeShare(w, u)
  BY <1>2, <1>3, <1>7, <1>8, <1>10, <1>12, ShareKeeps
<1> QED BY <1>9, <1>11, <1>12

(* Nobody has locked a task that was not there.                            *)
LEMMA WriteInsertKeeps == ASSUME Inv, TypeOK', NEW w \in Writers, WriteInsert(w) PROVE Inv'
<1>1. Inserting(w) /\ At(w, "insert")
  BY DEF WriteInsert, Inv, Knows
<1>2. StatusOfProject'
  BY <1>1 DEF WriteInsert, Inserting, StatusFits, Inv, TypeOK, StatusOfProject, States
<1>3. \A t \in Tasks : project'[t] # project[t] => t = work[w].task /\ project'[t] = work[w].to
  BY DEF WriteInsert, Inv, TypeOK
<1>4. \A v \in Writers \ {w} : ~(At(v, "insert") /\ work[v].task = work[w].task)
  BY <1>1 DEF Inv, OwnInserts
<1>5. work[w].to # None /\ share[work[w].task] = {} /\ excl[work[w].task] = None
  BY <1>1, NoneIsNothing DEF Inserting, StatusFits, Inv, Locks
<1>6. None \notin Writers
  BY NoneIsNothing
<1> QED BY <1>2, <1>3, <1>4, <1>5, <1>6, FinishKeeps DEF WriteInsert

(* The root is held, the status one of the destination.                    *)
LEMMA LockRootKeeps == ASSUME Inv, TypeOK', NEW w \in Writers, LockRoot(w) PROVE Inv'
<1>1. PICK t \in Tasks, p \in Projects, s \in Statuses, alone \in BOOLEAN :
         /\ project[t] \notin {None, p}
         /\ CanExclude(w, t)
         /\ Enterable(w, p, s)
         /\ TakeExclusive(w, t)
         /\ work' = [work EXCEPT ![w] = [Idle EXCEPT
               !.pc = IF alone THEN "apply" ELSE "walk", !.alone = alone,
               !.task = t, !.to = p, !.status = s, !.moved = {t}]]
  BY DEF LockRoot
<1> DEFINE x == [Idle EXCEPT !.pc = IF alone THEN "apply" ELSE "walk", !.alone = alone,
                             !.task = t, !.to = p, !.status = s, !.moved = {t}]
<1>2. /\ x \in Work /\ x.pc \in {"apply", "walk"}
      /\ x.task = t /\ x.to = p /\ x.status = s /\ x.moved = {t} /\ x.todo = {}
  BY DEF Idle, Work, PCs
<1> HIDE DEF x
<1>3. work' = [work EXCEPT ![w] = x] /\ UNCHANGED <<rows, share>>
  BY <1>1 DEF x, LockRoot
<1>4. work'[w] = x
  BY <1>2, <1>3, NewWork DEF Inv
<1>5. StatusFits(s, p) /\ project' = project /\ excl'[t] = w
  BY <1>1, <1>3 DEF Enterable, StatusFits, rows, TakeExclusive, Inv, TypeOK
<1>6. Knows(w)'
  BY <1>1, <1>2, <1>4, <1>5 DEF Knows, At, Moving, StatusFits, States
<1> QED BY <1>1, <1>2, <1>3, <1>6, ExcludeKeeps

(* The tasks found are there; those not held yet are left to lock.         *)
LEMMA WalkKeeps == ASSUME Inv, TypeOK', NEW w \in Writers, Walk(w) PROVE Inv'
<1> DEFINE found == Descendants(work[w].task)
           moved == work[w].moved
           stop == [work[w] EXCEPT !.pc = "apply",
                       !.moved = {t \in moved : project[t] = project[work[w].task]}]
           more == [work[w] EXCEPT !.pc = "lock", !.todo = found \ moved, !.moved = moved \cup found]
<1>1. work[w] \in Work /\ Moving(w) /\ work[w].todo = {} /\ work[w].task \in Tasks
  BY DEF Walk, Inv, TypeOK, Knows, Moving, At
<1>2. found \subseteq Tasks /\ \A t \in found : project[t] # None
  BY <1>1, DescendantsThere DEF Moving
<1>3. work' = [work EXCEPT ![w] = IF found \subseteq moved THEN stop ELSE more] /\ UNCHANGED <<rows, share, excl>>
  BY DEF Walk
<1>4. CASE found \subseteq moved
  <2>1. stop \in Work /\ stop.pc = "apply" /\ stop.task = work[w].task /\ stop.status = work[w].status
        /\ stop.to = work[w].to /\ stop.todo = {} /\ stop.moved = {t \in moved : project[t] = project[work[w].task]}
    BY <1>1 DEF Work, PCs
  <2> HIDE DEF stop
  <2>2. work' = [work EXCEPT ![w] = stop] /\ work'[w] = stop
    BY <1>3, <1>4, <2>1, NewWork DEF Inv
  <2>3. Knows(w)'
    BY <1>1, <1>3, <2>1, <2>2 DEF Knows, At, Moving, StatusFits, States, rows
  <2> QED BY <1>1, <1>3, <2>1, <2>2, <2>3, ExcludeKeeps
<1>5. CASE ~(found \subseteq moved)
  <2>1. more \in Work /\ more.pc = "lock" /\ more.task = work[w].task /\ more.status = work[w].status
        /\ more.to = work[w].to /\ more.todo = found \ moved /\ more.moved = moved \cup found
    BY <1>1, <1>2 DEF Work, PCs
  <2> HIDE DEF more, found
  <2>2. work' = [work EXCEPT ![w] = more] /\ work'[w] = more
    BY <1>3, <1>5, <2>1, NewWork DEF Inv
  <2>3. Knows(w)'
    BY <1>1, <1>2, <1>3, <2>1, <2>2 DEF Knows, At, Moving, StatusFits, States, rows
  <2> QED BY <1>1, <1>3, <2>1, <2>2, <2>3, ExcludeKeeps
<1> QED BY <1>4, <1>5

(* One more of them is held.                                               *)
LEMMA LockNextKeeps == ASSUME Inv, TypeOK', NEW w \in Writers, LockNext(w) PROVE Inv'
<1>1. PICK t \in work[w].todo :
         /\ CanExclude(w, t)
         /\ TakeExclusive(w, t)
         /\ work' = [work EXCEPT ![w] =
               [work[w] EXCEPT !.todo = work[w].todo \ {t}, !.pc = IF work[w].todo = {t} THEN "walk" ELSE "lock"]]
  BY DEF LockNext
<1> DEFINE x == [work[w] EXCEPT !.todo = work[w].todo \ {t}, !.pc = IF work[w].todo = {t} THEN "walk" ELSE "lock"]
<1>2. work[w] \in Work /\ Moving(w)
  BY DEF LockNext, Inv, TypeOK, Knows
<1>3. /\ x \in Work /\ x.task = work[w].task /\ x.status = work[w].status /\ x.to = work[w].to
      /\ x.moved = work[w].moved /\ x.todo = work[w].todo \ {t}
      /\ x.pc = "lock" \/ (x.pc = "walk" /\ x.todo = {})
  BY <1>2 DEF Work, PCs
<1> HIDE DEF x
<1>4. work' = [work EXCEPT ![w] = x] /\ UNCHANGED <<rows, share>>
  BY <1>1 DEF LockNext, x
<1>5. work'[w] = x
  BY <1>3, <1>4, NewWork DEF Inv
<1>6. t \in Tasks
  BY <1>1, <1>2 DEF Work
<1>7. project[t] # None /\ project' = project
  BY <1>1, <1>2, <1>4 DEF Moving, rows
<1>8. \A u \in Tasks : excl'[u] = IF u = t THEN w ELSE excl[u]
  BY <1>1 DEF TakeExclusive, Inv, TypeOK
<1>9. Knows(w)'
  BY <1>2, <1>3, <1>5, <1>7, <1>8 DEF Knows, At, Moving, StatusFits, States
<1> QED BY <1>1, <1>3, <1>4, <1>6, <1>7, <1>9, ExcludeKeeps

(* Which links to cut is decided; the locks are as they were.              *)
LEMMA ApplyKeeps == ASSUME Inv, TypeOK', NEW w \in Writers, Apply(w) PROVE Inv'
<1> DEFINE x == [work[w] EXCEPT !.pc = "move", !.gone = Unlinks(w)]
<1>1. work[w] \in Work /\ Moving(w) /\ work[w].todo = {} /\ Unlinks(w) \subseteq Tasks
  BY DEF Apply, Inv, TypeOK, Knows, Moving, At, Unlinks
<1>2. /\ x \in Work /\ x.task = work[w].task /\ x.status = work[w].status /\ x.to = work[w].to
      /\ x.moved = work[w].moved /\ x.todo = work[w].todo /\ x.pc = "move"
  BY <1>1 DEF Work, PCs
<1>3. work' = [work EXCEPT ![w] = x] /\ UNCHANGED <<rows, share, excl>>
  BY DEF Apply
<1> HIDE DEF x
<1>4. work'[w] = x
  BY <1>2, <1>3, NewWork DEF Inv
<1>5. Knows(w)'
  BY <1>1, <1>2, <1>3, <1>4 DEF Knows, At, Moving, StatusFits, States, rows
<1>6. work[w].task \in Tasks
  BY <1>1 DEF Moving
<1> QED BY <1>2, <1>3, <1>5, <1>6, ExcludeKeeps

(* Every task it moves is held, so nobody else knows anything of it.       *)
LEMMA WriteMoveKeeps == ASSUME Inv, TypeOK', NEW w \in Writers, WriteMove(w) PROVE Inv'
<1>1. Moving(w) /\ work[w].todo = {}
  BY DEF WriteMove, Inv, Knows, Moving, At
<1>2. StatusOfProject'
  BY <1>1 DEF WriteMove, Moving, StatusFits, Inv, StatusOfProject, States
<1>3. \A t \in Tasks : project'[t] # project[t] => t \in work[w].moved /\ project'[t] = work[w].to
  BY DEF WriteMove
<1>4. work[w].to # None
  BY <1>1, NoneIsNothing DEF Moving, StatusFits
<1>5. ASSUME NEW t \in work[w].moved, NEW v \in Writers \ {w}
      PROVE  v \notin share[t] /\ excl[t] # v /\ ~(At(v, "insert") /\ work[v].task = t)
  <2>1. t \in Tasks /\ project[t] # None /\ excl[t] = w
    BY <1>1 DEF Moving
  <2>2. At(v, "insert") => project[work[v].task] = None
    BY DEF Inv, Knows, Inserting
  <2> QED BY <2>1, <2>2 DEF Inv, Locks
<1> QED BY <1>2, <1>3, <1>4, <1>5, FinishKeeps DEF WriteMove

(* A rolled back transaction has changed nothing.                          *)
LEMMA AbortKeeps == ASSUME Inv, TypeOK', NEW w \in Writers, Abort(w) PROVE Inv'
<1>1. StatusOfProject'
  BY DEF Abort, rows, Inv, StatusOfProject, States
<1> QED BY <1>1, FinishKeeps DEF Abort, rows

(* The invariant holds from the start, whatever the flows.                 *)
LEMMA Invariance == Spec => []Inv
<1>1. Init /\ TypeOK => Inv
  BY NoneIsNothing, IdleWork DEF Init, Inv, Locks, OwnInserts, StatusOfProject, Knows, At
<1>2. Inv /\ [Next]_vars /\ TypeOK' => Inv'
  <2> SUFFICES ASSUME Inv, [Next]_vars, TypeOK' PROVE Inv'
    OBVIOUS
  <2>1. ASSUME NEW w \in Writers, Update(w) PROVE Inv'
    BY <2>1, CheckStatusKeeps, WriteStatusKeeps, LockChildKeeps, LockParentKeeps, WriteLinkKeeps DEF Update
  <2>2. ASSUME NEW w \in Writers, Insert(w) PROVE Inv'
    BY <2>2, CheckInsertKeeps, WriteInsertKeeps DEF Insert
  <2>3. ASSUME NEW w \in Writers, Move(w) PROVE Inv'
    BY <2>3, LockRootKeeps, WalkKeeps, LockNextKeeps, ApplyKeeps, WriteMoveKeeps DEF Move
  <2>4. CASE UNCHANGED vars
    BY <2>4 DEF vars, Inv, Locks, OwnInserts, StatusOfProject, States, Knows, At, Setting, Linking,
                Inserting, Moving, StatusFits
  <2> QED BY <2>1, <2>2, <2>3, <2>4, AbortKeeps DEF Next
<1> QED BY <1>1, <1>2, TypeCorrect, PTL DEF Spec

-----------------------------------------------------------------------------
(* A task's status is always a state of its own project's flow.            *)
THEOREM StatusStaysInProject == Spec => []StatusOfProject
<1>1. Inv => StatusOfProject
  BY DEF Inv
<1> QED BY <1>1, Invariance, PTL

(* Whoever sets a parent_task, it is in the task's project when it is set. *)
THEOREM LinksMadeWithin == Spec => LinkMadeWithin
<1> DEFINE Made == \A t \in Tasks : link'[t] \notin {None, link[t]} => project'[link'[t]] = project'[t]
<1>1. Inv /\ [Next]_vars => [Made]_vars
  <2> SUFFICES ASSUME Inv, Next PROVE Made
    OBVIOUS
  <2>1. ASSUME NEW w \in Writers, WriteLink(w) PROVE Made
    <3>1. Linking(w) /\ At(w, "setLink")
      BY <2>1 DEF WriteLink, Inv, Knows
    <3>2. project' = project /\ \A t \in Tasks : link'[t] # link[t] => t = work[w].task /\ link'[t] = work[w].parent
      BY <2>1 DEF WriteLink, Inv, TypeOK
    <3> QED BY <3>1, <3>2 DEF Linking
  <2>2. ASSUME NEW w \in Writers, WriteInsert(w) PROVE Made
    <3>1. Inserting(w) /\ work[w] \in Work
      BY <2>2 DEF WriteInsert, Inv, Knows, TypeOK
    <3>2. \A t \in Tasks : /\ link'[t] # link[t] => t = work[w].task /\ link'[t] = work[w].parent
                           /\ project'[t] = IF t = work[w].task THEN work[w].to ELSE project[t]
      BY <2>2 DEF WriteInsert, Inv, TypeOK
    <3>3. work[w].parent # None => work[w].parent \in Tasks /\ project[work[w].parent] = work[w].to
      BY <3>1 DEF Inserting, Work
    <3> QED BY <3>1, <3>2, <3>3 DEF Inserting
  <2>3. ASSUME NEW w \in Writers, WriteMove(w) PROVE Made
    BY <2>3 DEF WriteMove
  <2>4. ASSUME NEW w \in Writers,
               CheckStatus(w) \/ WriteStatus(w) \/ LockChild(w) \/ LockParent(w) \/ CheckInsert(w)
               \/ LockRoot(w) \/ Walk(w) \/ LockNext(w) \/ Apply(w) \/ Abort(w)
        PROVE  Made
    <3>1. link' = link
      BY <2>4 DEF CheckStatus, WriteStatus, LockChild, LockParent, CheckInsert, LockRoot, Walk, LockNext,
                  Apply, Abort, rows
    <3> QED BY <3>1
  <2> QED BY <2>1, <2>2, <2>3, <2>4 DEF Next, Update, Insert, Move
<1> QED BY <1>1, Invariance, PTL DEF LinkMadeWithin, Spec
-----------------------------------------------------------------------------
(* Links within a project.  While a writer moves, no other one moves or      *)
(* sets a parent_task: they insert and set statuses, as many as there are.   *)
(* (Without this the property is false: a task the first walk found stays in *)
(* the set even when it is no subtask any more.)                             *)
MovesAlone ==
    \A v, w \in Writers : v # w /\ "move" \in Ops[v] => Ops[w] \cap {"move", "link"} = {}

Busy(w) == At(w, "walk") \/ At(w, "lock") \/ At(w, "apply") \/ At(w, "move")

(* Nobody does what its operations don't say.                              *)
OwnOps(w) ==
    /\ At(w, "lockParent") \/ At(w, "setLink") => "link" \in Ops[w]
    /\ Busy(w) => "move" \in Ops[w]

(* What a move has gathered: subtasks of the root in its project; once the  *)
(* walk is over, all of them, and their parents but the root's; and at the  *)
(* end the links it must cut.                                              *)
Gathered(w) ==
    LET r == work[w].task
        moved == work[w].moved
    IN  /\ project[r] # work[w].to
        /\ \A t \in moved : project[t] = project[r]
        /\ At(w, "walk") \/ At(w, "lock") => ~work[w].alone /\ moved \subseteq Descendants(r) \cup {r}
        /\ (At(w, "apply") \/ At(w, "move")) /\ work[w].alone => moved = {r}
        /\ (At(w, "apply") \/ At(w, "move")) /\ ~work[w].alone =>
              /\ \A t \in Tasks : link[t] \in moved => t \in moved
              /\ \A t \in moved \ {r} : link[t] \in moved
        /\ At(w, "move") =>
              /\ link[r] \notin moved \cup {None} => r \in work[w].gone
              /\ work[w].alone => \A t \in Tasks : link[t] = r => t \in work[w].gone

(* A task that isn't there has no parent.                                  *)
NoLinkBefore == \A t \in Tasks : project[t] = None => link[t] = None

TreeInv ==
    LinksWithinProject /\ NoLinkBefore /\ \A w \in Writers : OwnOps(w) /\ (Busy(w) => Gathered(w))

(* A task of the root's project under the root or a descendant is one.     *)
LEMMA DescendantsClosed ==
    ASSUME NEW r \in Tasks, NEW t \in Tasks \ {r}, project[t] = project[r], link[t] \in Descendants(r) \cup {r}
    PROVE  t \in Descendants(r)
BY DEF Descendants

(* A descendant's parent is the root or a descendant.                      *)
LEMMA DescendantsLinked ==
    ASSUME NEW r \in Tasks, NEW t \in Descendants(r)
    PROVE  link[t] \in Descendants(r) \cup {r}
<1> DEFINE D == (Descendants(r) \cup {r}) \ {t}
<1>1. SUFFICES ASSUME link[t] \notin Descendants(r) \cup {r} PROVE FALSE
  OBVIOUS
<1>2. t # r /\ t \in Tasks /\ Descendants(r) \subseteq Tasks
  BY DEF Descendants
<1>3. \A u \in Tasks : project[u] = project[r] /\ link[u] \in D \cup {r} => u \in D
  BY <1>1, <1>2, DescendantsClosed
<1>4. D \in SUBSET Tasks
  BY <1>2
<1>5. t \in D
  <2> HIDE DEF D
  <2> QED BY <1>3, <1>4 DEF Descendants
<1> QED BY <1>5

(* The descendants stay descendants while links are only added to tasks    *)
(* that were not there.                                                   *)
LEMMA DescendantsStay ==
    ASSUME NEW r \in Tasks, project[r] # None,
           \A t \in Tasks : project[t] # None => project'[t] = project[t] /\ link'[t] = link[t]
    PROVE  Descendants(r) \subseteq Descendants(r)'
<1>1. SUFFICES ASSUME NEW t \in Descendants(r), NEW D \in SUBSET Tasks,
                      \A u \in Tasks : project'[u] = project'[r] /\ link'[u] \in D \cup {r} => u \in D
               PROVE  t \in D
  BY DEF Descendants
<1>2. \A u \in Tasks : project[u] = project[r] /\ link[u] \in D \cup {r} => u \in D
  BY <1>1
<1> QED BY <1>2 DEF Descendants

(* What a move has gathered stays so while another writer inserts: the     *)
(* parent of a new task is held by its insert, and a gathered one by the   *)
(* move.                                                                   *)
LEMMA OthersGather ==
    ASSUME Inv, NEW v \in Writers, Busy(v), Gathered(v), work'[v] = work[v],
           \A t \in Tasks : project[t] # None => project'[t] = project[t] /\ link'[t] = link[t],
           \A t \in Tasks : link'[t] # link[t] => link'[t] = None \/ excl[link'[t]] # v
    PROVE  Gathered(v)'
<1> DEFINE r == work[v].task
           moved == work[v].moved
<1>1. Moving(v) /\ work[v] \in Work
  BY DEF Inv, Knows, Busy, TypeOK
<1>2. r \in moved /\ moved \subseteq Tasks /\ \A t \in moved : project[t] # None
  BY <1>1 DEF Moving, Work
<1>3. /\ project'[r] = project[r] /\ link'[r] = link[r]
      /\ \A t \in moved : project'[t] = project[t] /\ link'[t] = link[t]
  BY <1>2
<1>4. At(v, "walk") \/ At(v, "lock") => moved \subseteq Descendants(r)' \cup {r}
  BY <1>2, DescendantsStay DEF Gathered
<1>5. None \notin moved
  BY <1>2, NoneIsNothing
<1>6. At(v, "apply") \/ At(v, "move") => \A t \in Tasks : link'[t] \in moved => link'[t] = link[t]
  <2>1. At(v, "apply") \/ At(v, "move") => \A t \in moved : excl[t] = v
    BY <1>1 DEF Moving, At
  <2> QED BY <2>1, <1>5
<1> QED BY <1>2, <1>3, <1>4, <1>6 DEF Gathered, At

(* A step of w that leaves the tasks where they are and their links.       *)
LEMMA StillKeeps ==
    ASSUME Inv, TreeInv, NEW w \in Writers, UNCHANGED <<project, link>>,
           \A v \in Writers \ {w} : work'[v] = work[v],
           OwnOps(w)', Busy(w)' => Gathered(w)'
    PROVE  TreeInv'
<1>1. LinksWithinProject' /\ NoLinkBefore'
  BY DEF TreeInv, LinksWithinProject, NoLinkBefore
<1>2. ASSUME NEW v \in Writers \ {w}
      PROVE  OwnOps(v)' /\ (Busy(v)' => Gathered(v)')
  <2>1. OwnOps(v) /\ (Busy(v) => Gathered(v)) /\ work'[v] = work[v]
    BY DEF TreeInv
  <2>2. (OwnOps(v)' <=> OwnOps(v)) /\ (Busy(v)' <=> Busy(v))
    BY <2>1 DEF OwnOps, Busy, At
  <2> QED BY <2>1, <2>2, OthersGather
<1> QED BY <1>1, <1>2 DEF TreeInv

(* A writer that is not at a step of a move or of a change of parents.     *)
LEMMA NotBusy ==
    ASSUME NEW w, ~(work[w].pc \in {"lockParent", "setLink", "walk", "lock", "apply", "move"})
    PROVE  OwnOps(w) /\ ~Busy(w)
BY DEF OwnOps, Busy, At

(* A writer that ends its transaction.                                     *)
LEMMA FinishIdle ==
    ASSUME Inv, NEW w \in Writers, Finish(w)
    PROVE  OwnOps(w)' /\ ~Busy(w)' /\ \A v \in Writers \ {w} : work'[v] = work[v]
<1>1. work'[w] = Idle /\ \A v \in Writers \ {w} : work'[v] = work[v]
  BY IdleWork, NewWork DEF Finish, Inv
<1> QED BY <1>1, IdleWork DEF OwnOps, Busy, At

(* A move begins: the root alone is gathered.                              *)
LEMMA LockRootTree == ASSUME Inv, TreeInv, NEW w \in Writers, LockRoot(w) PROVE TreeInv'
<1>1. PICK t \in Tasks, p \in Projects, s \in Statuses, alone \in BOOLEAN :
         /\ project[t] \notin {None, p}
         /\ CanExclude(w, t)
         /\ Enterable(w, p, s)
         /\ TakeExclusive(w, t)
         /\ work' = [work EXCEPT ![w] = [Idle EXCEPT
               !.pc = IF alone THEN "apply" ELSE "walk", !.alone = alone,
               !.task = t, !.to = p, !.status = s, !.moved = {t}]]
  BY DEF LockRoot
<1> DEFINE x == [Idle EXCEPT !.pc = IF alone THEN "apply" ELSE "walk", !.alone = alone,
                             !.task = t, !.to = p, !.status = s, !.moved = {t}]
<1>2. /\ x \in Work /\ x.pc = IF alone THEN "apply" ELSE "walk"
      /\ x.task = t /\ x.to = p /\ x.moved = {t} /\ x.alone = alone
  BY DEF Idle, Work, PCs
<1> HIDE DEF x
<1>3. work' = [work EXCEPT ![w] = x]
  BY <1>1 DEF x
<1>4. work'[w] = x /\ \A v \in Writers \ {w} : work'[v] = work[v]
  BY <1>2, <1>3, NewWork DEF Inv
<1>5. UNCHANGED <<project, link>> /\ "move" \in Ops[w]
  BY DEF LockRoot, rows, Asks
<1>6. OwnOps(w)'
  BY <1>2, <1>4, <1>5 DEF OwnOps, At
<1>7. Gathered(w)'
  BY <1>1, <1>2, <1>4, <1>5 DEF Gathered, At
<1> QED BY <1>4, <1>5, <1>6, <1>7, StillKeeps

(* When the walk finds nothing new, what was gathered is whole.            *)
LEMMA WalkTree == ASSUME Inv, TreeInv, NEW w \in Writers, Walk(w) PROVE TreeInv'
<1> DEFINE r == work[w].task
           found == Descendants(r)
           moved == work[w].moved
           stop == [work[w] EXCEPT !.pc = "apply", !.moved = {t \in moved : project[t] = project[r]}]
           more == [work[w] EXCEPT !.pc = "lock", !.todo = found \ moved, !.moved = moved \cup found]
<1>1. /\ work[w] \in Work /\ Moving(w) /\ Gathered(w) /\ At(w, "walk")
      /\ r \in Tasks /\ r \in moved /\ moved \subseteq Tasks /\ "move" \in Ops[w]
  BY DEF Walk, Inv, TypeOK, Knows, Moving, At, TreeInv, Busy, OwnOps
<1>2. /\ found \subseteq Tasks /\ \A t \in found : project[t] = project[r]
      /\ moved \subseteq found \cup {r} /\ ~work[w].alone
  BY <1>1, DescendantsThere DEF Gathered
<1>3. work' = [work EXCEPT ![w] = IF found \subseteq moved THEN stop ELSE more] /\ UNCHANGED <<project, link>>
  BY DEF Walk, rows
<1>4. CASE found \subseteq moved
  <2>1. moved = found \cup {r} /\ {t \in moved : project[t] = project[r]} = moved
    BY <1>1, <1>2, <1>4
  <2>2. /\ stop \in Work /\ stop.pc = "apply" /\ stop.task = r /\ stop.to = work[w].to
        /\ stop.moved = moved /\ stop.alone = work[w].alone
    BY <1>1, <2>1 DEF Work, PCs
  <2> HIDE DEF stop
  <2>3. work'[w] = stop /\ \A v \in Writers \ {w} : work'[v] = work[v]
    BY <1>3, <1>4, <2>2, NewWork DEF Inv
  <2>4. \A t \in Tasks : link[t] \in moved => t \in moved
    <3>1. ASSUME NEW t \in Tasks, link[t] \in moved PROVE t \in moved
      <4>1. project[t] = project[r]
        <5>1. link[t] # None /\ project[link[t]] = project[r]
          BY <1>1, <3>1, NoneIsNothing DEF Gathered
        <5> QED BY <5>1 DEF TreeInv, LinksWithinProject
      <4> QED BY <4>1, <3>1, <2>1, <1>1, DescendantsClosed
    <3> QED BY <3>1
  <2>5. \A t \in moved \ {r} : link[t] \in moved
    BY <1>1, <2>1, DescendantsLinked
  <2>6. OwnOps(w)' /\ Gathered(w)'
    <3>1. UNCHANGED <<project, link>> /\ stop.alone = FALSE
      BY <1>1, <1>2, <1>3, <2>2 DEF Work
    <3>2. /\ work'[w].task = r /\ work'[w].to = work[w].to /\ work'[w].moved = moved
          /\ work'[w].alone = FALSE /\ work'[w].pc = "apply"
      BY <2>2, <2>3, <3>1
    <3>3. project[r] # work[w].to /\ \A t \in moved : project[t] = project[r]
      BY <1>1 DEF Gathered
    <3> HIDE DEF found, moved, r
    <3> QED BY <1>1, <2>4, <2>5, <3>1, <3>2, <3>3 DEF OwnOps, Gathered, At
  <2> QED BY <1>3, <2>3, <2>6, StillKeeps
<1>5. CASE ~(found \subseteq moved)
  <2>1. /\ more \in Work /\ more.pc = "lock" /\ more.task = r /\ more.to = work[w].to
        /\ more.moved = moved \cup found /\ more.alone = work[w].alone
    BY <1>1, <1>2 DEF Work, PCs
  <2> HIDE DEF more
  <2>2. work'[w] = more /\ \A v \in Writers \ {w} : work'[v] = work[v]
    BY <1>3, <1>5, <2>1, NewWork DEF Inv
  <2>3. \A q \in Tasks : Descendants(q)' = Descendants(q)
    BY <1>3 DEF Descendants
  <2>4. OwnOps(w)' /\ Gathered(w)'
    <3>1. /\ work'[w].task = r /\ work'[w].to = work[w].to /\ work'[w].moved = moved \cup found
          /\ work'[w].alone = work[w].alone /\ work'[w].pc = "lock"
      BY <2>1, <2>2
    <3>2. project[r] # work[w].to /\ \A t \in moved \cup found : project[t] = project[r]
      BY <1>1, <1>2 DEF Gathered
    <3>3. moved \cup found \subseteq found \cup {r} /\ Descendants(r)' = found /\ r' = r
      <4>1. r' = r
        BY <3>1
      <4> QED BY <1>1, <1>2, <2>3, <4>1
    <3> HIDE DEF found, moved
    <3> QED BY <1>1, <1>2, <1>3, <3>1, <3>2, <3>3 DEF OwnOps, Gathered, At
  <2> QED BY <1>3, <2>2, <2>4, StillKeeps
<1> QED BY <1>4, <1>5

(* One more row of what was gathered is locked.                            *)
LEMMA LockNextTree == ASSUME Inv, TreeInv, NEW w \in Writers, LockNext(w) PROVE TreeInv'
<1>1. PICK t \in work[w].todo :
         work' = [work EXCEPT ![w] =
            [work[w] EXCEPT !.todo = work[w].todo \ {t}, !.pc = IF work[w].todo = {t} THEN "walk" ELSE "lock"]]
  BY DEF LockNext
<1> DEFINE x == [work[w] EXCEPT !.todo = work[w].todo \ {t}, !.pc = IF work[w].todo = {t} THEN "walk" ELSE "lock"]
<1>2. work[w] \in Work /\ Gathered(w) /\ At(w, "lock") /\ "move" \in Ops[w]
  BY DEF LockNext, Inv, TypeOK, TreeInv, Busy, OwnOps
<1>3. /\ x \in Work /\ x.task = work[w].task /\ x.to = work[w].to
      /\ x.moved = work[w].moved /\ x.alone = work[w].alone /\ x.pc \in {"walk", "lock"}
  BY <1>2 DEF Work, PCs
<1> HIDE DEF x
<1>4. work' = [work EXCEPT ![w] = x]
  BY <1>1 DEF x
<1>5. work'[w] = x /\ \A v \in Writers \ {w} : work'[v] = work[v]
  BY <1>3, <1>4, NewWork DEF Inv
<1>6. UNCHANGED <<project, link>> /\ \A r \in Tasks : Descendants(r)' = Descendants(r)
  BY DEF LockNext, rows, Descendants
<1>7. work[w].task \in Tasks
  BY <1>2 DEF LockNext, Inv, Knows, Moving
<1>8. OwnOps(w)' /\ Gathered(w)'
  BY <1>2, <1>3, <1>5, <1>6, <1>7 DEF OwnOps, Gathered, At
<1> QED BY <1>5, <1>6, <1>8, StillKeeps

(* The links to cut are chosen.                                            *)
LEMMA ApplyTree == ASSUME Inv, TreeInv, NEW w \in Writers, Apply(w) PROVE TreeInv'
<1> DEFINE x == [work[w] EXCEPT !.pc = "move", !.gone = Unlinks(w)]
<1>1. /\ work[w] \in Work /\ Moving(w) /\ Gathered(w) /\ At(w, "apply") /\ "move" \in Ops[w]
      /\ work[w].task \in Tasks /\ Unlinks(w) \subseteq Tasks
  BY DEF Apply, Inv, TypeOK, Knows, Moving, At, TreeInv, Busy, OwnOps, Unlinks
<1>2. /\ x \in Work /\ x.task = work[w].task /\ x.to = work[w].to
      /\ x.moved = work[w].moved /\ x.alone = work[w].alone /\ x.pc = "move" /\ x.gone = Unlinks(w)
  BY <1>1 DEF Work, PCs
<1>3. work' = [work EXCEPT ![w] = x] /\ UNCHANGED <<project, link>>
  BY DEF Apply, rows
<1> HIDE DEF x
<1>4. work'[w] = x /\ \A v \in Writers \ {w} : work'[v] = work[v]
  BY <1>2, <1>3, NewWork DEF Inv
<1>5. link[work[w].task] \notin work[w].moved \cup {None} => work[w].task \in Unlinks(w)
  <2>1. link[work[w].task] # None => project[link[work[w].task]] = project[work[w].task]
    BY <1>1 DEF TreeInv, LinksWithinProject
  <2> QED BY <1>1, <2>1 DEF Gathered, Unlinks
<1>6. work[w].alone => \A t \in Tasks : link[t] = work[w].task => t \in Unlinks(w)
  <2>1. \A t \in Tasks : link[t] = work[w].task => project[t] = project[work[w].task]
    BY <1>1, NoneIsNothing DEF TreeInv, LinksWithinProject
  <2> QED BY <2>1 DEF Unlinks
<1>7. OwnOps(w)' /\ Gathered(w)'
  BY <1>1, <1>2, <1>3, <1>4, <1>5, <1>6 DEF OwnOps, Gathered, At
<1> QED BY <1>3, <1>4, <1>7, StillKeeps

(* A new parent is in the task's project, and no move is under way.        *)
LEMMA WriteLinkTree == ASSUME MovesAlone, Inv, TreeInv, NEW w \in Writers, WriteLink(w) PROVE TreeInv'
<1>1. Linking(w) /\ At(w, "setLink") /\ "link" \in Ops[w]
  BY DEF WriteLink, Inv, Knows, TreeInv, OwnOps
<1>2. project' = project /\ \A t \in Tasks : link'[t] = IF t = work[w].task THEN work[w].parent ELSE link[t]
  BY DEF WriteLink, Inv, TypeOK
<1>3. LinksWithinProject' /\ NoLinkBefore'
  BY <1>1, <1>2 DEF TreeInv, LinksWithinProject, NoLinkBefore, Linking
<1>4. OwnOps(w)' /\ ~Busy(w)' /\ \A v \in Writers \ {w} : work'[v] = work[v]
  BY FinishIdle DEF WriteLink
<1>5. \A v \in Writers \ {w} : OwnOps(v)' /\ ~Busy(v)'
  BY <1>1, <1>4 DEF MovesAlone, TreeInv, OwnOps, Busy, At
<1> QED BY <1>3, <1>4, <1>5 DEF TreeInv

(* A new task's parent is in its project, and held, so it is in nobody's   *)
(* finished gathering.                                                     *)
LEMMA WriteInsertTree == ASSUME Inv, TreeInv, NEW w \in Writers, WriteInsert(w) PROVE TreeInv'
<1> DEFINE x == work[w].task
           u == work[w].parent
<1>1. Inserting(w) /\ work[w] \in Work /\ u \in Tasks \cup {None} /\ x \in Tasks /\ project[x] = None
  BY DEF WriteInsert, Inv, Knows, TypeOK, Inserting, Work
<1>2. \A t \in Tasks : /\ project'[t] = IF t = x THEN work[w].to ELSE project[t]
                       /\ link'[t] = IF t = x THEN u ELSE link[t]
  BY DEF WriteInsert, Inv, TypeOK
<1>3. work[w].to # None /\ (u # None => project[u] = work[w].to /\ w \in share[u])
  BY <1>1, NoneIsNothing DEF Inserting, StatusFits
<1>4. \A t \in Tasks : link[t] \in Tasks \cup {None}
  BY DEF Inv, TypeOK
<1>5. LinksWithinProject'
  <2> SUFFICES ASSUME NEW t \in Tasks, link'[t] # None PROVE project'[link'[t]] = project'[t]
    BY DEF LinksWithinProject
  <2>1. CASE t = x
    BY <2>1, <1>1, <1>2, <1>3
  <2>2. CASE t # x
    <3>1. link'[t] = link[t] /\ project[link[t]] = project[t] /\ project[t] # None
      BY <2>2, <1>2 DEF TreeInv, LinksWithinProject, NoLinkBefore
    <3> QED BY <3>1, <2>2, <1>1, <1>2, <1>4
  <2> QED BY <2>1, <2>2
<1>6. NoLinkBefore'
  BY <1>2, <1>3 DEF TreeInv, NoLinkBefore
<1>7. OwnOps(w)' /\ ~Busy(w)' /\ \A v \in Writers \ {w} : work'[v] = work[v]
  BY FinishIdle DEF WriteInsert
<1>8. ASSUME NEW v \in Writers \ {w} PROVE OwnOps(v)' /\ (Busy(v)' => Gathered(v)')
  <2>1. OwnOps(v) /\ (Busy(v) => Gathered(v)) /\ work'[v] = work[v]
    BY <1>7 DEF TreeInv
  <2>2. (OwnOps(v)' <=> OwnOps(v)) /\ (Busy(v)' <=> Busy(v))
    BY <2>1 DEF OwnOps, Busy, At
  <2>3. \A t \in Tasks : link'[t] # link[t] => link'[t] = None \/ excl[link'[t]] # v
    <3>1. u # None => excl[u] # v
      BY <1>1, <1>3 DEF Inv, Locks
    <3> QED BY <3>1, <1>2
  <2>4. \A t \in Tasks : project[t] # None => project'[t] = project[t] /\ link'[t] = link[t]
    BY <1>1, <1>2
  <2> QED BY <2>1, <2>2, <2>3, <2>4, OthersGather
<1> QED BY <1>5, <1>6, <1>7, <1>8 DEF TreeInv

(* The gathered tasks leave together, and every other link to or from them *)
(* is cut.                                                                 *)
LEMMA WriteMoveTree == ASSUME MovesAlone, Inv, TreeInv, NEW w \in Writers, WriteMove(w) PROVE TreeInv'
<1> DEFINE r == work[w].task
           moved == work[w].moved
<1>1. Moving(w) /\ Gathered(w) /\ At(w, "move") /\ "move" \in Ops[w] /\ r \in moved /\ r \in Tasks
  BY DEF WriteMove, Inv, Knows, Moving, TreeInv, Busy, OwnOps
<1>2. \A t \in Tasks : /\ project'[t] = IF t \in moved THEN work[w].to ELSE project[t]
                       /\ link'[t] = IF t \in work[w].gone THEN None ELSE link[t]
  BY DEF WriteMove
<1>3. \A t \in Tasks : link[t] \in Tasks \cup {None}
  BY DEF Inv, TypeOK
<1>4. LinksWithinProject'
  <2> SUFFICES ASSUME NEW t \in Tasks, t \notin work[w].gone, link[t] # None
               PROVE  project'[link[t]] = project'[t]
    BY <1>2 DEF LinksWithinProject
  <2>1. t \in moved <=> link[t] \in moved
    BY <1>1 DEF Gathered, At
  <2> QED BY <2>1, <1>2, <1>3 DEF TreeInv, LinksWithinProject
<1>5. NoLinkBefore'
  BY <1>1, <1>2, NoneIsNothing DEF TreeInv, NoLinkBefore, Moving, StatusFits
<1>6. OwnOps(w)' /\ ~Busy(w)' /\ \A v \in Writers \ {w} : work'[v] = work[v]
  BY FinishIdle DEF WriteMove
<1>7. \A v \in Writers \ {w} : OwnOps(v)' /\ ~Busy(v)'
  BY <1>1, <1>6 DEF MovesAlone, TreeInv, OwnOps, Busy, At
<1> QED BY <1>4, <1>5, <1>6, <1>7 DEF TreeInv

(* The other steps write no row of card and no link.                       *)
LEMMA QuietTree ==
    ASSUME Inv, TreeInv, NEW w \in Writers,
           CheckStatus(w) \/ WriteStatus(w) \/ LockChild(w) \/ LockParent(w) \/ CheckInsert(w) \/ Abort(w)
    PROVE  TreeInv'
<1>1. ASSUME CheckStatus(w) \/ CheckInsert(w) PROVE TreeInv'
  <2>1. PICK x \in Work : work' = [work EXCEPT ![w] = x] /\ x.pc \in {"setStatus", "insert"}
    <3>1. CASE CheckStatus(w)
      <4>1. PICK t \in Tasks, s \in Statuses : work' = [work EXCEPT ![w] =
                [Idle EXCEPT !.pc = "setStatus", !.task = t, !.status = s]]
        BY <3>1 DEF CheckStatus
      <4>2. [Idle EXCEPT !.pc = "setStatus", !.task = t, !.status = s] \in Work
        BY DEF Idle, Work, PCs
      <4>3. [Idle EXCEPT !.pc = "setStatus", !.task = t, !.status = s].pc = "setStatus"
        BY DEF Idle
      <4> QED BY <4>1, <4>2, <4>3
    <3>2. CASE CheckInsert(w)
      <4>1. PICK t \in Tasks, p \in Projects, s \in Statuses, u \in Tasks \cup {None} :
               /\ Fresh(t)
               /\ Enterable(w, p, s)
               /\ IF u = None THEN UNCHANGED share ELSE InProject(w, u, p) /\ TakeShare(w, u)
               /\ work' = [work EXCEPT ![w] =
                     [Idle EXCEPT !.pc = "insert", !.task = t, !.to = p, !.status = s, !.parent = u]]
        BY <3>2 DEF CheckInsert
      <4>2. [Idle EXCEPT !.pc = "insert", !.task = t, !.to = p, !.status = s, !.parent = u] \in Work
        BY DEF Idle, Work, PCs
      <4>3. [Idle EXCEPT !.pc = "insert", !.task = t, !.to = p, !.status = s, !.parent = u].pc = "insert"
        BY DEF Idle
      <4> QED BY <4>1, <4>2, <4>3
    <3> QED BY <1>1, <3>1, <3>2
  <2>2. work'[w] = x /\ \A v \in Writers \ {w} : work'[v] = work[v]
    BY <2>1, NewWork DEF Inv
  <2>3. OwnOps(w)' /\ ~Busy(w)'
    BY <2>1, <2>2 DEF OwnOps, Busy, At
  <2>4. UNCHANGED <<project, link>>
    BY <1>1 DEF CheckStatus, CheckInsert, rows
  <2> QED BY <2>2, <2>3, <2>4, StillKeeps
<1>2. ASSUME LockChild(w) \/ LockParent(w) PROVE TreeInv'
  <2>1. PICK x \in Work : work' = [work EXCEPT ![w] = x] /\ x.pc \in {"lockParent", "setLink"}
    <3>1. CASE LockChild(w)
      <4>1. PICK t \in Tasks, p \in Tasks \cup {None} : work' = [work EXCEPT ![w] = [Idle EXCEPT
                !.pc = IF p = None THEN "setLink" ELSE "lockParent", !.task = t, !.parent = p]]
        BY <3>1 DEF LockChild
      <4> DEFINE x == [Idle EXCEPT !.pc = IF p = None THEN "setLink" ELSE "lockParent",
                                   !.task = t, !.parent = p]
      <4>2. x \in Work /\ x.pc = IF p = None THEN "setLink" ELSE "lockParent"
        BY DEF Idle, Work, PCs
      <4> QED BY <4>1, <4>2
    <3>2. CASE LockParent(w)
      <4> DEFINE x == [work[w] EXCEPT !.pc = "setLink"]
      <4>1. x \in Work /\ x.pc = "setLink"
        BY DEF Inv, TypeOK, Work, PCs
      <4>2. work' = [work EXCEPT ![w] = x]
        BY <3>2 DEF LockParent
      <4> QED BY <4>1, <4>2
    <3> QED BY <1>2, <3>1, <3>2
  <2>2. work'[w] = x /\ \A v \in Writers \ {w} : work'[v] = work[v]
    BY <2>1, NewWork DEF Inv
  <2>3. "link" \in Ops[w]
    BY <1>2 DEF LockChild, LockParent, Asks, TreeInv, OwnOps
  <2>4. OwnOps(w)' /\ ~Busy(w)'
    BY <2>1, <2>2, <2>3 DEF OwnOps, Busy, At
  <2>5. UNCHANGED <<project, link>>
    BY <1>2 DEF LockChild, LockParent, rows
  <2> QED BY <2>2, <2>4, <2>5, StillKeeps
<1>3. ASSUME WriteStatus(w) \/ Abort(w) PROVE TreeInv'
  <2>1. Finish(w) /\ UNCHANGED <<project, link>>
    BY <1>3 DEF WriteStatus, Abort, rows
  <2> QED BY <2>1, FinishIdle, StillKeeps
<1> QED BY <1>1, <1>2, <1>3

(* While only one writer moves or sets parents, a task's parent is in its  *)
(* project, however many insert subtasks meanwhile and however the move's  *)
(* walk and locks interleave with them.                                    *)
THEOREM LinksStayWithinProject == MovesAlone => (Spec => []LinksWithinProject)
<1> SUFFICES ASSUME MovesAlone PROVE Spec => []LinksWithinProject
  OBVIOUS
<1>1. Init => TreeInv
  BY IdleWork DEF Init, TreeInv, LinksWithinProject, NoLinkBefore, OwnOps, Busy, At
<1>2. Inv /\ TreeInv /\ [Next]_vars => TreeInv'
  <2> SUFFICES ASSUME Inv, TreeInv, [Next]_vars PROVE TreeInv'
    OBVIOUS
  <2>1. ASSUME NEW w \in Writers, Update(w) PROVE TreeInv'
    BY <2>1, QuietTree, WriteLinkTree DEF Update
  <2>2. ASSUME NEW w \in Writers, Insert(w) PROVE TreeInv'
    BY <2>2, QuietTree, WriteInsertTree DEF Insert
  <2>3. ASSUME NEW w \in Writers, Move(w) PROVE TreeInv'
    BY <2>3, LockRootTree, WalkTree, LockNextTree, ApplyTree, WriteMoveTree DEF Move
  <2>4. CASE UNCHANGED vars
    BY <2>4 DEF vars, TreeInv, LinksWithinProject, NoLinkBefore, OwnOps, Busy, At, Gathered, Descendants
  <2> QED BY <2>1, <2>2, <2>3, <2>4, QuietTree DEF Next
<1>3. TreeInv => LinksWithinProject
  BY DEF TreeInv
<1> QED BY <1>1, <1>2, <1>3, Invariance, PTL DEF Spec
=============================================================================

----------------------------- MODULE MCTaskFlow -----------------------------
(* Two projects with a flow each; the second step of the first is gated. A   *)
(* run has a cast: one does what it may to every task, or everyone does      *)
(* everything to two tasks, or one moves a tree of four while the other      *)
(* inserts into it.                                                        *)
EXTENDS TaskFlow, FiniteSets, Naturals

CONSTANTS w1, w2, p, q, a, b, c, d, Casts

VARIABLE cast

FlowHome == (a :> p) @@ (b :> p) @@ (c :> p) @@ (d :> q)
FlowDefault == (p :> a) @@ (q :> d)
FlowSteps == (p :> {<<a, b>>, <<a, c>>}) @@ (q :> {})
FlowGated == (p :> {<<a, c>>}) @@ (q :> {})

(* Everyone does everything; one moves while the other inserts; and so on. *)
AnyOps == [w \in {w1, w2} |-> {"status", "link", "insert", "move"}]
MoveAndInsert == (w1 :> {"move"}) @@ (w2 :> {"insert"})
StatusOps == [w \in {w1, w2} |-> {"status", "insert"}]
MoveAndLink == (w1 :> {"move"}) @@ (w2 :> {"insert", "link"})

MCInit == Init /\ cast \in Casts

Made == {t \in Tasks : project[t] # None}
MCNext ==
    /\ UNCHANGED cast
    /\ \/ cast = "any" /\ Next
       \/ cast = "all" /\ Next /\ Cardinality(Made') <= 2
       \/ cast = "tree" /\ (Move(w1) \/ Insert(w2) \/ \E w \in Writers : Abort(w))

MCSpec == MCInit /\ [][MCNext]_<<vars, cast>>

Symmetric == Permutations(Tasks)
=============================================================================

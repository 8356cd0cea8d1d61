------------------------------- MODULE Signals ------------------------------
(***************************************************************************)
(* Push-pull reactivity (core/signal.ts): signals, one computed value over  *)
(* them, and effects that read either and may write a signal.  A write marks *)
(* what depends on it; effects run in passes of a flush, which a microtask   *)
(* or the end of a batch starts - also inside a running effect.              *)
(***************************************************************************)
EXTENDS Integers, Sequences

CONSTANTS
    Sources,         \* signals
    Effects,         \* effects
    Values,          \* what a signal may hold
    None,
    Derive(_),       \* the computed value, a function of what the signals hold
    Reads(_, _),     \* Reads(e, v): what effect e reads when the signals hold v
    Writes(_, _),    \* Writes(e, v): the signals as e leaves them
    Batched,         \* effects that write inside batch()
    MaxPasses,       \* MAX_FLUSH_PASSES
    MaxSets          \* bound: writes from outside

VARIABLES
    val,       \* what each signal holds
    cached,    \* the computed's value
    dirty,     \* whether it must be recomputed
    deps,      \* what each effect read when it last ran
    seen,      \* and the values it found there
    pending,   \* pendingEffects
    frames,    \* flushes under way, the innermost last
    micro,     \* a flush waits in the microtask queue
    disposed,  \* effects that are gone
    threw,     \* a SignalCycleError was thrown
    sets

vars == <<val, cached, dirty, deps, seen, pending, frames, micro, disposed, threw, sets>>

Computed == "computed"
Frame == [left : SUBSET Effects, passes : 0 .. MaxPasses, by : Effects \cup {None}]
Snapshot(v) == [x \in Sources \cup {Computed} |-> IF x = Computed THEN Derive(v) ELSE v[x]]
Seen(e, v) == [x \in Reads(e, v) |-> Snapshot(v)[x]]

(* Every effect has run, when it was made, until none had more to write.   *)
Init ==
    /\ val \in {v \in [Sources -> Values] : \A e \in Effects : Writes(e, v) = v}
    /\ cached = Derive(val)
    /\ dirty = FALSE
    /\ deps = [e \in Effects |-> Reads(e, val)]
    /\ seen = [e \in Effects |-> Seen(e, val)]
    /\ pending = {}
    /\ frames = <<>>
    /\ micro = FALSE
    /\ disposed = {}
    /\ threw = FALSE
    /\ sets = 0

Running == {frames[n].by : n \in DOMAIN frames} \ {None}

(* Signal.set with its Object.is gate, then notify: the changed signals'    *)
(* effects, and those of the computed unless it was dirty already.         *)
Changed(v, w) == {s \in Sources : v[s] # w[s]}
(* A mutant of Notified: what reads the computed value is not told.         *)
NotifiedDirectly(changed, wasDirty, d) == {e \in Effects \ disposed : d[e] \cap changed # {}}
Notified(changed, wasDirty, d) ==
    {e \in Effects \ disposed :
        d[e] \cap changed # {} \/ (changed # {} /\ ~wasDirty /\ Computed \in d[e])}

-----------------------------------------------------------------------------
(* A write from outside any effect: one signal, or several in a batch, which *)
(* flushes at its end.                                                       *)
set(v, batch) ==
    LET changed == Changed(val, v)
        marked == pending \cup Notified(changed, dirty, deps)
    IN  /\ frames = <<>>
        /\ sets < MaxSets
        /\ sets' = sets + 1
        /\ batch \/ \E s \in Sources : changed = {s}
        /\ val' = v
        /\ dirty' = (dirty \/ changed # {})
        /\ IF batch /\ marked # {}
           THEN frames' = <<[left |-> marked, passes |-> 1, by |-> None]>> /\ pending' = {} /\ UNCHANGED micro
           ELSE frames' = <<>> /\ pending' = marked /\ micro' = (micro \/ (changed # {} /\ ~batch))
        /\ UNCHANGED <<cached, deps, seen, disposed, threw>>

(* The microtask: flush starts its first pass.                             *)
flush ==
    /\ micro
    /\ frames = <<>>
    /\ micro' = FALSE
    /\ frames' = IF pending = {} THEN <<>> ELSE <<[left |-> pending, passes |-> 1, by |-> None]>>
    /\ pending' = {}
    /\ UNCHANGED <<val, cached, dirty, deps, seen, disposed, threw, sets>>

Top == frames[Len(frames)]
Lower == SubSeq(frames, 1, Len(frames) - 1)

(* Effect.run: reads (recomputing the computed if it is dirty and read),    *)
(* then writes; the end of its batch flushes what is pending right there.   *)
run(e) ==
    LET reads == Reads(e, val)
        pulled == dirty /\ Computed \notin reads
        w == Writes(e, val)
        changed == Changed(val, w)
        newDeps == [deps EXCEPT ![e] = reads]
        marked == pending \cup Notified(changed, pulled, newDeps)
        rest == Append(Lower, [Top EXCEPT !.left = Top.left \ {e}])
    IN  /\ e \notin disposed \cup Running
        /\ deps' = newDeps
        /\ seen' = [seen EXCEPT ![e] = Seen(e, val)]
        /\ cached' = IF Computed \in reads /\ dirty THEN Derive(val) ELSE cached
        /\ val' = w
        /\ dirty' = (pulled \/ changed # {})
        /\ IF e \in Batched /\ marked # {}
           THEN frames' = Append(rest, [left |-> marked, passes |-> 1, by |-> e]) /\ pending' = {}
           ELSE frames' = rest /\ pending' = marked
        /\ UNCHANGED <<micro, disposed, threw, sets>>

(* A disposed effect of the pass is skipped; a running one is a cycle: the  *)
(* error leaves every flush under way, with the rest of their passes.       *)
RunNext ==
    /\ frames # <<>>
    /\ \E e \in Top.left :
        \/ run(e)
        \/ /\ e \in disposed
           /\ frames' = Append(Lower, [Top EXCEPT !.left = Top.left \ {e}])
           /\ UNCHANGED <<val, cached, dirty, deps, seen, pending, micro, disposed, threw, sets>>
        \/ /\ e \in Running \ disposed
           /\ frames' = <<>> /\ threw' = TRUE
           /\ UNCHANGED <<val, cached, dirty, deps, seen, pending, micro, disposed, sets>>

(* The end of a pass: another one for what it marked, up to the limit,      *)
(* where the pending effects are dropped and the error names them.          *)
EndPass ==
    /\ frames # <<>>
    /\ Top.left = {}
    /\ \/ /\ pending = {}
          /\ frames' = Lower
          /\ UNCHANGED <<pending, threw>>
       \/ /\ pending # {} /\ Top.passes < MaxPasses
          /\ frames' = Append(Lower, [Top EXCEPT !.left = pending, !.passes = Top.passes + 1])
          /\ pending' = {}
          /\ UNCHANGED threw
       \/ /\ pending # {} /\ Top.passes = MaxPasses
          /\ frames' = <<>> /\ pending' = {} /\ threw' = TRUE
    /\ UNCHANGED <<val, cached, dirty, deps, seen, micro, disposed, sets>>

dispose(e) ==
    /\ frames = <<>>
    /\ e \notin disposed
    /\ disposed' = disposed \cup {e}
    /\ deps' = [deps EXCEPT ![e] = {}]
    /\ pending' = pending \ {e}
    /\ UNCHANGED <<val, cached, dirty, seen, frames, micro, threw, sets>>

Next ==
    \/ \E v \in [Sources -> Values], batch \in BOOLEAN : set(v, batch)
    \/ flush
    \/ RunNext
    \/ EndPass
    \/ \E e \in Effects : dispose(e)

Spec == Init /\ [][Next]_vars
FairSpec == Spec /\ WF_vars(flush) /\ WF_vars(RunNext) /\ WF_vars(EndPass)

-----------------------------------------------------------------------------
(* Properties.                                                             *)

TypeOK ==
    /\ val \in [Sources -> Values]
    /\ dirty \in BOOLEAN /\ micro \in BOOLEAN /\ threw \in BOOLEAN
    /\ deps \in [Effects -> SUBSET (Sources \cup {Computed})]
    /\ pending \subseteq Effects \ disposed
    /\ disposed \subseteq Effects
    /\ frames \in Seq(Frame)
    /\ ~dirty => cached = Derive(val)

(* Once nothing is left to run, every effect has seen what its sources hold *)
(* now, whatever it and the others wrote: no write is lost between passes,  *)
(* in a nested flush or by the dirty flag (signal.ts: "writes mark          *)
(* dependents dirty (push) and schedule a flush; reads pull").              *)
UpToDate ==
    frames = <<>> /\ ~micro /\ ~threw =>
        pending = {} /\ \A e \in Effects \ disposed : seen[e] = Seen(e, val)

(* A flush ends, even where effects write what others read.                *)
Flushing == micro \/ frames # <<>>
Drains == Flushing ~> ~Flushing

-----------------------------------------------------------------------------
(* What holds at every step.  UpToDate is not inductive: it says nothing while a *)
(* flush is under way.  But an effect which has not seen what its sources hold is *)
(* marked - pending, or left in the pass of some flush - and nobody who reads the *)
(* computed value is unmarked while it is dirty: a dirty computed tells no one    *)
(* again.                                                                        *)

(* What effects are: functions of what they read.  Two states that agree on *)
(* it are read alike.                                                      *)
Sound ==
    /\ Computed \notin Sources
    /\ MaxPasses \in Nat \ {0}
    /\ \A e \in Effects, v \in [Sources -> Values] :
        /\ Reads(e, v) \subseteq Sources \cup {Computed}
        /\ Writes(e, v) \in [Sources -> Values]
    /\ \A e \in Effects, v, w \in [Sources -> Values] :
        (\A x \in Reads(e, v) : Snapshot(v)[x] = Snapshot(w)[x]) => Reads(e, w) = Reads(e, v)

Marked(e) == e \in pending \/ \E n \in 1 .. Len(frames) : e \in frames[n].left

(* e has seen what its sources hold, and will be told of the next change.  *)
Fresh(e) ==
    /\ deps[e] = Reads(e, val)
    /\ seen[e] = Seen(e, val)
    /\ dirty => Computed \notin deps[e]

MarkedOrFresh == ~threw => \A e \in Effects \ disposed : Marked(e) \/ Fresh(e)
FlushIsDue == ~threw /\ frames = <<>> /\ ~micro => pending = {}
SeenType == seen = [e \in Effects |-> seen[e]]

Inv == TypeOK /\ SeenType /\ MarkedOrFresh /\ FlushIsDue
=============================================================================

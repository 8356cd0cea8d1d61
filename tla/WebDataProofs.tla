--------------------------- MODULE WebDataProofs ---------------------------
(***************************************************************************)
(* Proofs about WebData, for any number of controls, scopes and calls, and  *)
(* whether or not actions overlap.                                         *)
(*                                                                         *)
(* The count of what is in flight is exact only because every open call is  *)
(* in exactly one place: the queue, or one POST.  A call in two POSTs would *)
(* be released twice; one in none would never be.                          *)
(***************************************************************************)
EXTENDS WebData, FiniteSetTheorems, SequenceTheorems, TLAPS

(* What the page is given: finitely many controls, on a tree whose calls    *)
(* are bounded by the model only.                                          *)
Finite == IsFiniteSet(Controls) /\ MaxCalls \in Nat

(* A call whose snapshot, if it has one, is one of befores.                *)
CallWith(befores) ==
    [by : Controls, kind : {"query", "action"}, scope : Scopes \cup {None},
     before : befores, state : {"open", "ok", "fault", "dropped"}]

OpenCalls == {i \in DOMAIN calls : Open(i)}

Shapes ==
    /\ \E befores : calls \in Seq(CallWith(befores))
    /\ queue \in Seq(DOMAIN calls)
    /\ scheduled \in BOOLEAN
    /\ \A p \in posts : p \in [ids : SUBSET DOMAIN calls, ran : BOOLEAN, lost : BOOLEAN, rows : {p.rows}]
    /\ inFlight \in Nat
    /\ scope \in Scopes \cup {None}
    /\ woken \subseteq Controls

(* No call is in two places.                                               *)
OnePlace ==
    /\ \A p \in posts : p.ids \cap ToSet(queue) = {}
    /\ \A p, q \in posts : p # q => p.ids \cap q.ids = {}

(* What the server ran it has committed.                                   *)
RanIsCommitted ==
    \A p \in posts : p.ran => \A i \in p.ids : calls[i].kind = "action" => i \in db

Inv == Shapes /\ InFlightExact /\ OnePlace /\ RanIsCommitted /\ WritesRun
-----------------------------------------------------------------------------
(* A finite set in some order is a sequence as long as it is large.        *)
LEMMA OrderLen ==
    ASSUME NEW S, IsFiniteSet(S)
    PROVE  SetToSeq(S) \in Seq(S) /\ Len(SetToSeq(S)) \in Nat
<1>1. Cardinality(S) \in Nat
  BY FS_CardinalityType
<1>2. PICK f : f \in Bijection(1 .. Cardinality(S), S)
  BY FS_CardinalityType DEF ExistsBijection
<1>3. f \in [1 .. Cardinality(S) -> S] /\ IsInjective(f)
  BY <1>2 DEF Bijection, Injection, IsInjective
<1>4. SetToSeq(S) \in [1 .. Cardinality(S) -> S]
  BY <1>3 DEF SetToSeq
<1> QED BY <1>1, <1>4

(* A sequence over a set is one over a larger set.                         *)
LEMMA SeqWider ==
    ASSUME NEW S, NEW T, S \subseteq T, NEW s \in Seq(S)
    PROVE  s \in Seq(T)
<1>1. Len(s) \in Nat /\ s = [i \in 1 .. Len(s) |-> s[i]] /\ \A i \in 1 .. Len(s) : s[i] \in T
  OBVIOUS
<1> QED BY <1>1

(* What is open can be counted.                                            *)
LEMMA OpenFinite ==
    ASSUME Shapes
    PROVE  IsFiniteSet(OpenCalls) /\ Cardinality(OpenCalls) \in Nat
           /\ DOMAIN calls = 1 .. Len(calls) /\ Len(calls) \in Nat
<1>1. DOMAIN calls = 1 .. Len(calls) /\ Len(calls) \in Nat
  BY DEF Shapes
<1>2. IsFiniteSet(DOMAIN calls)
  BY <1>1, FS_Interval
<1>3. OpenCalls \in SUBSET DOMAIN calls
  BY DEF OpenCalls
<1> QED BY <1>1, <1>2, <1>3, FS_Subset, FS_CardinalityType

(* New calls: they are open, they wait in the queue, and each is counted.  *)
LEMMA RequestStep ==
    ASSUME Inv, NEW new, NEW befores, new \in Seq(CallWith(befores)),
           \A n \in 1 .. Len(new) : new[n].state = "open",
           request(new), UNCHANGED <<posts, db>>
    PROVE  /\ \E bs : calls' \in Seq(CallWith(bs))
           /\ queue' \in Seq(DOMAIN calls')
           /\ scheduled' \in BOOLEAN
           /\ \A p \in posts' : p \in [ids : SUBSET DOMAIN calls', ran : BOOLEAN, lost : BOOLEAN, rows : {p.rows}]
           /\ inFlight' \in Nat
           /\ InFlightExact' /\ OnePlace' /\ RanIsCommitted' /\ WritesRun'
<1> DEFINE n0 == Len(calls)
           m == Len(new)
           added == [n \in 1 .. m |-> n0 + n]
<1>1. /\ calls' = calls \o new
      /\ queue' = queue \o added
      /\ inFlight' = inFlight + m
      /\ scheduled' = (scheduled \/ new # <<>>)
      /\ UNCHANGED <<posts, db>>
  BY DEF request
<1>2. PICK bs : calls \in Seq(CallWith(bs))
  BY DEF Inv, Shapes
<1>3. n0 \in Nat /\ m \in Nat /\ DOMAIN calls = 1 .. n0 /\ DOMAIN new = 1 .. m
  BY <1>2
<1>4. calls \in Seq(CallWith(bs \cup befores)) /\ new \in Seq(CallWith(bs \cup befores))
  <2>1. CallWith(bs) \subseteq CallWith(bs \cup befores) /\ CallWith(befores) \subseteq CallWith(bs \cup befores)
    BY DEF CallWith
  <2> HIDE DEF CallWith
  <2>2. calls \in Seq(CallWith(bs \cup befores))
    BY <1>2, <2>1, SeqWider
  <2>3. new \in Seq(CallWith(bs \cup befores))
    BY <2>1, SeqWider
  <2> QED BY <2>2, <2>3
<1>5. /\ calls' \in Seq(CallWith(bs \cup befores)) /\ DOMAIN calls' = 1 .. n0 + m
      /\ \A i \in 1 .. n0 : calls'[i] = calls[i]
      /\ \A n \in 1 .. m : calls'[n0 + n] = new[n]
  BY <1>1, <1>3, <1>4
<1>6. /\ added \in Seq(DOMAIN calls') /\ queue \in Seq(DOMAIN calls')
      /\ Len(added) = m /\ ToSet(added) = n0 + 1 .. n0 + m
  <2>1. added \in Seq(DOMAIN calls') /\ Len(added) = m
    BY <1>3, <1>5
  <2>2. queue \in Seq(DOMAIN calls')
    BY <1>3, <1>5 DEF Inv, Shapes
  <2>3. ToSet(added) = n0 + 1 .. n0 + m
    <3>1. \A i \in n0 + 1 .. n0 + m : i - n0 \in 1 .. m /\ added[i - n0] = i
      BY <1>3
    <3>2. \A n \in 1 .. m : added[n] \in n0 + 1 .. n0 + m
      BY <1>3
    <3>3. DOMAIN added = 1 .. m
      OBVIOUS
    <3> HIDE DEF added
    <3> QED BY <3>1, <3>2, <3>3 DEF ToSet
  <2> QED BY <2>1, <2>2, <2>3
<1>7. queue' \in Seq(DOMAIN calls') /\ ToSet(queue') = ToSet(queue) \cup (n0 + 1 .. n0 + m)
  <2> HIDE DEF added
  <2>1. queue' \in Seq(DOMAIN calls')
    BY <1>1, <1>6
  <2>2. ToSet(queue \o added) = ToSet(queue) \cup ToSet(added)
    <3>1. /\ DOMAIN (queue \o added) = 1 .. Len(queue) + Len(added)
          /\ DOMAIN queue = 1 .. Len(queue) /\ DOMAIN added = 1 .. Len(added)
          /\ Len(queue) \in Nat /\ Len(added) \in Nat
      BY <1>6
    <3>2. \A i \in 1 .. Len(queue) : (queue \o added)[i] = queue[i]
      BY <1>6
    <3>3. \A i \in 1 .. Len(added) : (queue \o added)[Len(queue) + i] = added[i]
      BY <1>6
    <3>4. \A i \in 1 .. Len(queue) + Len(added) :
              i \in 1 .. Len(queue) \/ (i - Len(queue) \in 1 .. Len(added) /\ i = Len(queue) + (i - Len(queue)))
      BY <3>1
    <3>5. \A i \in 1 .. Len(added) : Len(queue) + i \in 1 .. Len(queue) + Len(added)
      BY <3>1
    <3>6. \A i \in 1 .. Len(queue) : i \in 1 .. Len(queue) + Len(added)
      BY <3>1
    <3>7. ToSet(queue \o added) \subseteq ToSet(queue) \cup ToSet(added)
      BY <3>1, <3>2, <3>3, <3>4 DEF ToSet
    <3>8. ToSet(queue) \cup ToSet(added) \subseteq ToSet(queue \o added)
      BY <3>1, <3>2, <3>3, <3>5, <3>6 DEF ToSet
    <3> QED BY <3>7, <3>8
  <2> QED BY <1>1, <1>6, <2>1, <2>2
<1> HIDE DEF added
<1>8. OpenCalls' = OpenCalls \cup (n0 + 1 .. n0 + m)
  <2>1. \A i \in 1 .. n0 + m : i \in 1 .. n0 \/ (i - n0 \in 1 .. m /\ i = n0 + (i - n0) /\ i \in n0 + 1 .. n0 + m)
    BY <1>3
  <2>2. \A i \in n0 + 1 .. n0 + m : i - n0 \in 1 .. m /\ i = n0 + (i - n0) /\ i \in 1 .. n0 + m
    BY <1>3
  <2>3. \A i \in n0 + 1 .. n0 + m : calls'[i].state = "open"
    BY <1>5, <2>2
  <2>4. OpenCalls' = {i \in DOMAIN calls' : calls'[i].state = "open"}
    BY DEF OpenCalls, Open
  <2>5. \A i \in 1 .. n0 : i \in 1 .. n0 + m
    BY <1>3
  <2>6. OpenCalls = {i \in 1 .. n0 : calls[i].state = "open"}
    BY <1>3 DEF OpenCalls, Open
  <2> HIDE DEF n0, m
  <2> QED BY <1>5, <2>1, <2>2, <2>3, <2>4, <2>5, <2>6
<1>9. OpenCalls \cap (n0 + 1 .. n0 + m) = {}
  BY <1>3 DEF OpenCalls
<1>10. Cardinality(OpenCalls') = Cardinality(OpenCalls) + m
  <2>1. IsFiniteSet(OpenCalls) /\ Cardinality(OpenCalls) \in Nat
    BY OpenFinite DEF Inv
  <2>2. IsFiniteSet(n0 + 1 .. n0 + m) /\ Cardinality(n0 + 1 .. n0 + m) = m
    <3> DEFINE lo == n0 + 1
               hi == n0 + m
    <3>1. lo \in Int /\ hi \in Int /\ (IF lo > hi THEN 0 ELSE hi - lo + 1) = m
      BY <1>3
    <3> HIDE DEF lo, hi
    <3>2. IsFiniteSet(lo .. hi) /\ Cardinality(lo .. hi) = IF lo > hi THEN 0 ELSE hi - lo + 1
      BY <3>1, FS_Interval
    <3> QED BY <3>1, <3>2 DEF lo, hi
  <2>3. Cardinality(OpenCalls \cup (n0 + 1 .. n0 + m)) =
           Cardinality(OpenCalls) + Cardinality(n0 + 1 .. n0 + m) - Cardinality(OpenCalls \cap (n0 + 1 .. n0 + m))
    BY <2>1, <2>2, FS_Union
  <2>4. Cardinality(OpenCalls \cap (n0 + 1 .. n0 + m)) = 0
    BY <1>9, FS_EmptySet
  <2>5. Cardinality(OpenCalls') = Cardinality(OpenCalls \cup (n0 + 1 .. n0 + m))
    BY <1>8
  <2> HIDE DEF n0, m
  <2> QED BY <1>3, <2>1, <2>2, <2>3, <2>4, <2>5
<1>11. inFlight = Cardinality(OpenCalls) /\ inFlight \in Nat
       /\ OpenCalls = ToSet(queue) \cup UNION {p.ids : p \in posts}
  BY DEF Inv, Shapes, InFlightExact, OpenCalls
<1>12. InFlightExact'
  <2>1. inFlight' = Cardinality(OpenCalls')
    BY <1>1, <1>10, <1>11
  <2>2. OpenCalls' = ToSet(queue') \cup UNION {p.ids : p \in posts'}
    BY <1>1, <1>7, <1>8, <1>11
  <2>3. queue' # <<>> => scheduled'
    <3>1. queue # <<>> => scheduled
      BY DEF Inv, InFlightExact
    <3>2. new = <<>> => m = 0
      OBVIOUS
    <3>3. m = 0 => added = <<>>
      BY <1>6
    <3>4. added = <<>> => queue \o added = queue
      BY <1>6
    <3> QED BY <1>1, <3>1, <3>2, <3>3, <3>4
  <2> QED BY <2>1, <2>2, <2>3 DEF InFlightExact, OpenCalls
<1>13. \A p \in posts : p.ids \subseteq 1 .. n0
  BY <1>3 DEF Inv, Shapes
<1>14. OnePlace'
  <2>1. \A p \in posts : p.ids \cap (n0 + 1 .. n0 + m) = {}
    BY <1>3, <1>13
  <2> QED BY <1>1, <1>7, <2>1 DEF Inv, OnePlace
<1>15. RanIsCommitted'
  BY <1>1, <1>5, <1>13 DEF Inv, RanIsCommitted
<1>16. WritesRun'
  <2> SUFFICES ASSUME NEW i \in DOMAIN calls', calls'[i].kind = "action", calls'[i].state = "ok" PROVE i \in db'
    BY DEF WritesRun
  <2>1. CASE i \in 1 .. n0
    BY <1>1, <1>3, <1>5, <2>1 DEF Inv, WritesRun
  <2>2. CASE i \notin 1 .. n0
    <3>1. i - n0 \in 1 .. m /\ i = n0 + (i - n0)
      BY <1>3, <1>5, <2>2
    <3>2. calls'[i].state = "open"
      BY <1>5, <3>1
    <3> QED BY <3>2
  <2> QED BY <2>1, <2>2
<1>17. \A p \in posts' : p \in [ids : SUBSET DOMAIN calls', ran : BOOLEAN, lost : BOOLEAN, rows : {p.rows}]
  <2>1. DOMAIN calls \subseteq DOMAIN calls'
    BY <1>3, <1>5
  <2> QED BY <1>1, <2>1 DEF Inv, Shapes
<1>18. scheduled' \in BOOLEAN /\ inFlight' \in Nat
  BY <1>1, <1>3, <1>11
<1> QED BY <1>5, <1>7, <1>12, <1>14, <1>15, <1>16, <1>17, <1>18

(* The queries of some controls fire.                                      *)
LEMMA QueryStep ==
    ASSUME Finite, Inv, NEW cs, cs \subseteq Controls, NEW s \in Scopes \cup {None},
           fireQuery(cs, s), UNCHANGED <<posts, db>>,
           scope' \in Scopes \cup {None}, woken' \subseteq Controls
    PROVE  Inv'
<1> DEFINE who == IF s = None THEN {} ELSE cs
           order == SetToSeq(who)
           new == [n \in 1 .. Len(order) |->
                      [by |-> order[n], kind |-> "query", scope |-> s, before |-> {}, state |-> "open"]]
<1>1. request(new)
  BY DEF fireQuery
<1>2. who \in SUBSET Controls
  OBVIOUS
<1>3. IsFiniteSet(who)
  <2> HIDE DEF who
  <2> QED BY <1>2, FS_Subset DEF Finite
<1>4. order \in Seq(Controls) /\ Len(order) \in Nat
  <2> HIDE DEF who
  <2>1. order \in Seq(who) /\ Len(order) \in Nat
    BY <1>3, OrderLen
  <2> HIDE DEF order
  <2> QED BY <1>2, <2>1, SeqWider
<1> HIDE DEF order
<1>5. \A n \in 1 .. Len(order) : order[n] \in Controls
  BY <1>4
<1>6. \A n \in 1 .. Len(order) : new[n] \in CallWith({{}}) /\ new[n].state = "open"
  BY <1>5 DEF CallWith
<1>7. DOMAIN new = 1 .. Len(order)
  OBVIOUS
<1>8. new \in Seq(CallWith({{}})) /\ Len(new) = Len(order)
  BY <1>4, <1>6
<1> HIDE DEF new
<1>9. \A n \in 1 .. Len(new) : new[n].state = "open"
  BY <1>6, <1>8
<1>10. /\ \E bs : calls' \in Seq(CallWith(bs))
       /\ queue' \in Seq(DOMAIN calls')
       /\ scheduled' \in BOOLEAN
       /\ \A p \in posts' : p \in [ids : SUBSET DOMAIN calls', ran : BOOLEAN, lost : BOOLEAN, rows : {p.rows}]
       /\ inFlight' \in Nat
       /\ InFlightExact' /\ OnePlace' /\ RanIsCommitted' /\ WritesRun'
  BY <1>1, <1>8, <1>9, RequestStep
<1> QED BY <1>10 DEF Inv, Shapes

(* An action fires: its snapshot is the leaf as it is.                     *)
LEMMA ActionStep ==
    ASSUME Inv, NEW c \in Controls, fireAction(c)
    PROVE  Inv'
<1> DEFINE call == [by |-> c, kind |-> "action", scope |-> None, before |-> leaf.rows, state |-> "open"]
           new == <<call>>
<1>1. request(new) /\ UNCHANGED <<posts, db, scope, woken>>
  BY DEF fireAction
<1>2. call \in CallWith({leaf.rows}) /\ call.state = "open"
  BY DEF CallWith
<1> HIDE DEF call
<1>3. new \in Seq(CallWith({leaf.rows})) /\ \A n \in 1 .. Len(new) : new[n].state = "open"
  BY <1>2
<1> HIDE DEF new
<1>4. /\ \E bs : calls' \in Seq(CallWith(bs))
      /\ queue' \in Seq(DOMAIN calls')
      /\ scheduled' \in BOOLEAN
      /\ \A p \in posts' : p \in [ids : SUBSET DOMAIN calls', ran : BOOLEAN, lost : BOOLEAN, rows : {p.rows}]
      /\ inFlight' \in Nat
      /\ InFlightExact' /\ OnePlace' /\ RanIsCommitted' /\ WritesRun'
  BY <1>1, <1>3, RequestStep
<1> QED BY <1>1, <1>4 DEF Inv, Shapes

(* The dispatcher's flush moves the whole queue into one POST.             *)
LEMMA FlushStep ==
    ASSUME Inv, flush
    PROVE  Inv'
<1> DEFINE taken == [ids |-> ToSet(queue), ran |-> FALSE, lost |-> FALSE, rows |-> {}]
<1>1. /\ scheduled' = FALSE
      /\ queue' = <<>>
      /\ posts' = IF queue = <<>> THEN posts ELSE posts \cup {taken}
      /\ UNCHANGED <<calls, inFlight, db, scope, woken>>
  BY DEF flush
<1>2. ToSet(queue) \subseteq DOMAIN calls /\ ToSet(<<>>) = {} /\ (queue = <<>> => ToSet(queue) = {})
  BY DEF Inv, Shapes, ToSet
<1>3. taken.ids = ToSet(queue) /\ ~taken.ran
  OBVIOUS
<1>4. taken \in [ids : SUBSET DOMAIN calls, ran : BOOLEAN, lost : BOOLEAN, rows : {taken.rows}]
  BY <1>2
<1> HIDE DEF taken
<1>5. ToSet(queue') \cup UNION {p.ids : p \in posts'} = ToSet(queue) \cup UNION {p.ids : p \in posts}
  BY <1>1, <1>2, <1>3
<1>6. InFlightExact'
  BY <1>1, <1>5 DEF Inv, InFlightExact, Open
<1>7. OnePlace'
  BY <1>1, <1>2, <1>3 DEF Inv, OnePlace
<1>8. RanIsCommitted'
  BY <1>1, <1>3 DEF Inv, RanIsCommitted
<1>9. Shapes'
  <2>1. <<>> \in Seq(DOMAIN calls)
    OBVIOUS
  <2> QED BY <1>1, <1>4, <2>1 DEF Inv, Shapes
<1> QED BY <1>1, <1>6, <1>7, <1>8, <1>9 DEF Inv, WritesRun

(* A POST goes on - it runs, or it fails - with the calls it took.         *)
LEMMA PostGoesOn ==
    ASSUME Inv, NEW p \in posts, NEW q, q.ids = p.ids,
           q \in [ids : SUBSET DOMAIN calls, ran : BOOLEAN, lost : BOOLEAN, rows : {q.rows}],
           posts' = (posts \ {p}) \cup {q}, db \subseteq db',
           q.ran => \A i \in p.ids : calls[i].kind = "action" => i \in db',
           UNCHANGED <<calls, queue, scheduled, inFlight, scope, woken>>
    PROVE  Inv'
<1>1. UNION {r.ids : r \in posts'} = UNION {r.ids : r \in posts}
  OBVIOUS
<1>2. InFlightExact'
  BY <1>1 DEF Inv, InFlightExact, Open
<1>3. OnePlace'
  BY DEF Inv, OnePlace
<1>4. RanIsCommitted'
  BY DEF Inv, RanIsCommitted
<1>5. Shapes'
  BY DEF Inv, Shapes
<1> QED BY <1>2, <1>3, <1>4, <1>5 DEF Inv, WritesRun

LEMMA ServerStep ==
    ASSUME Inv, NEW p \in posts, ServerRuns(p)
    PROVE  Inv'
<1> DEFINE q == [p EXCEPT !.ran = TRUE, !.rows = db']
<1>1. p \in [ids : SUBSET DOMAIN calls, ran : BOOLEAN, lost : BOOLEAN, rows : {p.rows}]
  BY DEF Inv, Shapes
<1>2. /\ q.ids = p.ids
      /\ q \in [ids : SUBSET DOMAIN calls, ran : BOOLEAN, lost : BOOLEAN, rows : {q.rows}]
  BY <1>1
<1>3. db' = db \cup {i \in Wire(p.ids) : calls[i].kind = "action"}
  BY DEF ServerRuns
<1>4. \A i \in p.ids : calls[i].kind = "action" => i \in db'
  BY <1>3 DEF Wire, Folds
<1>5. posts' = (posts \ {p}) \cup {q} /\ UNCHANGED <<calls, queue, scheduled, inFlight, scope, woken>>
  BY DEF ServerRuns
<1>6. db \subseteq db'
  BY <1>3
<1> HIDE DEF q
<1> QED BY <1>2, <1>4, <1>5, <1>6, PostGoesOn

LEMMA FailStep ==
    ASSUME Inv, NEW p \in posts, Fails(p)
    PROVE  Inv'
<1> DEFINE q == [p EXCEPT !.lost = TRUE]
<1>1. p \in [ids : SUBSET DOMAIN calls, ran : BOOLEAN, lost : BOOLEAN, rows : {p.rows}]
  BY DEF Inv, Shapes
<1>2. /\ q.ids = p.ids /\ q.ran = p.ran
      /\ q \in [ids : SUBSET DOMAIN calls, ran : BOOLEAN, lost : BOOLEAN, rows : {q.rows}]
  BY <1>1
<1>3. posts' = (posts \ {p}) \cup {q} /\ UNCHANGED <<calls, queue, scheduled, inFlight, scope, woken, db>>
  BY DEF Fails
<1>4. q.ran => \A i \in p.ids : calls[i].kind = "action" => i \in db'
  BY <1>2, <1>3 DEF Inv, RanIsCommitted
<1> HIDE DEF q
<1> QED BY <1>2, <1>3, <1>4, PostGoesOn

(* The answer of a POST: its calls, all open until now, are settled, and   *)
(* exactly as many are taken off the count.                                *)
LEMMA SettleStep ==
    ASSUME Inv, NEW p \in posts, settle(p)
    PROVE  Inv'
<1>1. /\ p.ran \/ p.lost
      /\ posts' = posts \ {p}
      /\ calls' = [i \in DOMAIN calls |->
                      IF i \in p.ids THEN [calls[i] EXCEPT !.state = Settled(i, p)] ELSE calls[i]]
      /\ inFlight' = inFlight - Cardinality(p.ids)
      /\ UNCHANGED <<queue, scheduled, scope, woken, db>>
  BY DEF settle, Released
<1>2. PICK bs : calls \in Seq(CallWith(bs))
  BY DEF Inv, Shapes
<1>3. DOMAIN calls = 1 .. Len(calls) /\ Len(calls) \in Nat
  BY <1>2
<1>4. \A i \in DOMAIN calls : calls[i] \in CallWith(bs)
  BY <1>2
<1>5. \A i : Settled(i, p) \in {"ok", "fault", "dropped"}
  BY DEF Settled
<1>6. DOMAIN calls' = DOMAIN calls
  BY <1>1
<1>7. \A i \in DOMAIN calls \ p.ids : calls'[i] = calls[i]
  BY <1>1
<1>8. \A i \in DOMAIN calls \cap p.ids : calls'[i] = [calls[i] EXCEPT !.state = Settled(i, p)]
  BY <1>1
<1>9. \A i \in DOMAIN calls \cap p.ids :
         /\ calls'[i] \in CallWith(bs)
         /\ calls'[i].state = Settled(i, p)
         /\ calls'[i].kind = calls[i].kind
  <2> TAKE i \in DOMAIN calls \cap p.ids
  <2> DEFINE st == Settled(i, p)
             c == calls[i]
             d == calls'[i]
  <2>1. c \in CallWith(bs) /\ st \in {"open", "ok", "fault", "dropped"}
    BY <1>4, <1>5
  <2>2. d = [c EXCEPT !.state = st]
    BY <1>8
  <2> HIDE DEF st, c, d
  <2>3. d \in CallWith(bs) /\ d.state = st /\ d.kind = c.kind
    BY <2>1, <2>2 DEF CallWith
  <2> QED BY <2>3 DEF st, c, d
<1>10. calls' \in Seq(CallWith(bs))
  <2>1. \A i \in 1 .. Len(calls) : calls'[i] \in CallWith(bs)
    BY <1>3, <1>4, <1>7, <1>9
  <2>2. calls' = [i \in 1 .. Len(calls) |-> calls'[i]]
    BY <1>1, <1>3
  <2> HIDE DEF CallWith
  <2> QED BY <1>3, <2>1, <2>2
<1>11. p.ids \subseteq OpenCalls /\ p.ids \subseteq DOMAIN calls
  BY DEF Inv, Shapes, InFlightExact, OpenCalls
<1>12. OpenCalls' = OpenCalls \ p.ids
  BY <1>5, <1>6, <1>7, <1>9, <1>11 DEF OpenCalls, Open
<1>13. Cardinality(OpenCalls') = Cardinality(OpenCalls) - Cardinality(p.ids)
       /\ Cardinality(OpenCalls') \in Nat
  <2>1. IsFiniteSet(OpenCalls)
    BY OpenFinite DEF Inv
  <2>2. OpenCalls \cap p.ids = p.ids
    BY <1>11
  <2>3. Cardinality(OpenCalls \ p.ids) = Cardinality(OpenCalls) - Cardinality(OpenCalls \cap p.ids)
        /\ IsFiniteSet(OpenCalls \ p.ids)
    BY <2>1, FS_Difference
  <2>4. Cardinality(OpenCalls \ p.ids) \in Nat
    BY <2>3, FS_CardinalityType
  <2> QED BY <1>12, <2>2, <2>3, <2>4
<1>14. inFlight = Cardinality(OpenCalls)
       /\ OpenCalls = ToSet(queue) \cup UNION {q.ids : q \in posts}
       /\ (queue # <<>> => scheduled)
  BY DEF Inv, InFlightExact, OpenCalls
<1>15. InFlightExact'
  <2>1. inFlight' = Cardinality(OpenCalls')
    BY <1>1, <1>13, <1>14
  <2>2. OpenCalls' = ToSet(queue) \cup UNION {q.ids : q \in posts \ {p}}
    BY <1>12, <1>14 DEF Inv, OnePlace
  <2> QED BY <1>1, <1>14, <2>1, <2>2 DEF InFlightExact, OpenCalls
<1>16. OnePlace'
  BY <1>1 DEF Inv, OnePlace
<1>17. RanIsCommitted'
  <2> SUFFICES ASSUME NEW q \in posts', q.ran, NEW i \in q.ids, calls'[i].kind = "action" PROVE i \in db'
    BY DEF RanIsCommitted
  <2>1. q \in posts /\ i \in DOMAIN calls
    BY <1>1 DEF Inv, Shapes
  <2>2. calls[i].kind = "action"
    BY <1>7, <1>9, <2>1
  <2> QED BY <1>1, <2>1, <2>2 DEF Inv, RanIsCommitted
<1>18. WritesRun'
  <2> SUFFICES ASSUME NEW i \in DOMAIN calls', calls'[i].kind = "action", calls'[i].state = "ok" PROVE i \in db'
    BY DEF WritesRun
  <2>1. CASE i \in p.ids
    <3>1. Settled(i, p) = "ok" /\ calls[i].kind = "action"
      BY <1>6, <1>9, <2>1
    <3>2. p.ran
      BY <1>1, <3>1 DEF Settled
    <3> QED BY <1>1, <2>1, <3>1, <3>2 DEF Inv, RanIsCommitted
  <2>2. CASE i \notin p.ids
    BY <1>1, <1>6, <1>7, <2>2 DEF Inv, WritesRun
  <2> QED BY <2>1, <2>2
<1>19. Shapes'
  <2>1. inFlight' \in Nat
    BY <1>1, <1>13, <1>14
  <2>2. queue' \in Seq(DOMAIN calls') /\ scheduled' \in BOOLEAN
    BY <1>1, <1>6 DEF Inv, Shapes
  <2>3. \A q \in posts' : q \in [ids : SUBSET DOMAIN calls', ran : BOOLEAN, lost : BOOLEAN, rows : {q.rows}]
    BY <1>1, <1>6 DEF Inv, Shapes
  <2> QED BY <1>1, <1>10, <2>1, <2>2, <2>3 DEF Inv, Shapes
<1> QED BY <1>15, <1>16, <1>17, <1>18, <1>19 DEF Inv
-----------------------------------------------------------------------------
LEMMA InitInv == Init => Inv
<1> SUFFICES ASSUME Init PROVE Inv
  OBVIOUS
<1>1. DOMAIN calls = {} /\ calls \in Seq(CallWith({})) /\ queue \in Seq(DOMAIN calls)
  BY DEF Init
<1>2. {i \in DOMAIN calls : Open(i)} = {} /\ ToSet(queue) = {}
  BY <1>1 DEF Init, ToSet
<1>3. Shapes
  BY <1>1 DEF Init, Shapes
<1>4. InFlightExact
  BY <1>2, FS_EmptySet DEF Init, InFlightExact
<1> QED BY <1>1, <1>3, <1>4 DEF Init, Inv, OnePlace, RanIsCommitted, WritesRun

LEMMA NextInv == Finite /\ Inv /\ [Next]_vars => Inv'
<1> SUFFICES ASSUME Finite, Inv, [Next]_vars PROVE Inv'
  OBVIOUS
<1>1. ASSUME NEW c \in Controls, mount(c) PROVE Inv'
  <2>1. fireQuery({c}, scope) /\ UNCHANGED <<scope, woken, posts, db>>
    BY <1>1 DEF mount
  <2>2. scope \in Scopes \cup {None} /\ scope' \in Scopes \cup {None} /\ woken' \subseteq Controls
    BY <2>1 DEF Inv, Shapes
  <2> QED BY <2>1, <2>2, QueryStep
<1>2. ASSUME NEW c \in Controls, fireAction(c) PROVE Inv'
  BY <1>2, ActionStep
<1>3. ASSUME NEW c \in Controls, destroy(c) PROVE Inv'
  <2>1. UNCHANGED <<scope, calls, queue, scheduled, posts, inFlight, db>> /\ woken' \subseteq woken
    BY <1>3 DEF destroy
  <2>2. Shapes'
    BY <2>1 DEF Inv, Shapes
  <2> QED BY <2>1, <2>2 DEF Inv, InFlightExact, Open, OnePlace, RanIsCommitted, WritesRun
<1>4. ASSUME NEW s \in Scopes, SetScope(s) PROVE Inv'
  <2>1. UNCHANGED <<calls, queue, scheduled, posts, inFlight, db>> /\ scope' = s /\ woken' \subseteq Controls
    BY <1>4 DEF SetScope
  <2>2. Shapes'
    BY <2>1 DEF Inv, Shapes
  <2> QED BY <2>1, <2>2 DEF Inv, InFlightExact, Open, OnePlace, RanIsCommitted, WritesRun
<1>5. CASE RunEffects
  <2>1. fireQuery(woken, scope) /\ woken' = {} /\ UNCHANGED <<scope, posts, db>>
    BY <1>5 DEF RunEffects
  <2>2. woken \subseteq Controls /\ scope \in Scopes \cup {None} /\ scope' \in Scopes \cup {None} /\ woken' \subseteq Controls
    BY <2>1 DEF Inv, Shapes
  <2> QED BY <2>1, <2>2, QueryStep
<1>6. CASE flush
  BY <1>6, FlushStep
<1>7. CASE Answers
  BY <1>7, ServerStep, FailStep DEF Answers
<1>8. CASE Settles
  BY <1>8, SettleStep DEF Settles
<1>9. CASE UNCHANGED vars
  <2>1. UNCHANGED <<scope, woken, calls, queue, scheduled, posts, inFlight, db>>
    BY <1>9 DEF vars
  <2>2. Shapes'
    BY <2>1 DEF Inv, Shapes
  <2> QED BY <2>1, <2>2 DEF Inv, InFlightExact, Open, OnePlace, RanIsCommitted, WritesRun
<1> QED BY <1>1, <1>2, <1>3, <1>4, <1>5, <1>6, <1>7, <1>8, <1>9 DEF Next

(* However the answers come, fail or find their control gone, the count     *)
(* behind the loading indicator is that of the calls without an answer, and *)
(* a call that waits has a flush coming: each path out of Dispatcher.flush  *)
(* releases exactly what it took, for any number of controls and calls.    *)
THEOREM InFlightIsExact == Finite => (Spec => []InFlightExact)
<1> SUFFICES ASSUME Finite PROVE Spec => []InFlightExact
  OBVIOUS
<1>1. Init => Inv
  BY InitInv
<1>2. Inv /\ [Next]_vars => Inv'
  BY NextInv
<1>3. Inv => InFlightExact
  BY DEF Inv
<1> QED BY <1>1, <1>2, <1>3, PTL DEF Spec

(* A write answered with success was run: folding identical calls into one  *)
(* (dispatch.ts's dedup) never folds a write away, overlapping or not.     *)
THEOREM AnsweredWritesRan == Finite => (Spec => []WritesRun)
<1> SUFFICES ASSUME Finite PROVE Spec => []WritesRun
  OBVIOUS
<1>1. Init => Inv
  BY InitInv
<1>2. Inv /\ [Next]_vars => Inv'
  BY NextInv
<1>3. Inv => WritesRun
  BY DEF Inv
<1> QED BY <1>1, <1>2, <1>3, PTL DEF Spec
-----------------------------------------------------------------------------
(* Types.  Shapes and InFlightExact already say what the queue, the count    *)
(* and the POSTs hold, so each step is left with calls, life and the leaf.   *)
LEMMA RequestTypes ==
    ASSUME MaxCalls \in Nat, calls \in Seq(Call), NEW new, new \in Seq(Call), request(new)
    PROVE  calls' \in Seq(Call) /\ Len(calls') <= MaxCalls
<1>1. calls' = calls \o new /\ Len(calls) + Len(new) <= MaxCalls
  BY DEF request
<1> HIDE DEF Call
<1> QED BY <1>1

LEMMA QueryTypes ==
    ASSUME Finite, Inv, TypeOK, NEW cs, cs \subseteq Controls, NEW s \in Scopes \cup {None}, fireQuery(cs, s)
    PROVE  calls' \in Seq(Call) /\ Len(calls') <= MaxCalls
<1> DEFINE who == IF s = None THEN {} ELSE cs
           order == SetToSeq(who)
           new == [n \in 1 .. Len(order) |->
                      [by |-> order[n], kind |-> "query", scope |-> s, before |-> {}, state |-> "open"]]
<1>1. request(new)
  BY DEF fireQuery
<1>2. who \in SUBSET Controls
  OBVIOUS
<1>3. IsFiniteSet(who)
  <2> HIDE DEF who
  <2> QED BY <1>2, FS_Subset DEF Finite
<1>4. order \in Seq(Controls) /\ Len(order) \in Nat
  <2> HIDE DEF who
  <2>1. order \in Seq(who) /\ Len(order) \in Nat
    BY <1>3, OrderLen
  <2> HIDE DEF order
  <2> QED BY <1>2, <2>1, SeqWider
<1> HIDE DEF order
<1>5. \A n \in 1 .. Len(order) : new[n] \in Call
  BY <1>4 DEF Call, Rows
<1>6. new \in Seq(Call)
  <2>1. new = [n \in 1 .. Len(order) |-> new[n]]
    OBVIOUS
  <2> HIDE DEF new
  <2> QED BY <1>4, <1>5, <2>1
<1> HIDE DEF new
<1> QED BY <1>1, <1>6, RequestTypes DEF TypeOK, Finite

LEMMA TypesStep ==
    ASSUME Finite, Inv, TypeOK, [Next]_vars
    PROVE  TypeOK'
<1>1. Inv'
  BY NextInv
<1> DEFINE Rest ==
        /\ calls' \in Seq(Call) /\ Len(calls') <= MaxCalls
        /\ life' \in [Controls -> {"new", "live", "dead"}]
        /\ woken' \subseteq {c \in Controls : isAlive(c)'}
        /\ posts' \subseteq Post
        /\ leaf' \in Leaf /\ db' \subseteq Ids
<1>r. Rest => TypeOK'
  <2> SUFFICES ASSUME Rest PROVE TypeOK'
    OBVIOUS
  <2>1. /\ queue' \in Seq(DOMAIN calls')
        /\ scheduled' \in BOOLEAN /\ inFlight' \in Nat /\ scope' \in Scopes \cup {None}
    BY <1>1 DEF Inv, Shapes
  <2>2. DOMAIN calls' \subseteq Ids
    <3> HIDE DEF Call
    <3> QED BY DEF Ids, Finite
  <2>3. queue' \in Seq(Ids)
    BY <2>1, <2>2, SeqWider
  <2> QED BY <2>1, <2>3 DEF TypeOK, Ids, Rows, Leaf, Post, Call
<1> SUFFICES Rest
  BY <1>r
<1>2. MaxCalls \in Nat /\ calls \in Seq(Call) /\ Len(calls) \in Nat /\ Len(calls) <= MaxCalls
  BY DEF Finite, TypeOK
<1>3. DOMAIN calls \subseteq Ids
  BY <1>2 DEF Ids
<1>4. ASSUME NEW c \in Controls, mount(c)
      PROVE  calls' \in Seq(Call) /\ Len(calls') <= MaxCalls
  BY <1>4, QueryTypes DEF mount, TypeOK
<1>5. ASSUME NEW c \in Controls, fireAction(c)
      PROVE  calls' \in Seq(Call) /\ Len(calls') <= MaxCalls /\ leaf' \in Leaf
  <2> DEFINE call == [by |-> c, kind |-> "action", scope |-> None, before |-> leaf.rows, state |-> "open"]
             new == <<call>>
  <2>1. request(new) /\ leaf' = [leaf EXCEPT !.rows = leaf.rows \cup {Len(calls) + 1}]
    BY <1>5 DEF fireAction
  <2>2. leaf \in Leaf /\ call \in Call
    BY DEF TypeOK, Leaf, Call
  <2> HIDE DEF call
  <2>3. new \in Seq(Call) /\ Len(new) = 1
    BY <2>2
  <2>4. Len(calls) + 1 \in Ids
    BY <1>2, <2>1, <2>3 DEF request, Ids
  <2> HIDE DEF new
  <2> QED BY <1>2, <2>1, <2>2, <2>3, <2>4, RequestTypes DEF Leaf, Rows
<1>6. ASSUME RunEffects
      PROVE  calls' \in Seq(Call) /\ Len(calls') <= MaxCalls
  BY <1>6, QueryTypes DEF RunEffects, TypeOK
<1>7. ASSUME NEW p \in posts, ServerRuns(p)
      PROVE  posts' \subseteq Post /\ db' \subseteq Ids
  <2>1. p \in Post /\ db \subseteq Ids /\ p.ids \subseteq Ids
    BY DEF TypeOK, Post
  <2>2. db' \subseteq Ids
    BY <1>7, <2>1 DEF ServerRuns, Wire
  <2>3. [p EXCEPT !.ran = TRUE, !.rows = db'] \in Post
    BY <2>1, <2>2 DEF Post, Rows
  <2> QED BY <1>7, <2>2, <2>3 DEF ServerRuns, TypeOK
<1>8. ASSUME NEW p \in posts, Fails(p)
      PROVE  posts' \subseteq Post
  BY <1>8 DEF Fails, TypeOK, Post
<1>9. ASSUME flush
      PROVE  posts' \subseteq Post
  <2>1. ToSet(queue) \subseteq Ids
    BY DEF TypeOK, ToSet
  <2>2. [ids |-> ToSet(queue), ran |-> FALSE, lost |-> FALSE, rows |-> {}] \in Post
    BY <2>1 DEF Post, Rows
  <2> QED BY <1>9, <2>2 DEF flush, TypeOK
<1>10. ASSUME NEW p \in posts, settle(p)
       PROVE  /\ calls' \in Seq(Call) /\ Len(calls') <= MaxCalls
              /\ posts' \subseteq Post /\ leaf' \in Leaf
  <2>1. \A i \in DOMAIN calls : calls[i] \in Call
    BY <1>2
  <2>2. \A i : Settled(i, p) \in {"ok", "fault", "dropped"}
    BY DEF Settled
  <2>3. calls' = [i \in DOMAIN calls |->
                     IF i \in p.ids THEN [calls[i] EXCEPT !.state = Settled(i, p)] ELSE calls[i]]
    BY <1>10 DEF settle
  <2>4. \A i \in DOMAIN calls : calls'[i] \in Call
    <3> TAKE i \in DOMAIN calls
    <3> DEFINE st == Settled(i, p)
               c == calls[i]
    <3>1. c \in Call /\ st \in {"open", "ok", "fault", "dropped"}
      BY <2>1, <2>2
    <3>2. calls'[i] = c \/ calls'[i] = [c EXCEPT !.state = st]
      BY <2>3
    <3> HIDE DEF st, c
    <3> QED BY <3>1, <3>2 DEF Call
  <2>5. calls' = [i \in 1 .. Len(calls) |-> calls'[i]] /\ DOMAIN calls = 1 .. Len(calls)
    BY <1>2, <2>3
  <2>6. calls' \in Seq(Call) /\ Len(calls') = Len(calls)
    <3> HIDE DEF Call
    <3> QED BY <1>2, <2>4, <2>5
  <2>7. leaf' \in Leaf
    <3>1. leaf \in Leaf /\ p \in Post
      BY DEF TypeOK
    <3>2. CASE UNCHANGED leaf
      BY <3>1, <3>2
    <3>3. ASSUME NEW i \in p.ids, leaf' = Landed(i, p) PROVE leaf' \in Leaf
      <4>1. i \in DOMAIN calls
        BY DEF Inv, Shapes
      <4>2. calls[i] \in Call
        BY <2>1, <4>1
      <4> QED BY <3>1, <3>3, <4>2 DEF Landed, Leaf, Call, Post
    <3> QED BY <1>10, <3>2, <3>3 DEF settle
  <2> QED BY <1>2, <1>10, <2>6, <2>7 DEF settle, TypeOK
<1>11. /\ life \in [Controls -> {"new", "live", "dead"}]
       /\ woken \subseteq {c \in Controls : isAlive(c)}
       /\ posts \subseteq Post
       /\ leaf \in Leaf /\ db \subseteq Ids
  BY DEF TypeOK
<1>12. CASE \E c \in Controls : mount(c)
  <2> PICK c \in Controls : mount(c)
    BY <1>12
  <2>1. life' = [life EXCEPT ![c] = "live"] /\ UNCHANGED <<woken, posts, leaf, db>>
    BY DEF mount
  <2> QED BY <1>4, <1>11, <2>1 DEF isAlive
<1>13. CASE \E c \in Controls : fireAction(c)
  BY <1>5, <1>11, <1>13 DEF fireAction, isAlive
<1>14. CASE \E c \in Controls : destroy(c)
  <2> PICK c \in Controls : destroy(c)
    BY <1>14
  <2>1. life' = [life EXCEPT ![c] = "dead"] /\ woken' = woken \ {c} /\ UNCHANGED <<calls, posts, leaf, db>>
    BY DEF destroy
  <2> QED BY <1>2, <1>11, <2>1 DEF isAlive
<1>15. CASE \E s \in Scopes : SetScope(s)
  BY <1>2, <1>11, <1>15 DEF SetScope, isAlive
<1>16. CASE RunEffects
  BY <1>6, <1>11, <1>16 DEF RunEffects, isAlive
<1>17. CASE flush
  BY <1>2, <1>9, <1>11, <1>17 DEF flush, isAlive
<1>18. CASE \E p \in posts : ServerRuns(p)
  BY <1>2, <1>7, <1>11, <1>18 DEF ServerRuns, isAlive
<1>19. CASE \E p \in posts : Fails(p)
  BY <1>2, <1>8, <1>11, <1>19 DEF Fails, isAlive
<1>20. CASE \E p \in posts : settle(p)
  BY <1>10, <1>11, <1>20 DEF settle, isAlive
<1>21. CASE UNCHANGED vars
  BY <1>2, <1>11, <1>21 DEF vars, isAlive
<1> QED BY <1>12, <1>13, <1>14, <1>15, <1>16, <1>17, <1>18, <1>19, <1>20, <1>21 DEF Next, Answers, Settles

LEMMA InitTypes == Finite /\ Init => TypeOK
<1> SUFFICES ASSUME Finite, Init PROVE TypeOK
  OBVIOUS
<1>1. calls = <<>> /\ queue = <<>>
  BY DEF Init
<1>2. calls \in Seq(Call) /\ Len(calls) = 0 /\ queue \in Seq(Ids)
  BY <1>1
<1>3. leaf \in Leaf
  BY DEF Init, Leaf, Rows
<1>4. MaxCalls \in Nat
  BY DEF Finite
<1>5. woken = {} /\ posts = {} /\ db = {} /\ scope = None /\ inFlight = 0 /\ scheduled = FALSE
      /\ life \in [Controls -> {"new", "live", "dead"}]
  BY DEF Init
<1>6. Len(calls) <= MaxCalls /\ woken \subseteq {c \in Controls : isAlive(c)} /\ posts \subseteq Post /\ db \subseteq Ids
  BY <1>2, <1>4, <1>5
<1> QED BY <1>2, <1>3, <1>5, <1>6 DEF TypeOK
-----------------------------------------------------------------------------
(* Rollback, when no action starts while another has no answer.  A snapshot   *)
(* is the leaf as it was, so what makes restoring it right is that it holds    *)
(* only what is committed, or what nobody was left to roll back: the only      *)
(* write under way is the one whose snapshot it is.                          *)
Settledly(j) == j \in db \/ (calls[j].kind = "action" /\ calls[j].state = "dropped")

LeafKnown == leaf.rows \subseteq DOMAIN calls /\ db \subseteq DOMAIN calls
NoneFailed == \A i \in leaf.rows : i \in db \/ (calls[i].kind = "action" /\ calls[i].state # "fault")
Snapshots == \A i \in Writing : \A j \in calls[i].before : j \in DOMAIN calls /\ Settledly(j)
OneWriter == \A i, j \in Writing : i = j
ReadsCommitted == \A p \in posts : p.rows \subseteq db

RollbackInv == LeafKnown /\ NoneFailed /\ Snapshots /\ OneWriter /\ ReadsCommitted

(* Calls that are added change nothing for those that exist: new reads do not *)
(* write, and a new write comes when there is none.                          *)
LEMMA AddedCalls ==
    ASSUME calls \in Seq(Call), NEW new, new \in Seq(Call), request(new)
    PROVE  /\ Len(calls) \in Nat /\ DOMAIN calls = 1 .. Len(calls)
           /\ DOMAIN calls \subseteq DOMAIN calls'
           /\ \A i \in DOMAIN calls : calls'[i] = calls[i]
           /\ \A i \in DOMAIN calls' \ DOMAIN calls : \E n \in 1 .. Len(new) : i = Len(calls) + n /\ calls'[i] = new[n]
           /\ \A n \in 1 .. Len(new) : Len(calls) + n \in DOMAIN calls' /\ calls'[Len(calls) + n] = new[n]
<1>1. calls' = calls \o new
  BY DEF request
<1> HIDE DEF Call
<1>2. /\ Len(calls) \in Nat /\ Len(new) \in Nat
      /\ DOMAIN calls = 1 .. Len(calls) /\ DOMAIN calls' = 1 .. Len(calls) + Len(new)
      /\ \A i \in 1 .. Len(calls) : calls'[i] = calls[i]
      /\ \A n \in 1 .. Len(new) : calls'[Len(calls) + n] = new[n]
  BY <1>1
<1>3. \A i \in DOMAIN calls' \ DOMAIN calls : i - Len(calls) \in 1 .. Len(new) /\ i = Len(calls) + (i - Len(calls))
  BY <1>2
<1>4. \A n \in 1 .. Len(new) : Len(calls) + n \in DOMAIN calls'
  BY <1>2
<1>5. DOMAIN calls \subseteq DOMAIN calls'
  BY <1>2
<1> QED BY <1>2, <1>3, <1>4, <1>5

LEMMA QueryRollback ==
    ASSUME Finite, Inv, TypeOK, RollbackInv, NEW cs, cs \subseteq Controls, NEW s \in Scopes \cup {None},
           fireQuery(cs, s), UNCHANGED <<posts, leaf, db>>
    PROVE  RollbackInv'
<1> DEFINE who == IF s = None THEN {} ELSE cs
           order == SetToSeq(who)
           new == [n \in 1 .. Len(order) |->
                      [by |-> order[n], kind |-> "query", scope |-> s, before |-> {}, state |-> "open"]]
<1>1. request(new)
  BY DEF fireQuery
<1>2. who \in SUBSET Controls
  OBVIOUS
<1>3. IsFiniteSet(who)
  <2> HIDE DEF who
  <2> QED BY <1>2, FS_Subset DEF Finite
<1>4. order \in Seq(Controls) /\ Len(order) \in Nat
  <2> HIDE DEF who
  <2>1. order \in Seq(who) /\ Len(order) \in Nat
    BY <1>3, OrderLen
  <2> HIDE DEF order
  <2> QED BY <1>2, <2>1, SeqWider
<1> HIDE DEF order
<1>5. \A n \in 1 .. Len(order) : new[n] \in Call /\ new[n].kind = "query"
  BY <1>4 DEF Call, Rows
<1>6. new \in Seq(Call) /\ Len(new) = Len(order)
  <2>1. new = [n \in 1 .. Len(order) |-> new[n]]
    OBVIOUS
  <2> HIDE DEF new
  <2> QED BY <1>4, <1>5, <2>1
<1> HIDE DEF new
<1>7. /\ DOMAIN calls \subseteq DOMAIN calls'
      /\ \A i \in DOMAIN calls : calls'[i] = calls[i]
      /\ \A i \in DOMAIN calls' \ DOMAIN calls : calls'[i].kind = "query"
  BY <1>1, <1>5, <1>6, AddedCalls DEF TypeOK
<1>8. Writing' = Writing
  BY <1>7 DEF Writing, Open
<1>9. Writing \subseteq DOMAIN calls
  BY DEF Writing
<1> QED BY <1>7, <1>8, <1>9 DEF RollbackInv, LeafKnown, NoneFailed, Snapshots, OneWriter, ReadsCommitted, Settledly

LEMMA ActionRollback ==
    ASSUME Overlap = FALSE, Inv, TypeOK, RollbackInv, NEW c \in Controls, fireAction(c)
    PROVE  RollbackInv'
<1> DEFINE call == [by |-> c, kind |-> "action", scope |-> None, before |-> leaf.rows, state |-> "open"]
           new == <<call>>
           k == Len(calls) + 1
<1>1. /\ request(new) /\ Writing = {}
      /\ leaf' = [leaf EXCEPT !.rows = leaf.rows \cup {k}]
      /\ UNCHANGED <<posts, db>>
  BY DEF fireAction
<1>2. leaf \in Leaf /\ call \in Call
  BY DEF TypeOK, Leaf, Call
<1>3. call.kind = "action" /\ call.before = leaf.rows /\ call.state = "open"
  OBVIOUS
<1> HIDE DEF call
<1>4. new \in Seq(Call) /\ Len(new) = 1 /\ new[1] = call
  BY <1>2
<1> HIDE DEF new
<1>5. /\ DOMAIN calls \subseteq DOMAIN calls'
      /\ \A i \in DOMAIN calls : calls'[i] = calls[i]
      /\ \A i \in DOMAIN calls' \ DOMAIN calls : i = k
      /\ k \in DOMAIN calls' /\ calls'[k] = call
  <2>1. /\ DOMAIN calls \subseteq DOMAIN calls'
        /\ \A i \in DOMAIN calls : calls'[i] = calls[i]
        /\ \A i \in DOMAIN calls' \ DOMAIN calls : \E n \in 1 .. Len(new) : i = Len(calls) + n /\ calls'[i] = new[n]
        /\ \A n \in 1 .. Len(new) : Len(calls) + n \in DOMAIN calls' /\ calls'[Len(calls) + n] = new[n]
    BY <1>1, <1>4, AddedCalls DEF TypeOK
  <2>2. 1 \in 1 .. Len(new) /\ \A n \in 1 .. Len(new) : n = 1
    BY <1>4
  <2> QED BY <1>4, <2>1, <2>2
<1>6. leaf'.rows = leaf.rows \cup {k}
  BY <1>1, <1>2 DEF Leaf
<1>7. Writing' = {k}
  BY <1>1, <1>3, <1>5 DEF Writing, Open
<1>8. LeafKnown' /\ NoneFailed'
  BY <1>1, <1>3, <1>5, <1>6 DEF RollbackInv, LeafKnown, NoneFailed
<1>9. Snapshots'
  <2> SUFFICES ASSUME NEW j \in leaf.rows PROVE j \in DOMAIN calls /\ Settledly(j)
    BY <1>1, <1>3, <1>5, <1>7 DEF Snapshots, Settledly
  <2>1. j \in DOMAIN calls
    BY DEF RollbackInv, LeafKnown
  <2>2. calls[j] \in Call
    <3> HIDE DEF Call
    <3> QED BY <2>1 DEF TypeOK
  <2>3. CASE calls[j].kind = "action" /\ calls[j].state # "fault"
    <3>1. calls[j].state # "open"
      BY <1>1, <2>1, <2>3 DEF Writing, Open
    <3>2. calls[j].state \in {"ok", "dropped"}
      BY <2>2, <2>3, <3>1 DEF Call
    <3> QED BY <2>1, <2>3, <3>2 DEF Inv, WritesRun, Settledly
  <2> QED BY <2>1, <2>3 DEF RollbackInv, NoneFailed, Settledly
<1> QED BY <1>1, <1>7, <1>8, <1>9 DEF RollbackInv, OneWriter, ReadsCommitted

(* An answer of a POST that failed restores the snapshot of its one write;    *)
(* one that came shows what the server had committed.                        *)
LEMMA SettleRollback ==
    ASSUME Inv, TypeOK, RollbackInv, NEW p \in posts, settle(p)
    PROVE  RollbackInv'
<1> DEFINE landing == {i \in p.ids : Lands(i, p)}
<1>1. /\ posts' = posts \ {p}
      /\ calls' = [i \in DOMAIN calls |->
                      IF i \in p.ids THEN [calls[i] EXCEPT !.state = Settled(i, p)] ELSE calls[i]]
      /\ (landing = {} /\ UNCHANGED leaf) \/ \E i \in landing : leaf' = Landed(i, p)
      /\ UNCHANGED <<life, db>>
  BY DEF settle
<1>2. p \in Post /\ leaf \in Leaf
  BY DEF TypeOK
<1>3. DOMAIN calls' = DOMAIN calls
  BY <1>1
<1>4. \A i \in DOMAIN calls : calls[i] \in Call
  <2> HIDE DEF Call
  <2> QED BY DEF TypeOK
<1>5. \A i \in p.ids : i \in DOMAIN calls /\ Open(i)
  BY DEF Inv, Shapes, InFlightExact
<1>6. \A i \in DOMAIN calls \ p.ids : calls'[i] = calls[i]
  BY <1>1
<1>7. \A i \in p.ids : /\ calls'[i].kind = calls[i].kind /\ calls'[i].before = calls[i].before
                       /\ calls'[i].state = Settled(i, p)
  BY <1>1, <1>4, <1>5 DEF Call
<1>8. Writing' \subseteq Writing /\ Writing \subseteq DOMAIN calls /\ \A i \in Writing' : calls'[i].before = calls[i].before
  BY <1>3, <1>6, <1>7 DEF Writing, Open, Settled
<1>9. \A j \in DOMAIN calls : Settledly(j) => Settledly(j)'
  <2> SUFFICES ASSUME NEW j \in DOMAIN calls, Settledly(j) PROVE Settledly(j)'
    OBVIOUS
  <2>1. CASE j \in db
    BY <1>1, <2>1 DEF Settledly
  <2>2. CASE calls[j].kind = "action" /\ calls[j].state = "dropped"
    <3>1. j \notin p.ids
      BY <1>5, <2>2 DEF Open
    <3> QED BY <1>6, <2>2, <3>1 DEF Settledly
  <2> QED BY <2>1, <2>2 DEF Settledly
<1>10. Snapshots' /\ OneWriter' /\ ReadsCommitted'
  BY <1>1, <1>3, <1>8, <1>9 DEF RollbackInv, Snapshots, OneWriter, ReadsCommitted
<1>11. \A i \in leaf'.rows : i \in DOMAIN calls /\ (i \in db \/ (calls'[i].kind = "action" /\ calls'[i].state # "fault"))
  <2>1. CASE landing = {} /\ UNCHANGED leaf
    <3> SUFFICES ASSUME NEW i \in leaf.rows, i \notin db PROVE i \in DOMAIN calls /\ calls'[i].kind = "action" /\ calls'[i].state # "fault"
      BY <2>1 DEF RollbackInv, LeafKnown
    <3>1. i \in DOMAIN calls /\ calls[i].kind = "action" /\ calls[i].state # "fault"
      BY DEF RollbackInv, LeafKnown, NoneFailed
    <3>2. CASE i \in p.ids
      <4>1. ~Lands(i, p)
        BY <2>1, <3>2
      <4> QED BY <1>7, <3>1, <3>2, <4>1 DEF Lands, Settled
    <3> QED BY <1>6, <3>1, <3>2
  <2>2. ASSUME NEW i \in landing, leaf' = Landed(i, p), p.lost
        PROVE  \A j \in leaf'.rows : j \in DOMAIN calls /\ Settledly(j)'
    <3>1. leaf'.rows = calls[i].before
      BY <1>2, <2>2 DEF Landed, Leaf
    <3>2. i \in Writing
      <4>1. i \in DOMAIN calls /\ Open(i) /\ calls[i] \in Call /\ calls[i].kind # "query"
        BY <1>4, <1>5, <2>2 DEF Lands
      <4>2. calls[i].kind = "action"
        BY <4>1 DEF Call
      <4> QED BY <4>1, <4>2 DEF Writing
    <3> QED BY <1>9, <3>1, <3>2 DEF RollbackInv, Snapshots
  <2>3. ASSUME NEW i \in landing, leaf' = Landed(i, p), ~p.lost
        PROVE  \A j \in leaf'.rows : j \in db /\ j \in DOMAIN calls
    BY <2>3 DEF Landed, RollbackInv, ReadsCommitted, LeafKnown
  <2>4. \A j : Settledly(j)' => j \in db \/ (calls'[j].kind = "action" /\ calls'[j].state # "fault")
    BY <1>1 DEF Settledly
  <2>5. CASE \E i \in landing : leaf' = Landed(i, p)
    <3> PICK i \in landing : leaf' = Landed(i, p)
      BY <2>5
    <3>1. CASE p.lost
      BY <2>2, <2>4, <3>1
    <3>2. CASE ~p.lost
      BY <2>3, <3>2
    <3> QED BY <3>1, <3>2
  <2> QED BY <1>1, <2>1, <2>5
<1>12. db \subseteq DOMAIN calls
  BY DEF RollbackInv, LeafKnown
<1> QED BY <1>1, <1>3, <1>10, <1>11, <1>12 DEF RollbackInv, LeafKnown, NoneFailed
LEMMA InitRollback == Init => RollbackInv
<1> SUFFICES ASSUME Init PROVE RollbackInv
  OBVIOUS
<1>1. DOMAIN calls = {} /\ leaf.rows = {} /\ db = {} /\ posts = {}
  BY DEF Init
<1>2. Writing = {}
  BY <1>1 DEF Writing
<1> QED BY <1>1, <1>2 DEF RollbackInv, LeafKnown, NoneFailed, Snapshots, OneWriter, ReadsCommitted

LEMMA NextRollback ==
    ASSUME Finite, Overlap = FALSE, Inv, TypeOK, RollbackInv, [Next]_vars
    PROVE  RollbackInv'
<1>1. ASSUME UNCHANGED <<calls, leaf, db>>, ReadsCommitted' PROVE RollbackInv'
  <2>1. Writing' = Writing
    BY <1>1 DEF Writing, Open
  <2> QED BY <1>1, <2>1 DEF RollbackInv, LeafKnown, NoneFailed, Snapshots, OneWriter, Settledly
<1>2. ASSUME NEW c \in Controls, mount(c) PROVE RollbackInv'
  BY <1>2, QueryRollback DEF mount, TypeOK
<1>3. ASSUME NEW c \in Controls, fireAction(c) PROVE RollbackInv'
  BY <1>3, ActionRollback
<1>4. ASSUME NEW c \in Controls, destroy(c) PROVE RollbackInv'
  BY <1>1, <1>4 DEF destroy, RollbackInv, ReadsCommitted
<1>5. ASSUME NEW s \in Scopes, SetScope(s) PROVE RollbackInv'
  BY <1>1, <1>5 DEF SetScope, RollbackInv, ReadsCommitted
<1>6. CASE RunEffects
  BY <1>6, QueryRollback DEF RunEffects, TypeOK
<1>7. CASE flush
  BY <1>1, <1>7 DEF flush, RollbackInv, ReadsCommitted
<1>8. ASSUME NEW p \in posts, ServerRuns(p) PROVE RollbackInv'
  <2> DEFINE new == {i \in Wire(p.ids) : calls[i].kind = "action"}
             q == [p EXCEPT !.ran = TRUE, !.rows = db']
  <2>1. db' = db \cup new /\ posts' = (posts \ {p}) \cup {q} /\ UNCHANGED <<calls, leaf>>
    BY <1>8 DEF ServerRuns
  <2>2. p \in Post
    BY DEF TypeOK
  <2>3. q.rows = db'
    BY <2>2 DEF Post
  <2>4. new \subseteq DOMAIN calls
    BY DEF Wire, Inv, Shapes
  <2> HIDE DEF new, q
  <2>5. Writing' = Writing
    BY <2>1 DEF Writing, Open
  <2>6. ReadsCommitted'
    BY <2>1, <2>3 DEF RollbackInv, ReadsCommitted
  <2> QED BY <2>1, <2>4, <2>5, <2>6 DEF RollbackInv, LeafKnown, NoneFailed, Snapshots, OneWriter, Settledly
<1>9. ASSUME NEW p \in posts, Fails(p) PROVE RollbackInv'
  <2>1. p \in Post
    BY DEF TypeOK
  <2>2. ReadsCommitted'
    BY <1>9, <2>1 DEF Fails, Post, RollbackInv, ReadsCommitted
  <2> QED BY <1>1, <1>9, <2>2 DEF Fails
<1>10. ASSUME NEW p \in posts, settle(p) PROVE RollbackInv'
  BY <1>10, SettleRollback
<1>11. CASE UNCHANGED vars
  BY <1>1, <1>11 DEF vars, RollbackInv, ReadsCommitted
<1> QED BY <1>2, <1>3, <1>4, <1>5, <1>6, <1>7, <1>8, <1>9, <1>10, <1>11 DEF Next, Answers, Settles

(* What is shown is committed or under way.                                  *)
LEMMA InvRollsBack == RollbackInv => RollsBack
<1> SUFFICES ASSUME RollbackInv, NEW i \in DOMAIN calls, calls[i].state = "fault", i \in leaf.rows PROVE i \in db
  BY DEF RollsBack
<1> QED BY DEF RollbackInv, NoneFailed

(* Nobody sees a write that failed, at any time: where actions wait for each   *)
(* other, the optimistic patch of data.ts is undone by its own snapshot, and   *)
(* neither a read that lands in between nor a control that is gone brings it   *)
(* back.                                                                   *)
THEOREM FailedWritesUndone == Finite /\ Overlap = FALSE => (Spec => []RollsBack)
<1> SUFFICES ASSUME Finite, Overlap = FALSE PROVE Spec => []RollsBack
  OBVIOUS
<1> DEFINE All == Inv /\ TypeOK /\ RollbackInv
<1>1. Init => All
  BY InitInv, InitTypes, InitRollback
<1>2. All /\ [Next]_vars => All'
  BY NextInv, TypesStep, NextRollback
<1>3. All => RollsBack
  BY InvRollsBack
<1> QED BY <1>1, <1>2, <1>3, PTL DEF Spec

(* The calls, the queue and the tree's leaf keep to their types, however many  *)
(* controls ask and whatever fails.                                          *)
THEOREM TypesKept == Finite => (Spec => []TypeOK)
<1> SUFFICES ASSUME Finite PROVE Spec => []TypeOK
  OBVIOUS
<1>1. Init => Inv /\ TypeOK
  BY InitInv, InitTypes
<1>2. Inv /\ TypeOK /\ [Next]_vars => Inv' /\ TypeOK'
  BY NextInv, TypesStep
<1> QED BY <1>1, <1>2, PTL DEF Spec

(* Only an answer settles calls, all those of its POST at once; if all their   *)
(* controls are gone, none of it lands.                                      *)
LEMMA DeadStep == Finite /\ Inv /\ TypeOK /\ [Next]_vars => DeadStayDeadStep
<1> SUFFICES ASSUME Finite, Inv, TypeOK, [Next]_vars PROVE DeadStayDeadStep
  OBVIOUS
<1> DEFINE answered == {i \in DOMAIN calls : calls'[i].state # calls[i].state}
<1>1. ASSUME NEW p \in posts, settle(p), \A i \in answered : ~isAlive(calls[i].by) PROVE leaf' = leaf
  <2>1. \A i \in p.ids : i \in DOMAIN calls /\ Open(i)
    BY DEF Inv, Shapes, InFlightExact
  <2>2. \A i \in DOMAIN calls : calls[i] \in Call
    <3> HIDE DEF Call
    <3> QED BY DEF TypeOK
  <2>3. \A i \in p.ids : calls'[i].state = Settled(i, p)
    <3> TAKE i \in p.ids
    <3>1. calls'[i] = [calls[i] EXCEPT !.state = Settled(i, p)]
      BY <1>1, <2>1 DEF settle
    <3> QED BY <2>1, <2>2, <3>1 DEF Call
  <2>4. p.ids \subseteq answered
    BY <2>1, <2>3 DEF Open, Settled
  <2>5. {i \in p.ids : Lands(i, p)} = {}
    BY <1>1, <2>4 DEF Lands
  <2> QED BY <1>1, <2>5 DEF settle
<1>2. ASSUME NEW c \in Controls, fireAction(c) PROVE answered = {}
  <2> DEFINE new == <<[by |-> c, kind |-> "action", scope |-> None, before |-> leaf.rows, state |-> "open"]>>
  <2>1. calls' = calls \o new
    BY <1>2 DEF fireAction, request
  <2>2. \A i \in DOMAIN calls : calls'[i] = calls[i]
    <3> HIDE DEF Call
    <3>1. calls \in Seq(Call) /\ new \in Seq({new[1]})
      BY DEF TypeOK
    <3> HIDE DEF new
    <3> QED BY <2>1, <3>1
  <2> QED BY <2>2
<1>3. ASSUME ~ \E p \in posts : settle(p), ~ \E c \in Controls : fireAction(c) PROVE leaf' = leaf
  BY <1>3 DEF Next, Answers, Settles, mount, destroy, SetScope, RunEffects, flush, ServerRuns, Fails, vars
<1> QED BY <1>1, <1>2, <1>3 DEF DeadStayDeadStep

(* What only destroyed controls asked for changes nothing when it comes: the   *)
(* alive gate of the dispatcher holds for the tree, which outlives them.      *)
THEOREM DeadControlsSilent == Finite => (Spec => DeadStayDead)
<1> SUFFICES ASSUME Finite PROVE Spec => DeadStayDead
  OBVIOUS
<1>1. Init => Inv /\ TypeOK
  BY InitInv, InitTypes
<1>2. Inv /\ TypeOK /\ [Next]_vars => Inv' /\ TypeOK'
  BY NextInv, TypesStep
<1>3. Inv /\ TypeOK /\ [Next]_vars => [DeadStayDeadStep]_vars
  BY DeadStep
<1> QED BY <1>1, <1>2, <1>3, PTL DEF Spec, DeadStayDead
=============================================================================

--------------------------- MODULE WebCoreProofs ---------------------------
(* What is proved of the data layer and the shell each by itself holds where    *)
(* they are checked side by side: a behaviour is of one part, and its steps are *)
(* steps of that part. The invariant carries the part's own. The signals, the   *)
(* overlays and the controls are proved here, in the slots they have.         *)
EXTENDS MCWebCore, TLAPS, NaturalsInduction, WellFoundedInduction,
    SequenceTheorems

DataInv == part = "data" => Data!Inv /\ Data!TypeOK /\ Data!RollbackInv
SignalInv == part = "signals" => Signal!Inv
RailInv == part = "shell" => Rail!Inv /\ s12 \in Nat
OverlayInv == part = "overlays" => Overlay!Inv
WidgetInv == part = "widgets" => Widget!Inv

(* A step leaves the part as it is, and is one of the part's own.             *)
LEMMA StepOfPart ==
    ASSUME [Next]_vars
    PROVE  /\ part' = part
           /\ part = "data" => [Data!Next]_(Data!vars)
           /\ part = "signals" => [Signal!Next]_(Signal!vars)
           /\ part = "shell" => [Rail!Next]_(Rail!vars)
           /\ part = "overlays" => [Overlay!Next]_(Overlay!vars)
           /\ part = "widgets" => [Widget!Next]_(Widget!vars)
<1>1. CASE UNCHANGED vars
  BY <1>1 DEF vars, Data!vars, Signal!vars, Rail!vars, Overlay!vars, Widget!vars,
     Widget!keyVars, Widget!listVars, Widget!dateVars, Widget!fieldVars, Widget!helpVars
<1>2. CASE Next
  BY <1>2 DEF Next, DataNext, SignalNext, RailNext, FilterNext, OverlayNext, WidgetNext
<1> QED BY <1>1, <1>2

(* The data layer's invariant, all three parts of it.                        *)
LEMMA InitData == Data!Finite /\ Init => DataInv
  BY Data!InitInv, Data!InitTypes, Data!InitRollback DEF Init, DataInv

(* And each of its steps keeps them.                                         *)
LEMMA NextData == Data!Finite /\ DataInv /\ [Next]_vars => DataInv'
<1> SUFFICES ASSUME Data!Finite, DataInv, [Next]_vars, part' = "data"
             PROVE  Data!Inv' /\ Data!TypeOK' /\ Data!RollbackInv'
  BY DEF DataInv
<1>1. Data!Inv /\ Data!TypeOK /\ Data!RollbackInv /\ [Data!Next]_(Data!vars)
  BY StepOfPart DEF DataInv
<1>2. Data!Inv'
  BY <1>1, Data!NextInv
<1>3. Data!TypeOK'
  BY <1>1, Data!TypesStep
<1>4. Data!RollbackInv'
  BY <1>1, Data!NextRollback
<1> QED BY <1>2, <1>3, <1>4

(* The shell's invariant; the moves are counted.                              *)
LEMMA InitRail == Rail!Sane /\ Init => RailInv
<1>1. Rail!Init => s12 \in Nat
  BY SMT DEF Rail!Init
<1> QED BY <1>1, Rail!InitInv DEF Init, RailInv

LEMMA NextRail == Rail!Sane /\ RailInv /\ [Next]_vars => RailInv'
  BY StepOfPart, Rail!NextInv, Rail!MovesStep DEF RailInv

-----------------------------------------------------------------------------
(* The signals: s1 is what they hold, s2 the computed value, s3 whether it is      *)
(* dirty, s4 what each effect read, s5 what it saw, s6 those pending, s7 the        *)
(* flushes under way, s8 whether one waits, s9 the effects that are gone, s10 the    *)
(* cycle error, s11 the writes from outside.                                   *)
(* A prefix is as long as it says.                                         *)
LEMMA PrefixLen ==
    ASSUME NEW S, NEW s \in Seq(S), NEW k \in Nat, k <= Len(s)
    PROVE  Len(SubSeq(s, 1, k)) = k
<1>1. CASE k = 0
  BY <1>1, SubSeqEmpty
<1>2. CASE k # 0
  BY <1>2
<1> QED BY <1>1, <1>2

(* The flush on top ends.                                                  *)
LEMMA DropTop ==
    ASSUME s7 \in Seq(Signal!Frame), s7 # <<>>
    PROVE  /\ Signal!Lower \in Seq(Signal!Frame)
           /\ Len(Signal!Lower) = Len(s7) - 1
           /\ \A n \in 1 .. Len(s7) - 1 : Signal!Lower[n] = s7[n]
<1>1. Len(s7) - 1 \in Nat /\ Len(s7) - 1 <= Len(s7)
  OBVIOUS
<1>2. Signal!Lower \in Seq(Signal!Frame)
  BY DEF Signal!Lower
<1>3. Len(Signal!Lower) = Len(s7) - 1
  BY <1>1, PrefixLen DEF Signal!Lower
<1>4. \A n \in 1 .. Len(s7) - 1 : Signal!Lower[n] = s7[n]
  BY DEF Signal!Lower
<1> QED BY <1>2, <1>3, <1>4

(* The flush on top is replaced, the others stay.                          *)
LEMMA ReplaceTop ==
    ASSUME s7 \in Seq(Signal!Frame), s7 # <<>>, NEW g \in Signal!Frame
    PROVE  /\ Append(Signal!Lower, g) \in Seq(Signal!Frame)
           /\ Append(Signal!Lower, g) # <<>>
           /\ Len(Append(Signal!Lower, g)) = Len(s7)
           /\ \A n \in 1 .. Len(s7) - 1 : Append(Signal!Lower, g)[n] = s7[n]
           /\ Append(Signal!Lower, g)[Len(s7)] = g
<1>1. Len(s7) \in Nat \ {0}
  OBVIOUS
<1>2. Signal!Lower \in Seq(Signal!Frame) /\ Len(Signal!Lower) = Len(s7) - 1
  BY DropTop
<1>3. \A n \in 1 .. Len(s7) - 1 : Signal!Lower[n] = s7[n]
  BY DropTop
<1> QED BY <1>1, <1>2, <1>3, AppendProperties

(* The flush on top is one of the flushes.                                 *)
LEMMA TopType ==
    ASSUME s7 \in Seq(Signal!Frame), s7 # <<>>
    PROVE  Len(s7) \in Nat \ {0} /\ Signal!Top \in Signal!Frame /\ Signal!Top = s7[Len(s7)]
  BY DEF Signal!Top

(* A write that changes nothing leaves the signals as they are.            *)
LEMMA UnchangedWhole ==
    ASSUME NEW v \in [Sources -> Values], NEW w \in [Sources -> Values], Signal!Changed(v, w) = {}
    PROVE  w = v
  BY DEF Signal!Changed

(* What reads nothing of a change sees the same.                           *)
LEMMA SameSeen ==
    ASSUME Signal!Sound, NEW e \in Effects,
           NEW v \in [Sources -> Values], NEW w \in [Sources -> Values],
           Reads(e, v) \cap Signal!Changed(v, w) = {},
           Signal!Computed \in Reads(e, v) => w = v
    PROVE  Reads(e, w) = Reads(e, v) /\ Signal!Seen(e, w) = Signal!Seen(e, v)
<1>1. Reads(e, v) \subseteq Sources \cup {Signal!Computed}
  BY DEF Signal!Sound
<1>2. \A x \in Reads(e, v) : Signal!Snapshot(v)[x] = Signal!Snapshot(w)[x]
  <2> TAKE x \in Reads(e, v)
  <2>1. CASE x = Signal!Computed
    BY <2>1
  <2>2. CASE x # Signal!Computed
    <3>1. x \in Sources /\ v[x] = w[x]
      BY <1>1, <2>2 DEF Signal!Changed
    <3>2. Signal!Snapshot(v)[x] = v[x] /\ Signal!Snapshot(w)[x] = w[x]
      BY <3>1, <2>2 DEF Signal!Snapshot
    <3> QED BY <3>1, <3>2
  <2> QED BY <2>1, <2>2
<1>3. Reads(e, w) = Reads(e, v)
  BY <1>2 DEF Signal!Sound
<1> QED BY <1>2, <1>3 DEF Signal!Seen

(* A write leaves every effect it does not notify as fresh as it was.      *)
LEMMA FreshStays ==
    ASSUME Signal!Sound, NEW e \in Effects \ s9, NEW d, NEW was \in BOOLEAN,
           NEW v \in [Sources -> Values], NEW w \in [Sources -> Values],
           d[e] = Reads(e, v), was => Signal!Computed \notin d[e],
           e \notin Signal!Notified(Signal!Changed(v, w), was, d)
    PROVE  /\ d[e] = Reads(e, w)
           /\ Signal!Seen(e, w) = Signal!Seen(e, v)
           /\ was \/ Signal!Changed(v, w) # {} => Signal!Computed \notin d[e]
<1>1. d[e] \cap Signal!Changed(v, w) = {}
  BY DEF Signal!Notified
<1>2. Signal!Computed \in d[e] => Signal!Changed(v, w) = {} /\ ~was
  BY DEF Signal!Notified
<1>3. Signal!Computed \in d[e] => w = v
  BY <1>2, UnchangedWhole
<1>4. Reads(e, w) = Reads(e, v) /\ Signal!Seen(e, w) = Signal!Seen(e, v)
  BY <1>1, <1>3, SameSeen
<1> QED BY <1>2, <1>4

-----------------------------------------------------------------------------
(* A write from outside: who is not told has seen what it reads.           *)
LEMMA WriteStep ==
    ASSUME Signal!Sound, Signal!Inv, NEW v \in [Sources -> Values], NEW batch \in BOOLEAN,
           Signal!set(v, batch)
    PROVE  Signal!Inv'
<1> DEFINE changed == Signal!Changed(s1, v)
           marked == s6 \cup Signal!Notified(changed, s3, s4)
<1>1. /\ s7 = <<>>
      /\ batch \/ \E s \in Sources : changed = {s}
      /\ s1' = v
      /\ s3' = (s3 \/ changed # {})
      /\ IF batch /\ marked # {}
         THEN s7' = <<[left |-> marked, passes |-> 1, by |-> None]>> /\ s6' = {} /\ UNCHANGED s8
         ELSE s7' = <<>> /\ s6' = marked /\ s8' = (s8 \/ (changed # {} /\ ~batch))
      /\ UNCHANGED <<s2, s4, s5, s9, s10>>
  BY DEF Signal!set
<1>2. marked \subseteq Effects \ s9 /\ s6 \subseteq marked
  BY DEF Signal!Inv, Signal!TypeOK, Signal!Notified
<1>3. s1 \in [Sources -> Values] /\ s3 \in BOOLEAN /\ s8 \in BOOLEAN
  BY DEF Signal!Inv, Signal!TypeOK
<1>4. changed = {} => v = s1
  BY <1>3, UnchangedWhole
<1>5. \A e \in Effects \ s9 : e \notin marked => e \notin Signal!Notified(changed, s3, s4)
  OBVIOUS
<1>6. ~batch => changed # {}
  BY <1>1
<1> HIDE DEF changed, marked
<1>7. Signal!TypeOK'
  <2>1. s7' \in Seq(Signal!Frame)
    <3> DEFINE first == [left |-> marked, passes |-> 1, by |-> None]
    <3>1. first \in Signal!Frame
      BY <1>2 DEF Signal!Frame, Signal!Sound
    <3>2. s7' = <<first>> \/ s7' = <<>>
      BY <1>1
    <3> HIDE DEF first
    <3>3. <<first>> \in Seq(Signal!Frame) /\ <<>> \in Seq(Signal!Frame)
      BY <3>1
    <3> QED BY <3>2, <3>3, Zenon
  <2>2. s6' \subseteq Effects \ s9'
    BY <1>1, <1>2
  <2>3. ~s3' => s2' = Derive(s1')
    BY <1>1, <1>3, <1>4 DEF Signal!Inv, Signal!TypeOK
  <2> QED BY <1>1, <1>3, <2>1, <2>2, <2>3 DEF Signal!Inv, Signal!TypeOK
<1>8. Signal!MarkedOrFresh'
  <2> SUFFICES ASSUME ~s10', NEW e \in Effects \ s9' PROVE Signal!Marked(e)' \/ Signal!Fresh(e)'
    BY DEF Signal!MarkedOrFresh
  <2>1. CASE e \in marked
    <3>1. CASE batch /\ marked # {}
      <4>1. s7' = <<[left |-> marked, passes |-> 1, by |-> None]>>
        BY <1>1, <3>1
      <4>2. Len(s7') = 1 /\ s7'[1].left = marked
        BY <4>1
      <4> QED BY <2>1, <4>2 DEF Signal!Marked
    <3>2. CASE ~(batch /\ marked # {})
      BY <1>1, <2>1, <3>2 DEF Signal!Marked
    <3> QED BY <3>1, <3>2
  <2>2. CASE e \notin marked
    <3>1. Len(s7) = 0
      BY <1>1
    <3>2. ~Signal!Marked(e)
      BY <1>2, <2>2, <3>1 DEF Signal!Marked
    <3>3. Signal!Fresh(e)
      BY <1>1, <3>2 DEF Signal!Inv, Signal!MarkedOrFresh
    <3>4. e \notin Signal!Notified(Signal!Changed(s1, v), s3, s4) /\ e \in Effects \ s9
      BY <1>1, <1>5, <2>2 DEF changed
    <3>5. s4[e] = Reads(e, s1) /\ (s3 => Signal!Computed \notin s4[e])
      BY <3>3 DEF Signal!Fresh
    <3>6. /\ s4[e] = Reads(e, v)
          /\ Signal!Seen(e, v) = Signal!Seen(e, s1)
          /\ s3 \/ Signal!Changed(s1, v) # {} => Signal!Computed \notin s4[e]
      BY <1>3, <3>4, <3>5, FreshStays
    <3> QED BY <1>1, <3>3, <3>6 DEF Signal!Fresh, changed
  <2> QED BY <2>1, <2>2
<1>9. Signal!FlushIsDue'
  BY <1>1, <1>6 DEF Signal!FlushIsDue
<1>10. Signal!SeenType'
  BY <1>1 DEF Signal!Inv, Signal!SeenType
<1> QED BY <1>7, <1>8, <1>9, <1>10 DEF Signal!Inv

(* An effect runs: it has seen what its sources hold, unless it wrote them; *)
(* whom it did not tell is as fresh as before, and the rest stay marked.   *)
LEMMA RunStep ==
    ASSUME Signal!Sound, Signal!Inv, NEW e \in Effects, s7 # <<>>, e \in Signal!Top.left, Signal!run(e)
    PROVE  Signal!Inv'
<1> DEFINE reads == Reads(e, s1)
           pulled == s3 /\ Signal!Computed \notin reads
           w == Writes(e, s1)
           changed == Signal!Changed(s1, w)
           newDeps == [s4 EXCEPT ![e] = reads]
           marked == s6 \cup Signal!Notified(changed, pulled, newDeps)
           lessE == [Signal!Top EXCEPT !.left = Signal!Top.left \ {e}]
           rest == Append(Signal!Lower, lessE)
           nested == [left |-> marked, passes |-> 1, by |-> e]
<1>1. /\ e \notin s9
      /\ s4' = newDeps
      /\ s5' = [s5 EXCEPT ![e] = Signal!Seen(e, s1)]
      /\ s2' = IF Signal!Computed \in reads /\ s3 THEN Derive(s1) ELSE s2
      /\ s1' = w
      /\ s3' = (pulled \/ changed # {})
      /\ IF e \in Batched /\ marked # {}
         THEN s7' = Append(rest, nested) /\ s6' = {}
         ELSE s7' = rest /\ s6' = marked
      /\ UNCHANGED <<s8, s9, s10>>
  BY DEF Signal!run
<1>2. marked \subseteq Effects \ s9 /\ s6 \subseteq marked
  BY DEF Signal!Inv, Signal!TypeOK, Signal!Notified
<1>3. /\ s1 \in [Sources -> Values] /\ w \in [Sources -> Values]
      /\ pulled \in BOOLEAN /\ reads \subseteq Sources \cup {Signal!Computed}
  BY DEF Signal!Inv, Signal!TypeOK, Signal!Sound
<1>4. changed = {} => w = s1
  BY <1>3, UnchangedWhole
<1>5. s7 \in Seq(Signal!Frame) /\ Len(s7) \in Nat \ {0} /\ Signal!Top \in Signal!Frame /\ Signal!Top = s7[Len(s7)]
  BY TopType DEF Signal!Inv, Signal!TypeOK
<1>6. lessE \in Signal!Frame /\ lessE.left = Signal!Top.left \ {e}
  BY <1>5 DEF Signal!Frame
<1>7. /\ rest \in Seq(Signal!Frame) /\ rest # <<>> /\ Len(rest) = Len(s7)
      /\ \A n \in 1 .. Len(s7) - 1 : rest[n] = s7[n]
      /\ rest[Len(s7)] = lessE
  <2> HIDE DEF lessE
  <2> QED BY <1>5, <1>6, ReplaceTop
<1>8. nested \in Signal!Frame /\ nested.left = marked
  <2>1. 1 \in 0 .. MaxPasses
    BY DEF Signal!Sound
  <2> HIDE DEF marked
  <2> QED BY <1>2, <2>1 DEF Signal!Frame
<1>9. /\ Append(rest, nested) \in Seq(Signal!Frame) /\ Append(rest, nested) # <<>>
      /\ Len(Append(rest, nested)) = Len(rest) + 1
      /\ \A n \in 1 .. Len(rest) : Append(rest, nested)[n] = rest[n]
      /\ Append(rest, nested)[Len(rest) + 1] = nested
  <2> HIDE DEF rest, nested
  <2> QED BY <1>7, <1>8, AppendProperties
<1>10. /\ newDeps \in [Effects -> SUBSET (Sources \cup {Signal!Computed})]
       /\ newDeps[e] = reads
       /\ \A f \in Effects : f # e => newDeps[f] = s4[f]
  BY <1>3 DEF Signal!Inv, Signal!TypeOK
<1>11. /\ s5'[e] = Signal!Seen(e, s1) /\ Signal!SeenType'
       /\ \A f \in Effects : f # e => s5'[f] = s5[f]
  BY <1>1 DEF Signal!Inv, Signal!SeenType
<1>12. \A f \in Effects \ s9 : f \notin marked => f \notin Signal!Notified(Signal!Changed(s1, w), pulled, newDeps)
  OBVIOUS
<1>13. ~pulled /\ changed = {} => s2' = Derive(s1')
  <2>1. ~pulled => IF Signal!Computed \in reads /\ s3 THEN TRUE ELSE s2 = Derive(s1)
    BY DEF Signal!Inv, Signal!TypeOK
  <2> HIDE DEF changed, w
  <2> QED BY <1>1, <1>4, <2>1
<1> HIDE DEF reads, newDeps, marked, lessE, rest, nested
<1>14. Signal!TypeOK'
  <2>1. s7' \in Seq(Signal!Frame)
    BY <1>1, <1>7, <1>9
  <2>2. s6' \subseteq Effects \ s9'
    BY <1>1, <1>2
  <2>3. ~s3' => s2' = Derive(s1')
    BY <1>1, <1>13
  <2>4. s3' \in BOOLEAN
    BY <1>1
  <2>5. s1' \in [Sources -> Values]
    BY <1>1, <1>3
  <2> HIDE DEF pulled, w, changed
  <2> QED BY <1>1, <1>10, <2>1, <2>2, <2>3, <2>4, <2>5 DEF Signal!Inv, Signal!TypeOK
<1>15. \A f \in marked : Signal!Marked(f)'
  <2>1. CASE e \in Batched /\ marked # {}
    <3>1. s7' = Append(rest, nested)
      BY <1>1, <2>1
    <3>2. Len(s7') = Len(rest) + 1 /\ s7'[Len(rest) + 1].left = marked
      BY <1>8, <1>9, <3>1
    <3>3. Len(rest) + 1 \in 1 .. Len(s7')
      BY <1>5, <1>7, <3>2
    <3> QED BY <3>2, <3>3 DEF Signal!Marked
  <2>2. CASE ~(e \in Batched /\ marked # {})
    BY <1>1, <2>2 DEF Signal!Marked
  <2> QED BY <2>1, <2>2
<1>16. \A f \in Effects : f # e /\ Signal!Marked(f) => Signal!Marked(f)'
  <2> SUFFICES ASSUME NEW f \in Effects, f # e, Signal!Marked(f) PROVE Signal!Marked(f)'
    OBVIOUS
  <2>1. CASE f \in s6
    BY <1>2, <1>15, <2>1
  <2>2. ASSUME NEW n \in 1 .. Len(s7), f \in s7[n].left PROVE Signal!Marked(f)'
    <3>1. n \in 1 .. Len(rest) /\ f \in rest[n].left
      <4>1. CASE n = Len(s7)
        BY <1>5, <1>6, <1>7, <2>2, <4>1
      <4>2. CASE n # Len(s7)
        <5>1. n \in 1 .. Len(s7) - 1
          BY <1>5, <4>2
        <5> QED BY <1>7, <2>2, <5>1
      <4> QED BY <4>1, <4>2
    <3>2. n \in 1 .. Len(s7') /\ s7'[n] = rest[n]
      BY <1>1, <1>5, <1>7, <1>9, <3>1
    <3> QED BY <3>1, <3>2 DEF Signal!Marked
  <2> QED BY <2>1, <2>2 DEF Signal!Marked
<1>17. Signal!MarkedOrFresh'
  <2> SUFFICES ASSUME ~s10', NEW f \in Effects \ s9', ~Signal!Marked(f)' PROVE Signal!Fresh(f)'
    BY DEF Signal!MarkedOrFresh
  <2>1. f \in Effects \ s9 /\ f \notin marked
    BY <1>1, <1>15
  <2>2. /\ newDeps[f] = Reads(f, s1)
        /\ s5'[f] = Signal!Seen(f, s1)
        /\ pulled => Signal!Computed \notin newDeps[f]
    <3>1. CASE f = e
      BY <1>10, <1>11, <3>1 DEF reads
    <3>2. CASE f # e
      <4>1. ~Signal!Marked(f)
        BY <1>16, <2>1, <3>2
      <4>2. Signal!Fresh(f)
        BY <1>1, <2>1, <4>1 DEF Signal!Inv, Signal!MarkedOrFresh
      <4> QED BY <1>10, <1>11, <2>1, <3>2, <4>2 DEF Signal!Fresh
    <3> QED BY <3>1, <3>2
  <2>3. f \notin Signal!Notified(Signal!Changed(s1, w), pulled, newDeps)
    BY <1>12, <2>1
  <2> HIDE DEF pulled, w
  <2>4. /\ newDeps[f] = Reads(f, w)
        /\ Signal!Seen(f, w) = Signal!Seen(f, s1)
        /\ pulled \/ Signal!Changed(s1, w) # {} => Signal!Computed \notin newDeps[f]
    BY <1>3, <2>1, <2>2, <2>3, FreshStays
  <2> QED BY <1>1, <2>2, <2>4 DEF Signal!Fresh
<1>18. Signal!FlushIsDue'
  BY <1>1, <1>7, <1>9 DEF Signal!FlushIsDue
<1> QED BY <1>11, <1>14, <1>17, <1>18 DEF Signal!Inv

(* The rest of a pass: a disposed effect is skipped, a running one throws. *)
LEMMA RunNextStep ==
    ASSUME Signal!Sound, Signal!Inv, Signal!RunNext
    PROVE  Signal!Inv'
<1>1. s7 # <<>> /\ s7 \in Seq(Signal!Frame)
  BY DEF Signal!RunNext, Signal!Inv, Signal!TypeOK
<1>2. Len(s7) \in Nat \ {0} /\ Signal!Top \in Signal!Frame /\ Signal!Top = s7[Len(s7)]
  BY <1>1, TopType
<1>3. PICK e \in Signal!Top.left :
        \/ Signal!run(e)
        \/ /\ e \in s9
           /\ s7' = Append(Signal!Lower, [Signal!Top EXCEPT !.left = Signal!Top.left \ {e}])
           /\ UNCHANGED <<s1, s2, s3, s4, s5, s6, s8, s9, s10, s11>>
        \/ /\ e \in Signal!Running \ s9
           /\ s7' = <<>> /\ s10' = TRUE
           /\ UNCHANGED <<s1, s2, s3, s4, s5, s6, s8, s9, s11>>
  BY DEF Signal!RunNext
<1>4. e \in Effects
  BY <1>2 DEF Signal!Frame
<1>5. CASE Signal!run(e)
  BY <1>1, <1>3, <1>4, <1>5, RunStep
<1>6. CASE /\ e \in s9
           /\ s7' = Append(Signal!Lower, [Signal!Top EXCEPT !.left = Signal!Top.left \ {e}])
           /\ UNCHANGED <<s1, s2, s3, s4, s5, s6, s8, s9, s10, s11>>
  <2> DEFINE lessE == [Signal!Top EXCEPT !.left = Signal!Top.left \ {e}]
  <2>1. lessE \in Signal!Frame /\ lessE.left = Signal!Top.left \ {e}
    BY <1>2 DEF Signal!Frame
  <2>2. /\ s7' \in Seq(Signal!Frame) /\ s7' # <<>> /\ Len(s7') = Len(s7)
        /\ \A n \in 1 .. Len(s7) - 1 : s7'[n] = s7[n]
        /\ s7'[Len(s7)] = lessE
    <3>1. s7' = Append(Signal!Lower, lessE)
      BY <1>6
    <3> HIDE DEF lessE
    <3> QED BY <1>1, <2>1, <3>1, ReplaceTop
  <2> HIDE DEF lessE
  <2>3. \A f \in Effects \ s9 : Signal!Marked(f) => Signal!Marked(f)'
    <3> SUFFICES ASSUME NEW f \in Effects \ s9, Signal!Marked(f) PROVE Signal!Marked(f)'
      OBVIOUS
    <3>1. CASE f \in s6
      BY <1>6, <3>1 DEF Signal!Marked
    <3>2. ASSUME NEW n \in 1 .. Len(s7), f \in s7[n].left PROVE Signal!Marked(f)'
      <4>1. CASE n = Len(s7)
        BY <1>2, <1>6, <2>1, <2>2, <3>2, <4>1 DEF Signal!Marked
      <4>2. CASE n # Len(s7)
        <5>1. n \in 1 .. Len(s7) - 1
          BY <1>2, <4>2
        <5> QED BY <2>2, <3>2, <5>1 DEF Signal!Marked
      <4> QED BY <4>1, <4>2
    <3> QED BY <3>1, <3>2 DEF Signal!Marked
  <2>4. Signal!TypeOK'
    BY <1>6, <2>2 DEF Signal!Inv, Signal!TypeOK
  <2>5. Signal!MarkedOrFresh'
    <3> SUFFICES ASSUME ~s10', NEW f \in Effects \ s9' PROVE Signal!Marked(f)' \/ Signal!Fresh(f)'
      BY DEF Signal!MarkedOrFresh
    <3>1. Signal!Marked(f) \/ Signal!Fresh(f)
      BY <1>6 DEF Signal!Inv, Signal!MarkedOrFresh
    <3>2. Signal!Fresh(f) => Signal!Fresh(f)'
      BY <1>6 DEF Signal!Fresh
    <3> QED BY <1>6, <2>3, <3>1, <3>2
  <2> QED BY <1>6, <2>2, <2>4, <2>5 DEF Signal!Inv, Signal!FlushIsDue, Signal!SeenType
<1>7. CASE /\ e \in Signal!Running \ s9
           /\ s7' = <<>> /\ s10' = TRUE
           /\ UNCHANGED <<s1, s2, s3, s4, s5, s6, s8, s9, s11>>
  <2>1. <<>> \in Seq(Signal!Frame)
    OBVIOUS
  <2>2. Signal!TypeOK'
    BY <1>7, <2>1 DEF Signal!Inv, Signal!TypeOK
  <2> QED BY <1>7, <2>2 DEF Signal!Inv, Signal!FlushIsDue, Signal!SeenType, Signal!MarkedOrFresh
<1> QED BY <1>3, <1>5, <1>6, <1>7

(* The end of a pass: the next one takes what is pending, or the flush ends *)
(* with nothing left in it, or it is given up with an error.               *)
LEMMA EndPassStep ==
    ASSUME Signal!Sound, Signal!Inv, Signal!EndPass
    PROVE  Signal!Inv'
<1>1. /\ s7 # <<>> /\ s7 \in Seq(Signal!Frame) /\ Signal!Top.left = {}
      /\ UNCHANGED <<s1, s2, s3, s4, s5, s8, s9>>
  BY DEF Signal!EndPass, Signal!Inv, Signal!TypeOK
<1>2. Len(s7) \in Nat \ {0} /\ Signal!Top \in Signal!Frame /\ Signal!Top = s7[Len(s7)]
  BY <1>1, TopType
<1>3. \A f \in Effects : Signal!Fresh(f) => Signal!Fresh(f)'
  BY <1>1 DEF Signal!Fresh
<1>4. \A f \in Effects : Signal!Marked(f) => f \in s6 \/ \E n \in 1 .. Len(s7) - 1 : f \in s7[n].left
  <2> SUFFICES ASSUME NEW f \in Effects, NEW n \in 1 .. Len(s7), f \in s7[n].left
               PROVE  n \in 1 .. Len(s7) - 1
    BY DEF Signal!Marked
  <2> QED BY <1>1, <1>2
<1>5. CASE s6 = {} /\ s7' = Signal!Lower /\ UNCHANGED <<s6, s10>>
  <2>1. /\ s7' \in Seq(Signal!Frame) /\ Len(s7') = Len(s7) - 1
        /\ \A n \in 1 .. Len(s7) - 1 : s7'[n] = s7[n]
    BY <1>1, <1>5, DropTop
  <2>2. \A f \in Effects : Signal!Marked(f) => Signal!Marked(f)'
    BY <1>4, <1>5, <2>1 DEF Signal!Marked
  <2>3. Signal!TypeOK'
    BY <1>1, <1>5, <2>1 DEF Signal!Inv, Signal!TypeOK
  <2> QED BY <1>1, <1>3, <1>5, <2>2, <2>3 DEF Signal!Inv, Signal!FlushIsDue, Signal!SeenType,
       Signal!MarkedOrFresh
<1>6. CASE /\ s6 # {} /\ Signal!Top.passes < MaxPasses
           /\ s7' = Append(Signal!Lower, [Signal!Top EXCEPT !.left = s6, !.passes = Signal!Top.passes + 1])
           /\ s6' = {}
           /\ UNCHANGED s10
  <2> DEFINE again == [Signal!Top EXCEPT !.left = s6, !.passes = Signal!Top.passes + 1]
  <2>1. again \in Signal!Frame /\ again.left = s6
    <3>1. Signal!Top.passes + 1 \in 0 .. MaxPasses
      BY <1>2, <1>6 DEF Signal!Frame, Signal!Sound
    <3>2. s6 \subseteq Effects
      BY DEF Signal!Inv, Signal!TypeOK
    <3> QED BY <1>2, <3>1, <3>2 DEF Signal!Frame
  <2>2. /\ s7' \in Seq(Signal!Frame) /\ s7' # <<>> /\ Len(s7') = Len(s7)
        /\ \A n \in 1 .. Len(s7) - 1 : s7'[n] = s7[n]
        /\ s7'[Len(s7)] = again
    <3>1. s7' = Append(Signal!Lower, again)
      BY <1>6
    <3> HIDE DEF again
    <3> QED BY <1>1, <2>1, <3>1, ReplaceTop
  <2> HIDE DEF again
  <2>3. \A f \in Effects : Signal!Marked(f) => Signal!Marked(f)'
    <3> SUFFICES ASSUME NEW f \in Effects, Signal!Marked(f) PROVE Signal!Marked(f)'
      OBVIOUS
    <3>1. CASE f \in s6
      BY <1>2, <2>1, <2>2, <3>1 DEF Signal!Marked
    <3>2. ASSUME NEW n \in 1 .. Len(s7) - 1, f \in s7[n].left PROVE Signal!Marked(f)'
      <4>1. n \in 1 .. Len(s7')
        BY <1>2, <2>2
      <4> QED BY <2>2, <3>2, <4>1 DEF Signal!Marked
    <3> QED BY <1>4, <3>1, <3>2
  <2>4. Signal!TypeOK'
    BY <1>1, <1>6, <2>2 DEF Signal!Inv, Signal!TypeOK
  <2> QED BY <1>1, <1>3, <1>6, <2>2, <2>3, <2>4 DEF Signal!Inv, Signal!FlushIsDue, Signal!SeenType,
       Signal!MarkedOrFresh
<1>7. CASE s7' = <<>> /\ s6' = {} /\ s10' = TRUE
  <2>1. <<>> \in Seq(Signal!Frame)
    OBVIOUS
  <2>2. Signal!TypeOK'
    BY <1>1, <1>7, <2>1 DEF Signal!Inv, Signal!TypeOK
  <2> QED BY <1>1, <1>7, <2>2 DEF Signal!Inv, Signal!FlushIsDue, Signal!SeenType, Signal!MarkedOrFresh
<1> QED BY <1>5, <1>6, <1>7 DEF Signal!EndPass

(* The microtask takes all that is pending.                                *)
LEMMA FlushStep ==
    ASSUME Signal!Sound, Signal!Inv, Signal!flush
    PROVE  Signal!Inv'
<1> DEFINE first == [left |-> s6, passes |-> 1, by |-> None]
<1>1. /\ s7 = <<>> /\ ~s8' /\ s8' \in BOOLEAN /\ s6' = {}
      /\ s7' = IF s6 = {} THEN <<>> ELSE <<first>>
      /\ UNCHANGED <<s1, s2, s3, s4, s5, s9, s10>>
  BY DEF Signal!flush
<1>2. first \in Signal!Frame /\ first.left = s6
  BY DEF Signal!Inv, Signal!TypeOK, Signal!Frame, Signal!Sound
<1> HIDE DEF first
<1>3. s7' \in Seq(Signal!Frame)
  BY <1>1, <1>2
<1>4. \A f \in Effects : Signal!Marked(f) => Signal!Marked(f)'
  <2> SUFFICES ASSUME NEW f \in Effects, f \in s6 PROVE Signal!Marked(f)'
    BY <1>1 DEF Signal!Marked
  <2>1. s7' = <<first>>
    BY <1>1
  <2> QED BY <1>2, <2>1 DEF Signal!Marked
<1>5. \A f \in Effects : Signal!Fresh(f) => Signal!Fresh(f)'
  BY <1>1 DEF Signal!Fresh
<1>6. Signal!TypeOK'
  BY <1>1, <1>3 DEF Signal!Inv, Signal!TypeOK
<1> QED BY <1>1, <1>4, <1>5, <1>6 DEF Signal!Inv, Signal!FlushIsDue, Signal!SeenType, Signal!MarkedOrFresh

(* An effect that goes is waited for by nobody.                            *)
LEMMA DisposeStep ==
    ASSUME Signal!Inv, NEW e \in Effects, Signal!dispose(e)
    PROVE  Signal!Inv'
<1>1. /\ s7 = <<>>
      /\ s9' = s9 \cup {e}
      /\ s4' = [s4 EXCEPT ![e] = {}]
      /\ s6' = s6 \ {e}
      /\ UNCHANGED <<s1, s2, s3, s5, s7, s8, s10>>
  BY DEF Signal!dispose
<1>2. \A f \in Effects : f # e => s4'[f] = s4[f]
  BY <1>1 DEF Signal!Inv, Signal!TypeOK
<1>3. \A f \in Effects : f # e /\ Signal!Fresh(f) => Signal!Fresh(f)'
  BY <1>1, <1>2 DEF Signal!Fresh
<1>4. \A f \in Effects : f # e /\ Signal!Marked(f) => Signal!Marked(f)'
  BY <1>1 DEF Signal!Marked
<1>5. Signal!TypeOK'
  BY <1>1 DEF Signal!Inv, Signal!TypeOK
<1>6. Signal!MarkedOrFresh'
  BY <1>1, <1>3, <1>4 DEF Signal!Inv, Signal!MarkedOrFresh
<1> QED BY <1>1, <1>5, <1>6 DEF Signal!Inv, Signal!FlushIsDue, Signal!SeenType
-----------------------------------------------------------------------------
LEMMA BeginSignals == Signal!Sound /\ Signal!Init => Signal!Inv
<1> SUFFICES ASSUME Signal!Sound, Signal!Init PROVE Signal!Inv
  OBVIOUS
<1>1. s1 \in [Sources -> Values]
  BY DEF Signal!Init
<1>2. <<>> \in Seq(Signal!Frame)
  OBVIOUS
<1>3. \A e \in Effects : Reads(e, s1) \subseteq Sources \cup {Signal!Computed}
  BY <1>1 DEF Signal!Sound
<1>4. Signal!TypeOK
  BY <1>1, <1>2, <1>3 DEF Signal!Init, Signal!TypeOK
<1>5. \A e \in Effects : Signal!Fresh(e)
  BY DEF Signal!Init, Signal!Fresh
<1> QED BY <1>4, <1>5 DEF Signal!Init, Signal!Inv, Signal!SeenType, Signal!MarkedOrFresh, Signal!FlushIsDue

LEMMA StepSignals == Signal!Sound /\ Signal!Inv /\ [Signal!Next]_(Signal!vars) => Signal!Inv'
<1> SUFFICES ASSUME Signal!Sound, Signal!Inv, [Signal!Next]_(Signal!vars) PROVE Signal!Inv'
  OBVIOUS
<1>1. ASSUME NEW v \in [Sources -> Values], NEW batch \in BOOLEAN, Signal!set(v, batch) PROVE Signal!Inv'
  BY <1>1, WriteStep
<1>2. CASE Signal!flush
  BY <1>2, FlushStep
<1>3. CASE Signal!RunNext
  BY <1>3, RunNextStep
<1>4. CASE Signal!EndPass
  BY <1>4, EndPassStep
<1>5. ASSUME NEW e \in Effects, Signal!dispose(e) PROVE Signal!Inv'
  BY <1>5, DisposeStep
<1>6. CASE UNCHANGED Signal!vars
  BY <1>6 DEF Signal!vars, Signal!Inv, Signal!TypeOK, Signal!SeenType, Signal!MarkedOrFresh,
       Signal!Marked, Signal!Fresh, Signal!FlushIsDue
<1> QED BY <1>1, <1>2, <1>3, <1>4, <1>5, <1>6 DEF Signal!Next

(* The invariant implies what a reader of the page sees.                   *)
LEMMA MarkedUpToDate == Signal!Inv => Signal!UpToDate
<1> SUFFICES ASSUME Signal!Inv, s7 = <<>>, ~s8, ~s10
             PROVE  s6 = {} /\ \A e \in Effects \ s9 : s5[e] = Signal!Seen(e, s1)
  BY DEF Signal!UpToDate
<1>1. s6 = {}
  BY DEF Signal!Inv, Signal!FlushIsDue
<1>2. Len(s7) = 0
  OBVIOUS
<1>3. \A e \in Effects \ s9 : ~Signal!Marked(e)
  BY <1>1, <1>2 DEF Signal!Marked
<1> QED BY <1>1, <1>3 DEF Signal!Inv, Signal!MarkedOrFresh, Signal!Fresh

(* The invariant where the parts are side by side.                          *)
LEMMA InitSignals == Signal!Sound /\ Init => SignalInv
  BY BeginSignals DEF Init, SignalInv

LEMMA NextSignals == Signal!Sound /\ SignalInv /\ [Next]_vars => SignalInv'
  BY StepOfPart, StepSignals DEF SignalInv

-----------------------------------------------------------------------------
(* The loading indicator counts exactly the calls without an answer            *)
(* (core/dispatch.ts inFlight), for any controls and number of calls.          *)
THEOREM InFlightIsExact == Data!Finite => (Spec => []InFlightExact)
<1> SUFFICES ASSUME Data!Finite PROVE Spec => []InFlightExact
  OBVIOUS
<1>1. Init => DataInv
  BY InitData
<1>2. DataInv /\ [Next]_vars => DataInv'
  BY NextData
<1>3. DataInv => InFlightExact
  BY DEF DataInv, InFlightExact, Data!Inv
<1> QED BY <1>1, <1>2, <1>3, PTL DEF Spec

(* A write answered with success was run, and one that failed is not shown     *)
(* (core/data.ts), while no two writes of one path overlap (Overlap).           *)
THEOREM WritesAreTrue == Data!Finite => (Spec => []WritesTrue)
<1> SUFFICES ASSUME Data!Finite PROVE Spec => []WritesTrue
  OBVIOUS
<1>1. Init => DataInv
  BY InitData
<1>2. DataInv /\ [Next]_vars => DataInv'
  BY NextData
<1>3. DataInv => WritesTrue
  BY Data!InvRollsBack DEF DataInv, WritesTrue, Data!Inv
<1> QED BY <1>1, <1>2, <1>3, PTL DEF Spec

(* With nothing left to run every effect has seen what its sources hold, for    *)
(* any effects that depend on no more than they read (core/signal.ts).          *)
THEOREM EffectsUpToDate == Signal!Sound => (Spec => []UpToDate)
<1> SUFFICES ASSUME Signal!Sound PROVE Spec => []UpToDate
  OBVIOUS
<1>1. Init => SignalInv
  BY InitSignals
<1>2. SignalInv /\ [Next]_vars => SignalInv'
  BY NextSignals
<1>3. SignalInv => UpToDate
  BY MarkedUpToDate DEF SignalInv, UpToDate
<1> QED BY <1>1, <1>2, <1>3, PTL DEF Spec

(* The types of the signals, and that a computed value that is not dirty is the  *)
(* one its sources give (core/signal.ts Computed.get).                          *)
THEOREM SignalsTyped == Signal!Sound => (Spec => [](part = "signals" => Signal!TypeOK))
<1> SUFFICES ASSUME Signal!Sound PROVE Spec => [](part = "signals" => Signal!TypeOK)
  OBVIOUS
<1>1. Init => SignalInv
  BY InitSignals
<1>2. SignalInv /\ [Next]_vars => SignalInv'
  BY NextSignals
<1>3. SignalInv => (part = "signals" => Signal!TypeOK)
  BY DEF SignalInv, Signal!Inv
<1> QED BY <1>1, <1>2, <1>3, PTL DEF Spec

(* The project in scope, the rail's links and the outlet are those of the       *)
(* address, for any projects, screens and moves (shell/app-shell.ts).           *)
THEOREM ShellIsFollowed == Rail!Sane => (Spec => []ShellFollows)
<1> SUFFICES ASSUME Rail!Sane PROVE Spec => []ShellFollows
  OBVIOUS
<1>1. Init => RailInv
  BY InitRail
<1>2. RailInv /\ [Next]_vars => RailInv'
  BY NextRail
<1>3. RailInv => ShellFollows
  BY Rail!InvLinks DEF RailInv, ShellFollows, Rail!Inv
<1> QED BY <1>1, <1>2, <1>3, PTL DEF Spec

-----------------------------------------------------------------------------
(* The overlays: s1 is the dialog, s2 its draft, s3 the titles known, s4 the      *)
(* highlight, s5 the draft as opened, s6 the menu, s7 the text, s8 the timer, s9   *)
(* the search that counts, s10 those superseded, s11 the query listed, s12 whether *)
(* the newest failed, s13 what was saved.                                      *)
(* Nothing is open at first.                                                *)
LEMMA InitOverlays == Overlay!Searchable /\ Overlay!Init => Overlay!Inv
<1> SUFFICES ASSUME Overlay!Searchable, Overlay!Init PROVE Overlay!Inv
  OBVIOUS
<1>1. s6 = FALSE /\ s1.open = FALSE /\ s1.prompting = FALSE
  BY DEF Overlay!Init
<1>2. Overlay!TypeOK
  BY <1>1 DEF Overlay!Init, Overlay!TypeOK, Overlay!Searchable
<1> QED BY <1>1, <1>2 DEF Overlay!Inv, Overlay!SearchOfText, Overlay!TitlesKnown, Overlay!ListMatches

(* The highlight goes round the ends of the list.                           *)
LEMMA RoundEnds ==
    ASSUME NEW n \in Nat \ {0}, NEW h \in Nat, NEW d \in {-1, 1}
    PROVE  ((h - 1 + d) % n) + 1 \in 1 .. n
  OBVIOUS

(* What the server finds is a list of cards.                                *)
LEMMA HitsKnown ==
    ASSUME Overlay!Searchable, NEW q \in Queries
    PROVE  /\ Hits(q) \in Seq(Overlay!Cards) /\ Overlay!Range(Hits(q)) \subseteq Overlay!Cards
           /\ Len(Hits(q)) \in Nat /\ DOMAIN Hits(q) = 1 .. Len(Hits(q))
           /\ Hits(q) # <<>> => 1 \in DOMAIN Hits(q)
           /\ \A i \in DOMAIN Hits(q) : Hits(q)[i] \in Overlay!Range(Hits(q))
<1>1. Hits(q) \in Seq(Overlay!Cards)
  BY DEF Overlay!Searchable
<1> QED BY <1>1 DEF Overlay!Range

(* The picker closes, and with it what it waited for.                       *)
LEMMA CloseMenuKeeps ==
    ASSUME Overlay!Searchable, Overlay!Inv, Overlay!CloseMenu, s1' \in [open : BOOLEAN, prompting : BOOLEAN],
           s1'.prompting => s1'.open, s2' \subseteq Overlay!Cards, UNCHANGED <<s3, s5, s13>>,
           s1'.open => s2' \subseteq s3
    PROVE  Overlay!Inv'
  BY DEF Overlay!CloseMenu, Overlay!Supersede, Overlay!Inv, Overlay!TypeOK, Overlay!SearchOfText,
       Overlay!TitlesKnown, Overlay!ListMatches, Overlay!Searchable

(* The dialog changes beside a picker that stays as it is.                  *)
LEMMA DialogKeeps ==
    ASSUME Overlay!Searchable, Overlay!Inv, UNCHANGED Overlay!pickerVars, s1' \in [open : BOOLEAN, prompting : BOOLEAN],
           s1'.prompting => s1'.open, UNCHANGED s2, s3' \subseteq Overlay!Cards,
           s5' \subseteq Overlay!Cards, s13' \subseteq Overlay!Cards,
           s6 => s1'.open /\ ~s1'.prompting /\ UNCHANGED s3,
           s1'.open => s2 \subseteq s3'
    PROVE  Overlay!Inv'
  BY DEF Overlay!pickerVars, Overlay!Inv, Overlay!TypeOK, Overlay!SearchOfText, Overlay!TitlesKnown,
       Overlay!ListMatches, Overlay!Searchable

(* Opening, typing and the timer: each makes the newest search that of the text. *)
LEMMA PickerStep ==
    ASSUME Overlay!Searchable, Overlay!Inv, 
           Overlay!openMenu \/ Overlay!fire \/ Overlay!closeMenu \/ \E q \in Queries : Overlay!type(q)
    PROVE  Overlay!Inv'
<1>1. CASE Overlay!openMenu
  BY <1>1 DEF Overlay!openMenu, Overlay!load, Overlay!dialogVars, Overlay!Inv, Overlay!TypeOK,
       Overlay!SearchOfText, Overlay!TitlesKnown, Overlay!ListMatches, Overlay!Searchable
<1>2. CASE Overlay!fire
  BY <1>2 DEF Overlay!fire, Overlay!load, Overlay!dialogVars, Overlay!Inv, Overlay!TypeOK, Overlay!SearchOfText,
       Overlay!TitlesKnown, Overlay!ListMatches, Overlay!Searchable
<1>3. CASE Overlay!closeMenu
  BY <1>3, CloseMenuKeeps DEF Overlay!closeMenu, Overlay!dialogVars, Overlay!Inv, Overlay!TypeOK, Overlay!ListMatches
<1>4. ASSUME NEW q \in Queries, Overlay!type(q) PROVE Overlay!Inv'
  BY <1>4 DEF Overlay!type, Overlay!dialogVars, Overlay!Inv, Overlay!TypeOK, Overlay!SearchOfText,
       Overlay!TitlesKnown, Overlay!ListMatches, Overlay!Searchable
<1> QED BY <1>1, <1>2, <1>3, <1>4

(* An answer: the newest search's is listed, any other only adds titles.    *)
LEMMA DeliverStep ==
    ASSUME Overlay!Searchable, Overlay!Inv, NEW q \in Queries, NEW ok \in BOOLEAN, Overlay!deliver(q, ok)
    PROVE  Overlay!Inv'
<1>1. q # None /\ Overlay!Range(Hits(q)) \subseteq Overlay!Cards /\ (Hits(q) # <<>> => 1 \in DOMAIN Hits(q))
  BY HitsKnown DEF Overlay!Searchable
<1>2. UNCHANGED <<s6, s7, s8, s1, s2, s5, s13>> /\ s3 \subseteq s3'
  BY DEF Overlay!deliver
<1>3. CASE q = s9 /\ s9' = None
  <2>1. /\ s11' = (IF s6 /\ ok THEN q ELSE s11) /\ s4' = (IF s6 /\ ok THEN 1 ELSE s4)
        /\ s3' = (IF ok THEN s3 \cup Overlay!Range(Hits(q)) ELSE s3) /\ s12' = ~ok /\ s10' \subseteq s10
    BY <1>1, <1>3 DEF Overlay!deliver
  <2>2. Overlay!TypeOK'
    BY <1>1, <1>2, <1>3, <2>1 DEF Overlay!Inv, Overlay!TypeOK
  <2>3. Overlay!SearchOfText'
    BY <1>2, <1>3 DEF Overlay!Inv, Overlay!SearchOfText
  <2>4. CASE s6 /\ ok
    BY <1>1, <1>2, <1>3, <2>1, <2>2, <2>3, <2>4 DEF Overlay!Inv, Overlay!SearchOfText, Overlay!TitlesKnown,
         Overlay!ListMatches
  <2>5. CASE ~(s6 /\ ok)
    <3>1. s11' = s11 /\ s4' = s4 /\ (s6 => s12')
      BY <2>1, <2>5
    <3>2. Overlay!TitlesKnown'
      BY <1>2, <3>1 DEF Overlay!Inv, Overlay!TitlesKnown
    <3>3. Overlay!ListMatches'
      BY <1>2, <3>1 DEF Overlay!Inv, Overlay!ListMatches
    <3> QED BY <2>2, <2>3, <3>2, <3>3 DEF Overlay!Inv
  <2> QED BY <2>4, <2>5
<1>4. CASE /\ s10' = s10 \ {q} /\ UNCHANGED <<s4, s9, s11, s12>>
           /\ s3' \subseteq s3 \cup Overlay!Range(Hits(q))
  <2>1. Overlay!TypeOK'
    BY <1>1, <1>2, <1>4 DEF Overlay!Inv, Overlay!TypeOK
  <2>2. Overlay!SearchOfText' /\ Overlay!TitlesKnown' /\ Overlay!ListMatches'
    BY <1>2, <1>4 DEF Overlay!Inv, Overlay!SearchOfText, Overlay!TitlesKnown, Overlay!ListMatches
  <2> QED BY <2>1, <2>2 DEF Overlay!Inv
<1> QED BY <1>3, <1>4 DEF Overlay!deliver

(* A choice is one of the list, so its title is known.                      *)
LEMMA ChoiceStep ==
    ASSUME Overlay!Searchable, Overlay!Inv, Overlay!Enter \/ Overlay!moveHighlight(1) \/ Overlay!moveHighlight(-1)
           \/ \E c \in Overlay!Cards : Overlay!selectOption(c) \/ Overlay!removeValue(c)
    PROVE  Overlay!Inv'
<1>1. ASSUME s6, NEW c \in s3, Overlay!addValue(c) PROVE Overlay!Inv'
  <2>1. s1.open /\ c \in Overlay!Cards /\ s2 \subseteq s3
    BY <1>1 DEF Overlay!Inv, Overlay!TypeOK, Overlay!SearchOfText, Overlay!ListMatches
  <2> QED BY <1>1, <2>1, CloseMenuKeeps DEF Overlay!addValue, Overlay!Inv, Overlay!TypeOK
<1>2. CASE Overlay!Enter
  <2>1. s11 \in Queries /\ Overlay!Range(Hits(s11)) \subseteq s3
    BY <1>2 DEF Overlay!Enter, Overlay!Inv, Overlay!TitlesKnown
  <2>2. Hits(s11)[s4] \in s3
    BY <1>2, <2>1, HitsKnown DEF Overlay!Enter
  <2> QED BY <1>1, <1>2, <2>2 DEF Overlay!Enter
<1>3. ASSUME NEW c \in Overlay!Cards, Overlay!selectOption(c) PROVE Overlay!Inv'
  BY <1>1, <1>3 DEF Overlay!selectOption, Overlay!Inv, Overlay!TitlesKnown
<1>4. ASSUME NEW d \in {-1, 1}, Overlay!moveHighlight(d) PROVE Overlay!Inv'
  <2>1. s11 \in Queries /\ s4 \in Nat /\ Hits(s11) # <<>>
    BY <1>4 DEF Overlay!moveHighlight, Overlay!Inv, Overlay!TitlesKnown, Overlay!TypeOK
  <2>2. Len(Hits(s11)) \in Nat \ {0} /\ DOMAIN Hits(s11) = 1 .. Len(Hits(s11))
    BY <2>1, HitsKnown
  <2>3. s4' \in DOMAIN Hits(s11)
    BY <1>4, <2>1, <2>2, RoundEnds DEF Overlay!moveHighlight
  <2> QED BY <1>4, <2>2, <2>3 DEF Overlay!moveHighlight, Overlay!dialogVars, Overlay!Inv, Overlay!TypeOK,
       Overlay!SearchOfText, Overlay!TitlesKnown, Overlay!ListMatches
<1>5. ASSUME NEW c \in Overlay!Cards, Overlay!removeValue(c) PROVE Overlay!Inv'
  <2>1. s1.open /\ s2 \subseteq s3 /\ s2' = s2 \ {c} /\ UNCHANGED <<s1, s3, s5, s13>>
    BY <1>5 DEF Overlay!removeValue, Overlay!Inv, Overlay!ListMatches
  <2>2. CASE s6 /\ Overlay!CloseMenu
    BY <2>1, <2>2, CloseMenuKeeps DEF Overlay!Inv, Overlay!TypeOK
  <2>3. CASE UNCHANGED Overlay!pickerVars
    BY <2>1, <2>3 DEF Overlay!pickerVars, Overlay!Inv, Overlay!TypeOK, Overlay!SearchOfText, Overlay!TitlesKnown,
         Overlay!ListMatches
  <2> QED BY <1>5, <2>2, <2>3 DEF Overlay!removeValue
<1> QED BY <1>2, <1>3, <1>4, <1>5

(* The dialog's own buttons and Escape.                                     *)
LEMMA DialogStep ==
    ASSUME Overlay!Searchable, Overlay!Inv,
           Overlay!open \/ Overlay!ClickClose \/ Overlay!Escape \/ Overlay!Keep \/ Overlay!Discard \/ Overlay!Save
    PROVE  Overlay!Inv'
<1>t. /\ s1 \in [open : BOOLEAN, prompting : BOOLEAN] /\ (s1.prompting => s1.open)
      /\ s2 \subseteq Overlay!Cards /\ s13 \subseteq Overlay!Cards
      /\ s3 \subseteq Overlay!Cards /\ s5 \subseteq Overlay!Cards
      /\ (s1.open => s2 \subseteq s3) /\ (s6 => s1.open /\ ~s1.prompting)
  BY DEF Overlay!Inv, Overlay!TypeOK, Overlay!ListMatches, Overlay!SearchOfText
<1>1. CASE Overlay!open
  BY <1>1, <1>t DEF Overlay!open, Overlay!pickerVars, Overlay!Inv, Overlay!TypeOK, Overlay!SearchOfText,
       Overlay!TitlesKnown, Overlay!ListMatches
<1>2. ASSUME Overlay!request
      PROVE  /\ s1' \in [open : BOOLEAN, prompting : BOOLEAN] /\ (s1'.prompting => s1'.open)
             /\ (s1'.open => s2 \subseteq s3) /\ UNCHANGED <<s2, s3, s5, s13>>
  <2>1. CASE s1' = [s1 EXCEPT !.prompting = TRUE]
    BY <1>2, <1>t, <2>1 DEF Overlay!request
  <2>2. CASE s1' = [open |-> FALSE, prompting |-> FALSE]
    BY <1>2, <2>2 DEF Overlay!request
  <2> QED BY <1>2, <2>1, <2>2 DEF Overlay!request, Overlay!Close
<1>3. CASE Overlay!ClickClose
  <2>1. CASE s6 /\ Overlay!CloseMenu
    BY <1>3, <1>2, <1>t, <2>1, CloseMenuKeeps DEF Overlay!ClickClose
  <2>2. CASE ~s6 /\ UNCHANGED Overlay!pickerVars
    BY <1>3, <1>2, <1>t, <2>2, DialogKeeps DEF Overlay!ClickClose
  <2> QED BY <1>3, <2>1, <2>2 DEF Overlay!ClickClose
<1>4. CASE Overlay!Escape
  <2>1. CASE s6 /\ Overlay!CloseMenu /\ UNCHANGED Overlay!dialogVars
    BY <1>t, <2>1, CloseMenuKeeps DEF Overlay!dialogVars
  <2>2. CASE ~s6 /\ s1' = [s1 EXCEPT !.prompting = FALSE] /\ UNCHANGED <<s2, s3, s5, s13>>
             /\ UNCHANGED Overlay!pickerVars /\ s1.prompting
    BY <1>t, <2>2, DialogKeeps
  <2>3. CASE ~s6 /\ Overlay!request /\ UNCHANGED Overlay!pickerVars
    BY <1>2, <1>t, <2>3, DialogKeeps
  <2> QED BY <1>4, <2>1, <2>2, <2>3 DEF Overlay!Escape
<1>5. CASE Overlay!Keep
  BY <1>5, <1>t, DialogKeeps DEF Overlay!Keep
<1>6. CASE Overlay!Discard
  BY <1>6, <1>t, DialogKeeps DEF Overlay!Discard, Overlay!Close
<1>7. CASE Overlay!Save
  BY <1>7, <1>t, DialogKeeps DEF Overlay!Save, Overlay!Close
<1> QED BY <1>1, <1>3, <1>4, <1>5, <1>6, <1>7

(* Together: every step of the dialog and its picker.                       *)
LEMMA NextOverlays == Overlay!Searchable /\ Overlay!Inv /\ [Overlay!Next]_(Overlay!vars) => Overlay!Inv'
<1> SUFFICES ASSUME Overlay!Searchable, Overlay!Inv, [Overlay!Next]_(Overlay!vars) PROVE Overlay!Inv'
  OBVIOUS
<1>1. CASE UNCHANGED Overlay!vars
  BY <1>1 DEF Overlay!vars, Overlay!Inv, Overlay!TypeOK, Overlay!SearchOfText, Overlay!TitlesKnown,
       Overlay!ListMatches
<1>2. CASE Overlay!Next
  BY <1>2, PickerStep, DeliverStep, ChoiceStep, DialogStep DEF Overlay!Next
<1> QED BY <1>1, <1>2

(* Whatever closes a changed dialog without its prompt takes the draft.     *)
LEMMA DraftStep == [Overlay!Next]_(Overlay!vars) => Overlay!DraftGuardedStep
<1> SUFFICES ASSUME [Overlay!Next]_(Overlay!vars), s1.open, Overlay!isDirty, ~s1'.open, ~s1.prompting
             PROVE  s13' = s2
  BY DEF Overlay!DraftGuardedStep
<1>1. ~Overlay!request
  <2> SUFFICES ASSUME Overlay!request PROVE FALSE
    OBVIOUS
  <2>1. s1' = [s1 EXCEPT !.prompting = TRUE]
    BY DEF Overlay!request
  <2> QED BY <2>1
<1>2. s1' # s1
  OBVIOUS
<1>3. Overlay!Next
  BY <1>2 DEF Overlay!vars
<1>4. ~Overlay!open /\ ~Overlay!Keep /\ ~Overlay!Discard /\ ~Overlay!ClickClose
  BY <1>1 DEF Overlay!open, Overlay!Keep, Overlay!Discard, Overlay!ClickClose
<1>5. ~Overlay!Escape
  BY <1>1, <1>2 DEF Overlay!Escape, Overlay!dialogVars
<1>6. /\ ~Overlay!openMenu /\ ~Overlay!fire /\ ~Overlay!closeMenu /\ ~Overlay!Enter
      /\ \A d \in {-1, 1} : ~Overlay!moveHighlight(d)
  BY <1>2 DEF Overlay!openMenu, Overlay!fire, Overlay!closeMenu, Overlay!Enter, Overlay!addValue,
       Overlay!moveHighlight, Overlay!dialogVars
<1>7. \A q \in Queries : ~Overlay!type(q) /\ ~Overlay!deliver(q, TRUE) /\ ~Overlay!deliver(q, FALSE)
  BY <1>2 DEF Overlay!type, Overlay!deliver, Overlay!dialogVars
<1>8. \A c \in Overlay!Cards : ~Overlay!selectOption(c) /\ ~Overlay!removeValue(c)
  BY <1>2 DEF Overlay!selectOption, Overlay!addValue, Overlay!removeValue
<1> QED BY <1>3, <1>4, <1>5, <1>6, <1>7, <1>8 DEF Overlay!Next, Overlay!Save

-----------------------------------------------------------------------------
(* The controls: s1 tells which; s2 to s6 are the keyboard's body, layout, active,  *)
(* prefix and ran; s7 to s12 the list's total, scrollTop, height, pool, win and    *)
(* events; s13 to s15 the date picker's value, cursor and grid; s16 to s18 the     *)
(* field's row, stored and saves; s19 to s23 the help's topic, help, content,      *)
(* calls and asked.                                                            *)
(* Division, as the list and the pool do it.                                *)
LEMMA Division ==
    ASSUME NEW r \in Nat \ {0}, NEW x \in Int
    PROVE  /\ x \div r \in Int /\ (x \div r) * r <= x /\ x < (x \div r) * r + r
  OBVIOUS

(* A product is cancelled.                                                  *)
LEMMA TimesLess ==
    ASSUME NEW r \in Nat \ {0}, NEW a \in Int, NEW b \in Int, a * r < b * r
    PROVE  a < b
  OBVIOUS

(* The rows a viewport needs, and the pool that has them; a taller one needs no fewer. *)
LEMMA RowsNeeded ==
    ASSUME Widget!Usual, NEW h \in Nat
    PROVE  /\ Widget!Ceil(h, RowHeight) \in Nat /\ h <= Widget!Ceil(h, RowHeight) * RowHeight
           /\ Widget!wantRows(h) \in Nat /\ Widget!wantRows(h) <= Widget!poolSize(h) /\ Widget!poolSize(h) \in Nat
           /\ Widget!wantRows(h) = Widget!Ceil(h, RowHeight) + 2 * Overscan
           /\ \A k \in Nat : h <= k => Widget!poolSize(h) <= Widget!poolSize(k)
<1>1. RowHeight \in Nat \ {0} /\ Overscan \in Nat
  BY DEF Widget!Usual
<1>2. ASSUME NEW k \in Nat
      PROVE  Widget!Ceil(k, RowHeight) \in Nat /\ k <= Widget!Ceil(k, RowHeight) * RowHeight
             /\ (Widget!Ceil(k, RowHeight) - 1) * RowHeight < k
  <2> DEFINE c == (k + RowHeight - 1) \div RowHeight
  <2>1. c \in Int /\ c * RowHeight <= k + RowHeight - 1 /\ k + RowHeight - 1 < c * RowHeight + RowHeight
    BY <1>1, Division
  <2> HIDE DEF c
  <2>2. k <= c * RowHeight
    BY <1>1, <2>1
  <2>3. c >= 0
    <3>1. (-1) * RowHeight = -RowHeight /\ -1 \in Int
      BY <1>1
    <3>2. (-1) * RowHeight < c * RowHeight
      BY <1>1, <2>1, <2>2, <3>1
    <3>3. -1 < c
      BY <1>1, <2>1, <3>1, <3>2, TimesLess
    <3> QED BY <2>1, <3>3
  <2>4. (c - 1) * RowHeight = c * RowHeight - RowHeight
    BY <1>1, <2>1
  <2> QED BY <1>1, <2>1, <2>2, <2>3, <2>4 DEF Widget!Ceil, c
<1>3. ASSUME NEW k \in Nat, h <= k PROVE Widget!Ceil(h, RowHeight) <= Widget!Ceil(k, RowHeight)
  <2>1. (Widget!Ceil(h, RowHeight) - 1) * RowHeight < Widget!Ceil(k, RowHeight) * RowHeight
    BY <1>1, <1>2, <1>3
  <2>2. Widget!Ceil(h, RowHeight) \in Nat /\ Widget!Ceil(k, RowHeight) \in Nat
    BY <1>2
  <2>3. Widget!Ceil(h, RowHeight) - 1 < Widget!Ceil(k, RowHeight)
    BY <1>1, <2>1, <2>2, TimesLess
  <2> QED BY <2>2, <2>3
<1> QED BY <1>1, <1>2, <1>3 DEF Widget!wantRows, Widget!poolSize

(* The window lies within the rows, and has no more than the viewport needs. *)
LEMMA WindowWithin ==
    ASSUME Widget!Usual, NEW top \in Nat, NEW h \in Nat, NEW n \in Nat
    PROVE  LET w == Widget!computeWindow(top, h, n) IN
           /\ w.first \in Nat /\ w.count \in Nat /\ w.first + w.count <= n /\ w.count <= Widget!wantRows(h)
<1>0. RowHeight \in Nat \ {0} /\ Overscan \in Nat
  BY DEF Widget!Usual
<1>1. /\ RowHeight \in Nat \ {0} /\ Overscan \in Nat /\ n * RowHeight \in Nat
      /\ Widget!wantRows(h) \in Nat
  BY <1>0, RowsNeeded
<1> DEFINE clamped == Widget!Least(Widget!Most(top, 0), Widget!Most(0, n * RowHeight - h))
           first == Widget!Most(0, Widget!Least(clamped \div RowHeight - Overscan, n - 1))
<1>2. clamped \in Nat
  BY <1>1 DEF Widget!Least, Widget!Most
<1>3. clamped \div RowHeight \in Int
  BY <1>1, <1>2, Division
<1>4. first \in Nat /\ (n # 0 => first <= n - 1)
  BY <1>1, <1>3 DEF Widget!Least, Widget!Most
<1>5. CASE n = 0
  BY <1>1, <1>5 DEF Widget!computeWindow
<1>6. CASE n # 0
  <2>1. Widget!computeWindow(top, h, n) =
        [first |-> first, count |-> Widget!Most(0, Widget!Least(Widget!wantRows(h), n - first))]
    BY <1>6 DEF Widget!computeWindow
  <2> HIDE DEF first, clamped
  <2> QED BY <1>1, <1>4, <1>6, <2>1 DEF Widget!Least, Widget!Most
<1> QED BY <1>5, <1>6

(* Every row in view, to the last partly visible one, is in the window.     *)
LEMMA WindowCovers ==
    ASSUME Widget!Usual, NEW h \in Nat, NEW n \in Nat, NEW top \in 0 .. Widget!ScrollEnd(h, n), NEW i \in 0 .. n - 1,
           (i + 1) * RowHeight > top, i * RowHeight < top + h
    PROVE  LET w == Widget!computeWindow(top, h, n) IN w.first <= i /\ i < w.first + w.count
<1>1. /\ RowHeight \in Nat \ {0} /\ Overscan \in Nat \ {0} /\ n * RowHeight \in Nat /\ top \in Nat
      /\ Widget!ScrollEnd(h, n) \in Nat /\ top <= Widget!ScrollEnd(h, n) /\ n # 0 /\ i \in Nat /\ i <= n - 1
  BY DEF Widget!Usual, Widget!ScrollEnd, Widget!Most
<1> DEFINE at == top \div RowHeight
           first == Widget!Most(0, Widget!Least(at - Overscan, n - 1))
           rows == Widget!Ceil(h, RowHeight)
<1>2. Widget!Least(Widget!Most(top, 0), Widget!Most(0, n * RowHeight - h)) = top
  BY <1>1 DEF Widget!Least, Widget!Most, Widget!ScrollEnd
<1>3. Widget!computeWindow(top, h, n) =
        [first |-> first, count |-> Widget!Most(0, Widget!Least(Widget!wantRows(h), n - first))]
  BY <1>1, <1>2 DEF Widget!computeWindow
<1>4. at \in Int /\ at * RowHeight <= top /\ top < at * RowHeight + RowHeight
  BY <1>1, Division
<1>5. rows \in Nat /\ h <= rows * RowHeight /\ Widget!wantRows(h) = rows + 2 * Overscan
  BY RowsNeeded
<1> HIDE DEF at, rows
<1>6. at < i + 1
  BY <1>1, <1>4, TimesLess
<1>7. i < at + 1 + rows
  <2>1. (at + 1 + rows) * RowHeight = at * RowHeight + RowHeight + rows * RowHeight
    BY <1>1, <1>4, <1>5
  <2>2. i * RowHeight < (at + 1 + rows) * RowHeight
    BY <1>1, <1>4, <1>5, <2>1
  <2> QED BY <1>1, <1>4, <1>5, <2>2, TimesLess
<1> QED BY <1>1, <1>3, <1>4, <1>5, <1>6, <1>7 DEF Widget!Least, Widget!Most

(* Each day is of a month: the one before the first that begins after it.   *)
LEMMA MonthOfDay ==
    ASSUME Widget!Usual, NEW d \in Widget!Days
    PROVE  /\ Widget!MonthOf(d) \in Widget!Months
           /\ Firsts[Widget!MonthOf(d)] <= d /\ d < Firsts[Widget!MonthOf(d) + 1]
<1> DEFINE T == {m \in Nat : m \in 1 .. Len(Firsts) /\ d < Firsts[m]}
           R == OpToRel(<, Nat)
<1>1. IsWellFoundedOn(R, Nat)
  BY NatLessThanWellFounded
<1>2. Len(Firsts) \in T
  BY DEF Widget!Usual, Widget!Days
<1>3. PICK m \in T : \A y \in T : ~(<<y, m>> \in R)
  BY <1>1, <1>2, WFMin
<1>4. \A y \in T : ~(y < m)
  BY <1>3 DEF OpToRel
<1>5. m # 1 /\ m - 1 \in Widget!Months
  BY <1>2 DEF Widget!Usual, Widget!Days, Widget!Months
<1>6. m - 1 \notin T
  BY <1>4, <1>5
<1>7. Firsts[m - 1] <= d /\ d < Firsts[(m - 1) + 1]
  BY <1>5, <1>6 DEF Widget!Usual, Widget!Days, Widget!Months
<1> QED BY <1>5, <1>7 DEF Widget!MonthOf

(* Months begin on a day, each after the one before.                        *)
LEMMA MonthBegins ==
    ASSUME Widget!Usual, NEW m \in Widget!Months
    PROVE  /\ Firsts[m] \in Nat /\ Firsts[m + 1] \in Nat /\ Firsts[m] >= 1
           /\ Firsts[m] < Firsts[m + 1] /\ Firsts[m + 1] - Firsts[m] <= 5 * Week + 1
<1>1. /\ m \in 1 .. Len(Firsts) - 1 /\ Len(Firsts) \in Nat /\ Firsts \in Seq(Nat) /\ Firsts[1] = 1
  BY DEF Widget!Usual, Widget!Months
<1>2. m \in 1 .. Len(Firsts) /\ m + 1 \in 1 .. Len(Firsts)
  BY <1>1
<1>3. Firsts[m] \in Nat /\ Firsts[m + 1] \in Nat
  BY <1>1, <1>2
<1>4. CASE m = 1
  BY <1>1, <1>3, <1>4 DEF Widget!Usual
<1>5. CASE m # 1
  <2>1. m - 1 \in Widget!Months /\ m - 1 \in 1 .. Len(Firsts) /\ (m - 1) + 1 = m
    BY <1>1, <1>5 DEF Widget!Months
  <2>2. Firsts[m - 1] < Firsts[(m - 1) + 1] /\ Firsts[m - 1] \in Nat
    BY <1>1, <2>1 DEF Widget!Usual
  <2> QED BY <1>3, <2>1, <2>2 DEF Widget!Usual
<1> QED BY <1>4, <1>5

(* Six weeks from the week of the first show the whole month.               *)
LEMMA GridShowsMonth ==
    ASSUME Widget!Usual, NEW c \in Widget!Days
    PROVE  /\ Widget!monthGrid(c) \in Int /\ Widget!monthGrid(c) > Widget!Shut
           /\ \A d \in Widget!Days : d = c \/ Widget!MonthOf(d) = Widget!MonthOf(c) =>
                  Widget!monthGrid(c) <= d /\ d < Widget!monthGrid(c) + 6 * Week
<1> DEFINE m == Widget!MonthOf(c)
           f == Firsts[m]
           g == Widget!getDay(f)
<1>1. m \in Widget!Months /\ f <= c /\ c < Firsts[m + 1]
  BY MonthOfDay
<1> HIDE DEF m
<1>2. /\ Firsts[m + 1] - f <= 5 * Week + 1 /\ f \in Nat /\ Firsts[m + 1] \in Nat
      /\ f >= 1 /\ Week \in Nat \ {0}
  BY <1>1, MonthBegins DEF Widget!Usual
<1>4. g \in 0 .. Week - 1
  BY <1>2 DEF Widget!getDay
<1>5. Widget!monthGrid(c) = f - g
  BY DEF Widget!monthGrid, m
<1>6. ASSUME NEW d \in Widget!Days, d = c \/ Widget!MonthOf(d) = m PROVE f <= d /\ d < Firsts[m + 1] /\ d \in Int
  <2>1. d \in Int
    BY DEF Widget!Days
  <2> QED BY <1>1, <1>6, <2>1, MonthOfDay DEF m
<1> HIDE DEF f, g
<1> QED BY <1>2, <1>4, <1>5, <1>6 DEF Widget!Shut, m

(* Each control begins empty.                                               *)
LEMMA InitWidgets == Widget!Usual /\ Widget!Init => Widget!Inv
<1> SUFFICES ASSUME Widget!Usual, Widget!Init PROVE Widget!Inv
  OBVIOUS
<1>1. Widget!ActiveMounted
  BY DEF Widget!Init, Widget!ActiveMounted, Widget!Mounted
<1>2. Widget!WindowOfScroll
  <2>1. s7 = 0 /\ s9 = 0 /\ s8 = 0 /\ s10 = Widget!poolSize(0) /\ s11 = Widget!computeWindow(0, 0, 0)
    BY DEF Widget!Init
  <2>2. s11.first + s11.count <= 0
    BY <2>1, WindowWithin
  <2>3. MaxHeight \in Nat /\ 0 \in 0 .. MaxHeight /\ Widget!poolSize(0) <= Widget!poolSize(MaxHeight)
    BY RowsNeeded DEF Widget!Usual
  <2>4. Widget!ScrollEnd(0, 0) = 0
    BY DEF Widget!Usual, Widget!ScrollEnd, Widget!Most
  <2> QED BY <2>1, <2>2, <2>3, <2>4 DEF Widget!WindowOfScroll
<1>3. Widget!GridOfCursor
  <2>1. Len(Firsts) - 1 \in Widget!Months /\ (Len(Firsts) - 1) + 1 = Len(Firsts)
    BY DEF Widget!Usual, Widget!Months
  <2>2. Firsts[Len(Firsts)] \in Nat /\ Firsts[Len(Firsts)] >= 2
    BY <2>1, MonthBegins
  <2>3. 1 \in Widget!Days
    BY <2>2 DEF Widget!Days
  <2> QED BY <2>3 DEF Widget!Init, Widget!GridOfCursor
<1>4. Widget!SaveShown
  <2>1. s17 \in {0, 1} /\ s18 = {}
    BY DEF Widget!Init
  <2>2. /\ s16 \in [kind : {"text", "number", "bool"}, opened : {FALSE}, mounted : {FALSE}, focused : {FALSE},
                    input : {0}, value : {s17}, state : {IF s17 = 0 THEN "unset" ELSE "value"}, cleared : {FALSE}]
    BY DEF Widget!Init
  <2>3. (IF s17 = 0 THEN "unset" ELSE "value") \in {"unset", "value", "pending", "error"} /\ s17 \in Int
    BY <2>1
  <2>4. s16 \in Widget!Row /\ s16.value = s17
    <3> DEFINE state == IF s17 = 0 THEN "unset" ELSE "value"
    <3>1. s16 \in [kind : {"text", "number", "bool"}, opened : {FALSE}, mounted : {FALSE}, focused : {FALSE},
                   input : {0}, value : {s17}, state : {state}, cleared : {FALSE}]
      BY <2>2
    <3>2. state \in {"unset", "value", "pending", "error"}
      BY <2>3
    <3> HIDE DEF state
    <3>3. \A k \in {"text", "number", "bool"}, n \in Int, x \in {"unset", "value", "pending", "error"} :
              [kind |-> k, opened |-> FALSE, mounted |-> FALSE, focused |-> FALSE,
               input |-> 0, value |-> n, state |-> x, cleared |-> FALSE] \in Widget!Row
      BY DEF Widget!Row
    <3>4. PICK k \in {"text", "number", "bool"} :
             s16 = [kind |-> k, opened |-> FALSE, mounted |-> FALSE, focused |-> FALSE,
                    input |-> 0, value |-> s17, state |-> state, cleared |-> FALSE]
      BY <3>1
    <3>5. s16 \in Widget!Row
      BY <2>3, <3>2, <3>3, <3>4
    <3> QED BY <3>1, <3>5
  <2> QED BY <2>1, <2>3, <2>4 DEF Widget!SaveShown, Widget!FieldTrue
<1>5. Widget!TextAwaited
  BY DEF Widget!Init, Widget!TextAwaited, Widget!NoHelp, Widget!HelpOwn
<1> QED BY <1>1, <1>2, <1>3, <1>4, <1>5 DEF Widget!Inv

(* The keyboard: what is active is on the page, also when the layout is swapped. *)
LEMMA KeyboardStep == Widget!Usual /\ Widget!ActiveMounted /\ Widget!KeysNext => Widget!ActiveMounted'
<1> SUFFICES ASSUME Widget!Usual, Widget!ActiveMounted, Widget!KeysNext PROVE Widget!ActiveMounted'
  OBVIOUS
<1>1. ASSUME NEW k, NEW e, Widget!onKeydown(k, e) PROVE Widget!ActiveMounted'
  BY <1>1 DEF Widget!onKeydown, Widget!ActiveMounted, Widget!Mounted, Widget!walkSubtree
<1>2. ASSUME NEW c, Widget!trackActive(c) PROVE Widget!ActiveMounted'
  BY <1>2 DEF Widget!trackActive, Widget!ActiveMounted, Widget!Mounted, Widget!walkSubtree
<1>3. CASE Widget!clearChord
  BY <1>3 DEF Widget!clearChord, Widget!ActiveMounted, Widget!Mounted, Widget!walkSubtree
<1>4. CASE Widget!onBodyMount
  BY <1>4 DEF Widget!onBodyMount, Widget!ActiveMounted, Widget!Mounted, Widget!walkSubtree
<1>5. CASE Widget!dispatchBody
  <2>1. s2' = TRUE /\ s3' = 7 - s3 /\ s4' = Widget!Body /\ s3 \in {3, 4}
    BY <1>5 DEF Widget!dispatchBody, Widget!Usual, Widget!ActiveMounted
  <2> QED BY <2>1 DEF Widget!ActiveMounted, Widget!Mounted, Widget!walkSubtree
<1> QED BY <1>1, <1>2, <1>3, <1>4, <1>5 DEF Widget!KeysNext

(* The list: rows, scrolls and sizes change, and events catch up with them. *)
LEMMA ListStep == Widget!Usual /\ Widget!WindowOfScroll /\ Widget!ListNext => Widget!WindowOfScroll'
<1> SUFFICES ASSUME Widget!Usual, Widget!WindowOfScroll, Widget!ListNext PROVE Widget!WindowOfScroll'
  OBVIOUS
<1>0. /\ MaxRows \in Nat /\ MaxHeight \in Nat /\ RowHeight \in Nat \ {0}
      /\ s7 \in Nat /\ s9 \in Nat /\ s9 <= MaxHeight /\ s8 \in 0 .. Widget!ScrollEnd(s9, s7) /\ s8 \in Nat
      /\ s11.first + s11.count <= s7 /\ s10 <= Widget!poolSize(MaxHeight)
  BY DEF Widget!Usual, Widget!WindowOfScroll
<1>m. \A h, n \in Nat : Widget!ScrollEnd(h, n) \in Nat
  BY <1>0 DEF Widget!ScrollEnd, Widget!Most
<1>1. ASSUME NEW h \in Nat, h <= MaxHeight, NEW p, p <= Widget!poolSize(MaxHeight), NEW top \in Nat, NEW n \in Nat
      PROVE  /\ Widget!Most(p, Widget!computeWindow(top, h, n).count) <= Widget!poolSize(MaxHeight)
             /\ Widget!computeWindow(top, h, n).first + Widget!computeWindow(top, h, n).count <= n
  <2>1. /\ Widget!computeWindow(top, h, n).count \in Nat /\ Widget!computeWindow(top, h, n).count <= Widget!wantRows(h)
        /\ Widget!computeWindow(top, h, n).first + Widget!computeWindow(top, h, n).count <= n
    BY WindowWithin
  <2>2. /\ Widget!wantRows(h) <= Widget!poolSize(MaxHeight) /\ Widget!wantRows(h) \in Nat
        /\ Widget!poolSize(MaxHeight) \in Nat
    <3>1. /\ Widget!wantRows(h) \in Nat /\ Widget!wantRows(h) <= Widget!poolSize(h) /\ Widget!poolSize(h) \in Nat
          /\ Widget!poolSize(h) <= Widget!poolSize(MaxHeight)
      BY <1>0, <1>1, RowsNeeded
    <3>2. Widget!poolSize(MaxHeight) \in Nat
      BY <1>0, RowsNeeded
    <3> QED BY <3>1, <3>2
  <2> QED BY <1>1, <2>1, <2>2 DEF Widget!Most
<1>2. ASSUME NEW n \in 0 .. MaxRows, Widget!setData(n) PROVE Widget!WindowOfScroll'
  <2>1. /\ s7' = n /\ s9' = s9 /\ s11' = Widget!computeWindow(s8, s9, n) /\ s10' = Widget!Most(s10, s11'.count)
        /\ s8' = Widget!Least(s8, Widget!ScrollEnd(s9, n))
        /\ s12' = (IF s8' # s8 THEN s12 \cup {"scroll"} ELSE s12)
    BY <1>2 DEF Widget!setData
  <2>n. n \in Nat
    BY <1>0
  <2>2. n \in Nat /\ Widget!ScrollEnd(s9, n) \in Nat
    BY <1>0, <1>m, <2>n
  <2>3. s8' \in 0 .. Widget!ScrollEnd(s9, n)
    BY <1>0, <2>1, <2>2 DEF Widget!Least
  <2>4. s12' = {} => s11' = Widget!computeWindow(s8', s9, n)
    BY <2>1
  <2>5. s11'.first + s11'.count <= n /\ s10' <= Widget!poolSize(MaxHeight)
    BY <1>0, <1>1, <2>1, <2>2
  <2> QED BY <1>0, <2>1, <2>2, <2>3, <2>4, <2>5 DEF Widget!WindowOfScroll
<1>3. ASSUME NEW t \in 0 .. MaxRows * RowHeight, Widget!scroll(t) PROVE Widget!WindowOfScroll'
  <2>1. t \in 0 .. Widget!ScrollEnd(s9, s7) /\ "scroll" \in s12'
    BY <1>0, <1>m, <1>3 DEF Widget!scroll
  <2> QED BY <1>3, <2>1 DEF Widget!scroll, Widget!WindowOfScroll
<1>4. ASSUME NEW h \in 0 .. MaxHeight, Widget!resize(h) PROVE Widget!WindowOfScroll'
  <2>h. h \in Nat
    BY <1>0
  <2>1. h \in Nat /\ Widget!ScrollEnd(h, s7) \in Nat
    BY <1>0, <1>m, <2>h
  <2>2. s8' \in 0 .. Widget!ScrollEnd(h, s7) /\ "resize" \in s12'
    BY <1>0, <1>4, <2>1 DEF Widget!resize, Widget!Least
  <2> QED BY <1>4, <2>2 DEF Widget!resize, Widget!WindowOfScroll
<1>5. ASSUME NEW least, least <= Widget!poolSize(MaxHeight), Widget!render(least), UNCHANGED <<s7, s8, s9>>
      PROVE  Widget!WindowOfScroll'
  <2>1. s11' = Widget!computeWindow(s8, s9, s7) /\ s10' = Widget!Most(Widget!Most(s10, least), s11'.count)
    BY <1>5 DEF Widget!render
  <2>2. Widget!Most(s10, least) <= Widget!poolSize(MaxHeight)
    BY <1>0, <1>5 DEF Widget!Most
  <2> QED BY <1>0, <1>1, <1>5, <2>1, <2>2 DEF Widget!WindowOfScroll
<1>6. CASE Widget!onScroll
  <2>1. 0 <= Widget!poolSize(MaxHeight)
    BY <1>0, RowsNeeded
  <2> QED BY <1>5, <1>6, <2>1 DEF Widget!onScroll
<1>7. CASE Widget!onResize
  <2>1. Widget!poolSize(s9) <= Widget!poolSize(MaxHeight)
    BY <1>0, RowsNeeded
  <2> QED BY <1>5, <1>7, <2>1 DEF Widget!onResize
<1> QED BY <1>2, <1>3, <1>4, <1>6, <1>7 DEF Widget!ListNext

(* The date picker: wherever the cursor goes, the grid is of its month.     *)
LEMMA DatesStep == Widget!Usual /\ Widget!GridOfCursor /\ Widget!DatesNext => Widget!GridOfCursor'
<1> SUFFICES ASSUME Widget!Usual, Widget!GridOfCursor, Widget!DatesNext PROVE Widget!GridOfCursor'
  OBVIOUS
<1>1. ASSUME NEW d, Widget!Move(d) PROVE Widget!GridOfCursor'
  BY <1>1 DEF Widget!Move, Widget!GridOfCursor, Widget!monthGrid
<1>2. CASE Widget!openMenu
  <2>1. s14' \in Widget!Days
    BY <1>2 DEF Widget!openMenu, Widget!GridOfCursor
  <2> QED BY <1>2, <2>1 DEF Widget!openMenu, Widget!GridOfCursor, Widget!monthGrid
<1>3. CASE Widget!closeDates \/ Widget!clear
  BY <1>3 DEF Widget!closeDates, Widget!clear, Widget!GridOfCursor
<1>4. ASSUME NEW d \in Widget!Days, Widget!pick(d) PROVE Widget!GridOfCursor'
  BY <1>4 DEF Widget!pick, Widget!GridOfCursor
<1> QED BY <1>1, <1>2, <1>3, <1>4 DEF Widget!DatesNext, Widget!moveCursor, Widget!weekEdge, Widget!moveMonth

(* The field: a write is under way for the value shown, or there is none.   *)
LEMMA FieldStep == Widget!Usual /\ Widget!SaveShown /\ Widget!FieldNext => Widget!SaveShown'
<1> SUFFICES ASSUME Widget!Usual, Widget!SaveShown, Widget!FieldNext PROVE Widget!SaveShown'
  OBVIOUS
<1>0. s16 \in Widget!Row /\ s17 \in Int
  BY DEF Widget!SaveShown
<1>1. ASSUME NEW v \in Int, NEW q \in Widget!Row, q.value = s16.value, Widget!commitAttribute(v, q)
      PROVE  Widget!SaveShown'
  <2> DEFINE s == [n |-> IF \E t \in s18 : t.n = 1 THEN 2 ELSE 1, value |-> v, prev |-> s16.value, done |-> FALSE]
  <2>1. s18 = {} /\ s16' = [q EXCEPT !.value = v, !.state = "pending"] /\ s17' = s17 /\ s18' = s18 \cup {s}
    BY <1>1 DEF Widget!commitAttribute, Widget!Usual
  <2>2. s16' \in Widget!Row /\ s16'.value = v
    BY <1>1, <2>1 DEF Widget!Row
  <2>3. s16.value = s17 /\ s16.value \in Int
    BY <1>0, <2>1 DEF Widget!SaveShown, Widget!FieldTrue, Widget!Row
  <2>4. s \in [n : {1, 2}, value : Int, prev : Int, done : BOOLEAN] /\ s.value = v /\ s.prev = s17 /\ s.done = FALSE
    BY <2>3
  <2> HIDE DEF s
  <2> QED BY <1>0, <2>1, <2>2, <2>4 DEF Widget!SaveShown, Widget!FieldTrue
<1>2. ASSUME s16' \in Widget!Row, s16'.value = s16.value, UNCHANGED <<s17, s18>> PROVE Widget!SaveShown'
  BY <1>2 DEF Widget!SaveShown, Widget!FieldTrue
<1>3. ASSUME NEW q \in Widget!Row, q.value = s16.value, Widget!renderText(q) PROVE Widget!SaveShown'
  <2>1. s16.input \in Int
    BY <1>0 DEF Widget!Row
  <2> QED BY <1>1, <1>2, <1>3, <2>1 DEF Widget!renderText, Widget!renderNumber
<1>4. CASE Widget!mountFieldEditor \/ Widget!toggleRow \/ Widget!focusField
  <2>1. s16' \in Widget!Row /\ s16'.value = s16.value
    BY <1>0, <1>4 DEF Widget!mountFieldEditor, Widget!toggleRow, Widget!focusField, Widget!Row
  <2> QED BY <1>2, <1>4, <2>1 DEF Widget!mountFieldEditor, Widget!toggleRow, Widget!focusField
<1>5. CASE Widget!enterField
  BY <1>0, <1>3, <1>5 DEF Widget!enterField
<1>6. CASE Widget!blurField
  <2>1. [s16 EXCEPT !.focused = FALSE] \in Widget!Row /\ [s16 EXCEPT !.focused = FALSE].value = s16.value
    BY <1>0 DEF Widget!Row
  <2> QED BY <1>3, <1>6, <2>1 DEF Widget!blurField
<1>7. CASE Widget!renderBool
  <2>1. /\ 1 - s16.input \in Int /\ [s16 EXCEPT !.input = 1 - s16.input] \in Widget!Row
        /\ [s16 EXCEPT !.input = 1 - s16.input].value = s16.value
    BY <1>0 DEF Widget!Row
  <2> QED BY <1>1, <1>7, <2>1 DEF Widget!renderBool
<1>8. CASE Widget!unassign
  <2>1. [s16 EXCEPT !.cleared = TRUE] \in Widget!Row /\ [s16 EXCEPT !.cleared = TRUE].value = s16.value
    BY <1>0 DEF Widget!Row
  <2>2. Widget!commitAttribute(0, [s16 EXCEPT !.cleared = TRUE]) /\ 0 \in Int
    BY <1>8 DEF Widget!unassign
  <2> QED BY <1>1, <2>1, <2>2
<1>9. ASSUME NEW v \in 0 .. Widget!NotANumber, Widget!typeField(v) PROVE Widget!SaveShown'
  <2>1. s16' \in Widget!Row /\ s16'.value = s16.value
    <3>1. s16' = [s16 EXCEPT !.input = v, !.cleared = FALSE] /\ v \in Int
      BY <1>9 DEF Widget!typeField, Widget!NotANumber
    <3> QED BY <1>0, <3>1 DEF Widget!Row
  <2> QED BY <1>2, <1>9, <2>1 DEF Widget!typeField
<1>10. ASSUME NEW s \in s18
       PROVE  /\ s18 = {s} /\ s \in [n : {1, 2}, value : Int, prev : Int, done : BOOLEAN]
              /\ s16.value = s.value /\ s17 = (IF s.done THEN s.value ELSE s.prev)
  BY DEF Widget!SaveShown
<1>11. ASSUME NEW s \in s18, Widget!serveSave(s) PROVE Widget!SaveShown'
  <2> DEFINE t == [s EXCEPT !.done = TRUE]
  <2>1. s17' = s.value /\ s16' = s16 /\ s18' = {t}
    BY <1>10, <1>11 DEF Widget!serveSave
  <2>2. t \in [n : {1, 2}, value : Int, prev : Int, done : BOOLEAN] /\ t.value = s.value /\ t.done /\ s.value \in Int
    BY <1>10
  <2> HIDE DEF t
  <2> QED BY <1>0, <1>10, <2>1, <2>2 DEF Widget!SaveShown, Widget!FieldTrue
<1>12. ASSUME NEW s \in s18, Widget!confirmCommit(s) PROVE Widget!SaveShown'
  <2>1. s.done /\ s18' = {} /\ s17' = s17
    BY <1>10, <1>12 DEF Widget!confirmCommit
  <2>2. s16' \in Widget!Row /\ s16'.value = s16.value
    BY <1>0, <1>12 DEF Widget!confirmCommit, Widget!Row
  <2> QED BY <1>0, <1>10, <2>1, <2>2 DEF Widget!SaveShown, Widget!FieldTrue
<1>13. ASSUME NEW s \in s18, Widget!rejectCommit(s) PROVE Widget!SaveShown'
  <2>1. ~s.done /\ s18' = {} /\ s17' = s17 /\ s.prev \in Int
        /\ s16' = [s16 EXCEPT !.value = s.prev, !.state = "error", !.cleared = FALSE]
    BY <1>10, <1>13 DEF Widget!rejectCommit
  <2>2. s16' \in Widget!Row /\ s16'.value = s.prev
    BY <1>0, <2>1 DEF Widget!Row
  <2> QED BY <1>0, <1>10, <2>1, <2>2 DEF Widget!SaveShown, Widget!FieldTrue
<1> QED BY <1>4, <1>5, <1>6, <1>7, <1>8, <1>9, <1>11, <1>12, <1>13 DEF Widget!FieldNext

(* The help: a text is asked for only once the last one has come.           *)
LEMMA HelpStep == Widget!Usual /\ Widget!TextAwaited /\ Widget!HelpNext => Widget!TextAwaited'
<1> SUFFICES ASSUME Widget!Usual, Widget!TextAwaited, Widget!HelpNext PROVE Widget!TextAwaited'
  OBVIOUS
<1>0. s20 \in [opened : BOOLEAN, instructions : BOOLEAN]
  BY DEF Widget!TextAwaited
<1>1. ASSUME NEW w \in BOOLEAN, Widget!toggle(w) PROVE Widget!TextAwaited'
  <2>1. s22 = {} /\ s19' = s19
    BY <1>1 DEF Widget!toggle, Widget!Quiet, Widget!Usual
  <2>2. CASE s20.opened /\ s20.instructions = w
    BY <1>0, <1>1, <2>1, <2>2 DEF Widget!toggle, Widget!TextAwaited, Widget!HelpOwn
  <2>3. CASE Widget!applyMode(w)
    <3>1. s20' = [opened |-> TRUE, instructions |-> w]
      BY <2>3 DEF Widget!applyMode
    <3>2. CASE w /\ s19 # 0
      <4>1. s22' = {[n |-> s23, topic |-> s19]}
        BY <2>1, <2>3, <3>2 DEF Widget!applyMode
      <4>2. s20'.opened /\ s20'.instructions /\ s20' \in [opened : BOOLEAN, instructions : BOOLEAN]
        BY <3>1, <3>2
      <4>3. s22' # {} /\ (\A c \in s22' : c.topic = s19') /\ \A c, d \in s22' : c = d
        BY <2>1, <4>1
      <4> QED BY <4>2, <4>3 DEF Widget!TextAwaited, Widget!HelpOwn
    <3>3. CASE ~(w /\ s19 # 0)
      <4>1. s22' = {} /\ s21' = 0
        BY <2>1, <2>3, <3>3 DEF Widget!applyMode
      <4> QED BY <2>1, <3>1, <4>1 DEF Widget!TextAwaited, Widget!HelpOwn
    <3> QED BY <3>2, <3>3
  <2> QED BY <1>1, <2>2, <2>3 DEF Widget!toggle
<1>2. CASE Widget!closeHelp
  BY <1>0, <1>2 DEF Widget!closeHelp, Widget!Quiet, Widget!Usual, Widget!TextAwaited, Widget!HelpOwn
<1>3. ASSUME NEW t, Widget!changeRoute(t) PROVE Widget!TextAwaited'
  BY <1>3 DEF Widget!changeRoute, Widget!Usual, Widget!TextAwaited, Widget!HelpOwn
<1>4. ASSUME NEW c \in s22, Widget!landHelp(c) \/ Widget!failHelp(c) PROVE Widget!TextAwaited'
  BY <1>4 DEF Widget!landHelp, Widget!failHelp, Widget!TextAwaited, Widget!HelpOwn
<1> QED BY <1>1, <1>2, <1>3, <1>4 DEF Widget!HelpNext

(* Each step is of one of the five, and leaves the others alone.            *)
LEMMA NextWidgets == Widget!Usual /\ Widget!Inv /\ [Widget!Next]_(Widget!vars) => Widget!Inv'
<1> SUFFICES ASSUME Widget!Usual, Widget!Inv, [Widget!Next]_(Widget!vars) PROVE Widget!Inv'
  OBVIOUS
<1>1. UNCHANGED Widget!keyVars => Widget!ActiveMounted'
  BY DEF Widget!keyVars, Widget!Inv, Widget!ActiveMounted, Widget!Mounted, Widget!walkSubtree
<1>2. UNCHANGED Widget!listVars => Widget!WindowOfScroll'
  BY DEF Widget!listVars, Widget!Inv, Widget!WindowOfScroll
<1>3. UNCHANGED Widget!dateVars => Widget!GridOfCursor'
  BY DEF Widget!dateVars, Widget!Inv, Widget!GridOfCursor
<1>4. UNCHANGED Widget!fieldVars => Widget!SaveShown'
  BY DEF Widget!fieldVars, Widget!Inv, Widget!SaveShown, Widget!FieldTrue
<1>5. UNCHANGED Widget!helpVars => Widget!TextAwaited'
  BY DEF Widget!helpVars, Widget!Inv, Widget!TextAwaited, Widget!HelpOwn
<1>6. CASE Widget!KeysNext
  <2>1. UNCHANGED <<Widget!listVars, Widget!dateVars, Widget!fieldVars, Widget!helpVars>>
    BY <1>6 DEF Widget!KeysNext, Widget!onKeydown, Widget!trackActive, Widget!clearChord, Widget!onBodyMount,
         Widget!dispatchBody, Widget!Keyboard
  <2> QED BY <1>2, <1>3, <1>4, <1>5, <1>6, <2>1, KeyboardStep DEF Widget!Inv
<1>7. CASE Widget!ListNext
  <2>1. UNCHANGED <<Widget!keyVars, Widget!dateVars, Widget!fieldVars, Widget!helpVars>>
    BY <1>7 DEF Widget!ListNext, Widget!setData, Widget!scroll, Widget!resize, Widget!onScroll, Widget!onResize,
         Widget!List
  <2> QED BY <1>1, <1>3, <1>4, <1>5, <1>7, <2>1, ListStep DEF Widget!Inv
<1>8. CASE Widget!DatesNext
  <2>1. UNCHANGED <<Widget!keyVars, Widget!listVars, Widget!fieldVars, Widget!helpVars>>
    BY <1>8 DEF Widget!DatesNext, Widget!openMenu, Widget!closeDates, Widget!clear, Widget!moveCursor,
         Widget!weekEdge, Widget!moveMonth, Widget!Move, Widget!pick, Widget!Dates
  <2> QED BY <1>1, <1>2, <1>4, <1>5, <1>8, <2>1, DatesStep DEF Widget!Inv
<1>9. CASE Widget!FieldNext
  <2>1. UNCHANGED <<Widget!keyVars, Widget!listVars, Widget!dateVars, Widget!helpVars>>
    BY <1>9 DEF Widget!FieldNext, Widget!mountFieldEditor, Widget!toggleRow, Widget!focusField, Widget!enterField,
         Widget!blurField, Widget!renderBool, Widget!unassign,
       Widget!typeField, Widget!serveSave, Widget!confirmCommit, Widget!rejectCommit, Widget!Field
  <2> QED BY <1>1, <1>2, <1>3, <1>5, <1>9, <2>1, FieldStep DEF Widget!Inv
<1>10. CASE Widget!HelpNext
  <2>1. UNCHANGED <<Widget!keyVars, Widget!listVars, Widget!dateVars, Widget!fieldVars>>
    BY <1>10 DEF Widget!HelpNext, Widget!toggle, Widget!closeHelp, Widget!changeRoute, Widget!landHelp,
         Widget!failHelp, Widget!Help
  <2> QED BY <1>1, <1>2, <1>3, <1>4, <1>10, <2>1, HelpStep DEF Widget!Inv
<1>11. CASE UNCHANGED Widget!vars
  BY <1>1, <1>2, <1>3, <1>4, <1>5, <1>11 DEF Widget!vars, Widget!Inv
<1> QED BY <1>6, <1>7, <1>8, <1>9, <1>10, <1>11 DEF Widget!Next

(* The invariant gives what the controls promise.                           *)
LEMMA InvControls == Widget!Usual /\ Widget!Inv =>
    Widget!ListCovers /\ Widget!GridWhole /\ Widget!HelpOwn /\ Widget!FieldTrue
<1> SUFFICES ASSUME Widget!Usual, Widget!Inv
             PROVE  Widget!ListCovers /\ Widget!GridWhole /\ Widget!HelpOwn /\ Widget!FieldTrue
  OBVIOUS
<1>1. Widget!ListCovers
  BY WindowCovers DEF Widget!Inv, Widget!WindowOfScroll, Widget!ListCovers
<1>2. Widget!GridWhole
  <2> SUFFICES ASSUME Widget!isMenuOpen, NEW d \in Widget!Days, d = s14 \/ Widget!MonthOf(d) = Widget!MonthOf(s14)
               PROVE  s15 <= d /\ d < s15 + 6 * Week
    BY DEF Widget!GridWhole
  <2>1. s14 \in Widget!Days /\ (s15 = Widget!Shut \/ s15 = Widget!monthGrid(s14)) /\ Week \in Nat
    BY DEF Widget!Inv, Widget!GridOfCursor, Widget!Usual
  <2>2. s15 # Widget!Shut
    BY <2>1 DEF Widget!isMenuOpen, Widget!Shut
  <2> QED BY <2>1, <2>2, GridShowsMonth
<1> QED BY <1>1, <1>2 DEF Widget!Inv, Widget!TextAwaited, Widget!SaveShown

(* Only a key that is pressed runs a handler: one on the page, the deepest. *)
LEMMA KeyStep == Widget!Inv /\ [Widget!Next]_(Widget!vars) => Widget!KeysLiveStep
<1> SUFFICES ASSUME Widget!Inv, [Widget!Next]_(Widget!vars), s6' # s6
             PROVE  /\ s6'.by \in Widget!Mounted
                    /\ \A c \in Widget!Mounted : s6'.key \in Keys[c] => Widget!depthOf(c) <= Widget!depthOf(s6'.by)
  BY DEF Widget!KeysLiveStep
<1>1. PICK k, e : Widget!onKeydown(k, e)
  <2>1. Widget!KeysNext
    BY DEF Widget!Next, Widget!vars, Widget!keyVars, Widget!ListNext, Widget!setData, Widget!scroll, Widget!resize,
         Widget!onScroll, Widget!onResize, Widget!List,
       Widget!DatesNext, Widget!openMenu, Widget!closeDates, Widget!clear, Widget!moveCursor, Widget!weekEdge,
            Widget!moveMonth, Widget!Move, Widget!pick, Widget!Dates,
       Widget!FieldNext, Widget!mountFieldEditor, Widget!toggleRow, Widget!focusField, Widget!enterField,
            Widget!blurField, Widget!renderBool, Widget!unassign,
       Widget!typeField, Widget!serveSave, Widget!confirmCommit, Widget!rejectCommit, Widget!Field,
       Widget!HelpNext, Widget!toggle, Widget!closeHelp, Widget!changeRoute, Widget!landHelp, Widget!failHelp,
            Widget!Help
  <2> QED BY <2>1 DEF Widget!KeysNext, Widget!trackActive, Widget!clearChord, Widget!onBodyMount, Widget!dispatchBody
<1>2. PICK key : Widget!Run(key)
  BY <1>1 DEF Widget!onKeydown
<1>3. PICK c \in Widget!deriveBindings(key) : s6' = [key |-> key, by |-> c]
  BY <1>2 DEF Widget!Run
<1>4. {Widget!Shell} \cup Widget!chainToRoot(s4) \cup Widget!walkSubtree = Widget!Mounted
  BY DEF Widget!Inv, Widget!ActiveMounted, Widget!Mounted, Widget!walkSubtree, Widget!chainToRoot, Widget!depthOf,
       Widget!Shell, Widget!Body
<1>5. Widget!Binders(key) = {x \in Widget!Mounted : key \in Keys[x]}
  BY <1>4 DEF Widget!Binders
<1>6. \A x : Widget!depthOf(x) \in Nat
  BY DEF Widget!depthOf
<1>7. c \in Widget!Mounted /\ \A x \in Widget!Mounted : key \in Keys[x] => Widget!depthOf(x) <= Widget!depthOf(c)
  BY <1>3, <1>5, <1>6 DEF Widget!deriveBindings
<1> QED BY <1>3, <1>7

-----------------------------------------------------------------------------
(* A picker lists the hits of its own text, with a title for every chip; a list    *)
(* has a row for every row in view, for any heights and spares; a date picker      *)
(* shows its month whole, for any calendar; a help text is of its page and a field  *)
(* shows the stored value (ui/, core/virtual-list.ts, shell/help-overlay.ts).       *)
THEOREM ControlsAreTrue == Overlay!Searchable /\ Widget!Usual => (Spec => []ControlsTrue)
<1> SUFFICES ASSUME Overlay!Searchable, Widget!Usual PROVE Spec => []ControlsTrue
  OBVIOUS
<1>1. Init => OverlayInv /\ WidgetInv
  BY InitOverlays, InitWidgets DEF Init, OverlayInv, WidgetInv
<1>2. OverlayInv /\ WidgetInv /\ [Next]_vars => OverlayInv' /\ WidgetInv'
  BY StepOfPart, NextOverlays, NextWidgets DEF OverlayInv, WidgetInv
<1>3. OverlayInv /\ WidgetInv => ControlsTrue
  BY InvControls DEF OverlayInv, WidgetInv, ControlsTrue, Overlay!Inv
<1> QED BY <1>1, <1>2, <1>3, PTL DEF Spec

(* What no step may do: change the tree for destroyed controls, redirect from a     *)
(* page that was left, drop a draft without its prompt, run a key's handler of a    *)
(* control that is gone (core/dispatch.ts, shell/screen-host.ts,                   *)
(* ui/dismiss-guard.ts, core/hotkeys.ts).                                       *)
THEOREM StepsAreOwn ==
    Data!Finite /\ Rail!Sane /\ Widget!Usual => (Spec => OwnSteps)
<1> SUFFICES ASSUME Data!Finite, Rail!Sane, Widget!Usual PROVE Spec => OwnSteps
  OBVIOUS
<1> DEFINE All == DataInv /\ RailInv /\ WidgetInv
           Own == /\ part = "data" => Data!DeadStayDeadStep
                  /\ part = "shell" => Rail!RedirectStaysStep
                  /\ part = "overlays" => Overlay!DraftGuardedStep
                  /\ part = "widgets" => Widget!KeysLiveStep
<1>1. Init => All
  BY InitData, InitRail, InitWidgets DEF Init, WidgetInv
<1>2. All /\ [Next]_vars => All'
  BY NextData, NextRail, StepOfPart, NextWidgets DEF WidgetInv
<1>3. All /\ [Next]_vars => Own
  BY StepOfPart, Data!DeadStep, Rail!RedirectStep, DraftStep, KeyStep DEF DataInv, RailInv, WidgetInv
<1>4. All /\ [Next]_vars => All' /\ [Own]_vars
  BY <1>2, <1>3
<1> QED BY <1>1, <1>4, PTL DEF Spec, OwnSteps
=============================================================================

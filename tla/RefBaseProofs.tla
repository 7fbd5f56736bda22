--------------------------- MODULE RefBaseProofs ---------------------------
(***************************************************************************)
(* RefBase counts correctly and frees safely, for any number of handles:   *)
(* CountInv is inductive and implies the safety properties; with a ledger  *)
(* of the callbacks it implies that they balance.  The last part shows     *)
(* that the counts implement RefLifetime.                                  *)
(***************************************************************************)
EXTENDS RefBaseInvariant, FiniteSetTheorems, TLAPS

(***************************************************************************)
(* Every variable keeps its type: in particular a handle is always at a    *)
(* label of its own kind.                                                  *)
(***************************************************************************)
LEMMA InitTypeOK == Init => TypeOK
  BY RefBaseAssumption DEF Init, TypeOK, Ptr, SpLabels, Idle, WpLabels

LEMMA CallTypeOK == TypeOK /\ ClientCall => TypeOK'
<1> SUFFICES ASSUME TypeOK, ClientCall PROVE TypeOK'
  OBVIOUS
<1> USE RefBaseAssumption DEF TypeOK, Ptr, counts, memory, birth, local
<1>1. CASE ExtendObjectLifetime
  BY <1>1 DEF ExtendObjectLifetime
<1>2. CASE \E p \in Sp : NewSp(p)
  BY <1>2 DEF NewSp, Call, SpLabels
<1>3. CASE \E w \in Wp : NewWp(w)
  BY <1>3 DEF NewWp, Call, WpLabels
<1>4. CASE \E p \in Sp, q \in Sp : CopySp(p, q)
  BY <1>4 DEF CopySp, Call, SpLabels
<1>5. CASE \E w \in Wp, q \in Ptr : MakeWp(w, q)
  BY <1>5 DEF MakeWp, Call, WpLabels
<1>6. CASE \E w \in Wp, v \in Wp : AttemptIncWeak(w, v)
  BY <1>6 DEF AttemptIncWeak, Call, WpLabels
<1>7. CASE \E p \in Sp, w \in Wp : Promote(p, w)
  BY <1>7 DEF Promote, Call, SpLabels
<1>8. CASE \E p \in Sp, w \in Wp : ForceSet(p, w)
  BY <1>8 DEF ForceSet, Call, SpLabels
<1>9. CASE \E h \in Ptr : Drop(h)
  BY <1>9 DEF Drop, Goto, SpLabels, WpLabels
<1>10. CASE \E g \in Sp, h \in Sp : Move(g, h)
  BY <1>10 DEF Move, SpLabels, WpLabels, Idle
<1>11. CASE \E g \in Wp, h \in Wp : Move(g, h)
  BY <1>11 DEF Move, SpLabels, WpLabels, Idle
<1>12. QED
  BY <1>1, <1>2, <1>3, <1>4, <1>5, <1>6, <1>7, <1>8, <1>9, <1>10, <1>11
     DEF ClientCall

LEMMA SpStepTypeOK == ASSUME TypeOK, NEW p \in Sp, SpStep(p) PROVE TypeOK'
<1> USE RefBaseAssumption DEF TypeOK, Ptr, counts, memory, birth, SpLabels, Idle
<1>1. CASE IncWeak(p)
  BY <1>1 DEF IncWeak, Goto
<1>2. CASE IncStrong(p)
  BY <1>2 DEF IncStrong, Goto, Return
<1>3. CASE ForceIncStrong(p)
  BY <1>3 DEF ForceIncStrong, Goto, Return
<1>4. CASE SubInitial(p)
  BY <1>4 DEF SubInitial, Goto
<1>5. CASE OnFirstRef(p)
  BY <1>5 DEF OnFirstRef, Return
<1>6. CASE AttemptRead(p)
  BY <1>6 DEF AttemptRead, Load
<1>7. CASE AttemptCas(p)
  BY <1>7 DEF AttemptCas, Goto
<1>8. CASE OnIncStrongAttempted(p)
  BY <1>8 DEF OnIncStrongAttempted, Goto
<1>9. CASE AttemptInc(p)
  BY <1>9 DEF AttemptInc, Load, AfterHardCase
<1>10. CASE InitialCas(p)
  BY <1>10 DEF InitialCas, Goto, AfterHardCase
<1>11. CASE InitialRead(p)
  BY <1>11 DEF InitialRead, Load
<1>12. CASE Unneeded(p)
  BY <1>12 DEF Unneeded, Goto
<1>13. CASE FixRead(p)
  BY <1>13 DEF FixRead, Load, Return
<1>14. CASE FixCas(p)
  BY <1>14 DEF FixCas, Goto, Return
<1>15. CASE DecStrong(p)
  BY <1>15 DEF DecStrong, Goto
<1>16. CASE OnLastStrongRef(p)
  BY <1>16 DEF OnLastStrongRef, Goto
<1>17. CASE DeleteThis(p)
  BY <1>17 DEF DeleteThis, DestroyBase, Goto
<1>18. QED
  BY <1>1, <1>2, <1>3, <1>4, <1>5, <1>6, <1>7, <1>8, <1>9, <1>10, <1>11,
     <1>12, <1>13, <1>14, <1>15, <1>16, <1>17 DEF SpStep

LEMMA WpStepTypeOK == ASSUME TypeOK, NEW w \in Wp, WpStep(w) PROVE TypeOK'
  BY RefBaseAssumption
     DEF TypeOK, Ptr, counts, memory, birth, WpLabels, Idle, WpStep, CreateWeak,
         AttemptWeakRead, AttemptWeakCas, Goto, Load, Return

LEMMA DecWeakTypeOK == ASSUME TypeOK, NEW h \in Ptr, DecWeakStep(h) PROVE TypeOK'
  BY RefBaseAssumption
     DEF TypeOK, Ptr, counts, memory, birth, SpLabels, WpLabels, Idle, DecWeakStep,
         DecWeak, LastWeak, DestroyBase, Goto, Return

LEMMA NextTypeOK == TypeOK /\ [Next]_vars => TypeOK'
<1> SUFFICES ASSUME TypeOK, [Next]_vars PROVE TypeOK'
  OBVIOUS
<1>1. CASE UNCHANGED vars
  BY <1>1 DEF TypeOK, vars
<1>2. CASE Next
  BY <1>2, CallTypeOK, SpStepTypeOK, WpStepTypeOK, DecWeakTypeOK DEF Next
<1>3. QED
  BY <1>1, <1>2

(* TypeOK holds of every behaviour, whatever the handles.                  *)
THEOREM TypeCorrect == Spec => []TypeOK
<1>1. Init => TypeOK
  BY InitTypeOK
<1>2. TypeOK /\ [Next]_vars => TypeOK'
  BY NextTypeOK
<1>3. QED
  BY <1>1, <1>2, PTL DEF Spec

-----------------------------------------------------------------------------
(***************************************************************************)
(* Counting.  A handle that moves from one label to another changes the    *)
(* two sets of references by itself at most.                               *)
(***************************************************************************)
Weak(label) == IF label \in WeakLabels THEN 1 ELSE 0
Strong(h, label) == IF h \in Sp /\ label \in StrongLabels THEN 1 ELSE 0

LEMMA RefsFinite ==
    /\ IsFiniteSet(Ptr)
    /\ StrongRefs \subseteq Sp /\ IsFiniteSet(StrongRefs)
    /\ WeakRefs \subseteq Ptr /\ IsFiniteSet(WeakRefs)
    /\ Cardinality(StrongRefs) \in Nat /\ Cardinality(WeakRefs) \in Nat
    /\ Cardinality(StrongRefs) <= Cardinality(Sp) /\ Cardinality(Sp) \in Nat
<1>1. IsFiniteSet(Ptr)
  BY RefBaseAssumption, FS_Union DEF Ptr
<1>2. StrongRefs \subseteq Sp /\ WeakRefs \subseteq Ptr
  BY DEF StrongRefs, WeakRefs
<1>3. QED
  BY <1>1, <1>2, RefBaseAssumption, FS_Subset, FS_CardinalityType

LEMMA CardUpdate ==
    ASSUME NEW S, IsFiniteSet(S), NEW x
    PROVE  /\ Cardinality(S \cup {x}) = Cardinality(S) + IF x \in S THEN 0 ELSE 1
           /\ Cardinality(S \ {x}) = Cardinality(S) - IF x \in S THEN 1 ELSE 0
<1>1. Cardinality(S) \in Nat
  BY FS_CardinalityType
<1>2. QED
  BY <1>1, FS_AddElement, FS_RemoveElement

LEMMA Counted ==
    ASSUME TypeOK, NEW h \in Ptr, NEW label, pc' = [pc EXCEPT ![h] = label]
    PROVE  /\ pc'[h] = label
           /\ Cardinality(WeakRefs') = Cardinality(WeakRefs) + Weak(label) - Weak(pc[h])
           /\ Cardinality(StrongRefs') =
                 Cardinality(StrongRefs) + Strong(h, label) - Strong(h, pc[h])
<1>0. pc'[h] = label
  BY DEF TypeOK
<1>1. WeakRefs' = IF label \in WeakLabels THEN WeakRefs \cup {h} ELSE WeakRefs \ {h}
  BY DEF WeakRefs, TypeOK
<1>2. StrongRefs' = IF h \in Sp /\ label \in StrongLabels
                    THEN StrongRefs \cup {h} ELSE StrongRefs \ {h}
  BY DEF StrongRefs, TypeOK, Ptr
<1>3. h \in WeakRefs <=> pc[h] \in WeakLabels
  BY DEF WeakRefs
<1>4. h \in StrongRefs <=> h \in Sp /\ pc[h] \in StrongLabels
  BY DEF StrongRefs
<1>5. /\ Cardinality(WeakRefs \cup {h}) =
            Cardinality(WeakRefs) + IF h \in WeakRefs THEN 0 ELSE 1
      /\ Cardinality(WeakRefs \ {h}) =
            Cardinality(WeakRefs) - IF h \in WeakRefs THEN 1 ELSE 0
      /\ Cardinality(StrongRefs \cup {h}) =
            Cardinality(StrongRefs) + IF h \in StrongRefs THEN 0 ELSE 1
      /\ Cardinality(StrongRefs \ {h}) =
            Cardinality(StrongRefs) - IF h \in StrongRefs THEN 1 ELSE 0
  BY RefsFinite, CardUpdate
<1>6. Cardinality(WeakRefs) \in Nat /\ Cardinality(StrongRefs) \in Nat
  BY RefsFinite
<1>7. QED
  BY <1>0, <1>1, <1>2, <1>3, <1>4, <1>5, <1>6 DEF Weak, Strong

(***************************************************************************)
(* What the counts tell.                                                   *)
(***************************************************************************)
LEMMA Empty ==
    ASSUME NEW S, IsFiniteSet(S)
    PROVE  /\ Cardinality(S) = 0 <=> S = {}
           /\ \A x \in S : Cardinality(S) >= 1
           /\ \A x \in S : Cardinality(S) = 1 <=> S = {x}
<1>1. Cardinality(S) \in Nat
  BY FS_CardinalityType
<1>2. Cardinality(S) = 0 <=> S = {}
  BY FS_EmptySet
<1>3. ASSUME NEW x \in S, Cardinality(S) = 1 PROVE S = {x}
  <2>1. Cardinality(S \ {x}) = 0 /\ IsFiniteSet(S \ {x})
    BY <1>3, FS_RemoveElement
  <2>2. S \ {x} = {}
    BY <2>1, FS_EmptySet
  <2>3. QED
    BY <2>2
<1>4. \A x \in S : S = {x} => Cardinality(S) = 1
  BY FS_Singleton
<1>5. QED
  BY <1>1, <1>2, <1>3, <1>4

\* Facts about one state in which the counts match.
CountFacts ==
    /\ mWeak \in Nat /\ mStrong \in Nat
    /\ Cardinality(StrongRefs) \in 0 .. INITIAL_STRONG_VALUE - 1
    /\ mStrong = Cardinality(StrongRefs) + IF Biased THEN INITIAL_STRONG_VALUE ELSE 0
    /\ \A h \in Ptr : pc[h] \in WeakLabels =>
          /\ mWeak >= 1
          /\ mWeak = 1 => \A g \in Ptr : pc[g] \in WeakLabels => g = h
          /\ mWeak # 1 => \E g \in Ptr : g # h /\ pc[g] \in WeakLabels
    /\ (\A h \in Ptr : pc[h] \notin WeakLabels) => mWeak = 0
    /\ \A p \in Sp : pc[p] \in StrongLabels =>
          /\ mStrong >= 1 /\ mStrong # INITIAL_STRONG_VALUE
          /\ INITIAL_STRONG_VALUE >= 2
          /\ mStrong = 1 => \A q \in Sp : pc[q] \in StrongLabels => q = p
    /\ (\A p \in Sp : pc[p] \notin StrongLabels) =>
          mStrong \in {0, INITIAL_STRONG_VALUE}
    /\ \A p \in Sp : pc[p] \notin StrongLabels /\ ~Biased =>
          mStrong + 1 < INITIAL_STRONG_VALUE

LEMMA CountsTell == TypeOK /\ CountsMatch => CountFacts
<1> SUFFICES ASSUME TypeOK, CountsMatch PROVE CountFacts
  OBVIOUS
<1> DEFINE n == Cardinality(StrongRefs)
<1>1. n \in Nat /\ n < INITIAL_STRONG_VALUE /\ INITIAL_STRONG_VALUE \in Nat
  BY RefsFinite, RefBaseAssumption
<1>2. mStrong = n + IF Biased THEN INITIAL_STRONG_VALUE ELSE 0
  BY <1>1 DEF CountsMatch, Biased, TypeOK
<1>3. mWeak \in Nat /\ mStrong \in Nat
  BY <1>1, <1>2, RefsFinite DEF CountsMatch
<1>4. ASSUME NEW h \in Ptr, pc[h] \in WeakLabels
      PROVE  /\ mWeak >= 1
             /\ mWeak = 1 => \A g \in Ptr : pc[g] \in WeakLabels => g = h
             /\ mWeak # 1 => \E g \in Ptr : g # h /\ pc[g] \in WeakLabels
  <2>1. h \in WeakRefs
    BY <1>4 DEF WeakRefs
  <2>2. mWeak >= 1 /\ (mWeak = 1 <=> WeakRefs = {h})
    BY <2>1, RefsFinite, Empty DEF CountsMatch
  <2>3. WeakRefs = {h} <=> \A g \in Ptr : pc[g] \in WeakLabels => g = h
    BY <2>1 DEF WeakRefs
  <2>4. QED
    BY <2>2, <2>3
<1>5. ASSUME NEW p \in Sp, pc[p] \in StrongLabels
      PROVE  /\ mStrong >= 1 /\ mStrong # INITIAL_STRONG_VALUE
             /\ INITIAL_STRONG_VALUE >= 2
             /\ mStrong = 1 => \A q \in Sp : pc[q] \in StrongLabels => q = p
  <2>1. p \in StrongRefs
    BY <1>5 DEF StrongRefs
  <2>2. n >= 1 /\ (n = 1 => StrongRefs = {p})
    BY <2>1, RefsFinite, Empty
  <2>3. mStrong = 1 => n = 1
    BY <1>1, <1>2, <2>2
  <2>4. mStrong = 1 => \A q \in Sp : pc[q] \in StrongLabels => q = p
    BY <2>2, <2>3 DEF StrongRefs
  <2>5. mStrong >= 1 /\ mStrong # INITIAL_STRONG_VALUE /\ INITIAL_STRONG_VALUE >= 2
    BY <1>1, <1>2, <2>2 DEF Biased
  <2>6. QED
    BY <2>4, <2>5
<1>6. ASSUME \A p \in Sp : pc[p] \notin StrongLabels
      PROVE  mStrong \in {0, INITIAL_STRONG_VALUE}
  <2>1. StrongRefs = {}
    BY <1>6 DEF StrongRefs
  <2>2. n = 0
    BY <2>1, FS_EmptySet
  <2>3. QED
    BY <1>1, <1>2, <2>2
<1>7. ASSUME NEW p \in Sp, pc[p] \notin StrongLabels, ~Biased
      PROVE  mStrong + 1 < INITIAL_STRONG_VALUE
  <2>1. p \notin StrongRefs
    BY <1>7 DEF StrongRefs
  <2>2. Cardinality(StrongRefs \cup {p}) = n + 1
    BY <2>1, RefsFinite, CardUpdate
  <2>3. StrongRefs \cup {p} \subseteq Sp
    BY RefsFinite
  <2>4. n + 1 <= Cardinality(Sp)
    BY <2>2, <2>3, FS_Subset, RefBaseAssumption
  <2>5. QED
    BY <1>1, <1>2, <1>7, <2>4, RefBaseAssumption, RefsFinite
<1>8. ASSUME \A h \in Ptr : pc[h] \notin WeakLabels
      PROVE  mWeak = 0
  <2>1. WeakRefs = {}
    BY <1>8 DEF WeakRefs
  <2>2. QED
    BY <2>1, FS_EmptySet DEF CountsMatch
<1>9. n \in 0 .. INITIAL_STRONG_VALUE - 1
  BY <1>1
<1>10. QED
  BY <1>2, <1>3, <1>4, <1>5, <1>6, <1>7, <1>8, <1>9 DEF CountFacts

(***************************************************************************)
(* CountsMatch is preserved: each step changes a count exactly when its    *)
(* handle enters or leaves the labels that the count stands for.           *)
(***************************************************************************)
LEMMA SpStepCounts ==
    ASSUME TypeOK, CountInv, NEW p \in Sp, SpStep(p)
    PROVE  CountsMatch'
<1>1. \E label : pc' = [pc EXCEPT ![p] = label]
  BY DEF SpStep, IncWeak, IncStrong, ForceIncStrong, SubInitial, OnFirstRef,
         AttemptRead, AttemptCas, OnIncStrongAttempted, AttemptInc, InitialCas,
         InitialRead, Unneeded, FixRead, FixCas, DecStrong, OnLastStrongRef,
         DeleteThis, Goto, Load, Return
<1>2. /\ Cardinality(WeakRefs') = Cardinality(WeakRefs) + Weak(pc'[p]) - Weak(pc[p])
      /\ Cardinality(StrongRefs') =
            Cardinality(StrongRefs) + Strong(p, pc'[p]) - Strong(p, pc[p])
      /\ pc \in [Ptr -> SpLabels \cup WpLabels] /\ p \in Ptr
      /\ mStrong \in Int /\ mWeak \in Int /\ INITIAL_STRONG_VALUE \in Nat
  BY <1>1, Counted, RefBaseAssumption DEF TypeOK, Ptr
<1>3. Cardinality(WeakRefs) \in Nat /\ Cardinality(StrongRefs) \in Nat
  BY RefsFinite
<1> USE DEF CountsMatch, CountInv, counts, Weak, Strong, StrongLabels, WeakLabels
<1>4. \A old : AfterHardCase(old) \in {"unneeded", "fix_read"}
  BY DEF AfterHardCase
<1>5. (pc[p] = "sub_initial" => mStrong >= INITIAL_STRONG_VALUE)
      /\ (pc[p] = "fix_cas" => cur[p] > INITIAL_STRONG_VALUE)
  BY DEF Shape, InvSub, InvCur, Biased
<1>6. Cardinality(StrongRefs) < INITIAL_STRONG_VALUE
  BY RefsFinite, RefBaseAssumption
<1>7. CASE IncWeak(p)
  BY <1>2, <1>3, <1>7 DEF IncWeak, Goto
<1>8. CASE IncStrong(p)
  BY <1>2, <1>3, <1>8 DEF IncStrong, Goto, Return
<1>9. CASE ForceIncStrong(p)
  BY <1>2, <1>3, <1>9 DEF ForceIncStrong, Goto, Return
<1>10. CASE SubInitial(p)
  BY <1>2, <1>3, <1>5, <1>6, <1>10 DEF SubInitial, Goto
<1>11. CASE OnFirstRef(p)
  BY <1>2, <1>3, <1>11 DEF OnFirstRef, Return
<1>12. CASE AttemptRead(p)
  BY <1>2, <1>3, <1>12 DEF AttemptRead, Load
<1>13. CASE AttemptCas(p)
  BY <1>2, <1>3, <1>13 DEF AttemptCas, Goto
<1>14. CASE OnIncStrongAttempted(p)
  BY <1>2, <1>3, <1>14 DEF OnIncStrongAttempted, Goto
<1>15. CASE AttemptInc(p)
  BY <1>2, <1>3, <1>4, <1>15 DEF AttemptInc, Load
<1>16. CASE InitialCas(p)
  BY <1>2, <1>3, <1>4, <1>16 DEF InitialCas, Goto
<1>17. CASE InitialRead(p)
  BY <1>2, <1>3, <1>17 DEF InitialRead, Load
<1>18. CASE Unneeded(p)
  BY <1>2, <1>3, <1>18 DEF Unneeded, Goto
<1>19. CASE FixRead(p)
  BY <1>2, <1>3, <1>19 DEF FixRead, Load, Return
<1>20. CASE FixCas(p)
  BY <1>2, <1>3, <1>5, <1>6, <1>20 DEF FixCas, Goto, Return
<1>21. CASE DecStrong(p)
  BY <1>2, <1>3, <1>21 DEF DecStrong, Goto
<1>22. CASE OnLastStrongRef(p)
  BY <1>2, <1>3, <1>22 DEF OnLastStrongRef, Goto
<1>23. CASE DeleteThis(p)
  BY <1>2, <1>3, <1>23 DEF DeleteThis, Goto, DestroyBase
<1>24. QED
  BY <1>7, <1>8, <1>9, <1>10, <1>11, <1>12, <1>13, <1>14, <1>15, <1>16,
     <1>17, <1>18, <1>19, <1>20, <1>21, <1>22, <1>23
     DEF SpStep

LEMMA OtherCounts ==
    ASSUME TypeOK, CountInv, NEW h \in Ptr,
           (h \in Wp /\ WpStep(h)) \/ DecWeakStep(h)
    PROVE  CountsMatch'
<1>1. \E label : pc' = [pc EXCEPT ![h] = label]
  BY DEF WpStep, DecWeakStep, CreateWeak, AttemptWeakRead, AttemptWeakCas,
         DecWeak, LastWeak, Goto, Load, Return
<1>2. /\ Cardinality(WeakRefs') = Cardinality(WeakRefs) + Weak(pc'[h]) - Weak(pc[h])
      /\ Cardinality(StrongRefs') =
            Cardinality(StrongRefs) + Strong(h, pc'[h]) - Strong(h, pc[h])
      /\ pc \in [Ptr -> SpLabels \cup WpLabels]
      /\ mStrong \in Int /\ mWeak \in Int
  BY <1>1, Counted DEF TypeOK
<1>3. Cardinality(WeakRefs) \in Nat /\ Cardinality(StrongRefs) \in Nat
  BY RefsFinite
<1> USE DEF CountsMatch, CountInv, counts, Weak, Strong, StrongLabels, WeakLabels
<1>4. CASE h \in Wp /\ WpStep(h)
  BY <1>2, <1>3, <1>4, RefBaseAssumption
     DEF WpStep, CreateWeak, AttemptWeakRead, AttemptWeakCas, Goto, Load, Return
<1>5. CASE DecWeakStep(h)
  BY <1>2, <1>3, <1>5 DEF DecWeakStep, DecWeak, LastWeak, Goto, Return
<1>6. QED
  BY <1>4, <1>5

\* Two handles of one kind exchange their labels: no count changes.
LEMMA MoveCounts ==
    ASSUME TypeOK, CountInv, NEW g \in Ptr, NEW h \in Ptr, g \in Sp <=> h \in Sp,
           Move(g, h)
    PROVE  CountsMatch'
<1>1. /\ pc[g] = "null" /\ pc[h] = "set" /\ g # h
      /\ pc' = [pc EXCEPT ![g] = "set", ![h] = "null"]
      /\ UNCHANGED counts
  BY DEF Move
<1>2. WeakRefs' = (WeakRefs \ {h}) \cup {g} /\ h \in WeakRefs /\ g \notin WeakRefs
  BY <1>1 DEF TypeOK, WeakRefs, WeakLabels, StrongLabels
<1>3. IF h \in Sp
      THEN StrongRefs' = (StrongRefs \ {h}) \cup {g} /\ h \in StrongRefs /\ g \notin StrongRefs
      ELSE StrongRefs' = StrongRefs
  BY <1>1 DEF TypeOK, StrongRefs, StrongLabels, Ptr
<1>4. ASSUME NEW S, IsFiniteSet(S), h \in S, g \notin S
      PROVE  Cardinality((S \ {h}) \cup {g}) = Cardinality(S)
  <2>1. IsFiniteSet(S \ {h}) /\ Cardinality(S \ {h}) = Cardinality(S) - 1
    BY <1>4, FS_RemoveElement
  <2>2. Cardinality((S \ {h}) \cup {g}) = Cardinality(S \ {h}) + 1
    BY <1>4, <2>1, FS_AddElement
  <2>3. QED
    BY <1>4, <2>1, <2>2, FS_CardinalityType
<1>5. /\ Cardinality(WeakRefs') = Cardinality(WeakRefs)
      /\ Cardinality(StrongRefs') = Cardinality(StrongRefs)
  BY <1>2, <1>3, <1>4, RefsFinite
<1>6. QED
  BY <1>1, <1>5 DEF CountsMatch, CountInv, counts

LEMMA CallCounts == TypeOK /\ CountInv /\ ClientCall => CountsMatch'
<1> SUFFICES ASSUME TypeOK, CountInv, ClientCall PROVE CountsMatch'
  OBVIOUS
<1>1. CASE ExtendObjectLifetime
  BY <1>1 DEF ExtendObjectLifetime, CountInv, CountsMatch, StrongRefs, WeakRefs,
             counts, local
<1>2. ASSUME NEW h \in Ptr, NEW label, pc' = [pc EXCEPT ![h] = label],
             Weak(label) = Weak(pc[h]), Strong(h, label) = Strong(h, pc[h]),
             UNCHANGED counts
      PROVE  CountsMatch'
  <2>1. /\ Cardinality(WeakRefs') = Cardinality(WeakRefs) + Weak(label) - Weak(label)
        /\ Cardinality(StrongRefs') =
              Cardinality(StrongRefs) + Strong(h, label) - Strong(h, label)
    BY <1>2, Counted
  <2>2. Weak(label) \in Nat /\ Strong(h, label) \in Nat
    BY DEF Weak, Strong
  <2>3. QED
    BY <1>2, <2>1, <2>2, RefsFinite DEF CountInv, CountsMatch, counts
<1>3. ASSUME NEW h \in Ptr, NEW q, NEW label \in {"inc_weak", "create_weak",
                 "tryw_read", "try_weak", "force_weak"},
             Call(h, q, label), pc[h] = "null", UNCHANGED counts
      PROVE  CountsMatch'
  BY <1>2, <1>3 DEF Call, Weak, Strong, WeakLabels, StrongLabels
<1>4. published = "new" => \A h \in Ptr : pc[h] = "null"
  BY DEF CountInv, Shape, InvNew, AllNull
<1>5. CASE \E p \in Sp : NewSp(p)
  BY <1>3, <1>4, <1>5 DEF NewSp, Ptr
<1>6. CASE \E w \in Wp : NewWp(w)
  BY <1>3, <1>4, <1>6 DEF NewWp, Ptr
<1>7. CASE \E p \in Sp, q \in Sp : CopySp(p, q)
  BY <1>3, <1>7 DEF CopySp, Ptr
<1>8. CASE \E w \in Wp, q \in Ptr : MakeWp(w, q)
  BY <1>3, <1>8 DEF MakeWp, Ptr
<1>9. CASE \E w \in Wp, v \in Wp : AttemptIncWeak(w, v)
  BY <1>3, <1>9 DEF AttemptIncWeak, Ptr
<1>10. CASE \E p \in Sp, w \in Wp : Promote(p, w)
  BY <1>3, <1>10 DEF Promote, Ptr
<1>11. CASE \E p \in Sp, w \in Wp : ForceSet(p, w)
  BY <1>3, <1>11 DEF ForceSet, Ptr
<1>12. CASE \E h \in Ptr : Drop(h)
  <2>1. PICK h \in Ptr : Drop(h)
    BY <1>12
  <2>2. pc[h] = "set" /\ UNCHANGED counts
        /\ pc' = [pc EXCEPT ![h] = IF h \in Sp THEN "dec_strong" ELSE "dec_weak"]
    BY <2>1 DEF Drop, Goto
  <2>3. CASE h \in Sp
    BY <2>2, <2>3, <1>2 DEF Weak, Strong, WeakLabels, StrongLabels
  <2>4. CASE h \notin Sp
    BY <2>2, <2>4, <1>2 DEF Weak, Strong, WeakLabels, StrongLabels
  <2>5. QED
    BY <2>3, <2>4
<1>13. CASE \E g \in Sp, h \in Sp : Move(g, h)
  BY <1>13, MoveCounts DEF Ptr
<1>14. CASE \E g \in Wp, h \in Wp : Move(g, h)
  BY <1>14, MoveCounts, RefBaseAssumption DEF Ptr
<1>15. QED
  BY <1>1, <1>5, <1>6, <1>7, <1>8, <1>9, <1>10, <1>11, <1>12, <1>13, <1>14 DEF ClientCall

(***************************************************************************)
(* Shape is preserved.  In most steps the conjuncts that mention the       *)
(* moved handle follow from its old label and from CountFacts; the release *)
(* of the last weak reference is the step with an argument of its own.     *)
(***************************************************************************)
LEMMA SpStepShape ==
    ASSUME TypeOK, CountFacts, Shape, NEW p \in Sp, SpStep(p)
    PROVE  Shape'
<1> USE RefBaseAssumption, RefsFinite
    DEF Shape, InvNew, InvSpFirst, InvWpFirst, InvSub, InvCur, InvSrc, InvFlags,
        InvRefs, InvDead, InvLastStrong, InvLastWeak, InvDeleted, NoLeak,
        AllNull, Alone, Creator, Destroying, Biased,
        TypeOK, CountFacts, WeakLabels, StrongLabels, Ptr,
        counts, memory, birth, local
<1>1. CASE IncWeak(p)
  BY <1>1 DEF IncWeak, Goto
<1>2. CASE IncStrong(p)
  BY <1>2 DEF IncStrong, Goto, Return
<1>3. CASE ForceIncStrong(p)
  BY <1>3 DEF ForceIncStrong, Goto, Return
<1>4. CASE SubInitial(p)
  BY <1>4 DEF SubInitial, Goto
<1>5. CASE OnFirstRef(p)
  BY <1>5 DEF OnFirstRef, Return
<1>6. CASE AttemptRead(p)
  BY <1>6 DEF AttemptRead, Load
<1>7. CASE AttemptCas(p)
  BY <1>7 DEF AttemptCas, Goto
<1>8. CASE OnIncStrongAttempted(p)
  BY <1>8 DEF OnIncStrongAttempted, Goto
<1>9. CASE AttemptInc(p)
  BY <1>9 DEF AttemptInc, Load, AfterHardCase
<1>10. CASE InitialCas(p)
  BY <1>10 DEF InitialCas, Goto, AfterHardCase
<1>11. CASE InitialRead(p)
  BY <1>11 DEF InitialRead, Load
<1>12. CASE Unneeded(p)
  BY <1>12 DEF Unneeded, Goto
<1>13. CASE FixRead(p)
  BY <1>13 DEF FixRead, Load, Return
<1>14. CASE FixCas(p)
  BY <1>14 DEF FixCas, Goto, Return
<1>15. CASE DecStrong(p)
  BY <1>15 DEF DecStrong, Goto
<1>16. CASE OnLastStrongRef(p)
  BY <1>16 DEF OnLastStrongRef, Goto
<1>17. CASE DeleteThis(p)
  BY <1>17 DEF DeleteThis, Goto, DestroyBase
<1>18. QED
  BY <1>1, <1>2, <1>3, <1>4, <1>5, <1>6, <1>7, <1>8, <1>9, <1>10, <1>11,
     <1>12, <1>13, <1>14, <1>15, <1>16, <1>17
     DEF SpStep

LEMMA WpStepShape ==
    ASSUME TypeOK, CountFacts, Shape, NEW w \in Wp, WpStep(w)
    PROVE  Shape'
<1> USE RefBaseAssumption, RefsFinite
    DEF Shape, InvNew, InvSpFirst, InvWpFirst, InvSub, InvCur, InvSrc, InvFlags,
        InvRefs, InvDead, InvLastStrong, InvLastWeak, InvDeleted, NoLeak,
        AllNull, Alone, Creator, Destroying, Biased,
        TypeOK, CountFacts, WeakLabels, StrongLabels, Ptr,
        counts, memory, birth, local
<1>1. CASE CreateWeak(w)
  BY <1>1 DEF CreateWeak, Return
<1>2. CASE AttemptWeakRead(w)
  BY <1>2 DEF AttemptWeakRead, Load, Return
<1>3. CASE AttemptWeakCas(w)
  BY <1>3 DEF AttemptWeakCas, Goto, Return
<1>4. QED
  BY <1>1, <1>2, <1>3 DEF WpStep

\* Nobody can raise the weak count again once it is down to zero: a handle
\* that is about to count itself reads from a handle that is still counted.
LEMMA LastWeakAlone ==
    ASSUME TypeOK, CountFacts, Shape, NEW h \in Ptr, pc[h] = "dec_weak", mWeak = 1
    PROVE  Alone(h)
<1> SUFFICES ASSUME NEW g \in Ptr, g # h PROVE pc[g] = "null"
  BY DEF Alone
<1>1. \A f \in Ptr : pc[f] \in WeakLabels => f = h
  BY DEF CountFacts, WeakLabels
<1>2. pc[g] \notin WeakLabels
  BY <1>1
<1>3. pc[g] # "last_weak"
  BY DEF Shape, InvLastWeak, Alone
<1>4. ~Creator(g)
  BY DEF Creator, Alone
<1>5. src[g] \notin Ptr
  <2>1. SUFFICES ASSUME src[g] \in Ptr PROVE FALSE
    OBVIOUS
  <2>2. pc[src[g]] = "set"
    BY <2>1, RefBaseAssumption DEF Shape, InvSrc, Ptr
  <2>3. src[g] # h
    BY <2>2
  <2>4. QED
    BY <1>1, <2>1, <2>2, <2>3 DEF WeakLabels, StrongLabels
<1>6. QED
  BY <1>2, <1>3, <1>4, <1>5
     DEF Shape, InvSrc, TypeOK, Ptr, WeakLabels, StrongLabels, SpLabels, WpLabels, Idle

LEMMA DecWeakShape ==
    ASSUME TypeOK, CountFacts, Shape, NEW h \in Ptr, DecWeakStep(h)
    PROVE  Shape'
<1>1. CASE DecWeak(h)
  <2> USE <1>1, RefBaseAssumption DEF DecWeak, Goto, Return, TypeOK, Ptr, memory, birth, Shape
  <2>1. InvNew' /\ InvSpFirst' /\ InvWpFirst' /\ InvSub' /\ InvDead' /\ InvRefs'
    BY DEF InvNew, InvSpFirst, InvWpFirst, InvSub, InvDead, InvRefs, AllNull, Biased, Alone
  <2>2. InvCur' /\ InvSrc' /\ InvFlags'
    BY DEF InvCur, InvSrc, InvFlags, Creator, Alone
  <2>3. InvLastStrong' /\ InvDeleted'
    BY DEF InvLastStrong, InvDeleted, Destroying
  <2>4. InvLastWeak'
    <3>1. mWeak = 1 => Alone(h)
      BY LastWeakAlone
    <3>2. QED
      BY <3>1 DEF InvLastWeak, Alone
  <2>5. NoLeak'
    <3>1. mWeak # 1 => \E g \in Ptr : g # h /\ pc[g] \in WeakLabels
      BY DEF CountFacts, WeakLabels
    <3>2. QED
      BY <3>1 DEF NoLeak, WeakLabels, StrongLabels
  <2>6. QED
    BY <2>1, <2>2, <2>3, <2>4, <2>5
<1>2. CASE LastWeak(h)
  <2> USE <1>2, RefBaseAssumption
      DEF LastWeak, DestroyBase, Return, TypeOK, Ptr, counts, birth, Shape
  <2>1. Alone(h)
    BY DEF InvLastWeak
  <2>2. mStrong \in {0, INITIAL_STRONG_VALUE} /\ mWeak = 0
    BY <2>1 DEF CountFacts, Alone, StrongLabels, WeakLabels
  <2>3. AllNull' /\ published # "new"
    BY <2>1 DEF Alone, AllNull, InvNew
  <2>4. NoLeak'
    BY <2>1, <2>2 DEF NoLeak, InvDeleted, Destroying, Alone
  <2>5. InvNew' /\ InvSpFirst' /\ InvWpFirst' /\ InvSub' /\ InvCur' /\ InvFlags'
    BY <2>3 DEF InvNew, InvSpFirst, InvWpFirst, InvSub, InvCur, InvFlags, AllNull
  <2>6. InvSrc'
    BY <2>3 DEF InvSrc, AllNull
  <2>7. InvRefs' /\ InvDead' /\ InvLastStrong' /\ InvLastWeak'
    BY <2>3 DEF InvRefs, InvDead, InvLastStrong, InvLastWeak, Destroying, AllNull
  <2>8. InvDeleted'
    BY <2>1, <2>4, <2>3 DEF InvDeleted, NoLeak, AllNull
  <2>9. QED
    BY <2>4, <2>5, <2>6, <2>7, <2>8
<1>3. QED
  BY <1>1, <1>2 DEF DecWeakStep

\* The one place where the clients' contract matters: nobody calls force_set()
\* on an object that only ever had weak references.
LEMMA CallShape ==
    ASSUME ForceSetEarly = FALSE, TypeOK, CountFacts, Shape, ClientCall
    PROVE  Shape'
<1> USE RefBaseAssumption, RefsFinite
    DEF Shape, InvNew, InvSpFirst, InvWpFirst, InvSub, InvCur, InvSrc, InvFlags,
        InvRefs, InvDead, InvLastStrong, InvLastWeak, InvDeleted, NoLeak,
        AllNull, Alone, Creator, Destroying, Biased,
        TypeOK, CountFacts, WeakLabels, StrongLabels, Ptr,
        counts, memory, birth, local
<1>1. CASE ExtendObjectLifetime
  BY <1>1 DEF ExtendObjectLifetime
<1>2. CASE \E p \in Sp : NewSp(p)
  BY <1>2 DEF NewSp, Call
<1>3. CASE \E w \in Wp : NewWp(w)
  BY <1>3 DEF NewWp, Call
<1>4. CASE \E p \in Sp, q \in Sp : CopySp(p, q)
  BY <1>4 DEF CopySp, Call
<1>5. CASE \E w \in Wp, q \in Ptr : MakeWp(w, q)
  BY <1>5 DEF MakeWp, Call
<1>6. CASE \E w \in Wp, v \in Wp : AttemptIncWeak(w, v)
  BY <1>6 DEF AttemptIncWeak, Call
<1>7. CASE \E p \in Sp, w \in Wp : Promote(p, w)
  BY <1>7 DEF Promote, Call
<1>8. CASE \E p \in Sp, w \in Wp : ForceSet(p, w)
  BY <1>8 DEF ForceSet, Call
<1>9. CASE \E h \in Ptr : Drop(h)
  BY <1>9 DEF Drop, Goto, Pinned
<1>10. CASE \E g \in Sp, h \in Sp : Move(g, h)
  BY <1>10 DEF Move, Pinned
<1>11. CASE \E g \in Wp, h \in Wp : Move(g, h)
  BY <1>11 DEF Move, Pinned
<1>12. QED
  BY <1>1, <1>2, <1>3, <1>4, <1>5, <1>6, <1>7, <1>8, <1>9, <1>10, <1>11 DEF ClientCall

-----------------------------------------------------------------------------
LEMMA InitCountInv == Init => CountInv
<1> SUFFICES ASSUME Init PROVE CountInv
  OBVIOUS
<1>1. StrongRefs = {} /\ WeakRefs = {}
  BY DEF Init, StrongRefs, WeakRefs, StrongLabels, WeakLabels, Ptr
<1>2. CountsMatch
  BY <1>1, FS_EmptySet, RefBaseAssumption DEF Init, CountsMatch
<1>3. Shape
  BY RefBaseAssumption, RefsFinite
     DEF Shape, InvNew, InvSpFirst, InvWpFirst, InvSub, InvCur, InvSrc, InvFlags,
         InvRefs, InvDead, InvLastStrong, InvLastWeak, InvDeleted, NoLeak,
         AllNull, Alone, Creator, Destroying, Biased,
         TypeOK, CountFacts, WeakLabels, StrongLabels, Ptr,
         counts, memory, birth, local, Init
<1>4. QED
  BY <1>2, <1>3 DEF CountInv

LEMMA NextCountInv ==
    ASSUME ForceSetEarly = FALSE
    PROVE  TypeOK /\ CountInv /\ [Next]_vars => CountInv'
<1> SUFFICES ASSUME TypeOK, CountInv, [Next]_vars PROVE CountInv'
  OBVIOUS
<1>1. CountFacts /\ Shape
  BY CountsTell DEF CountInv
<1>2. CASE UNCHANGED vars
  BY <1>2, <1>1
     DEF Shape, InvNew, InvSpFirst, InvWpFirst, InvSub, InvCur, InvSrc, InvFlags,
         InvRefs, InvDead, InvLastStrong, InvLastWeak, InvDeleted, NoLeak,
         AllNull, Alone, Creator, Destroying, Biased,
         TypeOK, CountFacts, WeakLabels, StrongLabels, Ptr,
         counts, memory, birth, local,
         CountInv, CountsMatch, StrongRefs, WeakRefs, vars
<1>3. CASE ClientCall
  BY <1>1, <1>3, CallCounts, CallShape DEF CountInv
<1>4. CASE \E p \in Sp : SpStep(p)
  BY <1>1, <1>4, SpStepCounts, SpStepShape DEF CountInv
<1>5. CASE \E w \in Wp : WpStep(w)
  BY <1>1, <1>5, OtherCounts, WpStepShape DEF CountInv, Ptr
<1>6. CASE \E h \in Ptr : DecWeakStep(h)
  BY <1>1, <1>6, OtherCounts, DecWeakShape DEF CountInv
<1>7. QED
  BY <1>2, <1>3, <1>4, <1>5, <1>6 DEF Next

LEMMA Invariance ==
    ASSUME ForceSetEarly = FALSE
    PROVE  Spec => [](TypeOK /\ CountInv)
<1>1. Init => TypeOK /\ CountInv
  BY InitTypeOK, InitCountInv
<1>2. TypeOK /\ CountInv /\ [Next]_vars => (TypeOK /\ CountInv)'
  BY NextTypeOK, NextCountInv
<1>3. QED
  BY <1>1, <1>2, PTL DEF Spec

(***************************************************************************)
(* CountsMatch: mWeak is the number of references, mStrong the number of   *)
(* strong ones plus at most one INITIAL_STRONG_VALUE, with any number of   *)
(* threads in incStrong, decStrong, attemptIncStrong and decWeak.          *)
(***************************************************************************)
THEOREM Counting ==
    ASSUME ForceSetEarly = FALSE
    PROVE  Spec => []CountsMatch
<1>1. TypeOK /\ CountInv => CountsMatch
  BY DEF CountInv
<1>2. QED
  BY <1>1, Invariance, PTL

(***************************************************************************)
(* NoUseAfterFree: the object and its weakref_impl are never touched after *)
(* they were deleted, nor deleted twice.                                   *)
(***************************************************************************)
THEOREM MemorySafety ==
    ASSUME ForceSetEarly = FALSE
    PROVE  Spec => []NoUseAfterFree
<1>1. ASSUME TypeOK, CountInv PROVE NoUseAfterFree
  <2>1. CountFacts /\ Shape
    BY <1>1, CountsTell DEF CountInv
  <2>2. SUFFICES ASSUME NEW h \in Ptr
        PROVE  /\ pc[h] # "null" => refs = "alive"
               /\ pc[h] \in ObjectLabels => object = "alive"
               /\ pc[h] = "last_weak" /\ (mFlags = "WEAK" \/ mStrong = INITIAL_STRONG_VALUE)
                     => object = "alive"
    BY DEF NoUseAfterFree
  <2>3. pc[h] # "null" => refs = "alive"
    BY <2>1 DEF Shape, InvRefs
  <2>4. pc[h] # "null" /\ (mFlags = "WEAK" \/ mStrong # 0) => object = "alive"
    BY <1>1, <2>1 DEF Shape, InvDead, AllNull, TypeOK
  <2>5. INITIAL_STRONG_VALUE # 0
    BY <2>1, RefsFinite, RefBaseAssumption
  <2>6. pc[h] \in ObjectLabels => h \in Sp
    BY <1>1 DEF ObjectLabels, TypeOK, Ptr, WpLabels, Idle
  <2>7. pc[h] \in {"first_ref", "unneeded", "dec_strong"} => mStrong # 0
    BY <2>1, <2>6 DEF CountFacts, StrongLabels, ObjectLabels
  <2>8. pc[h] = "inc_weak" => mStrong # 0
    BY <1>1, <2>1, <2>5, RefBaseAssumption
       DEF Shape, InvSrc, Creator, CountFacts, StrongLabels, Ptr
  <2>9. pc[h] \in {"last_strong", "delete_this"} /\ mFlags = "STRONG" => object = "alive"
    BY <2>1, <2>6 DEF Shape, InvLastStrong, Destroying, ObjectLabels
  <2>10. pc[h] \in {"force_weak", "try_ask"} => mFlags = "WEAK"
    BY <2>1, <2>6 DEF Shape, InvFlags, ObjectLabels
  <2>11. mFlags \in {"STRONG", "WEAK"}
    BY <1>1 DEF TypeOK
  <2>12. QED
    BY <2>3, <2>4, <2>5, <2>7, <2>8, <2>9, <2>10, <2>11 DEF ObjectLabels
<1>2. QED
  BY <1>1, Invariance, PTL

(***************************************************************************)
(* ReferenceKeepsObject: whoever holds an sp, or a wp under the extended   *)
(* life-time, can use the object.                                          *)
(***************************************************************************)
THEOREM References ==
    ASSUME ForceSetEarly = FALSE
    PROVE  Spec => []ReferenceKeepsObject
<1>1. ASSUME TypeOK, CountInv PROVE ReferenceKeepsObject
  <2>1. CountFacts /\ Shape
    BY <1>1, CountsTell DEF CountInv
  <2>2. QED
    BY <1>1, <2>1
       DEF ReferenceKeepsObject, Shape, InvDead, AllNull, CountFacts, StrongLabels, TypeOK
<1>2. QED
  BY <1>1, Invariance, PTL

(***************************************************************************)
(* AssertsHold: no ALOG_ASSERT of the counting functions ever fails.       *)
(***************************************************************************)
THEOREM Asserts ==
    ASSUME ForceSetEarly = FALSE
    PROVE  Spec => []AssertsHold
<1>1. ASSUME TypeOK, CountInv PROVE AssertsHold
  <2>1. CountFacts /\ Shape
    BY <1>1, CountsTell DEF CountInv
  <2>2. INITIAL_STRONG_VALUE \in Nat \ {0}
    BY RefsFinite, RefBaseAssumption
  <2>3. ASSUME NEW p \in Sp, pc[p] = "inc_strong" PROVE mStrong > 0
    BY <2>1, <2>2, <2>3, RefBaseAssumption
       DEF Shape, InvSrc, Creator, CountFacts, StrongLabels, Ptr
  <2>4. QED
    BY <2>1, <2>3
       DEF AssertsHold, Shape, InvCur, CountFacts, WeakLabels, StrongLabels, Ptr
<1>2. QED
  BY <1>1, Invariance, PTL

(***************************************************************************)
(* NoLeak: when every handle is null again, both parts have been freed.    *)
(***************************************************************************)
THEOREM NothingLeaks ==
    ASSUME ForceSetEarly = FALSE
    PROVE  Spec => []NoLeak
<1>1. TypeOK /\ CountInv => NoLeak
  BY DEF CountInv, Shape
<1>2. QED
  BY <1>1, Invariance, PTL

(***************************************************************************)
(* NeverRevived: under the normal life-time a strong count of zero stays   *)
(* zero, so attemptIncStrong never returns an object being destroyed.      *)
(***************************************************************************)
THEOREM NoRevival ==
    ASSUME ForceSetEarly = FALSE
    PROVE  Spec => NeverRevived
<1> DEFINE Zero == mFlags = "STRONG" /\ mStrong = 0
<1>1. ASSUME TypeOK, CountInv, [Next]_vars, Zero PROVE mStrong' = 0
  <2>1. CountFacts /\ Shape
    BY <1>1, CountsTell DEF CountInv
  <2>2. INITIAL_STRONG_VALUE \in Nat \ {0}
    BY RefsFinite, RefBaseAssumption
  <2>3. CASE UNCHANGED mStrong
    BY <2>3, <1>1
  <2>4. ASSUME NEW p \in Sp, SpStep(p) PROVE mStrong' = 0
    <3>1. pc[p] \notin {"sub_initial", "dec_strong"}
      BY <1>1, <2>1 DEF CountFacts, StrongLabels
    <3>2. pc[p] # "inc_strong"
      BY <1>1, <2>1, <2>2, RefBaseAssumption
         DEF Shape, InvSrc, Creator, CountFacts, StrongLabels, Ptr
    <3>3. pc[p] \notin {"force_strong", "try_inc"}
      BY <1>1, <2>1 DEF Shape, InvFlags
    <3>4. pc[p] \in {"try_cas", "init_cas", "fix_cas"} => mStrong # cur[p]
      BY <1>1, <2>1, <2>2 DEF Shape, InvCur
    <3>5. QED
      BY <1>1, <2>4, <3>1, <3>2, <3>3, <3>4
         DEF SpStep, IncWeak, IncStrong, ForceIncStrong, SubInitial, OnFirstRef,
             AttemptRead, AttemptCas, OnIncStrongAttempted, AttemptInc, InitialCas,
             InitialRead, Unneeded, FixRead, FixCas, DecStrong, OnLastStrongRef,
             DeleteThis, counts
  <2>5. CASE ClientCall
    BY <1>1, <2>5
       DEF ClientCall, ExtendObjectLifetime, NewSp, NewWp, CopySp, MakeWp,
           AttemptIncWeak, Promote, ForceSet, Drop, Move, counts
  <2>6. ASSUME NEW w \in Wp, WpStep(w) PROVE mStrong' = 0
    BY <1>1, <2>6 DEF WpStep, CreateWeak, AttemptWeakRead, AttemptWeakCas, counts
  <2>7. ASSUME NEW h \in Ptr, DecWeakStep(h) PROVE mStrong' = 0
    BY <1>1, <2>7 DEF DecWeakStep, DecWeak, LastWeak, counts
  <2>8. QED
    BY <1>1, <2>3, <2>4, <2>5, <2>6, <2>7 DEF Next, vars
<1>2. TypeOK /\ CountInv /\ [Next]_vars => (Zero => mStrong' = 0)
  BY <1>1
<1>3. Spec => [][Zero => mStrong' = 0]_vars
  BY <1>2, Invariance, PTL DEF Spec
<1>4. QED
  BY <1>3 DEF NeverRevived

-----------------------------------------------------------------------------
(***************************************************************************)
(* The callbacks: a ledger of what has been called and not counted yet, or *)
(* counted and not called.                                                 *)
(***************************************************************************)
\* onFirstRef or onIncStrongAttempted was called for a reference that is not
\* counted yet, will turn out to be unneeded, or has gone.
Ahead == {"try_inc", "unneeded", "last_strong"}

\* The first reference is counted and onFirstRef has not been called.
Behind == {"sub_initial", "first_ref"}

AheadRefs  == {p \in Sp : pc[p] \in Ahead}
BehindRefs == {p \in Sp : pc[p] \in Behind}

\* Is one call of the two due to references that are there?
Referenced == IF mStrong \in {0, INITIAL_STRONG_VALUE} THEN 0 ELSE 1

Ledger == owed = Referenced + Cardinality(AheadRefs) - Cardinality(BehindRefs)

(***************************************************************************)
(* When the first reference is strong, promote() never meets               *)
(* INITIAL_STRONG_VALUE: it goes before the creator's handle is set.       *)
(***************************************************************************)
LedgerInv ==
    published # "wp" =>
        /\ Ledger
        /\ \A p \in Sp : pc[p] \notin {"init_cas", "init_read"}
        /\ published = "sp" /\ Biased => ~AllNull

-----------------------------------------------------------------------------
AheadBy(label)  == IF label \in Ahead THEN 1 ELSE 0
BehindBy(label) == IF label \in Behind THEN 1 ELSE 0

LEMMA LedgerFinite ==
    /\ IsFiniteSet(AheadRefs) /\ Cardinality(AheadRefs) \in Nat
    /\ IsFiniteSet(BehindRefs) /\ Cardinality(BehindRefs) \in Nat
<1>1. AheadRefs \subseteq Sp /\ BehindRefs \subseteq Sp
  BY DEF AheadRefs, BehindRefs
<1>2. QED
  BY <1>1, RefBaseAssumption, FS_Subset, FS_CardinalityType

\* A handle that changes its label moves at most itself.
LEMMA LedgerMoves ==
    ASSUME TypeOK, NEW p \in Sp, NEW label, pc' = [pc EXCEPT ![p] = label]
    PROVE  /\ Cardinality(AheadRefs') =
                 Cardinality(AheadRefs) + AheadBy(label) - AheadBy(pc[p])
           /\ Cardinality(BehindRefs') =
                 Cardinality(BehindRefs) + BehindBy(label) - BehindBy(pc[p])
<1>1. /\ AheadRefs' = IF label \in Ahead THEN AheadRefs \cup {p} ELSE AheadRefs \ {p}
      /\ BehindRefs' = IF label \in Behind THEN BehindRefs \cup {p} ELSE BehindRefs \ {p}
  BY DEF AheadRefs, BehindRefs, TypeOK, Ptr
<1>2. (p \in AheadRefs <=> pc[p] \in Ahead) /\ (p \in BehindRefs <=> pc[p] \in Behind)
  BY DEF AheadRefs, BehindRefs
<1>3. /\ Cardinality(AheadRefs \cup {p}) =
            Cardinality(AheadRefs) + IF p \in AheadRefs THEN 0 ELSE 1
      /\ Cardinality(AheadRefs \ {p}) =
            Cardinality(AheadRefs) - IF p \in AheadRefs THEN 1 ELSE 0
      /\ Cardinality(BehindRefs \cup {p}) =
            Cardinality(BehindRefs) + IF p \in BehindRefs THEN 0 ELSE 1
      /\ Cardinality(BehindRefs \ {p}) =
            Cardinality(BehindRefs) - IF p \in BehindRefs THEN 1 ELSE 0
  BY LedgerFinite, CardUpdate
<1>4. QED
  BY <1>1, <1>2, <1>3, LedgerFinite DEF AheadBy, BehindBy

\* What does not change the strong count or enter one of the labels.
LEMMA LedgerStutter ==
    ASSUME LedgerInv, UNCHANGED <<mStrong, owed>>,
           published' = published \/ (published = "new" /\ ~AllNull'),
           published = "sp" /\ Biased /\ AllNull' => AllNull,
           \A p \in Sp : pc'[p] = pc[p] \/ {pc[p], pc'[p]} \cap (Ahead \cup Behind) = {},
           \A p \in Sp : pc'[p] = pc[p] \/ pc'[p] \notin {"init_cas", "init_read"}
    PROVE  LedgerInv'
<1>1. AheadRefs' = AheadRefs /\ BehindRefs' = BehindRefs
  BY DEF AheadRefs, BehindRefs
<1>2. QED
  BY <1>1 DEF LedgerInv, Ledger, Referenced, Biased

LEMMA InitLedgerInv == Init => LedgerInv
<1> SUFFICES ASSUME Init PROVE LedgerInv
  OBVIOUS
<1>1. AheadRefs = {} /\ BehindRefs = {}
  BY DEF Init, AheadRefs, BehindRefs, Ahead, Behind, Ptr
<1>2. Cardinality(AheadRefs) = 0 /\ Cardinality(BehindRefs) = 0
  BY <1>1, FS_EmptySet
<1>3. QED
  BY <1>2 DEF Init, LedgerInv, Ledger, Referenced, Ptr

LEMMA CallLedger ==
    ASSUME TypeOK, CountInv, LedgerInv, ClientCall PROVE LedgerInv'
<1>1. published = "new" => AllNull
  BY DEF CountInv, Shape, InvNew
<1>2. UNCHANGED <<mStrong, owed>>
  BY DEF ClientCall, ExtendObjectLifetime, NewSp, NewWp, CopySp, MakeWp, AttemptIncWeak,
         Promote, ForceSet, Drop, Move, counts
<1>3. CASE \E w \in Wp : NewWp(w)
  BY <1>3 DEF NewWp, LedgerInv
<1>4. CASE ~\E w \in Wp : NewWp(w)
  <2>1. published' = published \/ (published = "new" /\ ~AllNull')
    BY <1>4
       DEF ClientCall, ExtendObjectLifetime, NewSp, CopySp, MakeWp, AttemptIncWeak,
           Promote, ForceSet, Drop, Move, birth, Call, AllNull, Ptr, TypeOK
  <2>2. AllNull' => AllNull
    BY DEF ClientCall, ExtendObjectLifetime, NewSp, NewWp, CopySp, MakeWp, AttemptIncWeak,
           Promote, ForceSet, Drop, Move, Call, Goto, AllNull, Ptr, TypeOK, local
  <2>3. \A p \in Sp : \/ pc'[p] = pc[p]
                      \/ /\ pc[p] \in Idle
                         /\ pc'[p] \in Idle \cup {"inc_weak", "try_weak", "force_weak", "dec_strong"}
    BY <1>4, <1>1, RefBaseAssumption
       DEF ClientCall, ExtendObjectLifetime, NewSp, CopySp, MakeWp, AttemptIncWeak,
           Promote, ForceSet, Drop, Move, Call, Goto, AllNull, Ptr, TypeOK, local, Idle
  <2>4. QED
    BY <1>2, <2>1, <2>2, <2>3, LedgerStutter DEF Ahead, Behind, Idle
<1>5. QED
  BY <1>3, <1>4

LEMMA OtherLedger ==
    ASSUME TypeOK, CountInv, LedgerInv, NEW h \in Ptr,
           (h \in Wp /\ WpStep(h)) \/ DecWeakStep(h)
    PROVE  LedgerInv'
<1>1. UNCHANGED <<mStrong, owed, published>>
  BY DEF WpStep, DecWeakStep, CreateWeak, AttemptWeakRead, AttemptWeakCas, DecWeak, LastWeak,
         counts, birth
<1>2. published = "sp" /\ Biased => ~(WpStep(h) \/ DecWeakStep(h))
  BY DEF CountInv, Shape, InvSpFirst, WpStep, DecWeakStep, CreateWeak, AttemptWeakRead,
         AttemptWeakCas, DecWeak, LastWeak
<1>3. \A p \in Sp : \/ pc'[p] = pc[p]
                    \/ pc[p] \in {"dec_weak", "last_weak"} /\ pc'[p] \in {"last_weak", "null"}
  BY RefBaseAssumption
     DEF WpStep, DecWeakStep, CreateWeak, AttemptWeakRead, AttemptWeakCas, DecWeak, LastWeak,
         Goto, Load, Return, TypeOK, Ptr
<1>4. QED
  BY <1>1, <1>2, <1>3, LedgerStutter DEF Ahead, Behind

LEMMA SpStepFrame ==
    ASSUME NEW p \in Sp, SpStep(p)
    PROVE  /\ UNCHANGED published /\ pc[p] # "null"
           /\ \E label : pc' = [pc EXCEPT ![p] = label]
  BY DEF SpStep, IncWeak, IncStrong, ForceIncStrong, SubInitial, OnFirstRef,
         AttemptRead, AttemptCas, OnIncStrongAttempted, AttemptInc, InitialCas,
         InitialRead, Unneeded, FixRead, FixCas, DecStrong, OnLastStrongRef,
         DeleteThis, Goto, Load, Return, birth

LEMMA SpStepLedger ==
    ASSUME TypeOK, CountInv, LedgerInv, NEW p \in Sp, SpStep(p), published # "wp"
    PROVE  LedgerInv'
<1>1. CountFacts /\ Shape
  BY CountsTell DEF CountInv
<1>2. /\ mStrong \in Int /\ owed \in Int /\ INITIAL_STRONG_VALUE \in Nat \ {0}
      /\ Cardinality(AheadRefs) \in Nat /\ Cardinality(BehindRefs) \in Nat /\ p \in Ptr
  BY LedgerFinite, RefsFinite, RefBaseAssumption DEF TypeOK, Ptr
<1>3. /\ UNCHANGED published /\ pc[p] # "null"
      /\ \E label : pc' = [pc EXCEPT ![p] = label]
  BY SpStepFrame
<1>4. /\ Cardinality(AheadRefs') = Cardinality(AheadRefs) + AheadBy(pc'[p]) - AheadBy(pc[p])
      /\ Cardinality(BehindRefs') =
            Cardinality(BehindRefs) + BehindBy(pc'[p]) - BehindBy(pc[p])
      /\ pc \in [Ptr -> SpLabels \cup WpLabels] /\ \A q \in Sp : q # p => pc'[q] = pc[q]
  BY <1>2, <1>3, LedgerMoves DEF TypeOK, Ptr
<1>5. published = "sp"
  BY <1>1, <1>2, <1>3 DEF TypeOK, Shape, InvNew, AllNull
<1>6. /\ Biased => pc[p] \in {"inc_weak", "inc_strong", "sub_initial"} /\ Alone(p)
      /\ pc[p] \notin {"init_cas", "init_read"} /\ Ledger
  BY <1>1, <1>2, <1>3, <1>5 DEF Shape, InvSpFirst, LedgerInv
<1>7. pc[p] = "inc_strong" => mStrong = INITIAL_STRONG_VALUE \/ (~Biased /\ mStrong > 0)
  BY <1>1, <1>2, <1>6, RefBaseAssumption
     DEF Shape, InvSrc, Creator, CountFacts, StrongLabels, Ptr, Alone, Biased
<1>8. Ledger'
  <2> USE <1>1, <1>2, <1>4, <1>6
      DEF Ledger, Referenced, AheadBy, BehindBy, Ahead, Behind, Biased, counts, TypeOK
  <2>1. CASE IncStrong(p)
    BY <2>1, <1>7 DEF IncStrong, Goto, Return, CountFacts, StrongLabels
  <2>2. CASE ForceIncStrong(p)
    BY <2>2 DEF ForceIncStrong, Goto, Return, CountFacts, StrongLabels
  <2>3. CASE SubInitial(p)
    BY <2>3 DEF SubInitial, Goto, CountFacts, StrongLabels, Shape, InvSub
  <2>4. CASE OnFirstRef(p)
    BY <2>4 DEF OnFirstRef, Return
  <2>5. CASE AttemptCas(p)
    BY <2>5 DEF AttemptCas, Goto, CountFacts, StrongLabels, Shape, InvCur
  <2>6. CASE OnIncStrongAttempted(p)
    BY <2>6 DEF OnIncStrongAttempted, Goto
  <2>7. CASE AttemptInc(p)
    BY <2>7 DEF AttemptInc, Load, AfterHardCase, CountFacts, StrongLabels
  <2>8. CASE Unneeded(p)
    BY <2>8 DEF Unneeded, Goto
  <2>9. CASE FixCas(p)
    BY <2>9 DEF FixCas, Goto, Return, Shape, InvCur
  <2>10. CASE DecStrong(p)
    BY <2>10 DEF DecStrong, Goto, CountFacts, StrongLabels
  <2>11. CASE OnLastStrongRef(p)
    BY <2>11 DEF OnLastStrongRef, Goto
  <2>12. CASE IncWeak(p) \/ AttemptRead(p) \/ FixRead(p) \/ DeleteThis(p)
    BY <2>12 DEF IncWeak, AttemptRead, FixRead, DeleteThis, Goto, Load, Return
  <2>13. QED
    BY <2>1, <2>2, <2>3, <2>4, <2>5, <2>6, <2>7, <2>8, <2>9, <2>10, <2>11, <2>12
       DEF SpStep, InitialCas, InitialRead
<1>9. pc'[p] \notin {"init_cas", "init_read"}
  BY <1>2, <1>4, <1>6
     DEF SpStep, IncWeak, IncStrong, ForceIncStrong, SubInitial, OnFirstRef,
         AttemptRead, AttemptCas, OnIncStrongAttempted, AttemptInc, InitialCas,
         InitialRead, Unneeded, FixRead, FixCas, DecStrong, OnLastStrongRef,
         DeleteThis, Goto, Load, Return, AfterHardCase, Biased
<1>10. Biased' => ~AllNull'
  <2>1. CASE Biased
    BY <2>1, <1>2, <1>4, <1>6
       DEF SpStep, IncWeak, IncStrong, ForceIncStrong, SubInitial, OnFirstRef,
           AttemptRead, AttemptCas, OnIncStrongAttempted, AttemptInc, InitialCas,
           InitialRead, Unneeded, FixRead, FixCas, DecStrong, OnLastStrongRef,
           DeleteThis, Goto, Return, AllNull
  <2>2. CASE ~Biased
    <3>1. \/ mStrong' \in Int /\ mStrong' <= mStrong
          \/ mStrong' = mStrong + 1 /\ pc[p] \notin StrongLabels
      BY <1>2
         DEF SpStep, IncWeak, IncStrong, ForceIncStrong, SubInitial, OnFirstRef,
             AttemptRead, AttemptCas, OnIncStrongAttempted, AttemptInc, InitialCas,
             InitialRead, Unneeded, FixRead, FixCas, DecStrong, OnLastStrongRef,
             DeleteThis, counts, StrongLabels
    <3>2. QED
      BY <1>1, <1>2, <2>2, <3>1 DEF CountFacts, Biased
  <2>3. QED
    BY <2>1, <2>2
<1>11. QED
  BY <1>3, <1>4, <1>6, <1>8, <1>9, <1>10 DEF LedgerInv

LEMMA NextLedger ==
    TypeOK /\ CountInv /\ LedgerInv /\ [Next]_vars => LedgerInv'
<1> SUFFICES ASSUME TypeOK, CountInv, LedgerInv, [Next]_vars PROVE LedgerInv'
  OBVIOUS
<1>1. CASE UNCHANGED vars
  BY <1>1, LedgerStutter DEF vars, AllNull
<1>2. CASE ClientCall
  BY <1>2, CallLedger
<1>3. ASSUME NEW p \in Sp, SpStep(p) PROVE LedgerInv'
  BY <1>3, SpStepFrame, SpStepLedger DEF LedgerInv
<1>4. QED
  BY <1>1, <1>2, <1>3, OtherLedger DEF Next, Ptr

(***************************************************************************)
(* CallbackBalance: with the first reference strong and no call under way, *)
(* onFirstRef and the accepted onIncStrongAttempted are one more than the  *)
(* onLastStrongRef while there are strong references, and as many when     *)
(* there are none, for any number of handles and of revivals.              *)
(***************************************************************************)
THEOREM Callbacks ==
    ASSUME ForceSetEarly = FALSE
    PROVE  Spec => []CallbackBalance
<1>1. ASSUME TypeOK, CountInv, LedgerInv PROVE CallbackBalance
  <2>1. SUFFICES ASSUME published = "sp", Quiet PROVE owed = IF mStrong > 0 THEN 1 ELSE 0
    BY DEF CallbackBalance
  <2>2. AheadRefs = {} /\ BehindRefs = {}
    BY <2>1 DEF AheadRefs, BehindRefs, Quiet, Idle, Ahead, Behind, Ptr
  <2>3. Cardinality(AheadRefs) = 0 /\ Cardinality(BehindRefs) = 0
    BY <2>2, FS_EmptySet
  <2>4. ~Biased
    BY <1>1, <2>1 DEF Quiet, Idle, LedgerInv, AllNull, CountInv, Shape, InvSpFirst
  <2>5. CountFacts /\ INITIAL_STRONG_VALUE \in Nat
    BY <1>1, CountsTell, RefBaseAssumption DEF CountInv
  <2>6. QED
    BY <1>1, <2>1, <2>3, <2>4, <2>5 DEF LedgerInv, Ledger, Referenced, CountFacts, Biased
<1>2. Init => TypeOK /\ CountInv /\ LedgerInv
  BY InitTypeOK, InitCountInv, InitLedgerInv
<1>3. TypeOK /\ CountInv /\ LedgerInv /\ [Next]_vars => (TypeOK /\ CountInv /\ LedgerInv)'
  BY NextTypeOK, NextCountInv, NextLedger
<1>4. QED
  BY <1>1, <1>2, <1>3, PTL DEF Spec

-----------------------------------------------------------------------------
(***************************************************************************)
(* RefBase implements RefLifetime: the counts are one way to know which    *)
(* handles hold references, for any number of handles.                     *)
(***************************************************************************)
AbstractNext == [Lifetime!Next]_(Lifetime!vars)

(***************************************************************************)
(* How a step of one handle changes what RefLifetime sees.                 *)
(***************************************************************************)
LEMMA Moves ==
    ASSUME TypeOK, NEW h \in Ptr, NEW label, pc' = [pc EXCEPT ![h] = label]
    PROVE  /\ label \notin {"null", "last_weak"} /\ pc[h] \notin {"null", "last_weak"}
                 => Held' = Held /\ h \in Held
           /\ label \in {"null", "last_weak"} /\ pc[h] \in {"null", "last_weak"}
                 => Held' = Held
           /\ label \notin {"null", "last_weak"} /\ pc[h] \in {"null", "last_weak"}
                 => Held' = Held \cup {h} /\ h \notin Held
           /\ label \in {"null", "last_weak"} /\ pc[h] \notin {"null", "last_weak"}
                 => Held' = Held \ {h} /\ h \in Held
           /\ h \in Sp /\ label \in StrongLabels /\ pc[h] \notin StrongLabels
                 => StrongRefs' = StrongRefs \cup {h} /\ h \notin StrongRefs
           /\ h \in Sp /\ label \notin StrongLabels /\ pc[h] \in StrongLabels
                 => StrongRefs' = StrongRefs \ {h} /\ h \in StrongRefs
           /\ h \notin Sp \/ (label \in StrongLabels <=> pc[h] \in StrongLabels)
                 => StrongRefs' = StrongRefs
  BY DEF TypeOK, Held, StrongRefs, Ptr

LEMMA SpStepRefines ==
    ASSUME TypeOK, CountInv, NEW p \in Sp, SpStep(p)
    PROVE  AbstractNext
<1>1. CountFacts /\ Shape
  BY CountsTell DEF CountInv
<1>2. p \in Ptr /\ INITIAL_STRONG_VALUE \in Nat \ {0}
  BY <1>1, RefsFinite, RefBaseAssumption DEF Ptr
<1>3. /\ p \in StrongRefs <=> pc[p] \in StrongLabels
      /\ p \in Held <=> pc[p] \notin {"null", "last_weak"}
  BY <1>2 DEF StrongRefs, Held
<1>4. mStrong \notin {0, INITIAL_STRONG_VALUE} => StrongRefs # {}
  BY <1>1 DEF CountFacts, StrongRefs
<1>5. mFlags = "WEAK" \/ mStrong # 0 => (pc[p] # "null" => object = "alive")
  BY <1>1, <1>2 DEF Shape, InvDead, AllNull, TypeOK
<1>0. /\ pc' = [pc EXCEPT ![p] = pc'[p]]
      /\ pc \in [Ptr -> SpLabels \cup WpLabels] /\ mStrong \in Int
  <2>1. \E label : pc' = [pc EXCEPT ![p] = label]
    BY DEF SpStep, IncWeak, IncStrong, ForceIncStrong, SubInitial, OnFirstRef,
           AttemptRead, AttemptCas, OnIncStrongAttempted, AttemptInc, InitialCas,
           InitialRead, Unneeded, FixRead, FixCas, DecStrong, OnLastStrongRef,
           DeleteThis, Goto, Load, Return
  <2>2. QED
    BY <1>2, <2>1 DEF TypeOK
<1>6. ASSUME pc[p] \notin StrongLabels \cup {"null", "last_weak"},
             pc'[p] \in StrongLabels,
             mStrong' = mStrong + 1,
             mFlags = "WEAK" \/ mStrong # 0,
             UNCHANGED <<mFlags, object, refs, published>>
      PROVE  AbstractNext
  <2>1. Held' = Held /\ StrongRefs' = StrongRefs \cup {p}
    BY <1>0, <1>2, <1>6, Moves DEF StrongLabels
  <2>2. mStrong' # INITIAL_STRONG_VALUE
    BY <1>1, <1>2, <1>6 DEF CountFacts, Biased
  <2>3. Lifetime!Strengthen(p)
    BY <1>2, <1>3, <1>4, <1>5, <1>6, <2>1, <2>2 DEF Lifetime!Strengthen, TypeOK
  <2>4. QED
    BY <2>3 DEF AbstractNext, Lifetime!Next
<1>7. ASSUME pc'[p] \in StrongLabels <=> pc[p] \in StrongLabels,
             pc'[p] \notin {"null", "last_weak"}, pc[p] \notin {"null", "last_weak"},
             mStrong = INITIAL_STRONG_VALUE <=> mStrong' = INITIAL_STRONG_VALUE,
             UNCHANGED <<mFlags, object, refs, published>>
      PROVE  AbstractNext
  <2>1. Held' = Held /\ StrongRefs' = StrongRefs
    BY <1>0, <1>2, <1>7, Moves
  <2>2. QED
    BY <1>7, <2>1 DEF AbstractNext, Lifetime!vars
<1>8. CASE IncWeak(p)
  BY <1>0, <1>2, <1>7, <1>8 DEF IncWeak, Goto, StrongLabels, memory, birth, counts
<1>9. CASE IncStrong(p)
  <2>1. mStrong # 0
    BY <1>1, <1>2, <1>9, RefBaseAssumption
       DEF IncStrong, Shape, InvSrc, Creator, CountFacts, StrongLabels, Ptr
  <2>2. QED
    BY <1>0, <1>2, <1>6, <1>9, <2>1 DEF IncStrong, Goto, Return, StrongLabels, memory, birth, counts
<1>10. CASE ForceIncStrong(p)
  <2>1. mFlags = "WEAK"
    BY <1>1, <1>10 DEF ForceIncStrong, Shape, InvFlags
  <2>2. QED
    BY <1>0, <1>2, <1>6, <1>10, <2>1 DEF ForceIncStrong, Goto, Return, StrongLabels, memory, birth, counts
<1>11. CASE SubInitial(p)
  <2>1. mStrong > INITIAL_STRONG_VALUE /\ mStrong' < INITIAL_STRONG_VALUE
    BY <1>0, <1>1, <1>2, <1>11, RefsFinite
       DEF SubInitial, Shape, InvSub, CountFacts, Biased, StrongLabels
  <2>2. QED
    BY <1>0, <1>2, <1>7, <1>11, <2>1 DEF SubInitial, Goto, StrongLabels, memory, birth, counts
<1>12. CASE OnFirstRef(p)
  BY <1>0, <1>2, <1>7, <1>12 DEF OnFirstRef, Return, StrongLabels, memory, birth, counts
<1>13. CASE AttemptRead(p)
  BY <1>0, <1>2, <1>7, <1>13 DEF AttemptRead, Load, StrongLabels, memory, birth, counts
<1>14. CASE AttemptCas(p)
  <2>1. CASE mStrong = cur[p]
    BY <1>1, <1>0, <1>2, <1>6, <1>14, <2>1 DEF AttemptCas, Goto, StrongLabels, Shape, InvCur, memory, birth, counts
  <2>2. CASE mStrong # cur[p]
    BY <1>0, <1>2, <1>7, <1>14, <2>2 DEF AttemptCas, Goto, StrongLabels, memory, birth, counts
  <2>3. QED
    BY <2>1, <2>2
<1>15. CASE OnIncStrongAttempted(p)
  BY <1>0, <1>2, <1>7, <1>15 DEF OnIncStrongAttempted, Goto, StrongLabels, memory, birth, counts
<1>16. CASE AttemptInc(p)
  <2>1. mFlags = "WEAK"
    BY <1>1, <1>16 DEF AttemptInc, Shape, InvFlags
  <2>2. QED
    BY <1>0, <1>2, <1>6, <1>16, <2>1 DEF AttemptInc, Load, AfterHardCase, StrongLabels, memory, birth, counts
<1>17. CASE InitialCas(p)
  <2>1. CASE mStrong = cur[p]
    BY <1>1, <1>0, <1>2, <1>6, <1>17, <2>1
       DEF InitialCas, Goto, AfterHardCase, StrongLabels, Shape, InvCur, memory, birth, counts
  <2>2. CASE mStrong # cur[p]
    BY <1>0, <1>2, <1>7, <1>17, <2>2 DEF InitialCas, Goto, StrongLabels, memory, birth, counts
  <2>3. QED
    BY <2>1, <2>2
<1>18. CASE InitialRead(p)
  BY <1>0, <1>2, <1>7, <1>18 DEF InitialRead, Load, StrongLabels, memory, birth, counts
<1>19. CASE Unneeded(p)
  BY <1>0, <1>2, <1>7, <1>19 DEF Unneeded, Goto, StrongLabels, memory, birth, counts
<1>20. CASE FixRead(p)
  BY <1>0, <1>2, <1>7, <1>20 DEF FixRead, Load, Return, StrongLabels, memory, birth, counts
<1>21. CASE FixCas(p)
  <2>1. CASE mStrong = cur[p]
    <3>1. mStrong > INITIAL_STRONG_VALUE /\ mStrong' < INITIAL_STRONG_VALUE
      BY <1>0, <1>1, <1>2, <1>21, <2>1, RefsFinite
         DEF FixCas, Shape, InvCur, CountFacts, Biased
    <3>2. QED
      BY <1>0, <1>2, <1>7, <1>21, <2>1, <3>1 DEF FixCas, Return, StrongLabels, memory, birth, counts
  <2>2. CASE mStrong # cur[p]
    BY <1>0, <1>2, <1>7, <1>21, <2>2 DEF FixCas, Goto, StrongLabels, memory, birth, counts
  <2>3. QED
    BY <2>1, <2>2
<1>22. CASE DecStrong(p)
  <2>1. pc' = [pc EXCEPT ![p] = IF mStrong = 1 THEN "last_strong" ELSE "dec_weak"]
        /\ pc[p] = "dec_strong" /\ mStrong' = mStrong - 1
    BY <1>22 DEF DecStrong, Goto
  <2>2. Held' = Held /\ StrongRefs' = StrongRefs \ {p} /\ p \in StrongRefs
    BY <1>2, <1>3, <2>1, Moves DEF StrongLabels
  <2>3. ~Biased
    BY <1>1, <1>2, <2>1 DEF Shape, InvNew, InvSpFirst, InvWpFirst, AllNull, TypeOK
  <2>4. mStrong # INITIAL_STRONG_VALUE /\ mStrong' # INITIAL_STRONG_VALUE
    BY <1>0, <1>2, <2>1, <2>3 DEF Biased
  <2>5. Lifetime!Weaken(p)
    BY <1>22, <2>2, <2>4 DEF Lifetime!Weaken, DecStrong, memory, birth
  <2>6. QED
    BY <2>5 DEF AbstractNext, Lifetime!Next
<1>23. CASE OnLastStrongRef(p)
  BY <1>0, <1>2, <1>7, <1>23 DEF OnLastStrongRef, Goto, StrongLabels, memory, birth, counts
<1>24. CASE DeleteThis(p)
  <2>1. mStrong = 0 /\ object = "alive" /\ mFlags = "STRONG"
    BY <1>1, <1>24 DEF DeleteThis, Shape, InvFlags, InvLastStrong, Destroying
  <2>2. StrongRefs = {}
    BY <1>1, <2>1 DEF StrongRefs, CountFacts
  <2>3. pc' = [pc EXCEPT ![p] = "dec_weak"] /\ pc[p] = "delete_this"
    BY <1>24 DEF DeleteThis, Goto
  <2>4. Held' = Held /\ StrongRefs' = StrongRefs /\ p \in Held
    BY <1>2, <1>3, <2>3, Moves DEF StrongLabels
  <2>5. published # "new"
    BY <1>1, <1>2, <2>3 DEF Shape, InvNew, AllNull
  <2>6. Lifetime!DeleteObject
    BY <1>2, <1>24, <2>1, <2>2, <2>4, <2>5
       DEF DeleteThis, DestroyBase, Lifetime!DeleteObject, Lifetime!Unreachable,
           counts, birth
  <2>7. QED
    BY <2>6 DEF AbstractNext, Lifetime!Next
<1>25. QED
  BY <1>8, <1>9, <1>10, <1>11, <1>12, <1>13, <1>14, <1>15, <1>16, <1>17, <1>18,
     <1>19, <1>20, <1>21, <1>22, <1>23, <1>24 DEF SpStep

LEMMA WpStepRefines ==
    ASSUME TypeOK, CountInv, NEW w \in Wp, WpStep(w)
    PROVE  AbstractNext
<1>1. CountFacts /\ Shape
  BY CountsTell DEF CountInv
<1>2. w \in Ptr /\ w \notin Sp
  BY RefBaseAssumption DEF Ptr
<1>3. pc[w] = "tryw_read" => mWeak > 0
  BY <1>1, <1>2, RefBaseAssumption
     DEF Shape, InvSrc, CountFacts, WeakLabels, StrongLabels, Ptr
<1>4. pc[w] \notin {"null", "last_weak"} /\ pc'[w] \notin {"null", "last_weak"}
      /\ pc' = [pc EXCEPT ![w] = pc'[w]]
      /\ UNCHANGED <<mStrong, mFlags, object, refs, published>>
  BY <1>2, <1>3
     DEF WpStep, CreateWeak, AttemptWeakRead, AttemptWeakCas, Goto, Load, Return,
         TypeOK, counts, memory, birth
<1>5. Held' = Held /\ StrongRefs' = StrongRefs
  BY <1>2, <1>4, Moves
<1>6. QED
  BY <1>4, <1>5 DEF AbstractNext, Lifetime!vars

LEMMA DecWeakRefines ==
    ASSUME TypeOK, CountInv, NEW h \in Ptr, DecWeakStep(h)
    PROVE  AbstractNext
<1>1. CountFacts /\ Shape
  BY CountsTell DEF CountInv
<1>2. CASE DecWeak(h)
  <2>1. /\ pc[h] = "dec_weak" /\ pc'[h] \in {"null", "last_weak"}
        /\ pc' = [pc EXCEPT ![h] = pc'[h]]
        /\ UNCHANGED <<mStrong, mFlags, object, refs, published>>
    BY <1>2 DEF DecWeak, Goto, Return, TypeOK, memory, birth
  <2>2. Held' = Held \ {h} /\ h \in Held
    BY <2>1, Moves
  <2>3. StrongRefs' = StrongRefs /\ h \notin StrongRefs
    BY <2>1, Moves DEF StrongLabels, StrongRefs
  <2>4. Lifetime!LetGo(h)
    BY <2>1, <2>2, <2>3 DEF Lifetime!LetGo
  <2>5. QED
    BY <2>4 DEF AbstractNext, Lifetime!Next, Ptr
<1>3. CASE LastWeak(h)
  <2>1. /\ pc[h] = "last_weak"
        /\ pc' = [pc EXCEPT ![h] = "null"]
        /\ UNCHANGED <<mStrong, mWeak, mFlags, published>>
    BY <1>3 DEF LastWeak, Return, counts, birth
  <2>2. Alone(h)
    BY <1>1, <2>1 DEF Shape, InvLastWeak
  <2>3. Held = {} /\ StrongRefs = {}
    BY <2>1, <2>2 DEF Alone, Held, StrongRefs, StrongLabels, Ptr
  <2>4. Held' = Held /\ StrongRefs' = StrongRefs
    BY <2>1, Moves DEF StrongLabels
  <2>5. mStrong \in {0, INITIAL_STRONG_VALUE} /\ mWeak = 0
    BY <1>1, <2>1, <2>2 DEF CountFacts, Alone, StrongLabels, WeakLabels, Ptr
  <2>6. published # "new"
    BY <1>1, <2>1 DEF Shape, InvNew, AllNull
  <2>7. refs = "alive"
    BY <1>1, <2>1 DEF Shape, InvRefs
  <2>8. INITIAL_STRONG_VALUE # 0
    BY <1>1, RefsFinite, RefBaseAssumption
  <2>9. CASE mFlags = "STRONG" /\ mStrong # INITIAL_STRONG_VALUE
    <3>1. object = "deleted"
      BY <1>1, <2>1, <2>2, <2>5, <2>9
         DEF Shape, InvDeleted, Destroying, Alone, Ptr
    <3>2. Lifetime!DeleteRefs
      BY <1>3, <2>1, <2>3, <2>4, <2>7, <2>9, <3>1 DEF LastWeak, Lifetime!DeleteRefs
    <3>3. QED
      BY <3>2 DEF AbstractNext, Lifetime!Next
  <2>10. CASE ~(mFlags = "STRONG" /\ mStrong # INITIAL_STRONG_VALUE)
    <3>1. object = "alive" /\ mFlags \in {"STRONG", "WEAK"}
      BY <1>1, <2>1, <2>8, <2>10 DEF Shape, InvDead, AllNull, TypeOK
    <3>2. Lifetime!DeleteObject
      BY <1>3, <2>1, <2>3, <2>4, <2>5, <2>6, <2>10, <3>1
         DEF LastWeak, DestroyBase, Lifetime!DeleteObject, Lifetime!Unreachable
    <3>3. QED
      BY <3>2 DEF AbstractNext, Lifetime!Next
  <2>11. QED
    BY <2>9, <2>10
<1>4. QED
  BY <1>2, <1>3 DEF DecWeakStep

LEMMA CallRefines ==
    ASSUME TypeOK, CountInv, ClientCall
    PROVE  AbstractNext
<1>1. CountFacts /\ Shape
  BY CountsTell DEF CountInv
<1>2. ASSUME NEW h \in Ptr, NEW q, NEW label,
             label \in {"inc_weak", "create_weak", "tryw_read", "try_weak", "force_weak"},
             Call(h, q, label), pc[h] = "null",
             published = "new" \/ \E g \in Ptr : pc[g] = "set",
             published' # "new",
             UNCHANGED <<counts, memory, mFlags>>
      PROVE  AbstractNext
  <2>1. Held' = Held \cup {h} /\ h \notin Held
    BY <1>2, Moves DEF Call
  <2>2. StrongRefs' = StrongRefs
    BY <1>2, Moves DEF Call, StrongLabels
  <2>3. ~(published # "new") \/ Held # {}
    BY <1>2 DEF Held
  <2>4. Lifetime!Hold(h)
    BY <1>2, <2>1, <2>2, <2>3 DEF Lifetime!Hold, counts, memory
  <2>5. QED
    BY <2>4 DEF AbstractNext, Lifetime!Next, Ptr
<1>3. published = "new" => \A h \in Ptr : pc[h] = "null"
  BY <1>1 DEF Shape, InvNew, AllNull
<1>4. CASE ExtendObjectLifetime
  <2>1. Held' = Held /\ StrongRefs' = StrongRefs
    BY <1>4 DEF ExtendObjectLifetime, Held, StrongRefs, local
  <2>2. Lifetime!Extend
    BY <1>4, <2>1 DEF ExtendObjectLifetime, Lifetime!Extend, counts, memory
  <2>3. QED
    BY <2>2 DEF AbstractNext, Lifetime!Next
<1>5. CASE \E p \in Sp : NewSp(p)
  BY <1>2, <1>3, <1>5 DEF NewSp, Ptr
<1>6. CASE \E w \in Wp : NewWp(w)
  BY <1>2, <1>3, <1>6 DEF NewWp, Ptr
<1>7. CASE \E p \in Sp, q \in Sp : CopySp(p, q)
  BY <1>2, <1>3, <1>7 DEF CopySp, Ptr, birth
<1>8. CASE \E w \in Wp, q \in Ptr : MakeWp(w, q)
  BY <1>2, <1>3, <1>8 DEF MakeWp, Ptr, birth
<1>9. CASE \E w \in Wp, v \in Wp : AttemptIncWeak(w, v)
  BY <1>2, <1>3, <1>9 DEF AttemptIncWeak, Ptr, birth
<1>10. CASE \E p \in Sp, w \in Wp : Promote(p, w)
  BY <1>2, <1>3, <1>10 DEF Promote, Ptr, birth
<1>11. CASE \E p \in Sp, w \in Wp : ForceSet(p, w)
  BY <1>2, <1>3, <1>11 DEF ForceSet, Ptr, birth
<1>12. CASE \E h \in Ptr : Drop(h)
  <2>1. PICK h \in Ptr : Drop(h)
    BY <1>12
  <2>2. /\ pc[h] = "set"
        /\ pc' = [pc EXCEPT ![h] = IF h \in Sp THEN "dec_strong" ELSE "dec_weak"]
        /\ UNCHANGED <<mStrong, mFlags, object, refs, published>>
    BY <2>1 DEF Drop, Goto, counts, memory, birth
  <2>3. Held' = Held
    BY <2>2, Moves
  <2>4. StrongRefs' = StrongRefs
    BY <2>2, Moves DEF StrongLabels
  <2>5. QED
    BY <2>2, <2>3, <2>4 DEF AbstractNext, Lifetime!vars
<1>13. ASSUME NEW g \in Ptr, NEW h \in Ptr, g \in Sp <=> h \in Sp, Move(g, h)
       PROVE  Lifetime!Transfer(g, h)
  <2>1. /\ pc[g] = "null" /\ pc[h] = "set"
        /\ pc' = [pc EXCEPT ![g] = "set", ![h] = "null"]
        /\ UNCHANGED <<mStrong, mFlags, object, refs, published>>
    BY <1>13 DEF Move, counts, memory, birth
  <2>2. Held' = (Held \ {h}) \cup {g} /\ h \in Held /\ g \notin Held
    BY <2>1 DEF Held, TypeOK
  <2>3. StrongRefs' = IF h \in StrongRefs THEN (StrongRefs \ {h}) \cup {g} ELSE StrongRefs
    BY <1>13, <2>1 DEF StrongRefs, StrongLabels, TypeOK, Ptr
  <2>4. QED
    BY <2>1, <2>2, <2>3 DEF Lifetime!Transfer
<1>14. CASE \E g \in Sp, h \in Sp : Move(g, h)
  BY <1>13, <1>14 DEF AbstractNext, Lifetime!Next, Ptr
<1>15. CASE \E g \in Wp, h \in Wp : Move(g, h)
  BY <1>13, <1>15, RefBaseAssumption DEF AbstractNext, Lifetime!Next, Ptr
<1>16. QED
  BY <1>4, <1>5, <1>6, <1>7, <1>8, <1>9, <1>10, <1>11, <1>12, <1>14, <1>15
     DEF ClientCall

(***************************************************************************)
(* ImplementsLifetime: whatever the interleaving, the counting code only   *)
(* does what RefLifetime allows: the object is deleted when it cannot be   *)
(* reached any more and never before, and its weakref_impl likewise.       *)
(***************************************************************************)
THEOREM Refinement ==
    ASSUME ForceSetEarly = FALSE
    PROVE  Spec => ImplementsLifetime
<1>1. Init => Lifetime!Init
  BY DEF Init, Lifetime!Init, Held, StrongRefs, StrongLabels, Ptr
<1>2. ASSUME TypeOK, CountInv, [Next]_vars PROVE [Lifetime!Next]_(Lifetime!vars)
  <2>1. CASE UNCHANGED vars
    BY <2>1 DEF vars, Lifetime!vars, Held, StrongRefs
  <2>2. CASE ClientCall
    BY <1>2, <2>2, CallRefines DEF AbstractNext
  <2>3. CASE \E p \in Sp : SpStep(p)
    BY <1>2, <2>3, SpStepRefines DEF AbstractNext
  <2>4. CASE \E w \in Wp : WpStep(w)
    BY <1>2, <2>4, WpStepRefines DEF AbstractNext
  <2>5. CASE \E h \in Ptr : DecWeakStep(h)
    BY <1>2, <2>5, DecWeakRefines DEF AbstractNext
  <2>6. QED
    BY <1>2, <2>1, <2>2, <2>3, <2>4, <2>5 DEF Next
<1>3. QED
  BY <1>1, <1>2, Invariance, PTL DEF Spec, ImplementsLifetime, Lifetime!Spec

\* RefLifetime keeps its promise: an argument about its few actions, with no count
\* in it.
LEMMA PromiseKept == Lifetime!Spec => []Lifetime!Outlives
<1> DEFINE Inv == Lifetime!Outlives /\ (object = "deleted" => published # "new")
<1>1. Lifetime!Init => Inv
  BY DEF Lifetime!Init, Lifetime!Outlives
<1>2. Inv /\ [Lifetime!Next]_(Lifetime!vars) => Inv'
  <2> SUFFICES ASSUME Inv, [Lifetime!Next]_(Lifetime!vars) PROVE Inv'
    OBVIOUS
  <2> USE DEF Lifetime!Outlives
  <2>1. CASE Lifetime!Extend
    BY <2>1 DEF Lifetime!Extend
  <2>2. CASE \E h \in Sp \cup Wp : Lifetime!Hold(h) \/ Lifetime!LetGo(h)
    BY <2>2 DEF Lifetime!Hold, Lifetime!LetGo
  <2>3. CASE \E p \in Sp : Lifetime!Strengthen(p) \/ Lifetime!Weaken(p)
    BY <2>3 DEF Lifetime!Strengthen, Lifetime!Weaken
  <2>4. CASE \E g, h \in Sp \cup Wp : Lifetime!Transfer(g, h)
    BY <2>4 DEF Lifetime!Transfer
  <2>5. CASE Lifetime!DeleteObject \/ Lifetime!DeleteRefs
    BY <2>5 DEF Lifetime!DeleteObject, Lifetime!DeleteRefs, Lifetime!Unreachable
  <2>6. CASE UNCHANGED Lifetime!vars
    BY <2>6 DEF Lifetime!vars
  <2>7. QED
    BY <2>1, <2>2, <2>3, <2>4, <2>5, <2>6 DEF Lifetime!Next
<1>3. QED
  BY <1>1, <1>2, PTL DEF Lifetime!Spec

(***************************************************************************)
(* Outlives, of the counting code: the object and its weakref_impl outlive *)
(* the references to them, because the code implements RefLifetime.        *)
(***************************************************************************)
THEOREM LifetimeKept ==
    ASSUME ForceSetEarly = FALSE
    PROVE  Spec => []Lifetime!Outlives
  BY Refinement, PromiseKept, PTL DEF ImplementsLifetime
=============================================================================

------------------------ MODULE SmartPointersProofs ------------------------
(***************************************************************************)
(* sp<T> and wp<T> with any number of objects and of variables, and        *)
(* destructors that nest to any depth: the counts are the references, no   *)
(* pointer dangles, and what is left behind is behind a cycle.             *)
(***************************************************************************)
EXTENDS SmartPointers, SequenceTheorems, FiniteSetTheorems, TLAPS

ObjOrNull == Obj \cup {NULL}

Frames ==
    [kind : {"assign", "clear", "drop", "dtor"}, slot : Slot, other : ObjOrNull, old : ObjOrNull,
     at : {"dec", "delete", "free", "weak", "store"}]

TypeOK ==
    /\ ptr \in [Slot -> ObjOrNull]
    /\ wptr \in [WRoot -> ObjOrNull] /\ wrefs \in [WRoot -> ObjOrNull]
    /\ state \in [Obj -> {"unborn", "alive", "dying", "deleted"}]
    /\ refs \in [Obj -> {"alive", "deleted"}]
    /\ strong \in [Obj -> Int] /\ weak \in [Obj -> Int] /\ hand \in [Obj -> Nat]
    /\ stack \in Seq(Frames)

\* Operators nest through destructors only: the outermost is the program's, each
\* one inside releases the member of the object that the one around it deletes.
Nested ==
    \A i \in 1 .. Len(stack) :
        /\ stack[i].kind = "dtor" <=> i # Len(stack)
        /\ i # 1 => stack[i].at = "free" /\ stack[i].old = stack[i - 1].slot
        /\ stack[1].at = "free" => stack[i].slot # stack[1].old
        /\ \A j \in 1 .. Len(stack) : stack[i].slot = stack[j].slot => i = j

\* The objects that a root reaches without the member of d.
Avoiding(d) == {o \in Obj : \A T \in SUBSET Obj : Held((Root \cup T) \ {d}) \subseteq T => o \in T}

FrameOK(f) ==
    /\ f.at = "dec" => f.old = NULL
    /\ f.at \in {"delete", "free", "weak"} => f.old \in Obj /\ state[f.old] # "unborn"
    /\ f.at = "delete" => state[f.old] = "alive" /\ strong[f.old] = 0
    /\ f.at = "free" => state[f.old] = "dying"
    /\ f.kind = "dtor" => f.slot \in Obj /\ state[f.slot] = "dying"
    /\ f.kind = "drop" =>
        /\ f.slot \in Root /\ f.at \notin {"delete", "free"}
        /\ f.at = "dec" => ptr[f.slot] # NULL /\ hand[ptr[f.slot]] > 0
    /\ f.kind # "assign" => f.other = NULL
    /\ f.kind # "dtor" /\ f.slot \in Obj => f.slot \in Avoiding(f.slot)

FramesInv == \A f \in InProgress : FrameOK(f)

\* An object is alive as long as it has a reference, up to its destructor.
AliveInv ==
    \A o \in Obj :
        /\ strong[o] > 0 => state[o] = "alive"
        /\ state[o] = "alive" => strong[o] > 0 \/ (\E f \in InProgress : f.at = "delete" /\ f.old = o)

\* The weakref_impl is there as long as it is counted.
RefsInv ==
    /\ \A o \in Obj : refs[o] = "deleted" <=> weak[o] = 0 /\ state[o] # "unborn"
    /\ \A w \in WRoot : wptr[w] # NULL => wrefs[w] = wptr[w] /\ state[wptr[w]] # "unborn"

\* Only a live object has a member that holds something, and one whose
\* destructor is about to release it.
MemberInv ==
    \A o \in Obj : ptr[o] # NULL =>
        state[o] = "alive" \/ \E f \in InProgress : f.kind = "dtor" /\ f.slot = o

PointerInv ==
    TypeOK /\ Nested /\ FramesInv /\ SlotCounts /\ AliveInv /\ RefsInv /\ MemberInv

-----------------------------------------------------------------------------
(***************************************************************************)
(* The stack.                                                              *)
(***************************************************************************)
\* The operators around the innermost one.
Around == {stack[i] : i \in 2 .. Len(stack)}

LEMMA Empty == ASSUME TypeOK, stack = <<>> PROVE InProgress = {}
  BY DEF InProgress

LEMMA TopOfStack ==
    ASSUME TypeOK, Nested, stack # <<>>
    PROVE  /\ Len(stack) \in Nat \ {0} /\ Top = stack[1] /\ Top \in Frames
           /\ Tail(stack) \in Seq(Frames) /\ Len(Tail(stack)) = Len(stack) - 1
           /\ \A i \in 1 .. Len(stack) - 1 : Tail(stack)[i] = stack[i + 1]
<1>1. stack \in Seq(Frames)
  BY DEF TypeOK
<1>2. QED
  BY <1>1 DEF Top

LEMMA Innermost ==
    ASSUME TypeOK, Nested, stack # <<>>
    PROVE  /\ InProgress = Around \cup {Top} /\ Top \in InProgress /\ InProgress \subseteq Frames
           /\ \A f \in Around : f.slot # Top.slot /\ f.at = "free" /\ f # Top
           /\ Top.kind # "dtor" => Around = {}
<1>1. /\ Len(stack) \in Nat \ {0} /\ Top = stack[1]
      /\ \A i \in 1 .. Len(stack) : stack[i] \in Frames
  BY TopOfStack DEF TypeOK
<1>2. InProgress = Around \cup {Top}
  BY <1>1 DEF InProgress, Around
<1>3. \A f \in Around : f.slot # Top.slot /\ f.at = "free" /\ f # Top
  BY <1>1 DEF Around, Nested
<1>4. Top.kind # "dtor" => Around = {}
  <2>1. SUFFICES ASSUME Top.kind # "dtor" PROVE Len(stack) = 1
    BY <1>1 DEF Around
  <2>2. 1 \in 1 .. Len(stack)
    BY <1>1
  <2>3. stack[1].kind = "dtor" <=> 1 # Len(stack)
    BY <2>2 DEF Nested
  <2>4. QED
    BY <1>1, <2>1, <2>3
<1>5. QED
  BY <1>1, <1>2, <1>3, <1>4 DEF InProgress

LEMMA Outermost ==
    ASSUME TypeOK, Nested, NEW f \in InProgress, NEW g \in InProgress
    PROVE  /\ f.slot = g.slot => f = g
           /\ f.kind # "dtor" /\ g.kind # "dtor" => f = g
  BY DEF InProgress, Nested

LEMMA Replaced ==
    ASSUME TypeOK, Nested, stack # <<>>, NEW f \in Frames, stack' = <<f>> \o Tail(stack),
           f.slot = Top.slot, f.kind = Top.kind,
           f.at = "free" => \A g \in InProgress : g.slot # f.old
    PROVE  stack' \in Seq(Frames) /\ Nested' /\ InProgress' = Around \cup {f}
<1>1. /\ Len(stack) \in Nat \ {0} /\ Top = stack[1] /\ Tail(stack) \in Seq(Frames)
      /\ Len(Tail(stack)) = Len(stack) - 1
      /\ \A i \in 1 .. Len(stack) - 1 : Tail(stack)[i] = stack[i + 1]
  BY TopOfStack
<1>2. stack' \in Seq(Frames) /\ Len(stack') = Len(stack) /\ stack'[1] = f
  BY <1>1
<1>3. \A i \in 2 .. Len(stack) : stack'[i] = stack[i]
  BY <1>1
<1>4. InProgress' = Around \cup {f}
  BY <1>1, <1>2, <1>3 DEF InProgress, Around
<1>5. \A i \in 1 .. Len(stack) : stack'[i].kind = stack[i].kind /\ stack'[i].slot = stack[i].slot
  BY <1>1, <1>2, <1>3
<1>6. \A i \in 1 .. Len(stack) : f.at = "free" => stack[i].slot # f.old
  BY DEF InProgress
<1>7. ASSUME NEW i \in 1 .. Len(stack), i # 1
      PROVE  stack'[i].at = "free" /\ stack'[i].old = stack'[i - 1].slot
  <2>1. i \in 2 .. Len(stack) /\ i - 1 \in 1 .. Len(stack)
    BY <1>1, <1>7
  <2>2. stack'[i] = stack[i] /\ stack'[i - 1].slot = stack[i - 1].slot
    BY <1>3, <1>5, <2>1
  <2>3. QED
    BY <1>7, <2>2 DEF Nested
<1>8. ASSUME NEW i \in 1 .. Len(stack)
      PROVE  /\ stack'[i].kind = "dtor" <=> i # Len(stack)
             /\ \A j \in 1 .. Len(stack) : stack'[i].slot = stack'[j].slot => i = j
  BY <1>5 DEF Nested
<1>9. ASSUME NEW i \in 1 .. Len(stack), stack'[1].at = "free" PROVE stack'[i].slot # stack'[1].old
  BY <1>2, <1>5, <1>6, <1>9
<1>10. Nested'
  BY ZenonT(40), <1>2, <1>7, <1>8, <1>9 DEF Nested
<1>11. QED
  BY <1>2, <1>4, <1>10

LEMMA Popped ==
    ASSUME TypeOK, Nested, stack # <<>>, stack' = Tail(stack)
    PROVE  stack' \in Seq(Frames) /\ Nested' /\ InProgress' = Around
<1>1. /\ Len(stack) \in Nat \ {0} /\ Top = stack[1] /\ stack' \in Seq(Frames)
      /\ Len(stack') = Len(stack) - 1
      /\ \A i \in 1 .. Len(stack) - 1 : stack'[i] = stack[i + 1]
  BY TopOfStack
<1>2. InProgress' = Around
  <2>1. ASSUME NEW i \in 1 .. Len(stack') PROVE stack'[i] \in Around
    <3>1. i + 1 \in 2 .. Len(stack) /\ stack'[i] = stack[i + 1]
      BY <1>1
    <3>2. QED
      BY <3>1 DEF Around
  <2>2. ASSUME NEW i \in 2 .. Len(stack) PROVE \E j \in 1 .. Len(stack') : stack'[j] = stack[i]
    <3>1. i - 1 \in 1 .. Len(stack') /\ stack'[i - 1] = stack[(i - 1) + 1] /\ (i - 1) + 1 = i
      BY <1>1
    <3>2. QED
      BY <3>1
  <2>3. QED
    BY <2>1, <2>2 DEF InProgress, Around
<1>3. ASSUME NEW i \in 1 .. Len(stack')
      PROVE  /\ stack'[i].kind = "dtor" <=> i # Len(stack')
             /\ i # 1 => stack'[i].at = "free" /\ stack'[i].old = stack'[i - 1].slot
             /\ stack'[1].at = "free" => stack'[i].slot # stack'[1].old
             /\ \A j \in 1 .. Len(stack') : stack'[i].slot = stack'[j].slot => i = j
  <2>1. /\ i + 1 \in 1 .. Len(stack) /\ i + 1 # 1 /\ stack'[i] = stack[i + 1]
        /\ 2 \in 1 .. Len(stack) /\ 1 \in 1 .. Len(stack) /\ stack'[1] = stack[2]
        /\ i + 1 = Len(stack) <=> i = Len(stack')
    BY <1>1
  <2>2. stack'[i].kind = "dtor" <=> i # Len(stack')
    BY <2>1 DEF Nested
  <2>3. i # 1 => stack'[i].at = "free" /\ stack'[i].old = stack'[i - 1].slot
    <3>1. SUFFICES ASSUME i # 1 PROVE stack'[i].at = "free" /\ stack'[i].old = stack'[i - 1].slot
      OBVIOUS
    <3>2. i - 1 \in 1 .. Len(stack) - 1 /\ stack'[i - 1] = stack[i] /\ (i + 1) - 1 = i
      BY <1>1, <3>1
    <3>3. QED
      BY <2>1, <3>2 DEF Nested
  <2>4. stack'[i].slot # stack'[1].old
    <3>1. stack[2].old = stack[1].slot
      BY <2>1 DEF Nested
    <3>2. stack[i + 1].slot # stack[1].slot
      BY <2>1 DEF Nested
    <3>3. QED
      BY <2>1, <3>1, <3>2
  <2>5. ASSUME NEW j \in 1 .. Len(stack'), stack'[i].slot = stack'[j].slot PROVE i = j
    <3>1. j + 1 \in 1 .. Len(stack) /\ stack'[j] = stack[j + 1]
      BY <1>1
    <3>2. i + 1 = j + 1
      BY <2>1, <2>5, <3>1 DEF Nested
    <3>3. QED
      BY <3>2
  <2>6. QED
    BY <2>2, <2>3, <2>4, <2>5
<1>4. QED
  BY <1>1, <1>2, <1>3 DEF Nested

LEMMA Pushed ==
    ASSUME TypeOK, stack = <<>>, NEW f \in Frames, stack' = <<f>> \o stack,
           f.kind # "dtor", f.at = "dec"
    PROVE  stack' \in Seq(Frames) /\ Nested' /\ InProgress' = {f}
<1>1. stack' = <<f>>
  OBVIOUS
<1>2. QED
  BY <1>1 DEF Nested, InProgress

\* A destructor: the frame f of the delete, and the frame g of its member.
LEMMA Nests ==
    ASSUME TypeOK, Nested, stack # <<>>, NEW f \in Frames, NEW g \in Frames,
           stack' = <<g, f>> \o Tail(stack), f.slot = Top.slot, f.kind = Top.kind,
           f.at = "free", g.at = "dec", g.kind = "dtor", g.slot = f.old,
           \A h \in InProgress : h.slot # g.slot
    PROVE  stack' \in Seq(Frames) /\ Nested' /\ InProgress' = Around \cup {f, g}
<1>1. /\ Len(stack) \in Nat \ {0} /\ Top = stack[1] /\ Tail(stack) \in Seq(Frames)
      /\ Len(Tail(stack)) = Len(stack) - 1
      /\ \A i \in 1 .. Len(stack) - 1 : Tail(stack)[i] = stack[i + 1]
  BY TopOfStack
<1>2. stack' \in Seq(Frames) /\ Len(stack') = Len(stack) + 1 /\ stack'[1] = g /\ stack'[2] = f
  BY <1>1
<1>3. \A i \in 3 .. Len(stack) + 1 : stack'[i] = stack[i - 1]
  BY <1>1
<1>4. InProgress' = Around \cup {f, g}
  <2>1. ASSUME NEW i \in 1 .. Len(stack') PROVE stack'[i] \in Around \cup {f, g}
    <3>1. i = 1 \/ i = 2 \/ (i \in 3 .. Len(stack) + 1 /\ i - 1 \in 2 .. Len(stack))
      BY <1>1, <1>2
    <3>2. QED
      BY <1>2, <1>3, <3>1 DEF Around
  <2>2. ASSUME NEW i \in 2 .. Len(stack) PROVE \E j \in 1 .. Len(stack') : stack'[j] = stack[i]
    <3>1. i + 1 \in 3 .. Len(stack) + 1 /\ i + 1 \in 1 .. Len(stack') /\ (i + 1) - 1 = i
      BY <1>1, <1>2
    <3>2. QED
      BY <1>3, <3>1
  <2>3. 1 \in 1 .. Len(stack') /\ 2 \in 1 .. Len(stack')
    BY <1>1, <1>2
  <2>4. InProgress' \subseteq Around \cup {f, g}
    BY <2>1 DEF InProgress
  <2>5. Around \subseteq InProgress'
    BY SMTT(30), <2>2 DEF InProgress, Around
  <2>6. f \in InProgress' /\ g \in InProgress'
    BY <1>2, <2>3 DEF InProgress
  <2>7. QED
    BY <2>4, <2>5, <2>6
<1>5. \A i \in 2 .. Len(stack') : stack'[i].kind = stack[i - 1].kind /\ stack'[i].slot = stack[i - 1].slot
  BY <1>1, <1>2, <1>3
<1>6. \A i \in 1 .. Len(stack) : stack[i].slot # g.slot
  BY DEF InProgress
<1>7. ASSUME NEW i \in 1 .. Len(stack')
      PROVE  /\ stack'[i].kind = "dtor" <=> i # Len(stack')
             /\ i # 1 => stack'[i].at = "free" /\ stack'[i].old = stack'[i - 1].slot
             /\ \A j \in 1 .. Len(stack') : stack'[i].slot = stack'[j].slot => i = j
  <2>1. CASE i = 1
    <3>1. Len(stack') # 1
      BY <1>1, <1>2
    <3>2. ASSUME NEW j \in 2 .. Len(stack') PROVE stack'[j].slot # g.slot
      <4>1. j - 1 \in 1 .. Len(stack)
        BY <1>1, <1>2
      <4>2. QED
        BY <1>5, <1>6, <4>1
    <3>3. ASSUME NEW j \in 1 .. Len(stack'), stack'[i].slot = stack'[j].slot PROVE i = j
      <4>1. j = 1 \/ j \in 2 .. Len(stack')
        BY <1>1, <1>2
      <4>2. QED
        BY <1>2, <2>1, <3>2, <3>3, <4>1
    <3>4. stack'[i].kind = "dtor"
      BY <1>2, <2>1
    <3>5. QED
      BY <2>1, <3>1, <3>3, <3>4
  <2>2. CASE i \in 2 .. Len(stack')
    <3>1. i - 1 \in 1 .. Len(stack) /\ (i - 1 = Len(stack) <=> i = Len(stack'))
      BY <1>1, <1>2, <2>2
    <3>2. stack'[i].kind = "dtor" <=> i # Len(stack')
      BY <1>5, <2>2, <3>1 DEF Nested
    <3>3. stack'[i].at = "free" /\ stack'[i].old = stack'[i - 1].slot
      <4>1. CASE i = 2
        BY <1>2, <4>1
      <4>2. CASE i # 2
        <5>1. i \in 3 .. Len(stack) + 1 /\ i - 1 \in 2 .. Len(stack') /\ i - 1 # 1
          BY <1>1, <1>2, <2>2, <4>2
        <5>2. stack'[i] = stack[i - 1] /\ stack'[i - 1].slot = stack[(i - 1) - 1].slot
          BY <1>3, <1>5, <5>1
        <5>3. QED
          BY <3>1, <5>1, <5>2 DEF Nested
      <4>3. QED
        BY <4>1, <4>2
    <3>4. ASSUME NEW j \in 1 .. Len(stack'), stack'[i].slot = stack'[j].slot PROVE i = j
      <4>1. CASE j = 1
        BY <1>2, <1>5, <1>6, <2>2, <3>1, <3>4, <4>1
      <4>2. CASE j \in 2 .. Len(stack')
        <5>1. j - 1 \in 1 .. Len(stack) /\ stack[i - 1].slot = stack[j - 1].slot
          BY <1>1, <1>2, <1>5, <2>2, <3>4, <4>2
        <5>2. i - 1 = j - 1
          BY <3>1, <5>1 DEF Nested
        <5>3. QED
          BY <2>2, <4>2, <5>2
      <4>3. QED
        BY <1>2, <4>1, <4>2
    <3>5. QED
      BY <3>2, <3>3, <3>4
  <2>3. QED
    BY <1>2, <2>1, <2>2
<1>8. QED
  BY <1>2, <1>4, <1>7 DEF Nested

-----------------------------------------------------------------------------
(***************************************************************************)
(* Counting.                                                               *)
(***************************************************************************)
One(b) == IF b THEN 1 ELSE 0

\* Two sets that differ in an element of each.
LEMMA Swapped ==
    ASSUME NEW S, NEW T, IsFiniteSet(S), NEW x, NEW y, T \ {y} = S \ {x}
    PROVE  /\ IsFiniteSet(T) /\ Cardinality(S) \in Nat /\ Cardinality(T) \in Nat
           /\ Cardinality(T) = Cardinality(S) - One(x \in S) + One(y \in T)
<1>1. IsFiniteSet(S \ {x}) /\ Cardinality(S) \in Nat
      /\ Cardinality(S \ {x}) = Cardinality(S) - One(x \in S)
  BY FS_RemoveElement, FS_CardinalityType DEF One
<1>2. T = IF y \in T THEN (S \ {x}) \cup {y} ELSE S \ {x}
  OBVIOUS
<1>3. y \notin S \ {x}
  OBVIOUS
<1>4. IsFiniteSet(T) /\ Cardinality(T) = Cardinality(S \ {x}) + One(y \in T)
  <2>1. CASE y \in T
    <3>1. /\ IsFiniteSet((S \ {x}) \cup {y})
          /\ Cardinality((S \ {x}) \cup {y}) = Cardinality(S \ {x}) + 1
      BY <1>1, <1>3, FS_AddElement
    <3>2. T = (S \ {x}) \cup {y}
      BY <1>2, <2>1
    <3>3. QED
      BY <2>1, <3>1, <3>2 DEF One
  <2>2. CASE y \notin T
    <3>1. T = S \ {x}
      BY <2>2
    <3>2. Cardinality(T) \in Nat
      BY <1>1, <3>1, FS_CardinalityType
    <3>3. QED
      BY <1>1, <2>2, <3>1, <3>2 DEF One
  <2>3. QED
    BY <2>1, <2>2
<1>5. Cardinality(T) \in Nat
  BY <1>4, FS_CardinalityType
<1>6. QED
  BY <1>1, <1>4, <1>5

LEMMA AllFinite ==
    ASSUME TypeOK, Nested, NEW o \in Obj
    PROVE  /\ IsFiniteSet(Holding(o)) /\ IsFiniteSet(Taken(o))
           /\ IsFiniteSet(Weakly(o)) /\ IsFiniteSet(Releasing(o))
<1>1. IsFiniteSet(Slot) /\ IsFiniteSet(WRoot)
  BY SmartPointersAssumption, FS_Union DEF Slot
<1>2. IsFiniteSet(InProgress)
  <2> DEFINE place == [f \in InProgress |-> f.slot]
  <2>1. \A f \in InProgress : f.slot \in Slot
    <3>1. \A i \in 1 .. Len(stack) : stack[i] \in Frames
      BY DEF TypeOK
    <3>2. QED
      BY <3>1 DEF InProgress, Frames
  <2>2. place \in Injection(InProgress, Slot)
    BY <2>1, Outermost DEF Injection, IsInjective
  <2>3. QED
    BY <1>1, <2>2, FS_Injection
<1>3. /\ Holding(o) \in SUBSET Slot /\ Weakly(o) \in SUBSET WRoot
      /\ Taken(o) \in SUBSET InProgress /\ Releasing(o) \in SUBSET InProgress
  BY DEF Holding, Weakly, Taken, Releasing
<1>4. QED
  BY <1>1, <1>2, <1>3, FS_Subset

\* The parts of the counts, as numbers.
LEMMA Parts ==
    ASSUME TypeOK, Nested, NEW o \in Obj
    PROVE  /\ Cardinality(Holding(o)) \in Nat /\ Cardinality(Taken(o)) \in Nat
           /\ Cardinality(Weakly(o)) \in Nat /\ Cardinality(Releasing(o)) \in Nat
           /\ Holding(o) # {} => Cardinality(Holding(o)) > 0
           /\ Taken(o) # {} => Cardinality(Taken(o)) > 0
           /\ Weakly(o) # {} => Cardinality(Weakly(o)) > 0
           /\ Releasing(o) # {} => Cardinality(Releasing(o)) > 0
           /\ Holding(o) = {} => Cardinality(Holding(o)) = 0
           /\ Taken(o) = {} => Cardinality(Taken(o)) = 0
           /\ Weakly(o) = {} => Cardinality(Weakly(o)) = 0
           /\ Releasing(o) = {} => Cardinality(Releasing(o)) = 0
           /\ hand[o] \in Nat
<1>1. \A S : IsFiniteSet(S) => Cardinality(S) \in Nat /\ (Cardinality(S) = 0 <=> S = {})
  BY FS_EmptySet, FS_CardinalityType
<1>2. \A S : IsFiniteSet(S) /\ S # {} => Cardinality(S) > 0
  BY <1>1
<1>3. QED
  BY <1>1, <1>2, AllFinite DEF TypeOK

LEMMA AcquireCounts ==
    ASSUME TypeOK, NEW p \in ObjOrNull, Acquire(p), NEW o \in Obj
    PROVE  /\ strong'[o] = strong[o] + One(o = p) /\ weak'[o] = weak[o] + One(o = p)
           /\ strong' \in [Obj -> Int] /\ weak' \in [Obj -> Int]
<1>1. CASE p = NULL
  <2>1. UNCHANGED <<strong, weak>> /\ o # p
    BY <1>1, SmartPointersAssumption DEF Acquire, counts
  <2>2. QED
    BY <2>1 DEF One, TypeOK
<1>2. CASE p # NULL
  <2>1. p \in Obj /\ strong' = [strong EXCEPT ![p] = @ + 1] /\ weak' = [weak EXCEPT ![p] = @ + 1]
    BY <1>2 DEF Acquire, ObjOrNull
  <2>2. QED
    BY <2>1 DEF One, TypeOK
<1>3. QED
  BY <1>1, <1>2

\* An operator begins.
LEMMA PushCounts ==
    ASSUME TypeOK, InProgress = {}, NEW f, InProgress' = {f}, f.at = "dec", f.old = NULL,
           UNCHANGED ptr, NEW o \in Obj
    PROVE  /\ Holding(o)' = Holding(o) /\ Releasing(o)' = Releasing(o)
           /\ Cardinality(Taken(o))' = Cardinality(Taken(o)) + One(f.kind = "assign" /\ f.other = o)
<1>1. Holding(o)' = Holding(o) /\ Releasing(o)' = Releasing(o)
  BY DEF Holding, Releasing
<1>2. Taken(o) = {}
  BY DEF Taken
<1>3. CASE f.kind = "assign" /\ f.other = o
  <2>1. Taken(o)' = {f}
    BY <1>3 DEF Taken
  <2>2. Cardinality({f}) = 1 /\ Cardinality({}) = 0
    BY FS_Singleton, FS_EmptySet
  <2>3. QED
    BY <1>1, <1>2, <1>3, <2>1, <2>2 DEF One
<1>4. CASE ~(f.kind = "assign" /\ f.other = o)
  <2>1. Taken(o)' = {}
    BY <1>4 DEF Taken
  <2>2. Cardinality({}) = 0
    BY FS_EmptySet
  <2>3. QED
    BY <1>1, <1>2, <1>4, <2>1, <2>2 DEF One
<1>5. QED
  BY <1>3, <1>4

\* Has f given back the reference of its slot?
Keeps(f) == f.at = "dec" \/ f.kind = "drop"

\* The innermost operator goes on; G is the operator that begins in it, if any.
LEMMA ReplacedCounts ==
    ASSUME TypeOK, Nested, stack # <<>>, UNCHANGED ptr,
           NEW f, f.slot = Top.slot, f.kind = Top.kind, f.other = Top.other,
           NEW G, \A g \in G : g.at = "dec" /\ g.kind = "dtor",
           InProgress' = Around \cup {f} \cup G, NEW o \in Obj
    PROVE  /\ Cardinality(Taken(o))' = Cardinality(Taken(o))
           /\ Cardinality(Releasing(o))' =
                Cardinality(Releasing(o)) - One(Top \in Releasing(o)) + One(f \in Releasing(o)')
           /\ Cardinality(Holding(o))' =
                Cardinality(Holding(o)) - One(ptr[Top.slot] = o /\ Keeps(Top))
                                        + One(ptr[Top.slot] = o /\ Keeps(f))
<1>1. /\ InProgress = Around \cup {Top} /\ \A h \in Around : h.slot # Top.slot /\ h # Top
      /\ Top.slot \in Slot
  BY Innermost DEF Frames
<1>2. \A h \in Around : h # f
  BY <1>1
<1>3. Cardinality(Taken(o))' = Cardinality(Taken(o))
  <2>1. Taken(o)' \ {f} = Taken(o) \ {Top}
    BY <1>1, <1>2 DEF Taken
  <2>2. f \in Taken(o)' <=> Top \in Taken(o)
    BY <1>1 DEF Taken
  <2>3. Cardinality(Taken(o)') = Cardinality(Taken(o)) - One(Top \in Taken(o)) + One(f \in Taken(o)')
        /\ Cardinality(Taken(o)) \in Nat
    <3>1. IsFiniteSet(Taken(o))
      BY AllFinite
    <3>2. QED
      BY ONLY <2>1, <3>1, Swapped
  <2>4. QED
    BY <2>2, <2>3 DEF One
<1>4. Cardinality(Releasing(o))' =
        Cardinality(Releasing(o)) - One(Top \in Releasing(o)) + One(f \in Releasing(o)')
  <2>1. Releasing(o)' \ {f} = Releasing(o) \ {Top}
    BY <1>1, <1>2 DEF Releasing
  <2>2. IsFiniteSet(Releasing(o))
    BY AllFinite
  <2>3. QED
    BY ONLY <2>1, <2>2, Swapped
<1>5. Cardinality(Holding(o))' =
        Cardinality(Holding(o)) - One(ptr[Top.slot] = o /\ Keeps(Top))
                                + One(ptr[Top.slot] = o /\ Keeps(f))
  <2>1. Holding(o)' \ {Top.slot} = Holding(o) \ {Top.slot}
    BY <1>1 DEF Holding
  <2>2. Top.slot \in Holding(o) <=> ptr[Top.slot] = o /\ Keeps(Top)
    BY <1>1 DEF Holding, Keeps
  <2>3. Top.slot \in Holding(o)' <=> ptr[Top.slot] = o /\ Keeps(f)
    BY <1>1 DEF Holding, Keeps
  <2>4. Cardinality(Holding(o)') =
          Cardinality(Holding(o)) - One(Top.slot \in Holding(o)) + One(Top.slot \in Holding(o)')
    BY ZenonT(40), <2>1, Swapped, AllFinite
  <2>5. QED
    BY <2>2, <2>3, <2>4 DEF One
<1>6. QED
  BY <1>3, <1>4, <1>5

\* The innermost operator ends: what it stores is held where it was taken.
LEMMA PopCounts ==
    ASSUME TypeOK, Nested, FramesInv, stack # <<>>, Top.at = "store", InProgress' = Around,
           ptr' = IF Top.kind = "drop" THEN ptr ELSE [ptr EXCEPT ![Top.slot] = Top.other],
           NEW o \in Obj
    PROVE  /\ Cardinality(Holding(o))' + Cardinality(Taken(o))'
                = Cardinality(Holding(o)) + Cardinality(Taken(o))
           /\ Releasing(o)' = Releasing(o)
<1>1. /\ InProgress = Around \cup {Top} /\ \A h \in Around : h.slot # Top.slot /\ h # Top
      /\ Top \in InProgress /\ Top.slot \in Slot /\ FrameOK(Top)
  BY Innermost DEF Frames, FramesInv
<1>2. Releasing(o)' = Releasing(o)
  BY <1>1 DEF Releasing
<1>3. Taken(o)' = Taken(o) \ {Top} /\ (Top \in Taken(o) <=> Top.kind = "assign" /\ Top.other = o)
  BY <1>1 DEF Taken
<1>4. /\ IsFiniteSet(Holding(o)) /\ IsFiniteSet(Taken(o))
      /\ Cardinality(Holding(o)) \in Nat /\ Cardinality(Taken(o)) \in Nat
  BY AllFinite, Parts
<1>5. Cardinality(Taken(o))' = Cardinality(Taken(o)) - One(Top \in Taken(o))
  <2>1. Cardinality(Taken(o) \ {Top}) =
            IF Top \in Taken(o) THEN Cardinality(Taken(o)) - 1 ELSE Cardinality(Taken(o))
    BY ONLY <1>4, FS_RemoveElement
  <2>2. Cardinality(Taken(o) \ {Top}) = Cardinality(Taken(o)) - One(Top \in Taken(o))
    BY ONLY <1>4, <2>1 DEF One
  <2>3. QED
    BY ONLY <1>3, <2>2
<1>6. CASE Top.kind = "drop"
  <2>1. Holding(o)' = Holding(o)
    BY <1>1, <1>6 DEF Holding
  <2>2. QED
    BY <1>2, <1>3, <1>4, <1>5, <1>6, <2>1 DEF One
<1>7. CASE Top.kind # "drop"
  <2>1. ptr' = [ptr EXCEPT ![Top.slot] = Top.other] /\ ptr \in [Slot -> ObjOrNull]
    BY <1>7 DEF TypeOK
  <2>2. Top.slot \notin Holding(o) /\ (Top.slot \in Holding(o)' <=> Top.other = o)
    BY <1>1, <1>7, <2>1 DEF Holding
  <2>3. Holding(o)' \ {Top.slot} = Holding(o) \ {Top.slot}
    BY <1>1, <2>1 DEF Holding
  <2>4. Top.other = o <=> Top \in Taken(o)
    <3>1. Top.other = o => Top.kind = "assign"
      BY <1>1, SmartPointersAssumption DEF FrameOK
    <3>2. QED
      BY <1>3, <3>1
  <2>5. Cardinality(Holding(o)') =
          Cardinality(Holding(o)) - One(Top.slot \in Holding(o)) + One(Top.slot \in Holding(o)')
    BY ONLY <1>4, <2>3, Swapped
  <2>6. QED
    BY <1>2, <1>4, <1>5, <2>2, <2>4, <2>5 DEF One
<1>8. QED
  BY <1>6, <1>7

-----------------------------------------------------------------------------
(***************************************************************************)
(* What is alive.                                                          *)
(***************************************************************************)
LEMMA Live ==
    ASSUME PointerInv, NEW o \in Obj
    PROVE  /\ strong[o] \in Nat /\ weak[o] \in Nat
           /\ Holding(o) # {} \/ Taken(o) # {} \/ hand[o] > 0 => strong[o] > 0
           /\ strong[o] > 0 => state[o] = "alive" /\ weak[o] > 0
           /\ Weakly(o) # {} \/ Releasing(o) # {} => weak[o] > 0
           /\ weak[o] > 0 => refs[o] = "alive"
<1>1. TypeOK /\ Nested /\ SlotCounts /\ AliveInv /\ RefsInv
  BY DEF PointerInv
<1>2. /\ strong[o] = Cardinality(Holding(o)) + Cardinality(Taken(o)) + hand[o]
      /\ weak[o] = strong[o] + Cardinality(Weakly(o)) + Cardinality(Releasing(o))
  BY <1>1 DEF SlotCounts
<1>3. strong[o] \in Nat /\ weak[o] \in Nat
  BY <1>1, <1>2, Parts
<1>4. Holding(o) # {} \/ Taken(o) # {} \/ hand[o] > 0 => strong[o] > 0
  BY <1>1, <1>2, Parts
<1>5. /\ strong[o] > 0 => weak[o] > 0
      /\ Weakly(o) # {} \/ Releasing(o) # {} => weak[o] > 0
  BY <1>1, <1>2, <1>3, Parts
<1>6. strong[o] > 0 => state[o] = "alive"
  BY <1>1 DEF AliveInv
<1>7. weak[o] > 0 => refs[o] = "alive"
  BY <1>1, <1>3 DEF RefsInv, TypeOK
<1>8. QED
  BY <1>3, <1>4, <1>5, <1>6, <1>7

\* What a slot holds that no operator in progress is at has a reference.
LEMMA HeldLives ==
    ASSUME PointerInv, NEW s \in Slot, ptr[s] # NULL, \A f \in InProgress : f.slot # s
    PROVE  ptr[s] \in Obj /\ strong[ptr[s]] > 0
<1>1. ptr[s] \in Obj
  BY DEF PointerInv, TypeOK, ObjOrNull
<1>2. s \in Holding(ptr[s])
  BY DEF Holding
<1>3. QED
  BY <1>1, <1>2, Live

\* An object whose member an operator of the program is about to set is reached
\* without it, and is not destroyed in the middle.
LEMMA Anchored ==
    ASSUME PointerInv, NEW f \in InProgress, f.kind # "dtor", f.slot \in Obj
    PROVE  strong[f.slot] > 0 /\ state[f.slot] = "alive"
<1> DEFINE L == {o \in Obj : strong[o] > 0}
<1>1. TypeOK /\ Nested /\ FramesInv /\ Root \cup L \subseteq Slot
  BY DEF PointerInv, Slot
<1>2. ASSUME NEW s \in (Root \cup L) \ {f.slot}, NEW g \in InProgress PROVE g.slot # s
  <2>1. CASE g.kind = "dtor"
    <3>1. g.slot \in Obj /\ state[g.slot] = "dying"
      BY <1>1, <2>1 DEF FramesInv, FrameOK
    <3>2. s \in Obj => state[s] = "alive"
      BY <1>2, Live, SmartPointersAssumption
    <3>3. QED
      BY <3>1, <3>2
  <2>2. CASE g.kind # "dtor"
    BY <1>1, <1>2, <2>2, Outermost
  <2>3. QED
    BY <2>1, <2>2
<1>3. Held((Root \cup L) \ {f.slot}) \subseteq L
  BY <1>1, <1>2, HeldLives DEF Held
<1>4. f.slot \in Avoiding(f.slot)
  BY <1>1 DEF FramesInv, FrameOK
<1>5. f.slot \in L
  BY <1>3, <1>4 DEF Avoiding
<1>6. QED
  BY <1>5, Live

LEMMA NamedLives ==
    ASSUME PointerInv, stack = <<>>, NEW d \in Named, d \in Obj
    PROVE  strong[d] > 0 /\ state[d] = "alive" /\ d \in Avoiding(d)
<1>1. InProgress = {} /\ d \notin Root
  BY Empty, SmartPointersAssumption DEF PointerInv
<1>2. d \in Reach(Root)
  BY <1>1 DEF Named, Reached
<1> DEFINE L == {o \in Obj : strong[o] > 0}
<1>3. Root \cup L \subseteq Slot
  BY DEF Slot
<1>4. Held(Root \cup L) \subseteq L
  BY <1>1, <1>3, HeldLives DEF Held
<1>5. d \in L
  BY <1>2, <1>4 DEF Reach
<1>6. ASSUME NEW T \in SUBSET Obj, Held((Root \cup T) \ {d}) \subseteq T PROVE d \in T
  <2>1. SUFFICES ASSUME d \notin T PROVE FALSE
    OBVIOUS
  <2>2. (Root \cup T) \ {d} = Root \cup T
    BY <1>1, <2>1
  <2>3. d \in T
    BY <1>2, <1>6, <2>2 DEF Reach
  <2>4. QED
    BY <2>1, <2>3
<1>7. d \in Avoiding(d)
  BY <1>6 DEF Avoiding
<1>8. QED
  BY <1>5, <1>7, Live

-----------------------------------------------------------------------------
(***************************************************************************)
(* The steps: a statement of the program begins.                           *)
(***************************************************************************)
LEMMA InitPointers == Init => PointerInv
<1> SUFFICES ASSUME Init PROVE PointerInv
  OBVIOUS
<1>1. TypeOK
  BY DEF Init, TypeOK, ObjOrNull
<1>2. InProgress = {} /\ Nested
  BY DEF Init, InProgress, Nested
<1>3. SlotCounts
  <2>1. ASSUME NEW o \in Obj
        PROVE  Holding(o) = {} /\ Taken(o) = {} /\ Weakly(o) = {} /\ Releasing(o) = {}
    <3>1. o # NULL
      BY SmartPointersAssumption
    <3>2. QED
      BY <1>2, <3>1 DEF Init, Holding, Taken, Weakly, Releasing
  <2>2. Cardinality({}) = 0
    BY FS_EmptySet
  <2>3. ASSUME NEW o \in Obj PROVE strong[o] = 0 /\ weak[o] = 0 /\ hand[o] = 0
    BY DEF Init
  <2>4. QED
    BY <2>1, <2>2, <2>3 DEF SlotCounts
<1>4. FramesInv /\ AliveInv /\ RefsInv /\ MemberInv
  BY <1>2 DEF Init, FramesInv, AliveInv, RefsInv, MemberInv, Slot
<1>5. QED
  BY <1>1, <1>2, <1>3, <1>4 DEF PointerInv

\* The operator f begins: it takes a reference to other, which lives or is new.
LEMMA Begins ==
    ASSUME PointerInv, stack = <<>>, NEW f \in Frames, stack' = <<f>> \o stack,
           f.kind # "dtor", f.at = "dec", f.old = NULL, f.slot \in Named,
           f.kind # "assign" => f.other = NULL,
           f.kind = "drop" => f.slot \in Root /\ ptr[f.slot] # NULL /\ hand[ptr[f.slot]] > 0,
           Acquire(f.other), UNCHANGED <<ptr, hand, weaks, refs>>,
           f.other # NULL => state'[f.other] = "alive"
                             /\ (strong[f.other] > 0 \/ state[f.other] = "unborn"),
           state' \in [Obj -> {"unborn", "alive", "dying", "deleted"}],
           \A o \in Obj : o # f.other => state'[o] = state[o]
    PROVE  PointerInv'
<1>1. TypeOK /\ InProgress = {} /\ f.other \in ObjOrNull
  BY Empty DEF PointerInv, Frames
<1>2. stack' \in Seq(Frames) /\ Nested' /\ InProgress' = {f}
  BY <1>1, Pushed
<1>3. \A o \in Obj : /\ strong'[o] = strong[o] + One(o = f.other) /\ weak'[o] = weak[o] + One(o = f.other)
                     /\ strong' \in [Obj -> Int] /\ weak' \in [Obj -> Int]
  BY <1>1, AcquireCounts
<1>4. \A o \in Obj : strong[o] \in Nat /\ weak[o] \in Nat
  BY Live
<1>5. TypeOK'
  <2>1. strong' \in [Obj -> Int] /\ weak' \in [Obj -> Int]
    BY <1>1 DEF Acquire, TypeOK, counts, ObjOrNull
  <2>2. QED
    BY <1>1, <1>2, <2>1 DEF TypeOK, weaks, Frames, ObjOrNull
<1>6. SlotCounts'
  <2>1. ASSUME NEW o \in Obj
        PROVE  /\ strong'[o] = Cardinality(Holding(o))' + Cardinality(Taken(o))' + hand'[o]
               /\ weak'[o] = strong'[o] + Cardinality(Weakly(o))' + Cardinality(Releasing(o))'
    <3>1. /\ Holding(o)' = Holding(o) /\ Releasing(o)' = Releasing(o)
          /\ Cardinality(Taken(o))' = Cardinality(Taken(o)) + One(f.kind = "assign" /\ f.other = o)
      BY <1>1, <1>2, PushCounts
    <3>2. One(f.kind = "assign" /\ f.other = o) = One(o = f.other)
      BY SmartPointersAssumption DEF One
    <3>3. Weakly(o)' = Weakly(o)
      BY DEF Weakly, weaks
    <3>4. /\ strong[o] = Cardinality(Holding(o)) + Cardinality(Taken(o)) + hand[o]
          /\ weak[o] = strong[o] + Cardinality(Weakly(o)) + Cardinality(Releasing(o))
      BY DEF PointerInv, SlotCounts
    <3>5. /\ Cardinality(Holding(o)) \in Nat /\ Cardinality(Taken(o)) \in Nat /\ hand[o] \in Nat
          /\ Cardinality(Weakly(o)) \in Nat /\ Cardinality(Releasing(o)) \in Nat
      BY Parts DEF PointerInv
    <3>6. One(o = f.other) \in Nat
      BY DEF One
    <3>7. strong'[o] = strong[o] + One(o = f.other) /\ weak'[o] = weak[o] + One(o = f.other)
          /\ hand'[o] = hand[o] /\ strong[o] \in Nat /\ weak[o] \in Nat
      BY <1>3, <1>4
    <3>8. strong'[o] = Cardinality(Holding(o))' + Cardinality(Taken(o))' + hand'[o]
      BY ONLY <3>1, <3>2, <3>4, <3>5, <3>6, <3>7
    <3>9. weak'[o] = strong'[o] + Cardinality(Weakly(o))' + Cardinality(Releasing(o))'
      BY ONLY <3>1, <3>3, <3>4, <3>5, <3>6, <3>7
    <3>10. QED
      BY <3>8, <3>9
  <2>2. QED
    BY <2>1 DEF SlotCounts
<1>7. AliveInv'
  <2>1. ASSUME NEW o \in Obj, strong'[o] > 0 PROVE state'[o] = "alive"
    <3>1. CASE o = f.other
      BY <3>1, SmartPointersAssumption
    <3>2. CASE o # f.other
      <4>1. strong[o] > 0 /\ state'[o] = state[o]
        BY <1>3, <1>4, <2>1, <3>2 DEF One
      <4>2. QED
        BY <4>1, Live
    <3>3. QED
      BY <3>1, <3>2
  <2>2. ASSUME NEW o \in Obj, state'[o] = "alive" PROVE strong'[o] > 0
    <3>1. CASE o = f.other
      BY <1>3, <1>4, <3>1 DEF One
    <3>2. CASE o # f.other
      BY <1>1, <1>3, <1>4, <2>2, <3>2 DEF PointerInv, AliveInv, One
    <3>3. QED
      BY <3>1, <3>2
  <2>3. QED
    BY <2>1, <2>2 DEF AliveInv
<1>8. RefsInv'
  <2>1. ASSUME NEW o \in Obj PROVE refs'[o] = "deleted" <=> weak'[o] = 0 /\ state'[o] # "unborn"
    <3>1. CASE o = f.other
      <4>1. refs[o] # "deleted"
        BY <3>1, Live, SmartPointersAssumption DEF PointerInv, RefsInv
      <4>2. weak'[o] # 0
        BY <1>3, <1>4, <3>1 DEF One
      <4>3. QED
        BY <4>1, <4>2
    <3>2. CASE o # f.other
      <4>1. weak'[o] = weak[o] /\ state'[o] = state[o] /\ refs'[o] = refs[o]
        BY <1>3, <1>4, <3>2 DEF One
      <4>2. refs[o] = "deleted" <=> weak[o] = 0 /\ state[o] # "unborn"
        BY DEF PointerInv, RefsInv
      <4>3. QED
        BY <4>1, <4>2
    <3>3. QED
      BY <3>1, <3>2
  <2>2. ASSUME NEW w \in WRoot, wptr'[w] # NULL
        PROVE  wrefs'[w] = wptr'[w] /\ state'[wptr'[w]] # "unborn"
    BY <1>1, <2>2 DEF PointerInv, RefsInv, weaks, TypeOK, ObjOrNull
  <2>3. QED
    BY <2>1, <2>2 DEF RefsInv
<1>9. MemberInv'
  <2>1. ASSUME NEW o \in Obj, ptr'[o] # NULL PROVE state'[o] = "alive"
    <3>1. state[o] = "alive"
      BY <1>1, <2>1 DEF PointerInv, MemberInv
    <3>2. CASE o = f.other
      BY <3>2, SmartPointersAssumption
    <3>3. CASE o # f.other
      BY <3>1, <3>3
    <3>4. QED
      BY <3>2, <3>3
  <2>2. QED
    BY <2>1 DEF MemberInv
<1>10. FramesInv'
  <2>1. f.slot \in Obj => f.slot \in Avoiding(f.slot)
    BY NamedLives
  <2>2. ASSUME NEW d PROVE Avoiding(d)' = Avoiding(d)
    BY DEF Avoiding, Held
  <2>3. FrameOK(f)'
    BY <2>1, <2>2 DEF FrameOK
  <2>4. QED
    BY <1>2, <2>3 DEF FramesInv
<1>11. QED
  BY <1>2, <1>5, <1>6, <1>7, <1>8, <1>9, <1>10 DEF PointerInv

LEMMA NewKeeps == ASSUME PointerInv, NEW d \in Slot, NEW o \in Obj, New(d, o) PROVE PointerInv'
<1> DEFINE f == Frame("assign", d, o)
<1>1. stack = <<>> /\ f \in Frames
  BY DEF New, Ready, Frame, Frames, ObjOrNull
<1>2. /\ f.kind = "assign" /\ f.at = "dec" /\ f.old = NULL /\ f.slot = d /\ f.other = o
      /\ stack' = <<f>> \o stack
  BY DEF New, Frame, Push
<1> HIDE DEF f
<1>3. /\ d \in Named /\ state[o] = "unborn" /\ state' = [state EXCEPT ![o] = "alive"]
      /\ Acquire(o) /\ UNCHANGED <<ptr, hand, weaks, refs>>
  BY DEF New
<1>4. /\ state' \in [Obj -> {"unborn", "alive", "dying", "deleted"}] /\ state'[o] = "alive"
      /\ \A x \in Obj : x # o => state'[x] = state[x]
  BY <1>3 DEF PointerInv, TypeOK
<1>5. QED
  BY <1>1, <1>2, <1>3, <1>4, Begins

LEMMA AssignKeeps == ASSUME PointerInv, NEW d \in Slot, NEW s \in Slot, Assign(d, s) PROVE PointerInv'
<1> DEFINE f == Frame("assign", d, ptr[s])
<1>1. stack = <<>> /\ ptr[s] \in ObjOrNull /\ f \in Frames
  BY DEF Assign, Ready, Frame, Frames, ObjOrNull, PointerInv, TypeOK
<1>2. /\ f.kind = "assign" /\ f.at = "dec" /\ f.old = NULL /\ f.slot = d /\ f.other = ptr[s]
      /\ stack' = <<f>> \o stack
  BY DEF Assign, Frame, Push
<1> HIDE DEF f
<1>3. d \in Named /\ Acquire(ptr[s]) /\ UNCHANGED <<ptr, hand, weaks, refs, state>>
  BY DEF Assign
<1>4. ptr[s] # NULL => strong[ptr[s]] > 0 /\ state[ptr[s]] = "alive"
  <2>1. InProgress = {}
    BY <1>1, Empty DEF PointerInv
  <2>2. QED
    BY <2>1, HeldLives, Live
<1>5. state' \in [Obj -> {"unborn", "alive", "dying", "deleted"}]
  BY <1>3 DEF PointerInv, TypeOK
<1>6. QED
  BY <1>1, <1>2, <1>3, <1>4, <1>5, Begins

LEMMA ClearKeeps ==
    ASSUME PointerInv, NEW d \in Slot, Clear(d) \/ DropByHand(d)
    PROVE  PointerInv'
<1>1. PICK k \in {"clear", "drop"} :
        /\ Push(Frame(k, d, NULL)) /\ stack = <<>> /\ d \in Named /\ ptr[d] # NULL
        /\ k = "drop" => d \in Root /\ hand[ptr[d]] > 0
        /\ UNCHANGED <<ptr, hand, weaks, refs, state, counts>>
  BY DEF Clear, DropByHand, Ready, Named
<1> DEFINE f == Frame(k, d, NULL)
<1>2. f \in Frames /\ stack' = <<f>> \o stack
  BY <1>1 DEF Frame, Frames, ObjOrNull, Push
<1>3. f.kind = k /\ f.at = "dec" /\ f.old = NULL /\ f.slot = d /\ f.other = NULL
  BY DEF Frame
<1> HIDE DEF f
<1>4. Acquire(NULL)
  BY <1>1 DEF Acquire
<1>5. state' \in [Obj -> {"unborn", "alive", "dying", "deleted"}]
  BY <1>1 DEF PointerInv, TypeOK
<1>6. QED
  BY <1>1, <1>2, <1>3, <1>4, <1>5, Begins

-----------------------------------------------------------------------------
(***************************************************************************)
(* The steps: the innermost operator goes on.                              *)
(***************************************************************************)
\* The innermost operator is f now, and those of G have begun inside it.
LEMMA CountsGoOn ==
    ASSUME TypeOK, Nested, SlotCounts, stack # <<>>, UNCHANGED <<ptr, wptr>>,
           NEW f, f.slot = Top.slot, f.kind = Top.kind, f.other = Top.other,
           NEW G, \A g \in G : g.at = "dec" /\ g.kind = "dtor",
           InProgress' = Around \cup {f} \cup G,
           strong' \in [Obj -> Int], weak' \in [Obj -> Int], hand' \in [Obj -> Nat],
           \A o \in Obj :
             /\ strong'[o] = strong[o] + (hand'[o] - hand[o])
                   - One(ptr[Top.slot] = o /\ Keeps(Top)) + One(ptr[Top.slot] = o /\ Keeps(f))
             /\ weak'[o] = weak[o] + (strong'[o] - strong[o])
                   - One(Top \in Releasing(o)) + One(f \in Releasing(o)')
    PROVE  SlotCounts'
<1>1. ASSUME NEW o \in Obj
      PROVE  /\ strong'[o] = Cardinality(Holding(o))' + Cardinality(Taken(o))' + hand'[o]
             /\ weak'[o] = strong'[o] + Cardinality(Weakly(o))' + Cardinality(Releasing(o))'
  <2>1. /\ Cardinality(Taken(o))' = Cardinality(Taken(o))
        /\ Cardinality(Releasing(o))' =
             Cardinality(Releasing(o)) - One(Top \in Releasing(o)) + One(f \in Releasing(o)')
        /\ Cardinality(Holding(o))' =
             Cardinality(Holding(o)) - One(ptr[Top.slot] = o /\ Keeps(Top))
                                     + One(ptr[Top.slot] = o /\ Keeps(f))
    BY ReplacedCounts
  <2>2. Weakly(o)' = Weakly(o)
    BY DEF Weakly
  <2>3. /\ strong[o] = Cardinality(Holding(o)) + Cardinality(Taken(o)) + hand[o]
        /\ weak[o] = strong[o] + Cardinality(Weakly(o)) + Cardinality(Releasing(o))
    BY DEF SlotCounts
  <2>4. /\ Cardinality(Holding(o)) \in Nat /\ Cardinality(Taken(o)) \in Nat /\ hand[o] \in Nat
        /\ Cardinality(Weakly(o)) \in Nat /\ Cardinality(Releasing(o)) \in Nat
    BY Parts
  <2>5. /\ One(ptr[Top.slot] = o /\ Keeps(Top)) \in Nat /\ One(ptr[Top.slot] = o /\ Keeps(f)) \in Nat
        /\ One(Top \in Releasing(o)) \in Nat /\ One(f \in Releasing(o)') \in Nat
    BY DEF One
  <2>6. /\ hand'[o] \in Nat /\ strong'[o] \in Int /\ weak'[o] \in Int
        /\ strong[o] \in Int /\ weak[o] \in Int
    BY DEF TypeOK
  <2>7. strong'[o] = strong[o] + (hand'[o] - hand[o])
          - One(ptr[Top.slot] = o /\ Keeps(Top)) + One(ptr[Top.slot] = o /\ Keeps(f))
    OBVIOUS
  <2>8. weak'[o] = weak[o] + (strong'[o] - strong[o])
          - One(Top \in Releasing(o)) + One(f \in Releasing(o)')
    OBVIOUS
  <2>9. strong'[o] = Cardinality(Holding(o))' + Cardinality(Taken(o))' + hand'[o]
    BY ONLY <2>1, <2>3, <2>4, <2>5, <2>6, <2>7
  <2>10. weak'[o] = strong'[o] + Cardinality(Weakly(o))' + Cardinality(Releasing(o))'
    BY ONLY <2>1, <2>2, <2>3, <2>4, <2>5, <2>6, <2>8
  <2>11. QED
    BY <2>9, <2>10
<1>2. QED
  BY <1>1 DEF SlotCounts

\* The operators around the innermost wait for the destructor they called.
LEMMA FramesKept ==
    ASSUME PointerInv, stack # <<>>, UNCHANGED ptr,
           \A h \in Around : /\ state'[h.old] = "dying"
                             /\ h.kind = "dtor" => state'[h.slot] = "dying"
    PROVE  \A h \in Around : FrameOK(h)'
<1>1. ASSUME NEW h \in Around PROVE FrameOK(h)'
  <2>1. h.at = "free" /\ FrameOK(h)
    BY Innermost DEF PointerInv, FramesInv
  <2>2. ASSUME NEW d PROVE Avoiding(d)' = Avoiding(d)
    BY DEF Avoiding, Held
  <2>3. state'[h.old] = "dying" /\ (h.kind = "dtor" => state'[h.slot] = "dying")
    OBVIOUS
  <2>4. h.kind # "drop" /\ h.old \in Obj
    BY <2>1 DEF FrameOK
  <2>5. h.kind # "dtor" /\ h.slot \in Obj => h.slot \in Avoiding(h.slot)'
    BY <2>1, <2>2 DEF FrameOK
  <2>6. QED
    BY <2>1, <2>3, <2>4, <2>5 DEF FrameOK
<1>2. QED
  BY <1>1

\* What the operators around the innermost one say of their objects.
LEMMA AroundDying ==
    ASSUME PointerInv, stack # <<>>, NEW h \in Around
    PROVE  /\ h.old \in Obj /\ state[h.old] = "dying" /\ h.kind # "drop"
           /\ h.kind = "dtor" => h.slot \in Obj /\ state[h.slot] = "dying"
           /\ h \in InProgress /\ h.at = "free" /\ FrameOK(h)
           /\ Top.at = "free" => h.old # Top.old /\ h.slot # Top.old
<1>1. h \in InProgress /\ h.at = "free" /\ FrameOK(h)
  BY Innermost DEF PointerInv, FramesInv
<1>2. /\ h.old \in Obj /\ state[h.old] = "dying" /\ h.kind # "drop"
      /\ h.kind = "dtor" => h.slot \in Obj /\ state[h.slot] = "dying"
  BY <1>1 DEF FrameOK
<1>3. PICK i \in 2 .. Len(stack) : h = stack[i]
  BY DEF Around
<1>4. Top = stack[1] /\ i \in 1 .. Len(stack) /\ i - 1 \in 1 .. Len(stack) /\ i # 1
  BY <1>3, TopOfStack DEF PointerInv
<1>5. Top.at = "free" => stack[i].slot # Top.old /\ stack[i - 1].slot # Top.old
  BY <1>4 DEF PointerInv, Nested
<1>6. stack[i].old = stack[i - 1].slot
  BY <1>4 DEF PointerInv, Nested
<1>7. QED
  BY <1>1, <1>2, <1>3, <1>5, <1>6

\* What the innermost one says of its own.
LEMMA TopOK ==
    ASSUME PointerInv, stack # <<>>
    PROVE  /\ Top \in Frames /\ Top \in InProgress /\ FrameOK(Top) /\ InProgress = Around \cup {Top}
           /\ TypeOK /\ Nested /\ SlotCounts
           /\ ptr[Top.slot] \in ObjOrNull /\ Top.slot \in Slot
           /\ Top.at = "free" => Top.slot # Top.old
           /\ \A h \in Around : h.slot # Top.slot
<1>1. /\ Top \in Frames /\ Top \in InProgress /\ FrameOK(Top) /\ InProgress = Around \cup {Top}
      /\ TypeOK /\ Nested /\ SlotCounts /\ \A h \in Around : h.slot # Top.slot
  BY Innermost DEF PointerInv, FramesInv
<1>2. Top.slot \in Slot /\ ptr[Top.slot] \in ObjOrNull
  BY <1>1 DEF Frames, TypeOK
<1>3. Top = stack[1] /\ 1 \in 1 .. Len(stack)
  BY <1>1, TopOfStack
<1>4. Top.at = "free" => Top.slot # Top.old
  BY <1>1, <1>3 DEF Nested
<1>5. QED
  BY <1>1, <1>2, <1>4

LEMMA DecKeeps == ASSUME PointerInv, Dec PROVE PointerInv'
<1>1. /\ stack # <<>> /\ Top.at = "dec" /\ ptr[Top.slot] # NULL
      /\ UNCHANGED <<ptr, wptr, wrefs, state, refs, weak>>
  BY DEF Dec, Ready, weaks
<1>2. /\ Top \in Frames /\ Top \in InProgress /\ FrameOK(Top) /\ InProgress = Around \cup {Top}
      /\ TypeOK /\ Nested /\ SlotCounts /\ ptr[Top.slot] \in ObjOrNull /\ Top.slot \in Slot
      /\ \A h \in Around : h.slot # Top.slot
  BY <1>1, TopOK
<1>3. PICK o \in Obj : o = ptr[Top.slot]
  BY <1>1, <1>2 DEF ObjOrNull
<1>4. PICK f : f = [Top EXCEPT !.old = o, !.at = IF strong[o] = 1 THEN "delete" ELSE "weak"]
  OBVIOUS
<1>5. /\ f \in Frames /\ f.slot = Top.slot /\ f.kind = Top.kind /\ f.other = Top.other
      /\ f.old = o /\ (f.at = IF strong[o] = 1 THEN "delete" ELSE "weak")
  BY <1>2, <1>4 DEF Frames, ObjOrNull
<1>6. /\ stack' = <<f>> \o Tail(stack) /\ strong' = [strong EXCEPT ![o] = @ - 1]
      /\ hand' = IF f.kind = "drop" THEN [hand EXCEPT ![o] = @ - 1] ELSE hand
  BY <1>3, <1>4, <1>5 DEF Dec
<1>7. stack' \in Seq(Frames) /\ Nested' /\ InProgress' = Around \cup {f}
  BY <1>1, <1>2, <1>5, <1>6, Replaced
<1>8. Top.slot \in Holding(o)
  BY <1>1, <1>2, <1>3 DEF Holding
<1>9. strong[o] \in Nat /\ strong[o] > 0 /\ state[o] = "alive" /\ weak[o] > 0
  BY <1>8, Live
<1>10. f.kind = "drop" => hand[o] > 0 /\ strong[o] > 1
  <2>1. SUFFICES ASSUME f.kind = "drop" PROVE hand[o] > 0 /\ strong[o] > 1
    OBVIOUS
  <2>2. hand[o] > 0
    BY <1>1, <1>2, <1>3, <1>5, <2>1 DEF FrameOK
  <2>3. /\ strong[o] = Cardinality(Holding(o)) + Cardinality(Taken(o)) + hand[o]
        /\ Cardinality(Holding(o)) \in Nat /\ Cardinality(Holding(o)) > 0
        /\ Cardinality(Taken(o)) \in Nat /\ hand[o] \in Nat
    BY <1>2, <1>8, Parts DEF SlotCounts
  <2>4. QED
    BY ONLY <2>2, <2>3
<1>11. /\ strong' \in [Obj -> Int] /\ weak' \in [Obj -> Int] /\ hand' \in [Obj -> Nat]
       /\ strong'[o] = strong[o] - 1 /\ \A x \in Obj : x # o => strong'[x] = strong[x]
       /\ f.kind = "drop" => hand'[o] = hand[o] - 1
       /\ \A x \in Obj : x # o \/ f.kind # "drop" => hand'[x] = hand[x]
  <2>1. strong \in [Obj -> Int] /\ weak \in [Obj -> Int] /\ hand \in [Obj -> Nat]
    BY <1>2 DEF TypeOK
  <2>2. strong' \in [Obj -> Int] /\ strong'[o] = strong[o] - 1
        /\ \A x \in Obj : x # o => strong'[x] = strong[x]
    BY <1>6, <2>1
  <2>3. weak' \in [Obj -> Int]
    BY <1>1, <2>1
  <2>4. CASE f.kind = "drop"
    <3>1. hand[o] - 1 \in Nat /\ hand' = [hand EXCEPT ![o] = hand[o] - 1]
      BY <1>6, <1>10, <2>1, <2>4
    <3>2. hand' \in [Obj -> Nat] /\ hand'[o] = hand[o] - 1 /\ \A x \in Obj : x # o => hand'[x] = hand[x]
      BY ONLY <2>1, <3>1, o \in Obj
    <3>3. QED
      BY <2>2, <2>3, <2>4, <3>2
  <2>5. CASE f.kind # "drop"
    BY <1>6, <2>1, <2>2, <2>3, <2>5
  <2>6. QED
    BY <2>4, <2>5
<1>12. TypeOK'
  BY <1>1, <1>2, <1>7, <1>11 DEF TypeOK
<1>13. SlotCounts'
  <2>1. ASSUME NEW x \in Obj
        PROVE  /\ strong'[x] = strong[x] + (hand'[x] - hand[x])
                     - One(ptr[Top.slot] = x /\ Keeps(Top)) + One(ptr[Top.slot] = x /\ Keeps(f))
               /\ weak'[x] = weak[x] + (strong'[x] - strong[x])
                     - One(Top \in Releasing(x)) + One(f \in Releasing(x)')
    <3>1. Keeps(Top) /\ (Keeps(f) <=> f.kind = "drop")
      BY <1>1, <1>5 DEF Keeps
    <3>2. Top \notin Releasing(x) /\ (f \in Releasing(x)' <=> x = o)
      BY <1>1, <1>5, <1>7 DEF Releasing
    <3>3. strong[x] \in Int /\ weak[x] \in Int /\ hand[x] \in Int /\ weak'[x] = weak[x]
      BY <1>1, <1>2 DEF TypeOK
    <3>4. CASE x = o
      <4>1. One(ptr[Top.slot] = x /\ Keeps(Top)) = 1 /\ One(Top \in Releasing(x)) = 0
            /\ One(f \in Releasing(x)') = 1
        BY <1>3, <3>1, <3>2, <3>4 DEF One
      <4>2. strong'[x] = strong[x] - 1
        BY <1>11, <3>4
      <4>3. CASE f.kind = "drop"
        <5>1. One(ptr[Top.slot] = x /\ Keeps(f)) = 1 /\ hand'[x] = hand[x] - 1
          BY <1>3, <1>11, <3>1, <3>4, <4>3 DEF One
        <5>2. QED
          BY ONLY <3>3, <4>1, <4>2, <5>1
      <4>4. CASE f.kind # "drop"
        <5>1. One(ptr[Top.slot] = x /\ Keeps(f)) = 0 /\ hand'[x] = hand[x]
          BY <1>3, <1>11, <3>1, <3>4, <4>4 DEF One
        <5>2. QED
          BY ONLY <3>3, <4>1, <4>2, <5>1
      <4>5. QED
        BY <4>3, <4>4
    <3>5. CASE x # o
      <4>1. One(ptr[Top.slot] = x /\ Keeps(Top)) = 0 /\ One(Top \in Releasing(x)) = 0
            /\ One(f \in Releasing(x)') = 0 /\ One(ptr[Top.slot] = x /\ Keeps(f)) = 0
        BY <1>3, <3>2, <3>5 DEF One
      <4>2. strong'[x] = strong[x] /\ hand'[x] = hand[x]
        BY <1>11, <3>5
      <4>3. QED
        BY ONLY <3>3, <4>1, <4>2
    <3>6. QED
      BY <3>4, <3>5
  <2> DEFINE G == {}
  <2>2. InProgress' = Around \cup {f} \cup G /\ \A g \in G : g.at = "dec" /\ g.kind = "dtor"
    BY <1>7
  <2> HIDE DEF G
  <2>3. strong' \in [Obj -> Int] /\ weak' \in [Obj -> Int] /\ hand' \in [Obj -> Nat]
    BY <1>11
  <2>4. /\ TypeOK /\ Nested /\ SlotCounts /\ stack # <<>> /\ UNCHANGED <<ptr, wptr>>
        /\ f.slot = Top.slot /\ f.kind = Top.kind /\ f.other = Top.other
    BY <1>1, <1>2, <1>5
  <2>5. QED
    BY ONLY <2>1, <2>2, <2>3, <2>4, CountsGoOn
<1>14. AliveInv'
  <2>1. ASSUME NEW x \in Obj, strong'[x] > 0 PROVE state'[x] = "alive"
    <3>1. strong[x] > 0
      BY <1>9, <1>11, <2>1
    <3>2. QED
      BY <1>1, <3>1, Live
  <2>2. ASSUME NEW x \in Obj, state'[x] = "alive"
        PROVE  strong'[x] > 0 \/ \E g \in InProgress' : g.at = "delete" /\ g.old = x
    <3>1. CASE x = o
      <4>1. CASE strong[o] = 1
        BY <1>5, <1>7, <3>1, <4>1
      <4>2. CASE strong[o] # 1
        BY <1>9, <1>11, <3>1, <4>2
      <4>3. QED
        BY <4>1, <4>2
    <3>2. CASE x # o
      <4>1. strong[x] > 0 \/ \E g \in InProgress : g.at = "delete" /\ g.old = x
        BY <1>1, <2>2 DEF PointerInv, AliveInv
      <4>2. \A g \in InProgress : g.at # "delete"
        BY <1>1, <1>2, AroundDying
      <4>3. QED
        BY <1>11, <3>2, <4>1, <4>2
    <3>3. QED
      BY <3>1, <3>2
  <2>3. QED
    BY <2>1, <2>2 DEF AliveInv
<1>15. RefsInv'
  BY <1>1 DEF PointerInv, RefsInv
<1>16. MemberInv'
  BY <1>1, <1>2, <1>5, <1>7 DEF PointerInv, MemberInv
<1>17. FramesInv'
  <2>1. \A h \in Around : FrameOK(h)'
    BY <1>1, AroundDying, FramesKept
  <2>2. ASSUME NEW d PROVE Avoiding(d)' = Avoiding(d)
    BY <1>1 DEF Avoiding, Held
  <2>3. f.at = "delete" => strong'[o] = 0
    BY <1>5, <1>11
  <2>4. f.kind = "drop" => f.at # "delete"
    BY <1>5, <1>10
  <2>5. FrameOK(f)'
    BY <1>1, <1>2, <1>5, <1>9, <2>2, <2>3, <2>4 DEF FrameOK
  <2>6. QED
    BY <1>7, <2>1, <2>5 DEF FramesInv
<1>18. QED
  BY <1>7, <1>12, <1>13, <1>14, <1>15, <1>16, <1>17 DEF PointerInv

LEMMA DecNullKeeps == ASSUME PointerInv, DecNull PROVE PointerInv'
<1>1. /\ stack # <<>> /\ Top.at = "dec" /\ ptr[Top.slot] = NULL
      /\ UNCHANGED <<ptr, wptr, wrefs, state, refs, weak, strong, hand>>
  BY DEF DecNull, Ready, weaks, counts
<1>2. /\ Top \in Frames /\ Top \in InProgress /\ FrameOK(Top) /\ InProgress = Around \cup {Top}
      /\ TypeOK /\ Nested /\ SlotCounts
  BY <1>1, TopOK
<1>3. PICK f : f = [Top EXCEPT !.at = "store"]
  OBVIOUS
<1>4. /\ f \in Frames /\ f.slot = Top.slot /\ f.kind = Top.kind /\ f.other = Top.other
      /\ f.old = Top.old /\ f.at = "store" /\ stack' = <<f>> \o Tail(stack)
  BY <1>2, <1>3 DEF Frames, DecNull, Advance
<1>5. stack' \in Seq(Frames) /\ Nested' /\ InProgress' = Around \cup {f}
  BY <1>1, <1>2, <1>4, Replaced
<1>6. TypeOK'
  BY <1>1, <1>2, <1>5 DEF TypeOK
<1>7. SlotCounts'
  <2>1. ASSUME NEW x \in Obj
        PROVE  /\ strong'[x] = strong[x] + (hand'[x] - hand[x])
                     - One(ptr[Top.slot] = x /\ Keeps(Top)) + One(ptr[Top.slot] = x /\ Keeps(f))
               /\ weak'[x] = weak[x] + (strong'[x] - strong[x])
                     - One(Top \in Releasing(x)) + One(f \in Releasing(x)')
    <3>1. Top \notin Releasing(x) /\ f \notin Releasing(x)' /\ ptr[Top.slot] # x
      BY <1>1, <1>4, SmartPointersAssumption DEF Releasing
    <3>2. One(ptr[Top.slot] = x /\ Keeps(Top)) = 0 /\ One(Top \in Releasing(x)) = 0
          /\ One(f \in Releasing(x)') = 0 /\ One(ptr[Top.slot] = x /\ Keeps(f)) = 0
      BY <3>1 DEF One
    <3>3. strong[x] \in Int /\ weak[x] \in Int /\ hand[x] \in Int
          /\ weak'[x] = weak[x] /\ strong'[x] = strong[x] /\ hand'[x] = hand[x]
      BY <1>1, <1>2 DEF TypeOK
    <3>4. QED
      BY ONLY <3>2, <3>3
  <2> DEFINE G == {}
  <2>2. InProgress' = Around \cup {f} \cup G /\ \A g \in G : g.at = "dec" /\ g.kind = "dtor"
    BY <1>5
  <2>3. strong' \in [Obj -> Int] /\ weak' \in [Obj -> Int] /\ hand' \in [Obj -> Nat]
    BY <1>1, <1>2 DEF TypeOK
  <2> HIDE DEF G
  <2>4. QED
    BY <1>1, <1>2, <1>4, <2>1, <2>2, <2>3, CountsGoOn
<1>8. AliveInv'
  BY <1>1, <1>2, <1>5 DEF PointerInv, AliveInv
<1>9. RefsInv'
  BY <1>1 DEF PointerInv, RefsInv
<1>10. MemberInv'
  BY <1>1, <1>2, <1>4, <1>5 DEF PointerInv, MemberInv
<1>11. FramesInv'
  <2>1. \A h \in Around : FrameOK(h)'
    BY <1>1, AroundDying, FramesKept
  <2>2. ASSUME NEW d PROVE Avoiding(d)' = Avoiding(d)
    BY <1>1 DEF Avoiding, Held
  <2>3. FrameOK(f)'
    BY <1>1, <1>2, <1>4, <2>2 DEF FrameOK
  <2>4. QED
    BY <1>5, <2>1, <2>3 DEF FramesInv
<1>12. QED
  BY <1>5, <1>6, <1>7, <1>8, <1>9, <1>10, <1>11 DEF PointerInv

LEMMA DestructKeeps == ASSUME PointerInv, Destruct PROVE PointerInv'
<1>1. /\ stack # <<>> /\ Top.at = "delete" /\ state' = [state EXCEPT ![Top.old] = "dying"]
      /\ UNCHANGED <<ptr, wptr, wrefs, refs, weak, strong, hand>>
  BY DEF Destruct, Ready, weaks, counts
<1>2. /\ Top \in Frames /\ Top \in InProgress /\ FrameOK(Top) /\ InProgress = Around \cup {Top}
      /\ TypeOK /\ Nested /\ SlotCounts /\ Top.slot \in Slot
  BY <1>1, TopOK
<1>3. PICK o : o = Top.old
  OBVIOUS
<1>4. o \in Obj /\ state[o] = "alive" /\ strong[o] = 0 /\ Top.kind # "drop"
  BY <1>1, <1>2, <1>3 DEF FrameOK
<1>5. PICK f : f = [Top EXCEPT !.at = "free"]
  OBVIOUS
<1>6. PICK g : g = Frame("dtor", o, NULL)
  OBVIOUS
<1>7. /\ f \in Frames /\ f.slot = Top.slot /\ f.kind = Top.kind /\ f.other = Top.other
      /\ f.old = o /\ f.at = "free"
  BY <1>2, <1>3, <1>5 DEF Frames
<1>8. /\ g \in Frames /\ g.slot = o /\ g.kind = "dtor" /\ g.other = NULL /\ g.old = NULL /\ g.at = "dec"
  BY <1>4, <1>6 DEF Frames, Frame, Slot, ObjOrNull
<1>9. stack' = <<g, f>> \o Tail(stack)
  BY <1>3, <1>5, <1>6 DEF Destruct
<1>10. /\ state'[o] = "dying" /\ \A x \in Obj : x # o => state'[x] = state[x]
       /\ state' \in [Obj -> {"unborn", "alive", "dying", "deleted"}]
  BY <1>1, <1>2, <1>3, <1>4 DEF TypeOK
<1>11. ASSUME NEW h \in InProgress PROVE h.slot # o
  <2>1. CASE h.kind = "dtor"
    BY <1>4, <2>1 DEF PointerInv, FramesInv, FrameOK
  <2>2. CASE h.kind # "dtor"
    BY <1>4, <2>2, Anchored
  <2>3. QED
    BY <2>1, <2>2
<1>12. stack' \in Seq(Frames) /\ Nested' /\ InProgress' = Around \cup {f, g}
  BY <1>1, <1>2, <1>7, <1>8, <1>9, <1>11, Nests
<1>13. TypeOK'
  BY <1>1, <1>2, <1>10, <1>12 DEF TypeOK
<1>14. SlotCounts'
  <2>1. ASSUME NEW x \in Obj
        PROVE  /\ strong'[x] = strong[x] + (hand'[x] - hand[x])
                     - One(ptr[Top.slot] = x /\ Keeps(Top)) + One(ptr[Top.slot] = x /\ Keeps(f))
               /\ weak'[x] = weak[x] + (strong'[x] - strong[x])
                     - One(Top \in Releasing(x)) + One(f \in Releasing(x)')
    <3>1. ~Keeps(Top) /\ ~Keeps(f)
      BY <1>1, <1>4, <1>7 DEF Keeps
    <3>2. Top \in Releasing(x) <=> f \in Releasing(x)'
      BY <1>1, <1>2, <1>3, <1>7, <1>12 DEF Releasing
    <3>3. One(ptr[Top.slot] = x /\ Keeps(Top)) = 0 /\ One(ptr[Top.slot] = x /\ Keeps(f)) = 0
          /\ One(Top \in Releasing(x)) = One(f \in Releasing(x)') /\ One(f \in Releasing(x)') \in Int
      BY <3>1, <3>2 DEF One
    <3>4. strong[x] \in Int /\ weak[x] \in Int /\ hand[x] \in Int
          /\ weak'[x] = weak[x] /\ strong'[x] = strong[x] /\ hand'[x] = hand[x]
      BY <1>1, <1>2 DEF TypeOK
    <3>5. QED
      BY ONLY <3>3, <3>4
  <2> DEFINE G == {g}
  <2>2. InProgress' = Around \cup {f} \cup G /\ \A i \in G : i.at = "dec" /\ i.kind = "dtor"
    BY <1>8, <1>12
  <2>3. strong' \in [Obj -> Int] /\ weak' \in [Obj -> Int] /\ hand' \in [Obj -> Nat]
    BY <1>1, <1>2 DEF TypeOK
  <2> HIDE DEF G
  <2>4. QED
    BY ONLY <1>1, <1>2, <1>7, <2>1, <2>2, <2>3, CountsGoOn
<1>15. AliveInv'
  <2>1. ASSUME NEW x \in Obj, strong'[x] > 0 PROVE state'[x] = "alive"
    <3>1. strong[x] > 0 /\ x # o
      BY <1>1, <1>4, <2>1
    <3>2. QED
      BY <1>10, <3>1, Live
  <2>2. ASSUME NEW x \in Obj, state'[x] = "alive" PROVE strong'[x] > 0
    <3>1. x # o /\ state[x] = "alive"
      BY <1>10, <2>2
    <3>2. \A h \in InProgress : h.at = "delete" => h.old = o
      BY <1>1, <1>2, <1>3, AroundDying
    <3>3. QED
      BY <1>1, <3>1, <3>2 DEF PointerInv, AliveInv
  <2>3. QED
    BY <2>1, <2>2 DEF AliveInv
<1>16. RefsInv'
  <2>1. \A x \in Obj : state'[x] = "unborn" <=> state[x] = "unborn"
    BY <1>4, <1>10
  <2>2. \A w \in WRoot : wptr[w] # NULL => wptr[w] \in Obj
    BY <1>2 DEF TypeOK, ObjOrNull
  <2>3. QED
    BY <1>1, <2>1, <2>2 DEF PointerInv, RefsInv
<1>17. MemberInv'
  <2>1. ASSUME NEW x \in Obj, ptr'[x] # NULL
        PROVE  state'[x] = "alive" \/ \E h \in InProgress' : h.kind = "dtor" /\ h.slot = x
    <3>1. CASE x = o
      BY <1>8, <1>12, <3>1
    <3>2. CASE x # o
      BY <1>1, <1>2, <1>7, <1>10, <1>12, <2>1, <3>2 DEF PointerInv, MemberInv
    <3>3. QED
      BY <3>1, <3>2
  <2>2. QED
    BY <2>1 DEF MemberInv
<1>18. FramesInv'
  <2>1. \A h \in Around : FrameOK(h)'
    <3>1. ASSUME NEW h \in Around
          PROVE  state'[h.old] = "dying" /\ (h.kind = "dtor" => state'[h.slot] = "dying")
      BY <1>1, <1>4, <1>10, AroundDying
    <3>2. QED
      BY <1>1, <3>1, FramesKept
  <2>2. ASSUME NEW d PROVE Avoiding(d)' = Avoiding(d)
    BY <1>1 DEF Avoiding, Held
  <2>3. f.kind = "dtor" => f.slot \in Obj /\ state'[f.slot] = "dying"
    BY <1>2, <1>4, <1>7, <1>10 DEF FrameOK
  <2>4. FrameOK(f)'
    BY <1>2, <1>4, <1>7, <1>10, <2>2, <2>3 DEF FrameOK
  <2>5. FrameOK(g)'
    BY <1>4, <1>8, <1>10 DEF FrameOK
  <2>6. QED
    BY <1>12, <2>1, <2>4, <2>5 DEF FramesInv
<1>19. QED
  BY <1>12, <1>13, <1>14, <1>15, <1>16, <1>17, <1>18 DEF PointerInv

LEMMA FreeKeeps == ASSUME PointerInv, Free PROVE PointerInv'
<1>1. /\ stack # <<>> /\ Top.at = "free" /\ state' = [state EXCEPT ![Top.old] = "deleted"]
      /\ UNCHANGED <<ptr, wptr, wrefs, refs, weak, strong, hand>>
  BY DEF Free, Ready, weaks, counts
<1>2. /\ Top \in Frames /\ Top \in InProgress /\ FrameOK(Top) /\ InProgress = Around \cup {Top}
      /\ TypeOK /\ Nested /\ SlotCounts /\ Top.slot \in Slot /\ Top.slot # Top.old
  BY <1>1, TopOK
<1>3. PICK o : o = Top.old
  OBVIOUS
<1>4. o \in Obj /\ state[o] = "dying" /\ Top.kind # "drop"
  BY <1>1, <1>2, <1>3 DEF FrameOK
<1>5. PICK f : f = [Top EXCEPT !.at = "weak"]
  OBVIOUS
<1>6. /\ f \in Frames /\ f.slot = Top.slot /\ f.kind = Top.kind /\ f.other = Top.other
      /\ f.old = o /\ f.at = "weak" /\ stack' = <<f>> \o Tail(stack)
  BY <1>2, <1>3, <1>5 DEF Frames, Free, Advance
<1>7. /\ state'[o] = "deleted" /\ \A x \in Obj : x # o => state'[x] = state[x]
      /\ state' \in [Obj -> {"unborn", "alive", "dying", "deleted"}]
  BY <1>1, <1>2, <1>3, <1>4 DEF TypeOK
<1>8. stack' \in Seq(Frames) /\ Nested' /\ InProgress' = Around \cup {f}
  BY <1>1, <1>2, <1>6, Replaced
<1>9. TypeOK'
  BY <1>1, <1>2, <1>7, <1>8 DEF TypeOK
<1>10. SlotCounts'
  <2>1. ASSUME NEW x \in Obj
        PROVE  /\ strong'[x] = strong[x] + (hand'[x] - hand[x])
                     - One(ptr[Top.slot] = x /\ Keeps(Top)) + One(ptr[Top.slot] = x /\ Keeps(f))
               /\ weak'[x] = weak[x] + (strong'[x] - strong[x])
                     - One(Top \in Releasing(x)) + One(f \in Releasing(x)')
    <3>1. ~Keeps(Top) /\ ~Keeps(f)
      BY <1>1, <1>4, <1>6 DEF Keeps
    <3>2. Top \in Releasing(x) <=> f \in Releasing(x)'
      BY <1>1, <1>2, <1>3, <1>6, <1>8 DEF Releasing
    <3>3. One(ptr[Top.slot] = x /\ Keeps(Top)) = 0 /\ One(ptr[Top.slot] = x /\ Keeps(f)) = 0
          /\ One(Top \in Releasing(x)) = One(f \in Releasing(x)') /\ One(f \in Releasing(x)') \in Int
      BY <3>1, <3>2 DEF One
    <3>4. strong[x] \in Int /\ weak[x] \in Int /\ hand[x] \in Int
          /\ weak'[x] = weak[x] /\ strong'[x] = strong[x] /\ hand'[x] = hand[x]
      BY <1>1, <1>2 DEF TypeOK
    <3>5. QED
      BY ONLY <3>3, <3>4
  <2> DEFINE G == {}
  <2>2. InProgress' = Around \cup {f} \cup G /\ \A i \in G : i.at = "dec" /\ i.kind = "dtor"
    BY <1>8
  <2>3. strong' \in [Obj -> Int] /\ weak' \in [Obj -> Int] /\ hand' \in [Obj -> Nat]
    BY <1>1, <1>2 DEF TypeOK
  <2> HIDE DEF G
  <2>4. QED
    BY ONLY <1>1, <1>2, <1>6, <2>1, <2>2, <2>3, CountsGoOn
<1>11. AliveInv'
  <2>1. ASSUME NEW x \in Obj, strong'[x] > 0 PROVE state'[x] = "alive"
    <3>1. state[x] = "alive"
      BY <1>1, <2>1, Live
    <3>2. QED
      BY <1>4, <1>7, <3>1
  <2>2. ASSUME NEW x \in Obj, state'[x] = "alive" PROVE strong'[x] > 0
    <3>1. state[x] = "alive"
      BY <1>7, <2>2
    <3>2. \A h \in InProgress : h.at # "delete"
      BY <1>1, <1>2, AroundDying
    <3>3. QED
      BY <1>1, <3>1, <3>2 DEF PointerInv, AliveInv
  <2>3. QED
    BY <2>1, <2>2 DEF AliveInv
<1>12. RefsInv'
  <2>1. \A x \in Obj : state'[x] = "unborn" <=> state[x] = "unborn"
    BY <1>4, <1>7
  <2>2. \A w \in WRoot : wptr[w] # NULL => wptr[w] \in Obj
    BY <1>2 DEF TypeOK, ObjOrNull
  <2>3. QED
    BY <1>1, <2>1, <2>2 DEF PointerInv, RefsInv
<1>13. MemberInv'
  <2>1. ASSUME NEW x \in Obj, ptr'[x] # NULL
        PROVE  state'[x] = "alive" \/ \E h \in InProgress' : h.kind = "dtor" /\ h.slot = x
    <3>1. state[x] = "alive" \/ \E h \in InProgress : h.kind = "dtor" /\ h.slot = x
      BY <1>1, <2>1 DEF PointerInv, MemberInv
    <3>2. \A h \in InProgress : h.slot # o
      BY <1>1, <1>2, <1>3, AroundDying
    <3>3. CASE x = o
      BY <1>4, <3>1, <3>2, <3>3
    <3>4. CASE x # o
      BY <1>2, <1>6, <1>7, <1>8, <3>1, <3>4
    <3>5. QED
      BY <3>3, <3>4
  <2>2. QED
    BY <2>1 DEF MemberInv
<1>14. FramesInv'
  <2>1. \A h \in Around : FrameOK(h)'
    <3>1. ASSUME NEW h \in Around
          PROVE  state'[h.old] = "dying" /\ (h.kind = "dtor" => state'[h.slot] = "dying")
      BY <1>1, <1>3, <1>7, AroundDying
    <3>2. QED
      BY <1>1, <3>1, FramesKept
  <2>2. ASSUME NEW d PROVE Avoiding(d)' = Avoiding(d)
    BY <1>1 DEF Avoiding, Held
  <2>3. f.kind = "dtor" => f.slot \in Obj /\ state'[f.slot] = "dying"
    BY <1>2, <1>3, <1>6, <1>7 DEF FrameOK
  <2>4. FrameOK(f)'
    BY <1>2, <1>4, <1>6, <1>7, <2>2, <2>3 DEF FrameOK
  <2>5. QED
    BY <1>8, <2>1, <2>4 DEF FramesInv
<1>15. QED
  BY <1>8, <1>9, <1>10, <1>11, <1>12, <1>13, <1>14 DEF PointerInv

LEMMA DecWeakKeeps == ASSUME PointerInv, DecWeak PROVE PointerInv'
<1>1. /\ stack # <<>> /\ Top.at = "weak" /\ ReleaseWeak(Top.old)
      /\ UNCHANGED <<ptr, wptr, wrefs, state, strong, hand>>
  BY DEF DecWeak, Ready, weaks
<1>2. /\ Top \in Frames /\ Top \in InProgress /\ FrameOK(Top) /\ InProgress = Around \cup {Top}
      /\ TypeOK /\ Nested /\ SlotCounts /\ Top.slot \in Slot
  BY <1>1, TopOK
<1>3. PICK o : o = Top.old
  OBVIOUS
<1>4. o \in Obj /\ state[o] # "unborn" /\ Top \in Releasing(o)
  BY <1>1, <1>2, <1>3 DEF FrameOK, Releasing
<1>5. PICK f : f = [Top EXCEPT !.at = "store"]
  OBVIOUS
<1>6. /\ f \in Frames /\ f.slot = Top.slot /\ f.kind = Top.kind /\ f.other = Top.other
      /\ f.old = o /\ f.at = "store" /\ stack' = <<f>> \o Tail(stack)
  BY <1>2, <1>3, <1>5 DEF Frames, DecWeak, Advance
<1>7. weak[o] \in Nat /\ weak[o] > 0 /\ refs[o] = "alive"
  BY <1>4, Live
<1>8. /\ weak'[o] = weak[o] - 1 /\ \A x \in Obj : x # o => weak'[x] = weak[x] /\ refs'[x] = refs[x]
      /\ refs'[o] = "deleted" <=> weak[o] = 1
      /\ weak' \in [Obj -> Int] /\ refs' \in [Obj -> {"alive", "deleted"}]
  <2>1. /\ weak' = [weak EXCEPT ![o] = @ - 1] /\ weak \in [Obj -> Int]
        /\ refs' = [refs EXCEPT ![o] = IF weak[o] = 1 THEN "deleted" ELSE @]
        /\ refs \in [Obj -> {"alive", "deleted"}]
    BY <1>1, <1>2, <1>3 DEF ReleaseWeak, TypeOK
  <2>2. /\ weak'[o] = weak[o] - 1 /\ \A x \in Obj : x # o => weak'[x] = weak[x]
        /\ weak' \in [Obj -> Int]
    BY <1>4, <2>1
  <2>3. \A x \in Obj : x # o => refs'[x] = refs[x]
    BY <1>4, <2>1
  <2>4. refs'[o] = "deleted" <=> weak[o] = 1
    BY <1>4, <1>7, <2>1
  <2>5. refs' \in [Obj -> {"alive", "deleted"}]
    BY <1>4, <2>1
  <2>6. QED
    BY <2>2, <2>3, <2>4, <2>5
<1>9. stack' \in Seq(Frames) /\ Nested' /\ InProgress' = Around \cup {f}
  BY <1>1, <1>2, <1>6, Replaced
<1>10. TypeOK'
  BY <1>1, <1>2, <1>8, <1>9 DEF TypeOK
<1>11. SlotCounts'
  <2>1. ASSUME NEW x \in Obj
        PROVE  /\ strong'[x] = strong[x] + (hand'[x] - hand[x])
                     - One(ptr[Top.slot] = x /\ Keeps(Top)) + One(ptr[Top.slot] = x /\ Keeps(f))
               /\ weak'[x] = weak[x] + (strong'[x] - strong[x])
                     - One(Top \in Releasing(x)) + One(f \in Releasing(x)')
    <3>1. Keeps(Top) <=> Keeps(f)
      BY <1>1, <1>6 DEF Keeps
    <3>2. (Top \in Releasing(x) <=> x = o) /\ f \notin Releasing(x)'
      BY <1>1, <1>2, <1>3, <1>6 DEF Releasing
    <3>3. One(ptr[Top.slot] = x /\ Keeps(Top)) = One(ptr[Top.slot] = x /\ Keeps(f))
          /\ One(ptr[Top.slot] = x /\ Keeps(f)) \in Int
          /\ One(Top \in Releasing(x)) = One(x = o) /\ One(f \in Releasing(x)') = 0
      BY <3>1, <3>2 DEF One
    <3>4. strong[x] \in Int /\ weak[x] \in Int /\ hand[x] \in Int
          /\ strong'[x] = strong[x] /\ hand'[x] = hand[x]
      BY <1>1, <1>2 DEF TypeOK
    <3>5. weak'[x] = weak[x] - One(x = o)
      BY <1>8, <3>4 DEF One
    <3>6. One(x = o) \in Int
      BY DEF One
    <3>7. QED
      BY ONLY <3>3, <3>4, <3>5, <3>6
  <2> DEFINE G == {}
  <2>2. InProgress' = Around \cup {f} \cup G /\ \A i \in G : i.at = "dec" /\ i.kind = "dtor"
    BY <1>9
  <2>3. strong' \in [Obj -> Int] /\ weak' \in [Obj -> Int] /\ hand' \in [Obj -> Nat]
    BY <1>1, <1>2, <1>8 DEF TypeOK
  <2>4. /\ TypeOK /\ Nested /\ SlotCounts /\ stack # <<>> /\ UNCHANGED <<ptr, wptr>>
        /\ f.slot = Top.slot /\ f.kind = Top.kind /\ f.other = Top.other
    BY <1>1, <1>2, <1>6
  <2> HIDE DEF G
  <2>5. QED
    BY ONLY <2>1, <2>2, <2>3, <2>4, CountsGoOn
<1>12. AliveInv'
  BY <1>1, <1>2, <1>6, <1>9 DEF PointerInv, AliveInv
<1>13. RefsInv'
  <2>1. ASSUME NEW x \in Obj PROVE refs'[x] = "deleted" <=> weak'[x] = 0 /\ state'[x] # "unborn"
    <3>1. CASE x = o
      <4>1. weak'[x] = 0 <=> weak[o] = 1
        BY <1>7, <1>8, <3>1
      <4>2. QED
        BY <1>1, <1>4, <1>8, <3>1, <4>1
    <3>2. CASE x # o
      BY <1>1, <1>8, <3>2 DEF PointerInv, RefsInv
    <3>3. QED
      BY <3>1, <3>2
  <2>2. QED
    BY <1>1, <2>1 DEF PointerInv, RefsInv
<1>14. MemberInv'
  BY <1>1, <1>2, <1>6, <1>9 DEF PointerInv, MemberInv
<1>15. FramesInv'
  <2>1. \A h \in Around : FrameOK(h)'
    BY <1>1, AroundDying, FramesKept
  <2>2. ASSUME NEW d PROVE Avoiding(d)' = Avoiding(d)
    BY <1>1 DEF Avoiding, Held
  <2>3. FrameOK(f)'
    BY <1>1, <1>2, <1>6, <2>2 DEF FrameOK
  <2>4. QED
    BY <1>9, <2>1, <2>3 DEF FramesInv
<1>16. QED
  BY <1>9, <1>10, <1>11, <1>12, <1>13, <1>14, <1>15 DEF PointerInv

\* The program's own operator keeps its slot reached: what the destructors in
\* the middle of it set to NULL belongs to objects without a reference.
LEMMA StillAvoiding ==
    ASSUME PointerInv, stack # <<>>, NEW h \in Around, h.kind # "dtor", h.slot \in Obj,
           Top.kind = "dtor", ptr' = [ptr EXCEPT ![Top.slot] = NULL]
    PROVE  h.slot \in Avoiding(h.slot)'
<1>1. /\ TypeOK /\ Nested /\ FrameOK(Top) /\ InProgress = Around \cup {Top}
      /\ h \in InProgress /\ FrameOK(h) /\ FramesInv
  BY TopOK, AroundDying DEF PointerInv
<1> DEFINE L == {o \in Obj : strong[o] > 0}
<1>2. Top.slot \notin L /\ Top.slot \in Obj /\ Top.slot \notin Root
  <2>1. Top.slot \in Obj /\ state[Top.slot] = "dying"
    BY <1>1 DEF FrameOK
  <2>2. QED
    BY <2>1, Live, SmartPointersAssumption
<1>3. ASSUME NEW s \in (Root \cup L) \ {h.slot}, NEW g \in InProgress PROVE g.slot # s
  <2>1. CASE g.kind = "dtor"
    <3>1. g.slot \in Obj /\ state[g.slot] = "dying"
      BY <1>1, <2>1 DEF FramesInv, FrameOK
    <3>2. s \in Obj => state[s] = "alive"
      BY <1>3, Live, SmartPointersAssumption
    <3>3. QED
      BY <3>1, <3>2
  <2>2. CASE g.kind # "dtor"
    BY <1>1, <1>3, <2>2, Outermost
  <2>3. QED
    BY <2>1, <2>2
<1>4. SUFFICES ASSUME NEW T \in SUBSET Obj, Held((Root \cup T) \ {h.slot})' \subseteq T
               PROVE  h.slot \in T
  BY DEF Avoiding
<1>5. Held((Root \cup (T \cap L)) \ {h.slot}) \subseteq T \cap L
  <2>1. ASSUME NEW s \in (Root \cup (T \cap L)) \ {h.slot}, ptr[s] # NULL PROVE ptr[s] \in T \cap L
    <3>1. s \in Slot /\ s # Top.slot /\ s \in (Root \cup L) \ {h.slot}
      BY <1>2 DEF Slot
    <3>2. ptr'[s] = ptr[s]
      BY <1>1, <3>1 DEF TypeOK
    <3>3. ptr'[s] \in Held((Root \cup T) \ {h.slot})'
      BY <2>1, <3>2 DEF Held
    <3>4. ptr[s] \in L
      BY <1>3, <2>1, <3>1, HeldLives
    <3>5. QED
      BY <1>4, <3>2, <3>3, <3>4
  <2>2. QED
    BY <2>1 DEF Held
<1>6. h.slot \in Avoiding(h.slot)
  BY <1>1 DEF FrameOK
<1>7. QED
  BY <1>5, <1>6 DEF Avoiding

LEMMA StoreKeeps == ASSUME PointerInv, Store PROVE PointerInv'
<1>1. /\ TypeOK /\ Nested /\ FramesInv /\ SlotCounts /\ stack # <<>> /\ Top.at = "store"
      /\ Top \in Frames /\ FrameOK(Top) /\ InProgress = Around \cup {Top}
      /\ Top.slot \in Slot /\ \A h \in Around : h.slot # Top.slot
  BY TopOK DEF Store, Ready, PointerInv
<1>2. Top.kind # "late" /\ Top.other \in ObjOrNull
  BY <1>1 DEF Frames
<1>3. /\ stack' = Tail(stack) /\ UNCHANGED <<strong, weak, hand, wptr, wrefs, state, refs>>
      /\ ptr' = IF Top.kind = "drop" THEN ptr ELSE [ptr EXCEPT ![Top.slot] = Top.other]
  BY <1>2 DEF Store, weaks, counts
<1>4. stack' \in Seq(Frames) /\ Nested' /\ InProgress' = Around
  BY <1>1, <1>3, Popped
<1>5. ptr' \in [Slot -> ObjOrNull] /\ \A s \in Slot : s # Top.slot => ptr'[s] = ptr[s]
  BY <1>1, <1>2, <1>3 DEF TypeOK
<1>6. TypeOK'
  BY <1>1, <1>3, <1>4, <1>5 DEF TypeOK
<1>7. SlotCounts'
  <2>1. ASSUME NEW o \in Obj
        PROVE  /\ strong'[o] = Cardinality(Holding(o))' + Cardinality(Taken(o))' + hand'[o]
               /\ weak'[o] = strong'[o] + Cardinality(Weakly(o))' + Cardinality(Releasing(o))'
    <3>1. /\ Cardinality(Holding(o))' + Cardinality(Taken(o))'
               = Cardinality(Holding(o)) + Cardinality(Taken(o))
          /\ Releasing(o)' = Releasing(o)
      BY <1>1, <1>3, <1>4, PopCounts
    <3>2. Weakly(o)' = Weakly(o)
      BY <1>3 DEF Weakly
    <3>3. /\ strong[o] = Cardinality(Holding(o)) + Cardinality(Taken(o)) + hand[o]
          /\ weak[o] = strong[o] + Cardinality(Weakly(o)) + Cardinality(Releasing(o))
      BY <1>1 DEF SlotCounts
    <3>4. strong'[o] = strong[o] /\ weak'[o] = weak[o] /\ hand'[o] = hand[o]
      BY <1>3
    <3>5. QED
      BY ONLY <3>1, <3>2, <3>3, <3>4
  <2>2. QED
    BY <2>1 DEF SlotCounts
<1>8. AliveInv'
  <2>1. \A g \in InProgress : g.at # "delete"
    BY <1>1, AroundDying
  <2>2. QED
    BY <1>3, <2>1 DEF PointerInv, AliveInv
<1>9. RefsInv'
  BY <1>3 DEF PointerInv, RefsInv
<1>10. MemberInv'
  <2>1. ASSUME NEW x \in Obj, ptr'[x] # NULL
        PROVE  state'[x] = "alive" \/ \E h \in InProgress' : h.kind = "dtor" /\ h.slot = x
    <3>1. CASE x = Top.slot
      <4>1. Top.kind # "dtor"
        <5>1. Top.kind = "dtor" => Top.other = NULL
          BY <1>1 DEF FrameOK
        <5>2. Top.kind = "dtor" => ptr'[x] = NULL
          BY <1>1, <1>3, <3>1, <5>1 DEF TypeOK
        <5>3. QED
          BY <2>1, <5>2
      <4>2. QED
        BY <1>1, <1>3, <3>1, <4>1, Anchored
    <3>2. CASE x # Top.slot
      <4>1. ptr[x] # NULL
        BY <1>5, <2>1, <3>2 DEF Slot
      <4>2. QED
        BY <1>1, <1>3, <1>4, <3>2, <4>1 DEF PointerInv, MemberInv
    <3>3. QED
      BY <3>1, <3>2
  <2>2. QED
    BY <2>1 DEF MemberInv
<1>11. FramesInv'
  <2>1. SUFFICES ASSUME NEW h \in Around PROVE FrameOK(h)'
    BY <1>4 DEF FramesInv
  <2>2. Top.kind = "dtor"
    BY <1>1, Innermost
  <2>3. /\ h.old \in Obj /\ state[h.old] = "dying" /\ h.kind # "drop" /\ h.at = "free" /\ FrameOK(h)
        /\ h.kind = "dtor" => h.slot \in Obj /\ state[h.slot] = "dying"
    BY <1>1, AroundDying
  <2>4. ptr' = [ptr EXCEPT ![Top.slot] = NULL]
    BY <1>1, <1>3, <2>2 DEF FrameOK
  <2>5. h.kind # "dtor" /\ h.slot \in Obj => h.slot \in Avoiding(h.slot)'
    BY <1>1, <2>2, <2>4, StillAvoiding
  <2>6. QED
    BY <1>3, <2>3, <2>5 DEF FrameOK
<1>12. QED
  BY <1>4, <1>6, <1>7, <1>8, <1>9, <1>10, <1>11 DEF PointerInv

-----------------------------------------------------------------------------
(***************************************************************************)
(* The steps: references by hand, and the wp's.                            *)
(***************************************************************************)
\* A reference more to an object that is alive: the program's, or a slot's.
LEMMA Referred ==
    ASSUME PointerInv, stack = <<>>, UNCHANGED <<stack, state, refs, wptr, wrefs>>,
           NEW o \in Obj, strong[o] > 0, Acquire(o), TypeOK',
           NEW d \in Root, ptr' = [ptr EXCEPT ![d] = o],
           \A x \in Obj : Cardinality(Holding(x))' + hand'[x]
                            = Cardinality(Holding(x)) + hand[x] + One(x = o)
    PROVE  PointerInv'
<1>1. TypeOK /\ Nested /\ InProgress = {} /\ InProgress' = {} /\ Nested'
  BY Empty DEF PointerInv, Nested, InProgress
<1>2. \A x \in Obj : strong'[x] = strong[x] + One(x = o) /\ weak'[x] = weak[x] + One(x = o)
  BY <1>1, AcquireCounts DEF ObjOrNull
<1>3. SlotCounts'
  <2>1. ASSUME NEW x \in Obj
        PROVE  /\ strong'[x] = Cardinality(Holding(x))' + Cardinality(Taken(x))' + hand'[x]
               /\ weak'[x] = strong'[x] + Cardinality(Weakly(x))' + Cardinality(Releasing(x))'
    <3>1. Taken(x)' = Taken(x) /\ Releasing(x)' = Releasing(x) /\ Weakly(x)' = Weakly(x)
      BY <1>1 DEF Taken, Releasing, Weakly
    <3>2. /\ strong[x] = Cardinality(Holding(x)) + Cardinality(Taken(x)) + hand[x]
          /\ weak[x] = strong[x] + Cardinality(Weakly(x)) + Cardinality(Releasing(x))
      BY DEF PointerInv, SlotCounts
    <3>3. /\ Cardinality(Holding(x)) \in Nat /\ Cardinality(Taken(x)) \in Nat /\ hand[x] \in Nat
          /\ Cardinality(Weakly(x)) \in Nat /\ Cardinality(Releasing(x)) \in Nat
      BY <1>1, Parts
    <3>4. hand'[x] \in Nat /\ Cardinality(Holding(x)') \in Nat
      <4>1. IsFiniteSet(Slot) /\ Holding(x)' \subseteq Slot
        BY SmartPointersAssumption, FS_Union DEF Slot, Holding
      <4>2. Cardinality(Holding(x)') \in Nat
        BY <4>1, FS_Subset, FS_CardinalityType
      <4>3. hand'[x] \in Nat
        BY DEF TypeOK
      <4>4. QED
        BY <4>2, <4>3
    <3>5. One(x = o) \in Nat
      BY DEF One
    <3>6. /\ strong'[x] = strong[x] + One(x = o) /\ weak'[x] = weak[x] + One(x = o)
          /\ Cardinality(Holding(x))' + hand'[x] = Cardinality(Holding(x)) + hand[x] + One(x = o)
      BY <1>2
    <3>7. QED
      BY ONLY <3>1, <3>2, <3>3, <3>4, <3>5, <3>6
  <2>2. QED
    BY <2>1 DEF SlotCounts
<1>4. \A x \in Obj : strong[x] \in Nat /\ weak[x] \in Nat
  BY Live
<1>5. AliveInv'
  <2>1. ASSUME NEW x \in Obj PROVE strong'[x] > 0 <=> strong[x] > 0
    BY <1>2, <1>4 DEF One
  <2>2. QED
    BY <1>1, <2>1 DEF PointerInv, AliveInv
<1>6. RefsInv'
  <2>1. ASSUME NEW x \in Obj PROVE weak'[x] = 0 <=> weak[x] = 0
    <3>1. weak[o] > 0
      BY Live
    <3>2. QED
      BY <1>2, <1>4, <3>1 DEF One
  <2>2. QED
    BY <2>1 DEF PointerInv, RefsInv
<1>7. MemberInv'
  <2>1. \A x \in Obj : ptr'[x] = ptr[x]
    BY <1>1, SmartPointersAssumption DEF TypeOK, Slot
  <2>2. QED
    BY <1>1, <2>1 DEF PointerInv, MemberInv
<1>8. FramesInv'
  BY <1>1 DEF FramesInv
<1>9. QED
  BY <1>1, <1>3, <1>5, <1>6, <1>7, <1>8 DEF PointerInv

LEMMA TakeByHandKeeps == ASSUME PointerInv, NEW d \in Slot, TakeByHand(d) PROVE PointerInv'
<1>1. /\ stack = <<>> /\ d \in Root /\ ptr[d] # NULL /\ Acquire(ptr[d])
      /\ hand' = [hand EXCEPT ![ptr[d]] = @ + 1]
      /\ UNCHANGED <<ptr, wptr, wrefs, state, refs, stack>>
  BY DEF TakeByHand, Ready, weaks
<1>2. TypeOK /\ InProgress = {}
  BY <1>1, Empty DEF PointerInv
<1>3. PICK o \in Obj : o = ptr[d] /\ strong[o] > 0
  BY <1>1, <1>2, HeldLives
<1>4. /\ hand' \in [Obj -> Nat] /\ \A x \in Obj : hand'[x] = hand[x] + One(x = o)
  BY <1>1, <1>2, <1>3 DEF TypeOK, One
<1>5. strong' \in [Obj -> Int] /\ weak' \in [Obj -> Int]
  BY <1>1, <1>2, <1>3, AcquireCounts DEF ObjOrNull
<1>6. TypeOK'
  BY <1>1, <1>2, <1>4, <1>5 DEF TypeOK
<1>7. ASSUME NEW x \in Obj
      PROVE  Cardinality(Holding(x))' + hand'[x] = Cardinality(Holding(x)) + hand[x] + One(x = o)
  <2>1. Holding(x)' = Holding(x)
    BY <1>1 DEF Holding, InProgress
  <2>2. Cardinality(Holding(x)) \in Nat /\ hand[x] \in Nat
    BY Parts DEF PointerInv
  <2>3. hand'[x] = hand[x] + One(x = o) /\ One(x = o) \in Nat
    BY <1>4 DEF One
  <2>4. QED
    BY ONLY <2>1, <2>2, <2>3
<1>8. ptr' = [ptr EXCEPT ![d] = o]
  BY <1>1, <1>2, <1>3 DEF TypeOK
<1>9. Acquire(o)
  BY <1>1, <1>3
<1>10. QED
  BY <1>1, <1>3, <1>6, <1>7, <1>8, <1>9, Referred

LEMMA PromoteKeeps == ASSUME PointerInv, NEW r \in Root, NEW w \in WRoot, Promote(r, w) PROVE PointerInv'
<1>1. /\ stack = <<>> /\ ptr[r] = NULL /\ wptr[w] # NULL /\ strong[wptr[w]] > 0
      /\ Acquire(wptr[w]) /\ ptr' = [ptr EXCEPT ![r] = wptr[w]]
      /\ UNCHANGED <<hand, wptr, wrefs, state, refs, stack>>
  BY DEF Promote, Ready, weaks
<1>2. TypeOK /\ Nested /\ InProgress = {}
  BY <1>1, Empty DEF PointerInv
<1>3. PICK o \in Obj : o = wptr[w]
  BY <1>1, <1>2 DEF TypeOK, ObjOrNull
<1>4. /\ strong[o] > 0 /\ Acquire(o) /\ ptr' = [ptr EXCEPT ![r] = o] /\ r \in Slot
  BY <1>1, <1>3 DEF Slot
<1>5. strong' \in [Obj -> Int] /\ weak' \in [Obj -> Int] /\ ptr' \in [Slot -> ObjOrNull]
  <2>1. strong' \in [Obj -> Int] /\ weak' \in [Obj -> Int]
    BY <1>2, <1>4, AcquireCounts DEF ObjOrNull
  <2>2. ptr' \in [Slot -> ObjOrNull]
    BY <1>2, <1>4 DEF TypeOK, ObjOrNull
  <2>3. QED
    BY <2>1, <2>2
<1>6. TypeOK'
  BY <1>1, <1>2, <1>5 DEF TypeOK
<1>7. ASSUME NEW x \in Obj
      PROVE  Cardinality(Holding(x))' + hand'[x] = Cardinality(Holding(x)) + hand[x] + One(x = o)
  <2>1. InProgress' = {}
    BY <1>1, <1>2 DEF InProgress
  <2>2. /\ Holding(x) = {s \in Slot : ptr[s] = x} /\ Holding(x)' = {s \in Slot : ptr'[s] = x}
    BY <1>2, <2>1 DEF Holding
  <2>3. \A s \in Slot : s # r => ptr'[s] = ptr[s]
    BY <1>2, <1>4 DEF TypeOK
  <2>4. Holding(x)' \ {r} = Holding(x) \ {r}
    BY <2>2, <2>3
  <2>5. r \notin Holding(x) /\ (r \in Holding(x)' <=> x = o)
    BY <1>1, <1>2, <1>4, <2>2, SmartPointersAssumption DEF TypeOK
  <2>6. IsFiniteSet(Holding(x))
    BY <1>2, AllFinite
  <2>7. /\ Cardinality(Holding(x)) \in Nat /\ Cardinality(Holding(x)') \in Nat
        /\ Cardinality(Holding(x)') =
             Cardinality(Holding(x)) - One(r \in Holding(x)) + One(r \in Holding(x)')
    BY ONLY <2>4, <2>6, Swapped
  <2>8. One(r \in Holding(x)) = 0 /\ One(r \in Holding(x)') = One(x = o) /\ One(x = o) \in Nat
    BY <2>5 DEF One
  <2>9. hand'[x] = hand[x] /\ hand[x] \in Nat
    BY <1>1, <1>2 DEF TypeOK
  <2>10. QED
    BY ONLY <2>7, <2>8, <2>9
<1>8. QED
  BY <1>1, <1>4, <1>6, <1>7, Referred

\* A wp lets go of what it had, and refers to p.
LEMMA RetargetKeeps ==
    ASSUME PointerInv, stack = <<>>, UNCHANGED <<stack, state, ptr, strong, hand>>,
           NEW w \in WRoot, NEW p \in ObjOrNull, Retarget(w, p), p # NULL => weak[p] > 0,
           wrefs' \in [WRoot -> ObjOrNull], \A v \in WRoot : v # w => wrefs'[v] = wrefs[v],
           p # NULL => wrefs'[w] = p
    PROVE  PointerInv'
<1>1. TypeOK /\ Nested /\ InProgress = {} /\ InProgress' = {} /\ Nested'
  BY Empty DEF PointerInv, Nested, InProgress
<1>2. PICK gone \in ObjOrNull : gone = wptr[w]
  BY <1>1 DEF TypeOK
<1>3. gone # NULL => gone \in Obj /\ weak[gone] > 0
  <2>1. SUFFICES ASSUME gone # NULL PROVE gone \in Obj /\ weak[gone] > 0
    OBVIOUS
  <2>2. gone \in Obj /\ w \in Weakly(gone)
    BY <1>2, <2>1 DEF Weakly, ObjOrNull
  <2>3. QED
    BY <2>2, Live
<1>4. \A x \in Obj : weak[x] \in Nat
  BY Live
<1>5. PICK taken : taken = IF p = NULL THEN weak ELSE [weak EXCEPT ![p] = @ + 1]
  OBVIOUS
<1>6. taken \in [Obj -> Int] /\ \A x \in Obj : taken[x] = weak[x] + One(x = p)
  <2>1. CASE p = NULL
    BY <1>1, <1>5, <2>1, SmartPointersAssumption DEF TypeOK, One
  <2>2. CASE p # NULL
    BY <1>1, <1>5, <2>2 DEF TypeOK, One, ObjOrNull
  <2>3. QED
    BY <2>1, <2>2
<1>7. /\ weak' = IF gone = NULL THEN taken ELSE [taken EXCEPT ![gone] = @ - 1]
      /\ refs' = IF gone # NULL /\ weak'[gone] = 0 THEN [refs EXCEPT ![gone] = "deleted"] ELSE refs
      /\ wptr' = [wptr EXCEPT ![w] = p]
  BY <1>2, <1>5 DEF Retarget
<1>8. weak' \in [Obj -> Int] /\ \A x \in Obj : weak'[x] = weak[x] + One(x = p) - One(x = gone)
  <2>1. \A x \in Obj : weak[x] \in Int /\ One(x = p) \in Int
    BY <1>4 DEF One
  <2>2. CASE gone = NULL
    <3>1. \A x \in Obj : One(x = gone) = 0
      BY <2>2, SmartPointersAssumption DEF One
    <3>2. weak' = taken
      BY <1>7, <2>2
    <3>3. QED
      BY <1>6, <2>1, <3>1, <3>2
  <2>3. CASE gone # NULL
    <3>1. weak' = [taken EXCEPT ![gone] = @ - 1] /\ gone \in Obj
      BY <1>3, <1>7, <2>3
    <3>2. weak' \in [Obj -> Int]
      BY <1>6, <3>1
    <3>3. ASSUME NEW x \in Obj PROVE weak'[x] = taken[x] - One(x = gone)
      BY <1>6, <3>1 DEF One
    <3>4. ASSUME NEW x \in Obj PROVE weak'[x] = weak[x] + One(x = p) - One(x = gone)
      <4>1. weak'[x] = taken[x] - One(x = gone) /\ taken[x] = weak[x] + One(x = p)
        BY <1>6, <3>3
      <4>2. weak[x] \in Int /\ One(x = p) \in Int /\ One(x = gone) \in Int
        BY <2>1 DEF One
      <4>3. QED
        BY ONLY <4>1, <4>2
    <3>5. QED
      BY <3>2, <3>4
  <2>4. QED
    BY <2>2, <2>3
<1>9. wptr' \in [WRoot -> ObjOrNull] /\ wptr'[w] = p /\ \A v \in WRoot : v # w => wptr'[v] = wptr[v]
  BY <1>1, <1>7 DEF TypeOK
<1>10. /\ refs' \in [Obj -> {"alive", "deleted"}]
       /\ \A x \in Obj : refs'[x] = IF x = gone /\ weak'[x] = 0 THEN "deleted" ELSE refs[x]
  <2>1. refs \in [Obj -> {"alive", "deleted"}]
    BY <1>1 DEF TypeOK
  <2>2. CASE gone # NULL /\ weak'[gone] = 0
    BY <1>3, <1>7, <2>1, <2>2
  <2>3. CASE ~(gone # NULL /\ weak'[gone] = 0)
    BY <1>7, <2>1, <2>3, SmartPointersAssumption
  <2>4. QED
    BY <2>2, <2>3
<1>11. TypeOK'
  BY <1>1, <1>8, <1>9, <1>10 DEF TypeOK
<1>12. SlotCounts'
  <2>1. ASSUME NEW x \in Obj
        PROVE  /\ strong'[x] = Cardinality(Holding(x))' + Cardinality(Taken(x))' + hand'[x]
               /\ weak'[x] = strong'[x] + Cardinality(Weakly(x))' + Cardinality(Releasing(x))'
    <3>1. Holding(x)' = Holding(x) /\ Taken(x)' = Taken(x) /\ Releasing(x)' = Releasing(x)
      BY <1>1 DEF Holding, Taken, Releasing
    <3>2. /\ strong[x] = Cardinality(Holding(x)) + Cardinality(Taken(x)) + hand[x]
          /\ weak[x] = strong[x] + Cardinality(Weakly(x)) + Cardinality(Releasing(x))
      BY DEF PointerInv, SlotCounts
    <3>3. Weakly(x)' \ {w} = Weakly(x) \ {w}
      BY <1>9 DEF Weakly
    <3>4. (w \in Weakly(x) <=> x = gone) /\ (w \in Weakly(x)' <=> x = p)
      BY <1>2, <1>9 DEF Weakly
    <3>5. IsFiniteSet(Weakly(x))
      BY <1>1, AllFinite
    <3>6. /\ Cardinality(Weakly(x)) \in Nat
          /\ Cardinality(Weakly(x)') =
               Cardinality(Weakly(x)) - One(w \in Weakly(x)) + One(w \in Weakly(x)')
      BY ONLY <3>3, <3>5, Swapped
    <3>7. /\ One(w \in Weakly(x)) = One(x = gone) /\ One(w \in Weakly(x)') = One(x = p)
          /\ One(x = gone) \in Nat /\ One(x = p) \in Nat
      BY <3>4 DEF One
    <3>8. Cardinality(Releasing(x)) \in Nat /\ strong[x] \in Int /\ weak[x] \in Int
      BY <1>1, Parts DEF TypeOK
    <3>9. strong'[x] = strong[x] /\ hand'[x] = hand[x]
          /\ weak'[x] = weak[x] + One(x = p) - One(x = gone)
      BY <1>8
    <3>10. QED
      BY ONLY <3>1, <3>2, <3>6, <3>7, <3>8, <3>9
  <2>2. QED
    BY <2>1 DEF SlotCounts
<1>13. AliveInv' /\ FramesInv'
  BY <1>1 DEF PointerInv, AliveInv, FramesInv
<1>14. RefsInv'
  <2>1. ASSUME NEW x \in Obj PROVE refs'[x] = "deleted" <=> weak'[x] = 0 /\ state'[x] # "unborn"
    <3>1. refs[x] = "deleted" <=> weak[x] = 0 /\ state[x] # "unborn"
      BY DEF PointerInv, RefsInv
    <3>2. weak'[x] = weak[x] + One(x = p) - One(x = gone) /\ weak[x] \in Nat
      BY <1>4, <1>8
    <3>3. CASE x = gone
      <4>1. weak[x] > 0 /\ state[x] # "unborn"
        <5>1. x # NULL
          BY SmartPointersAssumption
        <5>2. QED
          BY <1>2, <1>3, <3>3, <5>1 DEF PointerInv, RefsInv
      <4>2. refs'[x] = IF weak'[x] = 0 THEN "deleted" ELSE refs[x]
        BY <1>10, <3>3
      <4>3. refs[x] # "deleted"
        BY <3>1, <4>1
      <4>4. QED
        BY <4>1, <4>2, <4>3
    <3>4. CASE x # gone
      <4>1. refs'[x] = refs[x]
        BY <1>10, <3>4
      <4>2. weak'[x] = 0 <=> weak[x] = 0
        <5>1. CASE x = p
          <6>1. weak[x] > 0
            BY <5>1, SmartPointersAssumption
          <6>2. QED
            BY <3>2, <3>4, <5>1, <6>1 DEF One
        <5>2. CASE x # p
          BY <3>2, <3>4, <5>2 DEF One
        <5>3. QED
          BY <5>1, <5>2
      <4>3. QED
        BY <3>1, <4>1, <4>2
    <3>5. QED
      BY <3>3, <3>4
  <2>2. ASSUME NEW v \in WRoot, wptr'[v] # NULL
        PROVE  wrefs'[v] = wptr'[v] /\ state'[wptr'[v]] # "unborn"
    <3>1. CASE v = w
      <4>1. p \in Obj /\ wptr'[v] = p /\ wrefs'[v] = p
        BY <1>9, <2>2, <3>1 DEF ObjOrNull
      <4>2. refs[p] = "alive" /\ weak[p] > 0
        BY <4>1, Live, SmartPointersAssumption
      <4>3. state[p] # "unborn"
        <5>1. strong[p] > 0 \/ Weakly(p) # {} \/ Releasing(p) # {}
          <6>1. weak[p] = strong[p] + Cardinality(Weakly(p)) + Cardinality(Releasing(p))
            BY <4>1 DEF PointerInv, SlotCounts
          <6>2. /\ Weakly(p) = {} => Cardinality(Weakly(p)) = 0
                /\ Releasing(p) = {} => Cardinality(Releasing(p)) = 0
            BY <1>1, <4>1, Parts
          <6>3. strong[p] \in Nat
            BY <4>1, Live
          <6>4. QED
            BY <4>2, <6>1, <6>2, <6>3
        <5>2. Releasing(p) = {}
          BY <1>1 DEF Releasing
        <5>3. CASE strong[p] > 0
          BY <4>1, <5>3, Live
        <5>4. CASE Weakly(p) # {}
          BY <4>1, <5>4, SmartPointersAssumption DEF Weakly, PointerInv, RefsInv
        <5>5. QED
          BY <5>1, <5>2, <5>3, <5>4
      <4>4. QED
        BY <4>1, <4>3
    <3>2. CASE v # w
      BY <1>9, <2>2, <3>2 DEF PointerInv, RefsInv
    <3>3. QED
      BY <3>1, <3>2
  <2>3. QED
    BY <2>1, <2>2 DEF RefsInv
<1>15. MemberInv'
  BY <1>1 DEF PointerInv, MemberInv
<1>16. QED
  BY <1>1, <1>11, <1>12, <1>13, <1>14, <1>15 DEF PointerInv

LEMMA WeakAssignKeeps ==
    ASSUME PointerInv, NEW w \in WRoot, NEW s \in Slot, WeakAssign(w, s) PROVE PointerInv'
<1>1. /\ stack = <<>> /\ Retarget(w, ptr[s]) /\ wrefs' = [wrefs EXCEPT ![w] = ptr[s]]
      /\ UNCHANGED <<hand, ptr, state, strong, stack>>
  BY DEF WeakAssign, Ready
<1>2. TypeOK /\ InProgress = {} /\ ptr[s] \in ObjOrNull
  BY <1>1, Empty DEF PointerInv, TypeOK
<1>3. ptr[s] # NULL => weak[ptr[s]] > 0
  BY <1>2, HeldLives, Live
<1>4. /\ wrefs' \in [WRoot -> ObjOrNull] /\ wrefs'[w] = ptr[s]
      /\ \A v \in WRoot : v # w => wrefs'[v] = wrefs[v]
  BY <1>1, <1>2 DEF TypeOK
<1>5. QED
  BY <1>1, <1>2, <1>3, <1>4, RetargetKeeps

LEMMA WeakCopyKeeps ==
    ASSUME PointerInv, NEW w \in WRoot, NEW v \in WRoot, WeakCopy(w, v) PROVE PointerInv'
<1>1. /\ stack = <<>> /\ Retarget(w, wptr[v]) /\ wrefs' = [wrefs EXCEPT ![w] = wrefs[v]]
      /\ UNCHANGED <<hand, ptr, state, strong, stack>>
  BY DEF WeakCopy, Ready
<1>2. TypeOK /\ wptr[v] \in ObjOrNull
  BY DEF PointerInv, TypeOK
<1>3. wptr[v] # NULL => weak[wptr[v]] > 0 /\ wrefs[v] = wptr[v]
  <2>1. SUFFICES ASSUME wptr[v] # NULL PROVE weak[wptr[v]] > 0 /\ wrefs[v] = wptr[v]
    OBVIOUS
  <2>2. wptr[v] \in Obj /\ v \in Weakly(wptr[v])
    BY <1>2, <2>1 DEF ObjOrNull, Weakly
  <2>3. QED
    BY <2>1, <2>2, Live DEF PointerInv, RefsInv
<1>4. /\ wrefs' \in [WRoot -> ObjOrNull] /\ wrefs'[w] = wrefs[v]
      /\ \A u \in WRoot : u # w => wrefs'[u] = wrefs[u]
  BY <1>1, <1>2 DEF TypeOK
<1>5. QED
  BY <1>1, <1>2, <1>3, <1>4, RetargetKeeps

LEMMA WeakClearKeeps == ASSUME PointerInv, NEW w \in WRoot, WeakClear(w) PROVE PointerInv'
<1>1. /\ stack = <<>> /\ Retarget(w, NULL)
      /\ UNCHANGED <<hand, ptr, wrefs, state, strong, stack>>
  BY DEF WeakClear, Ready
<1>2. wrefs' \in [WRoot -> ObjOrNull] /\ NULL \in ObjOrNull
  BY <1>1 DEF PointerInv, TypeOK, ObjOrNull
<1>3. QED
  BY <1>1, <1>2, RetargetKeeps

-----------------------------------------------------------------------------
(***************************************************************************)
(* The invariant, and what follows.                                        *)
(***************************************************************************)
LEMMA NextPointers == PointerInv /\ [Next]_vars => PointerInv'
<1> SUFFICES ASSUME PointerInv, [Next]_vars PROVE PointerInv'
  OBVIOUS
<1>1. ASSUME NEW d \in Slot, NEW o \in Obj, New(d, o) PROVE PointerInv'
  BY <1>1, NewKeeps
<1>2. ASSUME NEW d \in Slot, NEW s \in Slot, Assign(d, s) PROVE PointerInv'
  BY <1>2, AssignKeeps
<1>3. ASSUME NEW d \in Slot, Clear(d) \/ DropByHand(d) PROVE PointerInv'
  BY <1>3, ClearKeeps
<1>4. ASSUME NEW d \in Slot, TakeByHand(d) PROVE PointerInv'
  BY <1>4, TakeByHandKeeps
<1>5. CASE Dec \/ DecNull
  BY <1>5, DecKeeps, DecNullKeeps
<1>6. CASE Destruct \/ Free
  BY <1>6, DestructKeeps, FreeKeeps
<1>7. CASE DecWeak \/ Store
  BY <1>7, DecWeakKeeps, StoreKeeps
<1>8. ASSUME NEW w \in WRoot, NEW s \in Slot, WeakAssign(w, s) PROVE PointerInv'
  BY <1>8, WeakAssignKeeps
<1>9. ASSUME NEW w \in WRoot, NEW v \in WRoot, WeakCopy(w, v) PROVE PointerInv'
  BY <1>9, WeakCopyKeeps
<1>10. ASSUME NEW w \in WRoot, WeakClear(w) PROVE PointerInv'
  BY <1>10, WeakClearKeeps
<1>11. ASSUME NEW r \in Root, NEW w \in WRoot, Promote(r, w) PROVE PointerInv'
  BY <1>11, PromoteKeeps
<1>12. CASE UNCHANGED vars
  <2>1. UNCHANGED <<ptr, wptr, wrefs, state, refs, strong, weak, hand, stack>>
    BY <1>12 DEF vars
  <2>2. TypeOK' /\ Nested' /\ InProgress' = InProgress
    BY <2>1 DEF PointerInv, TypeOK, Nested, InProgress
  <2>3. SlotCounts'
    BY <2>1, <2>2 DEF PointerInv, SlotCounts, Holding, Taken, Weakly, Releasing
  <2>4. FramesInv'
    BY <2>1, <2>2 DEF PointerInv, FramesInv, FrameOK, Avoiding, Held
  <2>5. AliveInv' /\ RefsInv' /\ MemberInv'
    BY <2>1, <2>2 DEF PointerInv, AliveInv, RefsInv, MemberInv
  <2>6. QED
    BY <2>2, <2>3, <2>4, <2>5 DEF PointerInv
<1>13. QED
  BY <1>1, <1>2, <1>3, <1>4, <1>5, <1>6, <1>7, <1>8, <1>9, <1>10, <1>11, <1>12 DEF Next

LEMMA PointerInvariance == Spec => []PointerInv
  BY InitPointers, NextPointers, PTL DEF Spec

\* The counts are the references, at every step of every operator, with any
\* number of objects and variables and destructors nested to any depth.
THEOREM Counts == Spec => []SlotCounts
<1>1. PointerInv => SlotCounts
  BY DEF PointerInv
<1>2. QED
  BY <1>1, PointerInvariance, PTL

\* No pointer dangles: neither what a slot or a hand holds, nor what an operator
\* is about to store and where, nor what a wp asks.
THEOREM AllAlive == Spec => []NoDangling
<1>1. PointerInv => NoDangling
  <2>1. SUFFICES ASSUME PointerInv PROVE NoDangling
    OBVIOUS
  <2>2. ASSUME NEW w \in WRoot, wptr[w] # NULL PROVE wrefs[w] = wptr[w] /\ refs[wrefs[w]] = "alive"
    <3>1. wptr[w] \in Obj /\ wrefs[w] = wptr[w]
      BY <2>1, <2>2 DEF PointerInv, RefsInv, TypeOK, ObjOrNull
    <3>2. w \in Weakly(wptr[w])
      BY DEF Weakly
    <3>3. QED
      BY <2>1, <3>1, <3>2, Live
  <2>3. ASSUME NEW o \in Obj, Holding(o) \cup Taken(o) # {} \/ hand[o] > 0 PROVE state[o] = "alive"
    BY <2>1, <2>3, Live
  <2>4. ASSUME NEW f \in InProgress, f.kind \in {"assign", "late"}, f.other # NULL
        PROVE  state[f.other] = "alive"
    <3>1. f.other \in Obj /\ f.kind = "assign"
      <4>1. f \in Frames
        <5>1. stack # <<>>
          BY DEF InProgress
        <5>2. QED
          BY <2>1, <5>1, Innermost DEF PointerInv
      <4>2. QED
        BY <2>4, <4>1 DEF Frames, ObjOrNull
    <3>2. f \in Taken(f.other)
      BY <3>1 DEF Taken
    <3>3. QED
      BY <2>1, <3>1, <3>2, Live
  <2>5. ASSUME NEW f \in InProgress, f.kind # "dtor", f.slot \in Obj PROVE state[f.slot] = "alive"
    BY <2>1, <2>5, Anchored
  <2>6. QED
    BY <2>2, <2>3, <2>4, <2>5 DEF NoDangling
<1>2. QED
  BY <1>1, PointerInvariance, PTL

-----------------------------------------------------------------------------
(***************************************************************************)
(* What is left behind.                                                    *)
(***************************************************************************)
\* A set of subsets of a finite set has a smallest one.
LEMMA Smallest ==
    ASSUME NEW S, IsFiniteSet(S), NEW K \in SUBSET (SUBSET S), K # {}
    PROVE  \E X \in K : \A Y \in K : Y \subseteq X => Y = X
<1>1. IsWellFoundedOn(StrictSubsetOrdering(S), SUBSET S)
  BY FS_StrictSubsetOrderingWellFounded, FS_FiniteSubsetsOfFinite
<1>2. PICK X \in K : \A Y \in K : ~ (<<Y, X>> \in StrictSubsetOrdering(S))
  <2>1. K \subseteq SUBSET S /\ K # {}
    OBVIOUS
  <2>2. QED
    BY <1>1, <2>1, WFMin
<1>3. ASSUME NEW Y \in K, Y \subseteq X PROVE Y = X
  BY <1>2, <1>3 DEF StrictSubsetOrdering
<1>4. QED
  BY <1>3

LEMMA ReachSteps ==
    ASSUME NEW S, NEW s \in S, ptr[s] \in Obj, ptr[s] # NULL
    PROVE  ptr[s] \in Reach(S)
  BY DEF Reach, Held

LEMMA ReachFurther ==
    ASSUME NEW S, NEW x \in Reach(S), NEW y \in Behind(x)
    PROVE  y \in Reach(S)
<1>1. y \in Obj
  BY DEF Behind, Reach
<1>2. ASSUME NEW T \in SUBSET Obj, Held(S \cup T) \subseteq T PROVE y \in T
  <2>1. x \in T
    BY <1>2 DEF Reach
  <2>2. Held({x} \cup T) \subseteq T
    BY <1>2, <2>1 DEF Held
  <2>3. QED
    BY <2>2 DEF Behind, Reach
<1>3. QED
  BY <1>1, <1>2 DEF Reach

\* Reference counting reclaims all garbage but cycles.  An object that no root
\* reaches and that is alive has a reference; one from the member of another such
\* object, unless it is by hand; and so on backwards, which ends, for objects are
\* finitely many, unless it runs into a cycle.
THEOREM OnlyCycles == Spec => []LeaksOnlyCycles
<1>1. PointerInv => LeaksOnlyCycles
  <2>1. SUFFICES ASSUME PointerInv, stack = <<>> PROVE LeaksOnlyCycles
    BY DEF LeaksOnlyCycles, Ready
  <2>2. TypeOK /\ Nested /\ InProgress = {}
    BY <2>1, Empty DEF PointerInv
  <2>3. ASSUME NEW o \in Obj, state[o] = "deleted", Weakly(o) = {} PROVE refs[o] = "deleted"
    <3>1. /\ weak[o] = strong[o] + Cardinality(Weakly(o)) + Cardinality(Releasing(o))
          /\ strong[o] \in Nat /\ ~(strong[o] > 0)
      BY <2>1, <2>3, Live DEF PointerInv, SlotCounts
    <3>2. Cardinality(Weakly(o)) = 0 /\ Cardinality(Releasing(o)) = 0
      <4>1. Releasing(o) = {}
        BY <2>2 DEF Releasing
      <4>2. QED
        BY <2>2, <2>3, <4>1, Parts
    <3>3. weak[o] = 0
      BY <3>1, <3>2
    <3>4. QED
      BY <2>1, <2>3, <3>3 DEF PointerInv, RefsInv
  <2>4. ASSUME NEW o \in Obj, state[o] = "alive", o \notin Reached
        PROVE  \E c \in Obj : /\ state[c] = "alive"
                              /\ c \in Behind(c) \/ hand[c] > 0
                              /\ o \in Behind(c) \cup {c}
    <3> DEFINE A == {c \in Obj : state[c] = "alive" /\ o \in Behind(c) \cup {c}}
               Before(c) == {x \in A : c \in Behind(x)}
    <3>1. SUFFICES ASSUME \A c \in A : c \notin Behind(c) /\ ~(hand[c] > 0) PROVE FALSE
      OBVIOUS
    <3>2. ASSUME NEW c \in A PROVE \E x \in A : c \in Behind(x)
      <4>1. c \in Obj /\ state[c] = "alive" /\ hand[c] = 0
        BY <2>2, <3>1 DEF TypeOK
      <4>2. strong[c] > 0
        BY <2>1, <2>2, <4>1 DEF PointerInv, AliveInv
      <4>3. /\ strong[c] = Cardinality(Holding(c)) + Cardinality(Taken(c)) + hand[c]
            /\ Taken(c) = {}
        BY <2>1, <2>2, <4>1 DEF PointerInv, SlotCounts, Taken
      <4>4. /\ Cardinality(Holding(c)) \in Nat
            /\ Holding(c) = {} => Cardinality(Holding(c)) = 0
            /\ Cardinality(Taken(c)) = 0
        BY <2>2, <4>1, <4>3, Parts
      <4>5. PICK x : x \in Holding(c)
        BY <4>1, <4>2, <4>3, <4>4
      <4>6. x \in Slot /\ ptr[x] = c /\ c # NULL
        BY <4>1, <4>5, SmartPointersAssumption DEF Holding
      <4>7. x \notin Root
        <5>1. SUFFICES ASSUME x \in Root PROVE FALSE
          OBVIOUS
        <5>2. c \in Reached
          BY <4>1, <4>6, <5>1, ReachSteps DEF Reached
        <5>3. o \in Reached
          BY <5>2, ReachFurther DEF Reached
        <5>4. QED
          BY <2>4, <5>3
      <4>8. x \in Obj /\ state[x] = "alive"
        BY <2>1, <2>2, <4>6, <4>7 DEF Slot, PointerInv, MemberInv
      <4>9. c \in Behind(x)
        BY <4>1, <4>6, ReachSteps DEF Behind
      <4>10. o \in Behind(x)
        BY <4>9, ReachFurther DEF Behind
      <4>11. QED
        BY <4>8, <4>9, <4>10
    <3>3. IsFiniteSet(A)
      BY SmartPointersAssumption, FS_Subset
    <3>4. PICK c \in A : \A x \in A : Before(x) \subseteq Before(c) => Before(x) = Before(c)
      <4> DEFINE K == {Before(x) : x \in A}
      <4>1. o \in A
        BY <2>4
      <4> HIDE DEF A
      <4>2. K \in SUBSET (SUBSET A) /\ K # {}
        BY <4>1
      <4> HIDE DEF K
      <4>3. PICK X \in K : \A Y \in K : Y \subseteq X => Y = X
        BY <3>3, <4>2, Smallest
      <4> HIDE DEF Before
      <4>4. PICK c \in A : X = Before(c)
        BY <4>3 DEF K
      <4>5. \A x \in A : Before(x) \in K
        BY DEF K
      <4>6. QED
        BY <4>3, <4>4, <4>5
    <3>5. PICK x \in A : c \in Behind(x)
      BY <3>2
    <3>6. Before(x) \subseteq Before(c)
      <4>1. ASSUME NEW y \in A, x \in Behind(y) PROVE c \in Behind(y)
        BY <3>5, <4>1, ReachFurther DEF Behind
      <4>2. QED
        BY <4>1
    <3>7. x \in Before(c) /\ x \notin Before(x)
      BY <3>1, <3>5
    <3>8. QED
      BY <3>4, <3>6, <3>7
  <2>5. QED
    BY <2>3, <2>4 DEF LeaksOnlyCycles
<1>2. QED
  BY <1>1, PointerInvariance, PTL
=============================================================================

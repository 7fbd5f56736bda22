--------------------------- MODULE SmartPointers ---------------------------
(***************************************************************************)
(* The operators of sp<T> and wp<T> (StrongPointer.h, RefBase.h) on several *)
(* objects in one thread.  Objects own objects: each has a member sp, so   *)
(* releasing one can destroy others in the middle of an assignment.  The   *)
(* counts are those of RefBase under the normal life-time, taken as atomic *)
(* here; RefBase.tla is about their interleavings.                         *)
(*                                                                         *)
(* A slot is an sp<T>: a root (a variable of the program) or the member of *)
(* an object, which goes by the object's name.                             *)
(***************************************************************************)
EXTENDS Integers, Sequences, FiniteSets

CONSTANTS Obj,           \* the objects
          Root,          \* the sp<T> variables
          WRoot,         \* the wp<T> variables
          NULL,          \* the null pointer
          MaxByHand      \* bound: references taken by hand at a time

ASSUME SmartPointersAssumption ==
    /\ IsFiniteSet(Obj) /\ IsFiniteSet(Root) /\ IsFiniteSet(WRoot)
    /\ Obj \cap Root = {}
    /\ NULL \notin Obj
    /\ MaxByHand \in Nat

Slot == Root \cup Obj

VARIABLES ptr,       \* m_ptr of each slot
          wptr,      \* m_ptr of each wp
          wrefs,     \* m_refs of each wp, named by its object; clear() leaves it
          state,     \* "unborn", "alive", "dying" (in its destructor), "deleted"
          refs,      \* the weakref_impl: "alive" or "deleted"
          strong,    \* strong count
          weak,      \* weak count
          hand,      \* references taken by incStrong() calls of the program
          stack      \* the operators in progress, the innermost first

counts == <<strong, weak>>
weaks  == <<wptr, wrefs>>
vars   == <<ptr, wptr, wrefs, state, refs, strong, weak, hand, stack>>

Init ==
    /\ ptr = [s \in Slot |-> NULL]
    /\ wptr = [w \in WRoot |-> NULL]
    /\ wrefs = [w \in WRoot |-> NULL]
    /\ state = [o \in Obj |-> "unborn"]
    /\ refs = [o \in Obj |-> "alive"]
    /\ strong = [o \in Obj |-> 0]
    /\ weak = [o \in Obj |-> 0]
    /\ hand = [o \in Obj |-> 0]
    /\ stack = <<>>

\* What the slots of S hold, and the objects that paths of sp's from them reach:
\* the least set that has what S holds, and what the members of its own hold.
Held(S) == {ptr[s] : s \in S} \ {NULL}
Reach(S) == {o \in Obj : \A T \in SUBSET Obj : Held(S \cup T) \subseteq T => o \in T}

Reached == Reach(Root)

\* The slots the program can name: r, r->next, r->next->next, ...
Named == Root \cup Reached

Ready == stack = <<>>

-----------------------------------------------------------------------------
(***************************************************************************)
(* An operator in progress.  It releases what slot holds, then stores      *)
(* other there ("drop" is a release by hand: nothing is stored).           *)
(***************************************************************************)
Frame(kind, slot, other) ==
    [kind |-> kind, slot |-> slot, other |-> other, old |-> NULL, at |-> "dec"]

Push(f) == stack' = <<f>> \o stack
Top == Head(stack)
Advance(at) == stack' = <<[Top EXCEPT !.at = at]>> \o Tail(stack)

\* incStrong() of a pointer that may be null
Acquire(o) ==
    IF o = NULL THEN UNCHANGED counts
    ELSE /\ strong' = [strong EXCEPT ![o] = @ + 1]
         /\ weak' = [weak EXCEPT ![o] = @ + 1]

\* d = new T
New(d, o) ==
    /\ Ready /\ d \in Named /\ state[o] = "unborn"
    /\ state' = [state EXCEPT ![o] = "alive"]
    /\ Acquire(o)
    /\ Push(Frame("assign", d, o))
    /\ UNCHANGED <<hand, ptr, weaks, refs>>

\* Mutation of Assign: the old object is released before the new one is taken.
AssignReleasesFirst(d, s) ==
    /\ Ready /\ d \in Named /\ s \in Named
    /\ Push(Frame("late", d, ptr[s]))
    /\ UNCHANGED <<hand, ptr, weaks, state, refs, counts>>

\* d = s: takes a copy of the pointer and a reference before it releases
Assign(d, s) ==
    /\ Ready /\ d \in Named /\ s \in Named
    /\ Acquire(ptr[s])
    /\ Push(Frame("assign", d, ptr[s]))
    /\ UNCHANGED <<hand, ptr, weaks, state, refs>>

\* d.clear(), or a root going out of scope
Clear(d) ==
    /\ Ready /\ d \in Named /\ ptr[d] # NULL
    /\ Push(Frame("clear", d, NULL))
    /\ UNCHANGED <<hand, ptr, weaks, state, refs, counts>>

\* d->incStrong(id), as in testRefCounter
TakeByHand(d) ==
    /\ Ready /\ d \in Root /\ ptr[d] # NULL
    /\ hand[ptr[d]] < MaxByHand
    /\ Acquire(ptr[d])
    /\ hand' = [hand EXCEPT ![ptr[d]] = @ + 1]
    /\ UNCHANGED <<ptr, weaks, state, refs, stack>>

\* d->decStrong(id), matched with an incStrong() as in testRefCounter; not
\* testHandRelease, which gives back a reference it did not take.
DropByHand(d) ==
    /\ Ready /\ d \in Root /\ ptr[d] # NULL
    /\ hand[ptr[d]] > 0
    /\ Push(Frame("drop", d, NULL))
    /\ UNCHANGED <<hand, ptr, weaks, state, refs, counts>>

-----------------------------------------------------------------------------
(***************************************************************************)
(* The steps of the innermost operator.                                    *)
(***************************************************************************)
\* decStrong() of what the slot holds
Dec ==
    /\ ~Ready /\ Top.at = "dec" /\ ptr[Top.slot] # NULL
    /\ LET o == ptr[Top.slot]
       IN  /\ strong' = [strong EXCEPT ![o] = @ - 1]
           /\ stack' = <<[Top EXCEPT !.old = o,
                                     !.at = IF strong[o] = 1 THEN "delete" ELSE "weak"]>>
                       \o Tail(stack)
    /\ hand' = IF Top.kind = "drop" THEN [hand EXCEPT ![ptr[Top.slot]] = @ - 1] ELSE hand
    /\ UNCHANGED <<ptr, weaks, state, refs, weak>>

DecNull ==
    /\ ~Ready /\ Top.at = "dec" /\ ptr[Top.slot] = NULL
    /\ Advance("store")
    /\ UNCHANGED <<hand, ptr, weaks, state, refs, counts>>

\* Mutation of Destruct: the members are not destroyed.
DestructShallow ==
    /\ ~Ready /\ Top.at = "delete"
    /\ state' = [state EXCEPT ![Top.old] = "dying"]
    /\ Advance("free")
    /\ UNCHANGED <<hand, ptr, weaks, refs, counts>>

\* delete this: the destructor runs ~sp() on the member first
Destruct ==
    /\ ~Ready /\ Top.at = "delete"
    /\ state' = [state EXCEPT ![Top.old] = "dying"]
    /\ stack' = <<Frame("dtor", Top.old, NULL), [Top EXCEPT !.at = "free"]>> \o Tail(stack)
    /\ UNCHANGED <<hand, ptr, weaks, refs, counts>>

Free ==
    /\ ~Ready /\ Top.at = "free"
    /\ state' = [state EXCEPT ![Top.old] = "deleted"]
    /\ Advance("weak")
    /\ UNCHANGED <<hand, ptr, weaks, refs, counts>>

\* decWeak() at the end of decStrong(): the weakref_impl outlives the object
\* while a wp or an unfinished decStrong refers to it
ReleaseWeak(o) ==
    /\ weak' = [weak EXCEPT ![o] = @ - 1]
    /\ refs' = [refs EXCEPT ![o] = IF weak[o] = 1 THEN "deleted" ELSE @]

DecWeak ==
    /\ ~Ready /\ Top.at = "weak"
    /\ ReleaseWeak(Top.old)
    /\ Advance("store")
    /\ UNCHANGED <<hand, ptr, weaks, state, strong>>

\* m_ptr = otherPtr, m_ptr = 0; ~sp() stores nothing, its slot is gone
Store ==
    /\ ~Ready /\ Top.at = "store"
    /\ ptr' = IF Top.kind = "drop" THEN ptr ELSE [ptr EXCEPT ![Top.slot] = Top.other]
    /\ stack' = Tail(stack)
    /\ IF Top.kind = "late" THEN Acquire(Top.other) ELSE UNCHANGED counts
    /\ UNCHANGED <<hand, weaks, state, refs>>

-----------------------------------------------------------------------------
(***************************************************************************)
(* wp<T>.  Releasing a weak reference cannot destroy the object here, so   *)
(* each operator is one step.                                              *)
(***************************************************************************)
\* The wp takes a weak reference on o and gives back the one it had.
Retarget(w, o) ==
    LET gone == wptr[w]
        taken == IF o = NULL THEN weak ELSE [weak EXCEPT ![o] = @ + 1]
    IN  /\ weak' = IF gone = NULL THEN taken ELSE [taken EXCEPT ![gone] = @ - 1]
        /\ refs' = IF gone # NULL /\ weak'[gone] = 0
                   THEN [refs EXCEPT ![gone] = "deleted"] ELSE refs
        /\ wptr' = [wptr EXCEPT ![w] = o]

\* w = s
WeakAssign(w, s) ==
    /\ Ready /\ s \in Named
    /\ Retarget(w, ptr[s])
    /\ wrefs' = [wrefs EXCEPT ![w] = ptr[s]]
    /\ UNCHANGED <<hand, ptr, state, strong, stack>>

\* w = v: copies m_refs even when m_ptr is null
WeakCopy(w, v) ==
    /\ Ready
    /\ Retarget(w, wptr[v])
    /\ wrefs' = [wrefs EXCEPT ![w] = wrefs[v]]
    /\ UNCHANGED <<hand, ptr, state, strong, stack>>

\* w.clear()
WeakClear(w) ==
    /\ Ready /\ wptr[w] # NULL
    /\ Retarget(w, NULL)
    /\ UNCHANGED <<hand, ptr, wrefs, state, strong, stack>>

\* Mutation of Promote: the pointer is set without a reference.
PromoteBare(r, w) ==
    /\ Ready /\ r \in Root /\ ptr[r] = NULL
    /\ wptr[w] # NULL /\ strong[wptr[w]] > 0
    /\ ptr' = [ptr EXCEPT ![r] = wptr[w]]
    /\ UNCHANGED <<hand, weaks, state, refs, counts, stack>>

\* sp<T> r = w.promote()
Promote(r, w) ==
    /\ Ready /\ r \in Root /\ ptr[r] = NULL
    /\ wptr[w] # NULL /\ strong[wptr[w]] > 0
    /\ Acquire(wptr[w])
    /\ ptr' = [ptr EXCEPT ![r] = wptr[w]]
    /\ UNCHANGED <<hand, weaks, state, refs, stack>>

Next ==
    \/ \E d \in Slot, o \in Obj : New(d, o)
    \/ \E d, s \in Slot : Assign(d, s)
    \/ \E d \in Slot : Clear(d) \/ TakeByHand(d) \/ DropByHand(d)
    \/ Dec \/ DecNull \/ Destruct \/ Free \/ DecWeak \/ Store
    \/ \E w \in WRoot, s \in Slot : WeakAssign(w, s)
    \/ \E w, v \in WRoot : WeakCopy(w, v)
    \/ \E w \in WRoot : WeakClear(w)
    \/ \E r \in Root, w \in WRoot : Promote(r, w)

Spec == Init /\ [][Next]_vars

-----------------------------------------------------------------------------
(***************************************************************************)
(* What a program may rely on between two of its statements and inside one. *)
(***************************************************************************)
InProgress == {stack[i] : i \in 1 .. Len(stack)}

\* The slots whose reference to o has not been given back yet.
Holding(o) == {s \in Slot : /\ ptr[s] = o
                            /\ \A f \in InProgress : (f.slot = s /\ f.kind # "drop") => f.at = "dec"}

\* The operators that took a reference to o and have not stored it yet.
Taken(o) == {f \in InProgress : f.kind = "assign" /\ f.other = o}

Weakly(o) == {w \in WRoot : wptr[w] = o}

\* The decStrong() calls on o that still owe its decWeak().
Releasing(o) == {f \in InProgress : f.old = o /\ f.at \in {"delete", "free", "weak"}}

\* The counts are the references, at every step of every operator, however
\* deep the destructors nest: decStrong() of the last slot and no other
\* deletes the object (StrongPointer.h:139-199, RefBase.h:355-457).
SlotCounts ==
    \A o \in Obj :
      /\ strong[o] = Cardinality(Holding(o)) + Cardinality(Taken(o)) + hand[o]
      /\ weak[o] = strong[o] + Cardinality(Weakly(o)) + Cardinality(Releasing(o))

\* No pointer dangles: what a slot holds, what an operator is about to store
\* and the slot it will store to are alive, although a release in the middle
\* of the operator may have destroyed a chain of objects; an assignment of a
\* slot to itself, or of a member of the old object, included
\* (StrongPointer.h:145-153 takes the new reference first).  The weakref_impl
\* that a wp may ask is its object's and there, also after the object is gone
\* (RefBase.cpp:396-426, 600-602).
NoDangling ==
    /\ \A w \in WRoot : wptr[w] # NULL => wrefs[w] = wptr[w] /\ refs[wrefs[w]] = "alive"
    /\ \A o \in Obj : (Holding(o) \cup Taken(o) # {} \/ hand[o] > 0) => state[o] = "alive"
    /\ \A f \in InProgress :
          /\ f.kind \in {"assign", "late"} /\ f.other # NULL => state[f.other] = "alive"
          /\ f.kind # "dtor" /\ f.slot \in Obj => state[f.slot] = "alive"

\* The objects a path of at least one member sp leads to from o.
Behind(o) == Reach({o})

\* Reference counting reclaims all garbage but cycles: an object that no root
\* reaches is alive only if a cycle of member sp's, or an object the program
\* took by hand, leads to it, and the weakref_impl of a deleted one is there
\* only as long as a wp may ask it.
LeaksOnlyCycles ==
    Ready => \A o \in Obj :
        /\ state[o] = "alive" /\ o \notin Reached =>
              \E c \in Obj : /\ state[c] = "alive"
                             /\ c \in Behind(c) \/ hand[c] > 0
                             /\ o \in Behind(c) \cup {c}
        /\ state[o] = "deleted" /\ Weakly(o) = {} => refs[o] = "deleted"
=============================================================================

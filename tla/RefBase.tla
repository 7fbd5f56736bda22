------------------------------ MODULE RefBase ------------------------------
(***************************************************************************)
(* The reference counting protocol of RefBase.cpp, run by concurrent       *)
(* sp<T> and wp<T> variables that all refer to one object.                 *)
(*                                                                         *)
(* A handle is one sp<T> or wp<T> variable.  Each is used by one thread at *)
(* a time, so a handle is also a process: it is "null", it is "set", or it *)
(* is inside a member function, at one of the labels below.  A step is one *)
(* atomic access to mStrong or mWeak, one callback, or one delete.         *)
(*                                                                         *)
(* The client obeys the contract of the two classes: it never changes a    *)
(* handle that another call is still reading (src), and the first          *)
(* reference is taken while the object is private to its creator.          *)
(***************************************************************************)
EXTENDS Integers, FiniteSets

CONSTANTS Sp,                     \* the sp<T> variables
          Wp,                     \* the wp<T> variables
          NoPtr,                  \* not a handle
          INITIAL_STRONG_VALUE,   \* 1<<28 in the code
          Publications,           \* kinds of handle that may be the first: "sp", "wp"
          ForceSetEarly           \* may force_set() run before any strong reference?

ASSUME RefBaseAssumption ==
    /\ IsFiniteSet(Sp) /\ IsFiniteSet(Wp)
    /\ Sp \cap Wp = {}
    /\ NoPtr \notin Sp \cup Wp
    /\ INITIAL_STRONG_VALUE \in Nat
    /\ Cardinality(Sp) < INITIAL_STRONG_VALUE
    /\ Publications \subseteq {"sp", "wp"}
    /\ ForceSetEarly \in BOOLEAN

Ptr == Sp \cup Wp

VARIABLES mStrong,     \* strong count, INITIAL_STRONG_VALUE too high until first used
          mWeak,       \* weak count: strong references count here as well
          mFlags,      \* "STRONG" or "WEAK" (extendObjectLifetime)
          object,      \* the RefBase object: "alive" or "deleted"
          refs,        \* its weakref_impl: "alive" or "deleted"
          published,   \* kind of the first handle, "new" before there is one
          owed,        \* onFirstRef + accepted onIncStrongAttempted - onLastStrongRef
          pc,          \* where each handle is
          cur,         \* the local curCount of attemptIncStrong, attemptIncWeak
          src          \* the handle a call reads its pointer from

counts == <<mStrong, mWeak>>
memory == <<object, refs>>
birth  == <<mFlags, published>>
local  == <<pc, cur, src>>
vars   == <<mStrong, mWeak, mFlags, object, refs, published, owed, pc, cur, src>>

Idle == {"null", "set"}

SpLabels == Idle \cup
    {"inc_weak", "inc_strong", "sub_initial", "first_ref",        \* incStrong
     "force_weak", "force_strong",                                \* forceIncStrong
     "try_weak", "try_read", "try_cas", "try_ask", "try_inc",     \* attemptIncStrong
     "init_cas", "init_read", "unneeded", "fix_read", "fix_cas",
     "dec_strong", "last_strong", "delete_this",                  \* decStrong
     "dec_weak", "last_weak"}                                     \* decWeak

WpLabels == Idle \cup
    {"create_weak", "tryw_read", "tryw_cas", "dec_weak", "last_weak"}

(***************************************************************************)
(* Which handles have incremented a count and not yet decremented it.      *)
(***************************************************************************)
StrongLabels ==
    {"sub_initial", "first_ref", "set", "unneeded", "fix_read", "fix_cas",
     "dec_strong"}

WeakLabels == StrongLabels \cup
    {"inc_strong", "force_strong", "try_read", "try_cas", "try_ask", "try_inc",
     "init_cas", "init_read", "last_strong", "delete_this", "dec_weak"}

StrongRefs == {p \in Sp : pc[p] \in StrongLabels}
WeakRefs   == {h \in Ptr : pc[h] \in WeakLabels}

Pinned(h) == \E g \in Ptr : src[g] = h

Init ==
    /\ mStrong = INITIAL_STRONG_VALUE
    /\ mWeak = 0
    /\ mFlags = "STRONG"
    /\ object = "alive" /\ refs = "alive"
    /\ published = "new"
    /\ owed = 0
    /\ pc = [h \in Ptr |-> "null"]
    /\ cur = [h \in Ptr |-> 0]
    /\ src = [h \in Ptr |-> NoPtr]

-----------------------------------------------------------------------------
(***************************************************************************)
(* Control of a handle.                                                    *)
(***************************************************************************)
Call(h, q, label) ==
    /\ pc' = [pc EXCEPT ![h] = label]
    /\ src' = [src EXCEPT ![h] = q]
    /\ UNCHANGED cur

Goto(h, label) ==
    /\ pc' = [pc EXCEPT ![h] = label]
    /\ UNCHANGED <<cur, src>>

Load(h, value, label) ==
    /\ pc' = [pc EXCEPT ![h] = label]
    /\ cur' = [cur EXCEPT ![h] = value]
    /\ UNCHANGED src

Return(h, label) ==
    /\ pc' = [pc EXCEPT ![h] = label]
    /\ cur' = [cur EXCEPT ![h] = 0]
    /\ src' = [src EXCEPT ![h] = NoPtr]

(***************************************************************************)
(* The calls a client makes.                                               *)
(***************************************************************************)

\* The object's constructor asks for the extended life-time.
ExtendObjectLifetime ==
    /\ published = "new"
    /\ mFlags' = "WEAK"
    /\ UNCHANGED <<counts, memory, published, owed, local>>

\* sp<T> p = new T
NewSp(p) ==
    /\ published = "new" /\ "sp" \in Publications
    /\ published' = "sp"
    /\ Call(p, NoPtr, "inc_weak")
    /\ UNCHANGED <<counts, memory, mFlags, owed>>

\* wp<T> w = new T
NewWp(w) ==
    /\ published = "new" /\ "wp" \in Publications
    /\ published' = "wp"
    /\ Call(w, NoPtr, "create_weak")
    /\ UNCHANGED <<counts, memory, mFlags, owed>>

\* sp<T> p(q)
CopySp(p, q) ==
    /\ pc[p] = "null" /\ pc[q] = "set"
    /\ Call(p, q, "inc_weak")
    /\ UNCHANGED <<counts, memory, birth, owed>>

\* wp<T> w(q), from an sp (createWeak) or from a wp (incWeak)
MakeWp(w, q) ==
    /\ pc[w] = "null" /\ pc[q] = "set"
    /\ Call(w, q, "create_weak")
    /\ UNCHANGED <<counts, memory, birth, owed>>

\* v's m_refs->attemptIncWeak(), the new reference being kept in w
AttemptIncWeak(w, v) ==
    /\ pc[w] = "null" /\ pc[v] = "set"
    /\ Call(w, v, "tryw_read")
    /\ UNCHANGED <<counts, memory, birth, owed>>

\* p = w.promote()
Promote(p, w) ==
    /\ pc[p] = "null" /\ pc[w] = "set"
    /\ Call(p, w, "try_weak")
    /\ UNCHANGED <<counts, memory, birth, owed>>

\* p.force_set(w.unsafe_get()): the weak reference keeps the object alive only
\* under the extended life-time.
ForceSet(p, w) ==
    /\ mFlags = "WEAK"
    /\ published = "sp" \/ ForceSetEarly
    /\ pc[p] = "null" /\ pc[w] = "set"
    /\ Call(p, w, "force_weak")
    /\ UNCHANGED <<counts, memory, birth, owed>>

\* Mutation of Drop: a wp is released as if it were an sp.
DropAsSp(h) ==
    /\ pc[h] = "set" /\ ~Pinned(h)
    /\ Goto(h, "dec_strong")
    /\ UNCHANGED <<counts, memory, birth, owed>>

\* clear(), or the destructor
Drop(h) ==
    /\ pc[h] = "set" /\ ~Pinned(h)
    /\ Goto(h, IF h \in Sp THEN "dec_strong" ELSE "dec_weak")
    /\ UNCHANGED <<counts, memory, birth, owed>>

\* move_references(&g, &h, 1): the bits of h become those of g
Move(g, h) ==
    /\ pc[g] = "null" /\ pc[h] = "set" /\ ~Pinned(h)
    /\ pc' = [pc EXCEPT ![g] = "set", ![h] = "null"]
    /\ UNCHANGED <<counts, memory, birth, owed, cur, src>>

-----------------------------------------------------------------------------
(***************************************************************************)
(* incStrong() and forceIncStrong().                                       *)
(***************************************************************************)
\* Mutation of IncWeak: attemptIncStrong does not count its weak reference.
IncWeakForgotten(p) ==
    /\ \/ pc[p] = "inc_weak" /\ Goto(p, "inc_strong") /\ mWeak' = mWeak + 1
       \/ pc[p] = "force_weak" /\ Goto(p, "force_strong") /\ mWeak' = mWeak + 1
       \/ pc[p] = "try_weak" /\ Goto(p, "try_read") /\ UNCHANGED mWeak
    /\ UNCHANGED <<mStrong, memory, birth, owed>>

IncWeak(p) ==
    /\ \/ pc[p] = "inc_weak" /\ Goto(p, "inc_strong")
       \/ pc[p] = "force_weak" /\ Goto(p, "force_strong")
       \/ pc[p] = "try_weak" /\ Goto(p, "try_read")
    /\ mWeak' = mWeak + 1
    /\ UNCHANGED <<mStrong, memory, birth, owed>>

IncStrong(p) ==
    /\ pc[p] = "inc_strong"
    /\ mStrong' = mStrong + 1
    /\ \/ mStrong = INITIAL_STRONG_VALUE /\ Goto(p, "sub_initial")
       \/ mStrong # INITIAL_STRONG_VALUE /\ Return(p, "set")
    /\ UNCHANGED <<mWeak, memory, birth, owed>>

ForceIncStrong(p) ==
    /\ pc[p] = "force_strong"
    /\ mStrong' = mStrong + 1
    /\ IF mStrong = INITIAL_STRONG_VALUE THEN Goto(p, "sub_initial")
       ELSE IF mStrong = 0 THEN Goto(p, "first_ref")
       ELSE Return(p, "set")
    /\ UNCHANGED <<mWeak, memory, birth, owed>>

SubInitial(p) ==
    /\ pc[p] = "sub_initial"
    /\ mStrong' = mStrong - INITIAL_STRONG_VALUE
    /\ Goto(p, "first_ref")
    /\ UNCHANGED <<mWeak, memory, birth, owed>>

OnFirstRef(p) ==
    /\ pc[p] = "first_ref"
    /\ owed' = owed + 1
    /\ Return(p, "set")
    /\ UNCHANGED <<counts, memory, birth>>

(***************************************************************************)
(* attemptIncStrong().                                                     *)
(***************************************************************************)
\* Mutation of AttemptRead: a count of zero is taken for a live one.
AttemptReadZero(p) ==
    /\ pc[p] = "try_read"
    /\ Load(p, mStrong,
            IF mStrong # INITIAL_STRONG_VALUE THEN "try_cas"
            ELSE IF mFlags = "WEAK" THEN "try_ask" ELSE "init_cas")
    /\ UNCHANGED <<counts, memory, birth, owed>>

\* What a value read from mStrong decides, before the easy case's loop and in it.
AttemptRead(p) ==
    /\ pc[p] = "try_read"
    /\ Load(p, mStrong,
            IF mStrong > 0 /\ mStrong # INITIAL_STRONG_VALUE THEN "try_cas"
            ELSE IF mFlags = "WEAK" THEN "try_ask"
            ELSE IF mStrong <= 0 THEN "dec_weak" ELSE "init_cas")
    /\ UNCHANGED <<counts, memory, birth, owed>>

\* Mutation of AttemptCas: a plain increment instead of the compare-and-swap.
AttemptCasBlind(p) ==
    /\ pc[p] = "try_cas"
    /\ mStrong' = mStrong + 1
    /\ Goto(p, "fix_read")
    /\ UNCHANGED <<mWeak, memory, birth, owed>>

\* Mutation of AttemptCas: curCount is not read again after a failure.
AttemptCasStale(p) ==
    /\ pc[p] = "try_cas"
    /\ IF mStrong = cur[p]
       THEN mStrong' = mStrong + 1 /\ Goto(p, "fix_read")
       ELSE UNCHANGED <<mStrong, local>>
    /\ UNCHANGED <<mWeak, memory, birth, owed>>

AttemptCas(p) ==
    /\ pc[p] = "try_cas"
    /\ \/ /\ mStrong = cur[p]
          /\ mStrong' = mStrong + 1
          /\ Goto(p, "fix_read")
       \/ /\ mStrong # cur[p]
          /\ UNCHANGED mStrong
          /\ Goto(p, "try_read")
    /\ UNCHANGED <<mWeak, memory, birth, owed>>

\* The object may agree to be revived, or refuse.
OnIncStrongAttempted(p) ==
    /\ pc[p] = "try_ask"
    /\ \/ owed' = owed + 1 /\ Goto(p, "try_inc")
       \/ UNCHANGED owed /\ Goto(p, "dec_weak")
    /\ UNCHANGED <<counts, memory, birth>>

\* Mutation of AfterHardCase: the first reference counts as unneeded as well.
AfterHardCaseAlways(old) ==
    IF 0 <= old /\ old < INITIAL_STRONG_VALUE THEN "unneeded" ELSE "fix_read"

\* Somebody else incremented first: the implementor holds an unneeded reference.
AfterHardCase(old) ==
    IF 0 < old /\ old < INITIAL_STRONG_VALUE THEN "unneeded" ELSE "fix_read"

AttemptInc(p) ==
    /\ pc[p] = "try_inc"
    /\ mStrong' = mStrong + 1
    /\ Load(p, mStrong, AfterHardCase(mStrong))
    /\ UNCHANGED <<mWeak, memory, birth, owed>>

InitialCas(p) ==
    /\ pc[p] = "init_cas"
    /\ \/ /\ mStrong = cur[p]
          /\ mStrong' = mStrong + 1
          /\ Goto(p, AfterHardCase(cur[p]))
       \/ /\ mStrong # cur[p]
          /\ UNCHANGED mStrong
          /\ Goto(p, "init_read")
    /\ UNCHANGED <<mWeak, memory, birth, owed>>

InitialRead(p) ==
    /\ pc[p] = "init_read"
    /\ Load(p, mStrong, IF mStrong > 0 THEN "init_cas" ELSE "dec_weak")
    /\ UNCHANGED <<counts, memory, birth, owed>>

Unneeded(p) ==
    /\ pc[p] = "unneeded"
    /\ owed' = owed - 1
    /\ Goto(p, "fix_read")
    /\ UNCHANGED <<counts, memory, birth>>

FixRead(p) ==
    /\ pc[p] = "fix_read"
    /\ \/ mStrong >= INITIAL_STRONG_VALUE /\ Load(p, mStrong, "fix_cas")
       \/ mStrong < INITIAL_STRONG_VALUE /\ Return(p, "set")
    /\ UNCHANGED <<counts, memory, birth, owed>>

\* Mutation of FixCas: the value is taken off without comparing first.
FixCasBlind(p) ==
    /\ pc[p] = "fix_cas"
    /\ mStrong' = mStrong - INITIAL_STRONG_VALUE
    /\ Return(p, "set")
    /\ UNCHANGED <<mWeak, memory, birth, owed>>

FixCas(p) ==
    /\ pc[p] = "fix_cas"
    /\ \/ /\ mStrong = cur[p]
          /\ mStrong' = mStrong - INITIAL_STRONG_VALUE
          /\ Return(p, "set")
       \/ /\ mStrong # cur[p]
          /\ UNCHANGED mStrong
          /\ Goto(p, "fix_read")
    /\ UNCHANGED <<mWeak, memory, birth, owed>>

(***************************************************************************)
(* createWeak(), incWeak() and attemptIncWeak(), called for a wp.          *)
(***************************************************************************)
CreateWeak(w) ==
    /\ pc[w] = "create_weak"
    /\ mWeak' = mWeak + 1
    /\ Return(w, "set")
    /\ UNCHANGED <<mStrong, memory, birth, owed>>

AttemptWeakRead(w) ==
    /\ pc[w] = "tryw_read"
    /\ \/ mWeak > 0 /\ Load(w, mWeak, "tryw_cas")
       \/ mWeak <= 0 /\ Return(w, "null")
    /\ UNCHANGED <<counts, memory, birth, owed>>

AttemptWeakCas(w) ==
    /\ pc[w] = "tryw_cas"
    /\ \/ mWeak = cur[w] /\ mWeak' = mWeak + 1 /\ Return(w, "set")
       \/ mWeak # cur[w] /\ UNCHANGED mWeak /\ Goto(w, "tryw_read")
    /\ UNCHANGED <<mStrong, memory, birth, owed>>

(***************************************************************************)
(* decStrong() and decWeak().                                              *)
(***************************************************************************)
\* Mutation of DecStrong: tests the count it leaves instead of the one it found.
DecStrongEarly(p) ==
    /\ pc[p] = "dec_strong"
    /\ mStrong' = mStrong - 1
    /\ Goto(p, IF mStrong' = 1 THEN "last_strong" ELSE "dec_weak")
    /\ UNCHANGED <<mWeak, memory, birth, owed>>

DecStrong(p) ==
    /\ pc[p] = "dec_strong"
    /\ mStrong' = mStrong - 1
    /\ Goto(p, IF mStrong = 1 THEN "last_strong" ELSE "dec_weak")
    /\ UNCHANGED <<mWeak, memory, birth, owed>>

\* Mutation of OnLastStrongRef: the object is left to the last weak reference.
OnLastStrongRefKeeps(p) ==
    /\ pc[p] = "last_strong"
    /\ owed' = owed - 1
    /\ Goto(p, "dec_weak")
    /\ UNCHANGED <<counts, memory, birth>>

OnLastStrongRef(p) ==
    /\ pc[p] = "last_strong"
    /\ owed' = owed - 1
    /\ Goto(p, IF mFlags = "STRONG" THEN "delete_this" ELSE "dec_weak")
    /\ UNCHANGED <<counts, memory, birth>>

\* ~RefBase(): the weakref_impl goes with the object when no strong reference
\* ever existed, or when the life-time is extended and no weak one is left.
DestroyBase ==
    /\ object' = "deleted"
    /\ refs' = IF \/ mStrong = INITIAL_STRONG_VALUE
                  \/ mFlags = "WEAK" /\ mWeak = 0
               THEN "deleted" ELSE refs

\* Mutation of DeleteThis: returns at once, as one does after "delete this".
DeleteThisReturns(p) ==
    /\ pc[p] = "delete_this"
    /\ DestroyBase
    /\ Return(p, "null")
    /\ UNCHANGED <<counts, birth, owed>>

DeleteThis(p) ==
    /\ pc[p] = "delete_this"
    /\ DestroyBase
    /\ Goto(p, "dec_weak")
    /\ UNCHANGED <<counts, birth, owed>>

DecWeak(h) ==
    /\ pc[h] = "dec_weak"
    /\ mWeak' = mWeak - 1
    /\ \/ mWeak = 1 /\ Goto(h, "last_weak")
       \/ mWeak # 1 /\ Return(h, "null")
    /\ UNCHANGED <<mStrong, memory, birth, owed>>

\* Mutation of LastWeak: forgets the object that never had a strong reference.
LastWeakForgets(h) ==
    /\ pc[h] = "last_weak"
    /\ IF mFlags = "STRONG"
       THEN refs' = "deleted" /\ UNCHANGED object
       ELSE DestroyBase
    /\ Return(h, "null")
    /\ UNCHANGED <<counts, birth, owed>>

LastWeak(h) ==
    /\ pc[h] = "last_weak"
    /\ IF mFlags = "STRONG" /\ mStrong # INITIAL_STRONG_VALUE
       THEN refs' = "deleted" /\ UNCHANGED object
       ELSE DestroyBase
    /\ Return(h, "null")
    /\ UNCHANGED <<counts, birth, owed>>

-----------------------------------------------------------------------------
ClientCall ==
    \/ ExtendObjectLifetime
    \/ \E p \in Sp : NewSp(p)
    \/ \E w \in Wp : NewWp(w)
    \/ \E p \in Sp, q \in Sp : CopySp(p, q)
    \/ \E w \in Wp, q \in Ptr : MakeWp(w, q)
    \/ \E w \in Wp, v \in Wp : AttemptIncWeak(w, v)
    \/ \E p \in Sp, w \in Wp : Promote(p, w)
    \/ \E p \in Sp, w \in Wp : ForceSet(p, w)
    \/ \E h \in Ptr : Drop(h)
    \/ \E g \in Sp, h \in Sp : Move(g, h)
    \/ \E g \in Wp, h \in Wp : Move(g, h)

SpStep(p) ==
    \/ IncWeak(p) \/ IncStrong(p) \/ ForceIncStrong(p) \/ SubInitial(p)
    \/ OnFirstRef(p)
    \/ AttemptRead(p) \/ AttemptCas(p) \/ OnIncStrongAttempted(p)
    \/ AttemptInc(p) \/ InitialCas(p) \/ InitialRead(p) \/ Unneeded(p)
    \/ FixRead(p) \/ FixCas(p)
    \/ DecStrong(p) \/ OnLastStrongRef(p) \/ DeleteThis(p)

WpStep(w) == CreateWeak(w) \/ AttemptWeakRead(w) \/ AttemptWeakCas(w)

DecWeakStep(h) == DecWeak(h) \/ LastWeak(h)

Next ==
    \/ ClientCall
    \/ \E p \in Sp : SpStep(p)
    \/ \E w \in Wp : WpStep(w)
    \/ \E h \in Ptr : DecWeakStep(h)

Spec == Init /\ [][Next]_vars

\* A thread inside one of these functions is never blocked, so it goes on.
Fairness ==
    /\ \A p \in Sp : WF_vars(SpStep(p))
    /\ \A w \in Wp : WF_vars(WpStep(w))
    /\ \A h \in Ptr : WF_vars(DecWeakStep(h))

FairSpec == Spec /\ Fairness

-----------------------------------------------------------------------------
TypeOK ==
    /\ mStrong \in Int /\ mWeak \in Int /\ owed \in Int
    /\ mFlags \in {"STRONG", "WEAK"}
    /\ object \in {"alive", "deleted"} /\ refs \in {"alive", "deleted"}
    /\ published \in {"new", "sp", "wp"}
    /\ pc \in [Ptr -> SpLabels \cup WpLabels]
    /\ \A p \in Sp : pc[p] \in SpLabels
    /\ \A w \in Wp : pc[w] \in WpLabels
    /\ cur \in [Ptr -> Int]
    /\ src \in [Ptr -> Ptr \cup {NoPtr}]

-----------------------------------------------------------------------------
(***************************************************************************)
(* Safety.                                                                 *)
(***************************************************************************)
\* The next step of a handle at one of these reads or deletes the object.
ObjectLabels ==
    {"inc_weak", "force_weak", "first_ref", "try_ask", "unneeded",
     "dec_strong", "last_strong", "delete_this"}

(* No function reads the object or the weakref_impl after it was deleted,  *)
(* or deletes it twice, however the calls on different handles interleave: *)
(* incStrong, decStrong, attemptIncStrong and decWeak work on bare         *)
(* pointers and rely on the count they took first.                         *)
NoUseAfterFree ==
    \A h \in Ptr :
        /\ pc[h] # "null" => refs = "alive"
        /\ pc[h] \in ObjectLabels => object = "alive"
        /\ pc[h] = "last_weak" /\ (mFlags = "WEAK" \/ mStrong = INITIAL_STRONG_VALUE)
               => object = "alive"

(* A client that holds an sp can use the object; under the extended        *)
(* life-time so can one that holds a wp.  A promote() that returned        *)
(* non-null never races with the delete in decStrong.                      *)
ReferenceKeepsObject ==
    \A h \in Ptr : pc[h] = "set" /\ (h \in Sp \/ mFlags = "WEAK") => object = "alive"

(* The ALOG_ASSERTs of incStrong, decStrong, forceIncStrong, incWeak,      *)
(* decWeak and attemptIncStrong, each where its value is read.             *)
AssertsHold ==
    /\ mWeak >= 0
    /\ \A h \in Ptr : pc[h] = "dec_weak" => mWeak >= 1
    /\ \A p \in Sp :
        /\ pc[p] = "inc_strong" => mStrong > 0
        /\ pc[p] = "force_strong" => mStrong >= 0
        /\ pc[p] = "try_read" => mStrong >= 0
        /\ pc[p] = "fix_cas" => cur[p] > INITIAL_STRONG_VALUE
        /\ pc[p] = "dec_strong" => mStrong >= 1

(* The counts are the references: mWeak counts every handle between its    *)
(* increment and its decrement, mStrong the strong ones, with              *)
(* INITIAL_STRONG_VALUE on top until exactly one fix-up takes it off.      *)
CountsMatch ==
    /\ mWeak = Cardinality(WeakRefs)
    /\ mStrong - Cardinality(StrongRefs) \in {0, INITIAL_STRONG_VALUE}

(* Nothing leaks: once every handle is null again, the object and the      *)
(* weakref_impl are both gone, whichever of ~RefBase and decWeak had to    *)
(* free them.                                                              *)
NoLeak ==
    published # "new" /\ (\A h \in Ptr : pc[h] = "null")
        => object = "deleted" /\ refs = "deleted"

Quiet == \A h \in Ptr : pc[h] \in Idle

(* The callbacks balance: when no call is in progress, onFirstRef and the  *)
(* accepted onIncStrongAttempted exceed the onLastStrongRef by one while   *)
(* strong references exist and by none otherwise, through revivals by      *)
(* several threads at once (the "unneeded reference" of attemptIncStrong). *)
(* The first reference is strong: see UnneededReferenceExists for a wp.    *)
CallbackBalance ==
    published = "sp" /\ Quiet => owed = IF mStrong > 0 THEN 1 ELSE 0

(* Without the extended life-time an object that lost its last strong      *)
(* reference is never revived: attemptIncStrong only ever increments a     *)
(* count it has seen above zero.                                           *)
NeverRevived == [][mFlags = "STRONG" /\ mStrong = 0 => mStrong' = 0]_vars

(* RefBase.cpp:496-500: when attemptIncStrong calls onLastStrongRef, the   *)
(* implementor is holding an unneeded reference for it to remove.          *)
UnneededReferenceExists ==
    \A p \in Sp : pc[p] = "unneeded" => owed >= 1

(***************************************************************************)
(* The counts implement the life-times of RefLifetime.                     *)
(***************************************************************************)
\* A call to acquire holds from its start: what it reads from is held.
Held == {h \in Ptr : pc[h] \notin {"null", "last_weak"}}

Lifetime == INSTANCE RefLifetime WITH
    lifetime <- mFlags,
    born     <- published # "new",
    fresh    <- mStrong = INITIAL_STRONG_VALUE,
    held     <- Held,
    strong   <- StrongRefs

(* Every step of the counting code is a step of RefLifetime or changes     *)
(* nothing it can see.                                                     *)
ImplementsLifetime == Lifetime!Spec

(* And what can no longer be reached is really deleted, given only that    *)
(* threads inside RefBase keep running.                                    *)
ImplementsDeletion == Lifetime!FairSpec

(***************************************************************************)
(* Liveness.                                                               *)
(***************************************************************************)
(* promote() is lock-free: its compare-and-swap loops can only go on for   *)
(* ever while clients keep making new calls.                               *)
PromoteEnds == ([]<><<ClientCall>>_vars) \/ <>[]Quiet
=============================================================================

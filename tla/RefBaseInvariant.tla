-------------------------- MODULE RefBaseInvariant --------------------------
(***************************************************************************)
(* The inductive invariant behind the safety properties of RefBase.        *)
(*                                                                         *)
(* The argument in a sentence: a count is taken from a handle that is      *)
(* already counted (InvSrc), so a count at zero means that nobody is left  *)
(* who could raise it (InvLastWeak, InvDead), except for a promote() that  *)
(* tests the strong count first (InvCur).  While mStrong carries the       *)
(* INITIAL_STRONG_VALUE either the creator is alone (InvSpFirst) or only   *)
(* promote() acts (InvWpFirst), so the value is taken off once.            *)
(***************************************************************************)
EXTENDS RefBase

Biased == mStrong >= INITIAL_STRONG_VALUE

AllNull == \A h \in Ptr : pc[h] = "null"

Alone(h) == \A g \in Ptr : g # h => pc[g] = "null"

\* h makes the first reference and has not counted it in mStrong yet.
Creator(h) == mStrong = INITIAL_STRONG_VALUE /\ Alone(h)

InvNew ==
    published = "new" =>
        /\ AllNull /\ mStrong = INITIAL_STRONG_VALUE
        /\ object = "alive" /\ refs = "alive"

\* A new sp is alone until its onFirstRef.
InvSpFirst ==
    published = "sp" /\ Biased =>
        \A h \in Ptr : pc[h] # "null" =>
            pc[h] \in {"inc_weak", "inc_strong", "sub_initial"} /\ Alone(h)

\* After a new wp no sp is complete until a promote() fixed the count.
InvWpFirst ==
    published = "wp" =>
        \A p \in Sp :
            /\ pc[p] \notin {"force_weak", "force_strong", "sub_initial", "first_ref"}
            /\ Biased => pc[p] \notin {"inc_weak", "inc_strong", "set", "dec_strong",
                                       "last_strong", "delete_this"}

InvSub == \A p \in Sp : pc[p] = "sub_initial" => Biased

InvCur ==
    \A p \in Sp :
        /\ pc[p] = "try_cas" => cur[p] > 0 /\ cur[p] # INITIAL_STRONG_VALUE
        /\ pc[p] = "init_cas" => cur[p] > 0
        /\ pc[p] = "fix_cas" => cur[p] > INITIAL_STRONG_VALUE

\* A reference is made from one that stays set meanwhile, or by the creator.
InvSrc ==
    \A h \in Ptr :
        /\ src[h] # NoPtr => pc[src[h]] = "set"
        /\ pc[h] \in {"inc_weak", "inc_strong"} => src[h] \in Sp \/ Creator(h)
        /\ pc[h] = "create_weak" => src[h] \in Ptr \/ Creator(h)
        /\ pc[h] \in {"force_weak", "try_weak", "tryw_read", "tryw_cas"}
               => src[h] \in Wp

InvFlags ==
    \A p \in Sp :
        /\ pc[p] \in {"force_weak", "force_strong", "try_ask", "try_inc"}
               => mFlags = "WEAK"
        /\ pc[p] \in {"init_cas", "init_read", "delete_this"} => mFlags = "STRONG"

InvRefs == \A h \in Ptr : pc[h] # "null" => refs = "alive"

\* A deleted object has no strong reference, and no weak one under the
\* extended life-time.
InvDead == object = "deleted" => AllNull \/ (mFlags = "STRONG" /\ mStrong = 0)

Destroying(p) == pc[p] \in {"last_strong", "delete_this"}

\* One decStrong at most is about to delete the object.
InvLastStrong ==
    mFlags = "STRONG" =>
        \A p \in Sp : Destroying(p) =>
            /\ mStrong = 0 /\ object = "alive"
            /\ \A q \in Sp : Destroying(q) => q = p

InvLastWeak == \A h \in Ptr : pc[h] = "last_weak" => Alone(h)

InvDeleted ==
    mFlags = "STRONG" /\ mStrong = 0 =>
        object = "deleted" \/ \E p \in Sp : Destroying(p)

\* Everything the safety of the reference counts rests on.
Shape ==
    /\ InvNew /\ InvSpFirst /\ InvWpFirst /\ InvSub /\ InvCur /\ InvSrc
    /\ InvFlags /\ InvRefs /\ InvDead /\ InvLastStrong /\ InvLastWeak
    /\ InvDeleted /\ NoLeak

CountInv == CountsMatch /\ Shape
=============================================================================

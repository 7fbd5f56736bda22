---------------------------- MODULE RefLifetime ----------------------------
(***************************************************************************)
(* What sp<T>, wp<T> and RefBase promise, without the counts: an object    *)
(* and its weakref_impl live exactly as long as the references to them.    *)
(*                                                                         *)
(* A handle in held keeps the weakref_impl, a handle in strong keeps the   *)
(* object too.  Under the extended life-time every held handle keeps the   *)
(* object, and a weak reference alone can be made strong again.            *)
(***************************************************************************)
CONSTANTS Sp, Wp

VARIABLES lifetime,   \* "STRONG" or "WEAK"
          object,     \* "alive" or "deleted"
          refs,       \* the weakref_impl: "alive" or "deleted"
          born,       \* has a first handle been made?
          fresh,      \* has there never been a strong reference?
          held,       \* the handles that hold any reference
          strong      \* those that hold a strong one

vars == <<lifetime, object, refs, born, fresh, held, strong>>

Init ==
    /\ lifetime = "STRONG"
    /\ object = "alive" /\ refs = "alive"
    /\ born = FALSE /\ fresh = TRUE
    /\ held = {} /\ strong = {}

Extend ==
    /\ ~born
    /\ lifetime' = "WEAK"
    /\ UNCHANGED <<object, refs, born, fresh, held, strong>>

\* The first reference is free; later ones are made from an existing one.
Hold(h) ==
    /\ h \notin held /\ (~born \/ held # {})
    /\ born' = TRUE
    /\ held' = held \cup {h}
    /\ UNCHANGED <<lifetime, object, refs, fresh, strong>>

Strengthen(p) ==
    /\ p \in held \ strong
    /\ object = "alive"
    /\ fresh \/ strong # {} \/ lifetime = "WEAK"
    /\ fresh' = FALSE
    /\ strong' = strong \cup {p}
    /\ UNCHANGED <<lifetime, object, refs, born, held>>

Weaken(p) ==
    /\ p \in strong
    /\ strong' = strong \ {p}
    /\ UNCHANGED <<lifetime, object, refs, born, fresh, held>>

LetGo(h) ==
    /\ h \in held \ strong
    /\ held' = held \ {h}
    /\ UNCHANGED <<lifetime, object, refs, born, fresh, strong>>

Transfer(g, h) ==
    /\ h \in held /\ g \notin held
    /\ held' = (held \ {h}) \cup {g}
    /\ strong' = IF h \in strong THEN (strong \ {h}) \cup {g} ELSE strong
    /\ UNCHANGED <<lifetime, object, refs, born, fresh>>

Unreachable ==
    /\ born
    /\ strong = {}
    /\ held = {} \/ (lifetime = "STRONG" /\ ~fresh)

DeleteObject ==
    /\ object = "alive" /\ Unreachable
    /\ object' = "deleted"
    /\ refs' = IF held = {} /\ (lifetime = "WEAK" \/ fresh) THEN "deleted" ELSE refs
    /\ UNCHANGED <<lifetime, born, fresh, held, strong>>

DeleteRefs ==
    /\ object = "deleted" /\ refs = "alive" /\ held = {}
    /\ refs' = "deleted"
    /\ UNCHANGED <<lifetime, object, born, fresh, held, strong>>

Next ==
    \/ Extend
    \/ \E h \in Sp \cup Wp : Hold(h) \/ LetGo(h)
    \/ \E p \in Sp : Strengthen(p) \/ Weaken(p)
    \/ \E g, h \in Sp : Transfer(g, h)
    \/ \E g, h \in Wp : Transfer(g, h)
    \/ DeleteObject
    \/ DeleteRefs

Spec == Init /\ [][Next]_vars

\* What every client of the counts relies on: the object outlives the strong
\* references and, under the extended life-time or before the first strong one,
\* the weak ones; the weakref_impl outlives the object and every handle.
Outlives ==
    /\ strong \subseteq held
    /\ object = "deleted" => strong = {} /\ (held = {} \/ (lifetime = "STRONG" /\ ~fresh))
    /\ refs = "deleted" => object = "deleted" /\ held = {}

\* Nothing leaks: what cannot be reached any more is deleted in the end.
FairSpec == Spec /\ WF_vars(DeleteObject) /\ WF_vars(DeleteRefs)
=============================================================================

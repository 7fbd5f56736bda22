---------------------------- MODULE TestService ----------------------------
(***************************************************************************)
(* What TestBinder promises its clients, without threads, parcels and      *)
(* calls back: a call is carried out once at most, between its start and   *)
(* its return, while the service lives; if the client hears of it, its     *)
(* result is right.  A call that fails, or that the service did not live   *)
(* to carry out, has no result.                                            *)
(***************************************************************************)
CONSTANTS Clients, Faults

VARIABLES alive,     \* does the service live?
          call,      \* the call a client waits for: "none", "add", "share"
          outcome,   \* what became of it: "none", "open", "done", "lost"
          shared,    \* what the service has of a client's memory: "no",
                     \* "mapped", or "unmapped"
          result     \* what a client got from its calls: "none", "right"

vars == <<alive, call, outcome, shared, result>>

Init ==
    /\ alive = TRUE
    /\ call = [c \in Clients |-> "none"] /\ outcome = [c \in Clients |-> "none"]
    /\ shared = [c \in Clients |-> "no"]
    /\ result = [c \in Clients |-> [op \in {"add", "share"} |-> "none"]]

\* A call may fail before the service hears of it.
Call(c, op) ==
    /\ call[c] = "none"
    /\ call' = [call EXCEPT ![c] = op]
    /\ \/ alive /\ outcome' = [outcome EXCEPT ![c] = "open"]
       \/ Faults /\ outcome' = [outcome EXCEPT ![c] = "lost"]
    /\ UNCHANGED <<alive, shared, result>>

\* The client may not hear of what the service did, and the memory it passed
\* may not be mapped.
CarryOut(c) ==
    /\ alive /\ outcome[c] = "open"
    /\ \/ outcome' = [outcome EXCEPT ![c] = "done"]
       \/ Faults /\ outcome' = [outcome EXCEPT ![c] = "lost"]
    /\ \/ call[c] = "add" /\ UNCHANGED shared
       \/ call[c] = "share" /\ shared' = [shared EXCEPT ![c] = "mapped"]
       \/ call[c] = "share" /\ Faults /\ shared' = [shared EXCEPT ![c] = "unmapped"]
    /\ UNCHANGED <<alive, call, result>>

Return(c) ==
    /\ outcome[c] \in {"done", "lost"}
    /\ result' = [result EXCEPT ![c][call[c]] = IF outcome[c] = "done" THEN "right" ELSE "none"]
    /\ call' = [call EXCEPT ![c] = "none"]
    /\ outcome' = [outcome EXCEPT ![c] = "none"]
    /\ UNCHANGED <<alive, shared>>

Die ==
    /\ alive /\ Faults /\ alive' = FALSE
    /\ outcome' = [c \in Clients |-> IF outcome[c] = "open" THEN "lost" ELSE outcome[c]]
    /\ UNCHANGED <<call, shared, result>>

Next ==
    \/ \E c \in Clients : CarryOut(c) \/ Return(c) \/ \E op \in {"add", "share"} : Call(c, op)
    \/ Die

Spec == Init /\ [][Next]_vars
=============================================================================

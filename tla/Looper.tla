------------------------------- MODULE Looper -------------------------------
(***************************************************************************)
(* ALooper, ALooperRoster, AMessage and AHandler of Android's foundation   *)
(* library, as far as the testers under ALooperTester/ use them: a looper  *)
(* has one handler, a queue of messages and a thread that hands them to    *)
(* the handler one at a time.                                              *)
(***************************************************************************)
EXTENDS Integers, Sequences, FiniteSets

CONSTANTS Loopers,     \* the loopers
          Messages,    \* what a message asks for
          None         \* no message

ASSUME LooperAssumption == None \notin Messages

VARIABLES queue,       \* the messages posted to each looper, oldest first
          registered,  \* is its handler registered?
          thread,      \* its thread: "none", "starting", "run", or "exited"
          stopping,    \* has stop() asked the thread to end?
          current      \* the message being handled

looper == <<queue, registered, thread, stopping, current>>

LooperInit ==
    /\ queue = [l \in Loopers |-> <<>>]
    /\ registered = [l \in Loopers |-> FALSE]
    /\ thread = [l \in Loopers |-> "none"]
    /\ stopping = [l \in Loopers |-> FALSE]
    /\ current = [l \in Loopers |-> None]

\* registerHandler() and start(), which does not wait for the thread to run
Begin(l) ==
    /\ registered' = [registered EXCEPT ![l] = TRUE]
    /\ thread' = [thread EXCEPT ![l] = "starting"]
    /\ UNCHANGED <<queue, stopping, current>>

\* The thread runs at last.
Run(l) ==
    /\ thread[l] = "starting"
    /\ thread' = [thread EXCEPT ![l] = "run"]
    /\ UNCHANGED <<queue, registered, stopping, current>>

\* Mutation of Posted: what is posted before the thread runs is lost.
PostedRunning(l, m) ==
    IF registered[l] /\ thread[l] = "run" THEN [queue EXCEPT ![l] = Append(@, m)] ELSE queue

\* The queues once m is posted: the roster drops what no handler is
\* registered for; whether the thread runs yet makes no difference.
Posted(l, m) == IF registered[l] THEN [queue EXCEPT ![l] = Append(@, m)] ELSE queue

Post(l, m) == queue' = Posted(l, m) /\ UNCHANGED <<registered, thread, stopping, current>>

\* unregisterHandler(): what is queued stays queued
Unregister(l) ==
    /\ registered' = [registered EXCEPT ![l] = FALSE]
    /\ UNCHANGED <<queue, thread, stopping, current>>

\* stop(): asks the thread to end; the caller then waits for it (Stopped)
\* unless it is that thread
RequestStop(l) ==
    /\ stopping' = [stopping EXCEPT ![l] = TRUE]
    /\ UNCHANGED <<queue, registered, thread, current>>

Stopped(l) == thread[l] \notin {"starting", "run"}

Idle(l) == thread[l] = "run" /\ current[l] = None

\* Ends at the next turn of the loop, whatever is still queued.
Exit(l) ==
    /\ Idle(l) /\ stopping[l]
    /\ thread' = [thread EXCEPT ![l] = "exited"]
    /\ UNCHANGED <<queue, registered, stopping, current>>

\* The thread has a message to look at.
Due(l) == Idle(l) /\ ~stopping[l] /\ queue[l] # <<>>

\* deliverMessage() hands it to a handler it could promote.
Take(l) ==
    /\ Due(l)
    /\ queue' = [queue EXCEPT ![l] = Tail(@)]
    /\ current' = [current EXCEPT ![l] = Head(queue[l])]
    /\ UNCHANGED <<registered, thread, stopping>>

\* deliverMessage() finds no handler.
Discard(l) ==
    /\ Due(l)
    /\ queue' = [queue EXCEPT ![l] = Tail(@)]
    /\ UNCHANGED <<registered, thread, stopping, current>>

\* onMessageReceived() returns.
Finish(l) ==
    /\ current' = [current EXCEPT ![l] = None]
    /\ UNCHANGED <<queue, registered, thread, stopping>>

QueuedOf(l, M) == {i \in 1 .. Len(queue[l]) : queue[l][i] \in M}
=============================================================================

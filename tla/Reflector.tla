----------------------------- MODULE Reflector -----------------------------
(***************************************************************************)
(* ReflectorTester.cpp: main() owns a HandlerReflectorTester, which hears  *)
(* of its messages through an AHandlerReflector that holds it weakly, and  *)
(* a TrackWorker with a looper of its own.  The two play ping-pong: every  *)
(* read of the worker notifies the tester to write, and every write of the *)
(* tester tells the worker to read.  sleep() orders nothing: how long a    *)
(* thread takes is left open.                                              *)
(***************************************************************************)
EXTENDS Looper

VARIABLES main,       \* where main() is
          tester,     \* HandlerReflectorTester: "none", "alive", "dying", "deleted"
          owners,     \* who holds an sp to the tester: main, its looper's thread
          mWorker,    \* TrackWorker: "none", "alive", "deleted"
          acted       \* has the handler of the current message done its work?

object == <<tester, owners, mWorker>>
vars   == <<looper, main, object, acted>>

ASSUME ReflectorAssumption ==
    /\ Loopers = {"reflector", "worker"}
    /\ Messages = {"start", "write", "read", "stop"}

Init ==
    /\ LooperInit
    /\ main = "init"
    /\ tester = "none" /\ owners = {} /\ mWorker = "none"
    /\ acted = [l \in Loopers |-> FALSE]

-----------------------------------------------------------------------------
(***************************************************************************)
(* main()                                                                  *)
(***************************************************************************)
At(here, next) == main = here /\ main' = next

\* test = new ..., test->init(): the looper, the reflector, mNotify
InitTester ==
    /\ At("init", "worker")
    /\ tester' = "alive" /\ owners' = {"main"}
    /\ Begin("reflector")
    /\ UNCHANGED <<mWorker, acted>>

\* test->start(): a worker with a looper
InitWorker ==
    /\ At("worker", "startWorker")
    /\ mWorker' = "alive"
    /\ Begin("worker")
    /\ UNCHANGED <<tester, owners, acted>>

StartWorker ==
    /\ At("startWorker", "start")
    /\ Post("worker", "start")
    /\ UNCHANGED <<object, acted>>

Start ==
    /\ At("start", "stopWorker")
    /\ Post("reflector", "start")
    /\ UNCHANGED <<object, acted>>

\* ten seconds later test->stop(), which is reset(): TrackWorker::stop() ...
StopWorker ==
    /\ At("stopWorker", "unregister")
    /\ Post("worker", "stop")
    /\ UNCHANGED <<object, acted>>

\* ... a second later
UnregisterWorker ==
    /\ At("unregister", "stopLooper")
    /\ Unregister("worker")
    /\ UNCHANGED <<object, acted>>

\* Mutation of StopLooper: the thread is not asked to end.
StopLooperForgotten ==
    /\ At("stopLooper", "joinWorker")
    /\ UNCHANGED <<looper, object, acted>>

StopLooper ==
    /\ At("stopLooper", "joinWorker")
    /\ RequestStop("worker")
    /\ UNCHANGED <<object, acted>>

JoinWorker ==
    /\ At("joinWorker", "stop") /\ Stopped("worker")
    /\ UNCHANGED <<looper, object, acted>>

Stop ==
    /\ At("stop", "clear")
    /\ Post("reflector", "stop")
    /\ UNCHANGED <<object, acted>>

\* test.clear(): destroys the tester unless a delivery holds it
Clear ==
    /\ main = "clear"
    /\ owners' = owners \ {"main"}
    /\ IF owners = {"main"} THEN tester' = "dying" /\ main' = "unregisterReflector"
                            ELSE UNCHANGED tester /\ main' = "end"
    /\ UNCHANGED <<looper, mWorker, acted>>

\* ~HandlerReflectorTester() on main's thread
UnregisterReflector ==
    /\ At("unregisterReflector", "stopReflector")
    /\ Unregister("reflector")
    /\ UNCHANGED <<object, acted>>

StopReflector ==
    /\ At("stopReflector", "joinReflector")
    /\ RequestStop("reflector")
    /\ UNCHANGED <<object, acted>>

\* ... and its members
JoinReflector ==
    /\ At("joinReflector", "end") /\ Stopped("reflector")
    /\ tester' = "deleted" /\ mWorker' = "deleted"
    /\ UNCHANGED <<looper, owners, acted>>

-----------------------------------------------------------------------------
(***************************************************************************)
(* The thread of the tester's looper.  AHandlerReflector promotes its wp.  *)
(***************************************************************************)
\* Mutation of DeliverToTester: the reflector holds a plain pointer.
DeliverUnpromoted ==
    /\ Due("reflector") /\ registered["reflector"]
    /\ Take("reflector")
    /\ acted' = [acted EXCEPT !["reflector"] = FALSE]
    /\ UNCHANGED <<main, object>>

DeliverToTester ==
    /\ Due("reflector") /\ registered["reflector"] /\ owners # {}
    /\ Take("reflector")
    /\ owners' = owners \cup {"reflector"}
    /\ acted' = [acted EXCEPT !["reflector"] = FALSE]
    /\ UNCHANGED <<main, tester, mWorker>>

DropForTester ==
    /\ Due("reflector") /\ (~registered["reflector"] \/ owners = {})
    /\ Discard("reflector")
    /\ UNCHANGED <<main, object, acted>>

\* Mutation of HandleByTester: kWhatStart triggers the worker as well.
HandleStartWrites ==
    LET m == current["reflector"]
    IN  /\ m # None /\ ~acted["reflector"]
        /\ acted' = [acted EXCEPT !["reflector"] = TRUE]
        /\ IF m \in {"start", "write"} THEN Post("worker", "read") ELSE UNCHANGED looper
        /\ UNCHANGED <<main, object>>

\* kWhatWrite tells the worker to read; kWhatStart and kWhatStop only log.
HandleByTester ==
    LET m == current["reflector"]
    IN  /\ m # None /\ ~acted["reflector"]
        /\ acted' = [acted EXCEPT !["reflector"] = TRUE]
        /\ IF m = "write" THEN Post("worker", "read") ELSE UNCHANGED looper
        /\ UNCHANGED <<main, object>>

\* The delivery gives its sp back.  If it is the last one, the tester is
\* destroyed here: its looper's stop() does not wait, and the thread ends at
\* the next turn of the loop.
ReturnFromTester ==
    /\ current["reflector"] # None /\ acted["reflector"]
    /\ owners' = owners \ {"reflector"}
    /\ current' = [current EXCEPT !["reflector"] = None]
    /\ IF owners = {"reflector"}
       THEN /\ tester' = "deleted" /\ mWorker' = "deleted"
            /\ registered' = [registered EXCEPT !["reflector"] = FALSE]
            /\ stopping' = [stopping EXCEPT !["reflector"] = TRUE]
       ELSE UNCHANGED <<tester, mWorker, registered, stopping>>
    /\ UNCHANGED <<queue, thread, main, acted>>

-----------------------------------------------------------------------------
(***************************************************************************)
(* The thread of the worker's looper.                                      *)
(***************************************************************************)
DeliverToWorker ==
    /\ Due("worker") /\ registered["worker"] /\ mWorker = "alive"
    /\ Take("worker")
    /\ acted' = [acted EXCEPT !["worker"] = FALSE]
    /\ UNCHANGED <<main, object>>

DropForWorker ==
    /\ Due("worker") /\ ~(registered["worker"] /\ mWorker = "alive")
    /\ Discard("worker")
    /\ UNCHANGED <<main, object, acted>>

\* kWhatWorkerStart posts the first read; kWhatWorkerRead sleeps, then posts
\* mNotify to the tester; kWhatWorkerStop only logs, and a write on its way
\* makes the worker read again.
HandleByWorker ==
    LET m == current["worker"]
    IN  /\ m # None /\ ~acted["worker"]
        /\ acted' = [acted EXCEPT !["worker"] = TRUE]
        /\ CASE m = "start" -> Post("worker", "read")
             [] m = "read"  -> Post("reflector", "write")
             [] OTHER       -> UNCHANGED looper
        /\ UNCHANGED <<main, object>>

ReturnFromWorker ==
    /\ current["worker"] # None /\ acted["worker"]
    /\ Finish("worker")
    /\ UNCHANGED <<main, object, acted>>

ThreadRuns(l) == Run(l) /\ UNCHANGED <<main, object, acted>>

ThreadExits(l) == Exit(l) /\ UNCHANGED <<main, object, acted>>

MainSteps ==
    \/ InitTester \/ InitWorker \/ StartWorker \/ Start
    \/ StopWorker \/ UnregisterWorker \/ StopLooper \/ JoinWorker \/ Stop
    \/ Clear \/ UnregisterReflector \/ StopReflector \/ JoinReflector

TesterSteps == DeliverToTester \/ DropForTester \/ HandleByTester \/ ReturnFromTester
                 \/ ThreadRuns("reflector") \/ ThreadExits("reflector")

WorkerSteps == DeliverToWorker \/ DropForWorker \/ HandleByWorker \/ ReturnFromWorker
                 \/ ThreadRuns("worker") \/ ThreadExits("worker")

\* main() has returned and the threads have ended.
Over == main = "end" /\ (\A l \in Loopers : Stopped(l)) /\ UNCHANGED vars

Next == MainSteps \/ TesterSteps \/ WorkerSteps \/ Over

\* main and the two loopers are threads of the system: none is left out.
Spec == Init /\ [][Next]_vars /\ WF_vars(MainSteps) /\ WF_vars(TesterSteps) /\ WF_vars(WorkerSteps)

-----------------------------------------------------------------------------
\* The reads and writes on their way: queued, or handled up to the post that
\* passes the turn on.
Queued == UNION {{<<l, i>> : i \in QueuedOf(l, {"read", "write"})} : l \in Loopers}
Playing == {l \in Loopers : current[l] \in {"read", "write"} /\ ~acted[l]}

\* The ping-pong is one ball: the worker never has two reads to do, the tester
\* never two writes, and the one mNotify message is never queued twice, from
\* the first read to the end (ReflectorTester.cpp:76, 83, 192).
OneBall == Cardinality(Queued) + Cardinality(Playing) <= 1

\* A handler runs on an object that is alive: the tester is held by the
\* delivery's promoted wp, the worker by a tester that outlives the worker's
\* thread (stop() joins it, ReflectorTester.cpp:66).
HandlersAlive ==
    /\ current["reflector"] # None => tester = "alive"
    /\ current["worker"] # None => mWorker = "alive"

\* Whoever destroys the tester, main or the thread of its own looper, nothing
\* is left: main ends, both threads end, tester and worker are deleted, as long
\* as the process lets its threads run.
EverythingEnds ==
    <>[](/\ main = "end"
         /\ \A l \in Loopers : thread[l] = "exited" /\ ~registered[l]
         /\ tester = "deleted" /\ mWorker = "deleted")
=============================================================================

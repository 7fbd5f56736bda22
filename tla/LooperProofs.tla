---------------------------- MODULE LooperProofs ----------------------------
(***************************************************************************)
(* The two programs around a looper.  ReflectorTester: the ping-pong is    *)
(* one ball, and a handler runs on an object that is alive.                *)
(* ALooperTester (T): messages are handled in the order of posting, and    *)
(* wait() returns with its answer.                                         *)
(***************************************************************************)
EXTENDS Reflector, FiniteSetTheorems, TLAPS

\* main() has given its sp to the tester back, or has none yet.
Without == {"init", "unregisterReflector", "stopReflector", "joinReflector", "end"}

\* What is posted to a looper, and which of it carries the ball.
Sent(l) == IF l = "worker" THEN {"start", "read", "stop"} ELSE {"start", "write", "stop"}
Ball(l) == IF l = "worker" THEN {"start", "read"} ELSE {"write"}

TypeOK ==
    /\ queue \in [Loopers -> Seq(Messages)]
    /\ registered \in [Loopers -> BOOLEAN] /\ stopping \in [Loopers -> BOOLEAN]
    /\ thread \in [Loopers -> {"none", "starting", "run", "exited"}]
    /\ current \in [Loopers -> Messages \cup {None}]
    /\ acted \in [Loopers -> BOOLEAN]
    /\ owners \subseteq {"main", "reflector"}
    /\ \A l \in Loopers : queue[l] \in Seq(Sent(l)) /\ current[l] \in Sent(l) \cup {None}

\* The tester lives while main or a delivery owns it; the worker while its
\* thread runs, which main has joined before it gives the tester back.
LifeInv ==
    /\ "main" \in owners <=> main \notin Without
    /\ "reflector" \in owners <=> current["reflector"] # None
    /\ tester = "alive" <=> owners # {}
    /\ \A l \in Loopers : thread[l] # "run" => current[l] = None
    /\ main = "init" => owners = {}
    /\ main \in {"init", "worker"} => thread["worker"] = "none"
    /\ main \in {"stop", "clear"} \cup (Without \ {"init"}) => Stopped("worker")
    /\ current["worker"] # None => mWorker = "alive"

\* The ball is the i-th message queued for l or, for i = 0, what l handles.
BallAt(l, i) == IF i = 0 THEN current[l] \in Ball(l) /\ ~acted[l]
                         ELSE i <= Len(queue[l]) /\ queue[l][i] \in Ball(l)
BallInv ==
    /\ \A l, k \in Loopers : \A i, j \in Nat : BallAt(l, i) /\ BallAt(k, j) => l = k /\ i = j
    /\ main \in {"init", "worker", "startWorker"} =>
           \A l \in Loopers : \A i \in Nat : ~BallAt(l, i)

-----------------------------------------------------------------------------
LEMMA ReflectorFacts ==
    /\ "reflector" \in Loopers /\ "worker" \in Loopers
    /\ \A l \in Loopers : l = "reflector" \/ l = "worker"
    /\ None \notin {"start", "write", "read", "stop"}
  BY LooperAssumption, ReflectorAssumption

(***************************************************************************)
(* How the queues of typed messages change.                                *)
(***************************************************************************)
LEMMA PostFacts ==
    ASSUME TypeOK, NEW l \in Loopers, NEW m \in Sent(l), Post(l, m)
    PROVE  /\ queue' \in [Loopers -> Seq(Messages)]
           /\ \A k \in Loopers : queue'[k] \in Seq(Sent(k))
           /\ \A k \in Loopers, i \in Nat \ {0} :
                  i <= Len(queue'[k]) /\ queue'[k][i] \in Ball(k) =>
                      \/ i <= Len(queue[k]) /\ queue[k][i] \in Ball(k)
                      \/ k = l /\ i = Len(queue[l]) + 1 /\ m \in Ball(l)
<1>1. m \in Messages
  BY ReflectorAssumption DEF Sent
<1>2. CASE ~registered[l]
  BY <1>2 DEF Post, Posted, TypeOK
<1>3. CASE registered[l]
  <2>1. queue' = [queue EXCEPT ![l] = Append(queue[l], m)]
    BY <1>3 DEF Post, Posted
  <2>2. queue' \in [Loopers -> Seq(Messages)] /\ queue'[l] = Append(queue[l], m)
    BY <1>1, <2>1 DEF TypeOK
  <2>3. \A k \in Loopers : k # l => queue'[k] = queue[k]
    BY <2>1 DEF TypeOK
  <2>4. queue[l] \in Seq(Sent(l))
    BY DEF TypeOK
  <2>5. /\ queue'[l] \in Seq(Sent(l))
        /\ \A i \in Nat \ {0} : i <= Len(queue'[l]) =>
              \/ i <= Len(queue[l]) /\ queue'[l][i] = queue[l][i]
              \/ i = Len(queue[l]) + 1 /\ queue'[l][i] = m
    BY <2>2, <2>4
  <2>6. QED
    BY <2>2, <2>3, <2>5 DEF TypeOK
<1>4. QED
  BY <1>2, <1>3

LEMMA TailFacts ==
    ASSUME NEW S, NEW s \in Seq(S), s # <<>>, NEW i \in Nat \ {0}, i <= Len(Tail(s))
    PROVE  i + 1 <= Len(s) /\ Tail(s)[i] = s[i + 1]
<1>1. Len(s) \in Nat /\ Len(s) # 0 /\ Len(Tail(s)) = Len(s) - 1
  OBVIOUS
<1>2. i \in 1 .. Len(s) - 1
  BY <1>1
<1>3. QED
  BY <1>1, <1>2

LEMMA TakeFacts ==
    ASSUME TypeOK, NEW l \in Loopers, queue[l] # <<>>,
           queue' = [queue EXCEPT ![l] = Tail(@)]
    PROVE  /\ queue' \in [Loopers -> Seq(Messages)]
           /\ \A k \in Loopers : queue'[k] \in Seq(Sent(k))
           /\ Head(queue[l]) \in Sent(l) /\ Head(queue[l]) \in Messages
           /\ Head(queue[l]) = queue[l][1] /\ 1 <= Len(queue[l])
           /\ \A k \in Loopers : k # l => queue'[k] = queue[k]
           /\ \A i \in Nat \ {0} : i <= Len(queue'[l]) =>
                  i + 1 <= Len(queue[l]) /\ queue'[l][i] = queue[l][i + 1]
<1>1. queue[l] \in Seq(Sent(l)) /\ queue[l] \in Seq(Messages)
  BY DEF TypeOK
<1>2. queue'[l] = Tail(queue[l]) /\ \A k \in Loopers : k # l => queue'[k] = queue[k]
  BY DEF TypeOK
<1>3. Tail(queue[l]) \in Seq(Sent(l)) /\ Tail(queue[l]) \in Seq(Messages)
  BY <1>1
<1>4. queue' \in [Loopers -> Seq(Messages)]
  BY <1>3 DEF TypeOK
<1>5. \A k \in Loopers : queue'[k] \in Seq(Sent(k))
  BY <1>2, <1>3 DEF TypeOK
<1>6. Head(queue[l]) \in Sent(l) /\ Head(queue[l]) \in Messages
  BY <1>1
<1>7. Head(queue[l]) = queue[l][1] /\ 1 <= Len(queue[l])
  BY <1>1
<1>8. \A i \in Nat \ {0} : i <= Len(queue'[l]) =>
          i + 1 <= Len(queue[l]) /\ queue'[l][i] = queue[l][i + 1]
  BY <1>1, <1>2, TailFacts
<1>9. QED
  BY <1>2, <1>4, <1>5, <1>6, <1>7, <1>8

-----------------------------------------------------------------------------
(***************************************************************************)
(* Types and lifetimes.                                                    *)
(***************************************************************************)
LEMMA InitLife == Init => TypeOK /\ LifeInv /\ BallInv
<1> SUFFICES ASSUME Init PROVE TypeOK /\ LifeInv /\ BallInv
  OBVIOUS
<1>1. /\ queue = [l \in Loopers |-> <<>>] /\ registered = [l \in Loopers |-> FALSE]
      /\ thread = [l \in Loopers |-> "none"] /\ stopping = [l \in Loopers |-> FALSE]
      /\ current = [l \in Loopers |-> None] /\ acted = [l \in Loopers |-> FALSE]
      /\ main = "init" /\ tester = "none" /\ owners = {}
  BY DEF Init, LooperInit
<1>2. \A l \in Loopers : queue[l] = <<>> /\ current[l] = None
  BY <1>1
<1>3. TypeOK
  BY <1>1, <1>2 DEF TypeOK
<1>4. LifeInv
  BY <1>1, <1>2, ReflectorFacts DEF LifeInv, Without, Stopped
<1>5. \A l \in Loopers : \A i \in Nat : ~BallAt(l, i)
  BY <1>2, ReflectorFacts DEF BallAt, Ball
<1>6. QED
  BY <1>3, <1>4, <1>5 DEF BallInv

LEMMA MainLife == TypeOK /\ LifeInv /\ MainSteps => TypeOK' /\ LifeInv'
<1> SUFFICES ASSUME TypeOK, LifeInv, MainSteps PROVE TypeOK' /\ LifeInv'
  OBVIOUS
<1> USE ReflectorFacts DEF At, object
<1>1. CASE InitTester
  BY <1>1 DEF InitTester, Begin, TypeOK, LifeInv, Without, Stopped
<1>2. CASE InitWorker
  BY <1>2 DEF InitWorker, Begin, TypeOK, LifeInv, Without, Stopped
<1>3. CASE StartWorker
  BY <1>3, PostFacts DEF StartWorker, Post, Sent, TypeOK, LifeInv, Without, Stopped
<1>4. CASE Start
  BY <1>4, PostFacts DEF Start, Post, Sent, TypeOK, LifeInv, Without, Stopped
<1>5. CASE StopWorker
  BY <1>5, PostFacts DEF StopWorker, Post, Sent, TypeOK, LifeInv, Without, Stopped
<1>6. CASE UnregisterWorker
  BY <1>6 DEF UnregisterWorker, Unregister, TypeOK, LifeInv, Without, Stopped
<1>7. CASE StopLooper
  BY <1>7 DEF StopLooper, RequestStop, TypeOK, LifeInv, Without, Stopped
<1>8. CASE JoinWorker
  BY <1>8 DEF JoinWorker, Stopped, looper, TypeOK, LifeInv, Without
<1>9. CASE Stop
  BY <1>9, PostFacts DEF Stop, Post, Sent, TypeOK, LifeInv, Without, Stopped
<1>10. CASE Clear
  BY <1>10 DEF Clear, looper, TypeOK, LifeInv, Without, Stopped
<1>11. CASE UnregisterReflector
  BY <1>11 DEF UnregisterReflector, Unregister, TypeOK, LifeInv, Without, Stopped
<1>12. CASE StopReflector
  BY <1>12 DEF StopReflector, RequestStop, TypeOK, LifeInv, Without, Stopped
<1>13. CASE JoinReflector
  <2>1. TypeOK'
    BY <1>13 DEF JoinReflector, looper, TypeOK
  <2>2. current["worker"] = None /\ current["reflector"] = None
    BY <1>13 DEF JoinReflector, Stopped, LifeInv, Without
  <2>3. main = "joinReflector" /\ main' = "end" /\ UNCHANGED <<owners, thread, current>>
    BY <1>13 DEF JoinReflector, looper
  <2>4. "main" \notin owners /\ "reflector" \notin owners
    BY <2>2, <2>3 DEF LifeInv, Without, Stopped
  <2>5. owners = {}
    BY <2>4 DEF TypeOK
  <2>6. Stopped("worker") /\ tester' # "alive"
    BY <1>13, <2>3 DEF JoinReflector, LifeInv, Without, Stopped
  <2>7. QED
    BY <2>1, <2>2, <2>3, <2>5, <2>6 DEF LifeInv, Without, Stopped
<1>14. QED
  BY <1>1, <1>2, <1>3, <1>4, <1>5, <1>6, <1>7, <1>8, <1>9, <1>10, <1>11, <1>12, <1>13
     DEF MainSteps

\* A looper's thread runs, or ends.
LEMMA ThreadLife ==
    ASSUME TypeOK, LifeInv, NEW l \in Loopers, ThreadRuns(l) \/ ThreadExits(l)
    PROVE  TypeOK' /\ LifeInv'
<1>1. /\ current[l] = None /\ thread[l] \in {"starting", "run"}
      /\ thread' \in {[thread EXCEPT ![l] = "run"], [thread EXCEPT ![l] = "exited"]}
      /\ UNCHANGED <<queue, registered, stopping, current, main, owners, tester, mWorker, acted>>
  BY DEF ThreadRuns, Run, ThreadExits, Exit, Idle, LifeInv, object
<1>2. TypeOK'
  BY <1>1 DEF TypeOK
<1>3. \A k \in Loopers : k # l => thread'[k] = thread[k]
  BY <1>1 DEF TypeOK
<1>4. Stopped("worker") => Stopped("worker")'
  BY <1>1, <1>3, ReflectorFacts DEF Stopped
<1>5. thread["worker"] = "none" => thread'["worker"] = "none"
  BY <1>1, <1>3, ReflectorFacts
<1>6. \A k \in Loopers : thread'[k] # "run" => current'[k] = None
  BY <1>1, <1>3 DEF LifeInv
<1>7. QED
  BY <1>1, <1>2, <1>4, <1>5, <1>6 DEF LifeInv

LEMMA TesterLife == TypeOK /\ LifeInv /\ TesterSteps => TypeOK' /\ LifeInv'
<1> SUFFICES ASSUME TypeOK, LifeInv, TesterSteps PROVE TypeOK' /\ LifeInv'
  OBVIOUS
<1> USE ReflectorFacts DEF object
<1>1. CASE DeliverToTester
  <2>1. /\ queue["reflector"] # <<>> /\ queue' = [queue EXCEPT !["reflector"] = Tail(@)]
        /\ current' = [current EXCEPT !["reflector"] = Head(queue["reflector"])]
        /\ thread["reflector"] = "run" /\ owners' = owners \cup {"reflector"} /\ owners # {}
        /\ acted' = [acted EXCEPT !["reflector"] = FALSE]
        /\ UNCHANGED <<registered, thread, stopping, main, tester, mWorker>>
    BY <1>1 DEF DeliverToTester, Take, Due, Idle
  <2>2. TypeOK'
    BY <2>1, TakeFacts DEF TypeOK
  <2>3. Head(queue["reflector"]) # None
    BY <2>1, TakeFacts DEF Sent
  <2>4. LifeInv'
    BY <2>1, <2>3 DEF TypeOK, LifeInv, Without, Stopped
  <2>5. QED
    BY <2>2, <2>4
<1>2. CASE DropForTester
  BY <1>2, TakeFacts DEF DropForTester, Discard, Due, Idle, TypeOK, LifeInv, Without, Stopped
<1>3. CASE HandleByTester
  BY <1>3, PostFacts DEF HandleByTester, Post, Sent, looper, TypeOK, LifeInv, Without, Stopped
<1>4. CASE ReturnFromTester
  <2>1. TypeOK'
    BY ZenonT(40), <1>4 DEF ReturnFromTester, TypeOK
  <2>2. CASE owners = {"reflector"}
    <3>1. main \in Without \ {"init"} /\ current["worker"] = None
      BY <2>2 DEF LifeInv, Without, Stopped
    <3>2. owners' = {} /\ current'["worker"] = None /\ current'["reflector"] = None
      BY <1>4, <2>2, <3>1 DEF ReturnFromTester, TypeOK
    <3>3. tester' = "deleted" /\ UNCHANGED <<main, thread>>
      BY <1>4, <2>2 DEF ReturnFromTester
    <3>4. QED
      BY <2>1, <3>1, <3>2, <3>3 DEF LifeInv, Without, Stopped
  <2>3. CASE owners # {"reflector"}
    BY <1>4, <2>3 DEF ReturnFromTester, TypeOK, LifeInv, Without, Stopped
  <2>4. QED
    BY <2>1, <2>2, <2>3
<1>5. CASE ThreadRuns("reflector") \/ ThreadExits("reflector")
  BY <1>5, ThreadLife
<1>6. QED
  BY <1>1, <1>2, <1>3, <1>4, <1>5 DEF TesterSteps

LEMMA WorkerLife == TypeOK /\ LifeInv /\ WorkerSteps => TypeOK' /\ LifeInv'
<1> SUFFICES ASSUME TypeOK, LifeInv, WorkerSteps PROVE TypeOK' /\ LifeInv'
  OBVIOUS
<1> USE ReflectorFacts DEF object
<1>1. CASE DeliverToWorker
  BY <1>1, TakeFacts DEF DeliverToWorker, Take, Due, Idle, TypeOK, LifeInv, Without, Stopped
<1>2. CASE DropForWorker
  BY <1>2, TakeFacts DEF DropForWorker, Discard, Due, Idle, TypeOK, LifeInv, Without, Stopped
<1>3. CASE HandleByWorker
  BY <1>3, PostFacts DEF HandleByWorker, Post, Sent, looper, TypeOK, LifeInv, Without, Stopped
<1>4. CASE ReturnFromWorker
  BY <1>4 DEF ReturnFromWorker, Finish, TypeOK, LifeInv, Without, Stopped
<1>5. CASE ThreadRuns("worker") \/ ThreadExits("worker")
  BY <1>5, ThreadLife
<1>6. QED
  BY <1>1, <1>2, <1>3, <1>4, <1>5 DEF WorkerSteps

LEMMA NextLife == TypeOK /\ LifeInv /\ [Next]_vars => TypeOK' /\ LifeInv'
<1> SUFFICES ASSUME TypeOK, LifeInv, [Next]_vars PROVE TypeOK' /\ LifeInv'
  OBVIOUS
<1>1. CASE UNCHANGED vars
  BY <1>1 DEF vars, looper, object, TypeOK, LifeInv, Stopped
<1>2. QED
  BY <1>1, MainLife, TesterLife, WorkerLife DEF Next, Over

-----------------------------------------------------------------------------
(***************************************************************************)
(* The ball.                                                               *)
(***************************************************************************)
\* The queues move up by at most one place; no ball is thrown.
LEMMA BallsStay ==
    ASSUME BallInv, NEW up \in [Loopers -> {0, 1}],
           \A l \in Loopers : \A i \in Nat : BallAt(l, i)' => BallAt(l, i + up[l]),
           main' \in {"init", "worker", "startWorker"} =>
               main \in {"init", "worker", "startWorker"}
    PROVE  BallInv'
<1>1. ASSUME NEW l \in Loopers, NEW k \in Loopers, NEW i \in Nat, NEW j \in Nat,
             BallAt(l, i)', BallAt(k, j)'
      PROVE  l = k /\ i = j
  <2>1. i + up[l] \in Nat /\ j + up[k] \in Nat /\ up[l] \in {0, 1} /\ up[k] \in {0, 1}
    OBVIOUS
  <2>2. BallAt(l, i + up[l]) /\ BallAt(k, j + up[k])
    BY <1>1
  <2>3. l = k /\ i + up[l] = j + up[k]
    BY <2>1, <2>2 DEF BallInv
  <2>4. QED
    BY <2>1, <2>3
<1>2. ASSUME main' \in {"init", "worker", "startWorker"}, NEW l \in Loopers, NEW i \in Nat,
             BallAt(l, i)'
      PROVE  FALSE
  <2>1. i + up[l] \in Nat
    OBVIOUS
  <2>2. QED
    BY <1>2, <2>1 DEF BallInv
<1>3. QED
  BY <1>1, <1>2 DEF BallInv

\* The ball is where it was thrown, and there was no other.
LEMMA BallThrown ==
    ASSUME NEW k \in Loopers, NEW n \in Nat,
           \A l \in Loopers : \A i \in Nat : BallAt(l, i)' => l = k /\ i = n,
           main' \notin {"init", "worker", "startWorker"}
    PROVE  BallInv'
  BY DEF BallInv

\* Nothing of the sort is posted, and nothing new is in hand.
LEMMA BallKept ==
    ASSUME BallInv,
           \A l \in Loopers : \A i \in Nat : BallAt(l, i)' => BallAt(l, i),
           main' \in {"init", "worker", "startWorker"} =>
               main \in {"init", "worker", "startWorker"}
    PROVE  BallInv'
<1> DEFINE up == [l \in Loopers |-> 0]
<1>1. \A l \in Loopers : \A i \in Nat : BallAt(l, i)' => BallAt(l, i + up[l])
  OBVIOUS
<1>2. up \in [Loopers -> {0, 1}]
  OBVIOUS
<1> HIDE DEF up
<1>3. QED
  BY <1>1, <1>2, BallsStay

\* A post by a thread that keeps what it has in hand.
LEMMA PostKeeps ==
    ASSUME TypeOK, BallInv, NEW l \in Loopers, NEW m \in Sent(l) \ Ball(l), Post(l, m),
           acted' = acted,
           main' \in {"init", "worker", "startWorker"} =>
               main \in {"init", "worker", "startWorker"}
    PROVE  BallInv'
<1>1. current' = current
  BY DEF Post
<1>2. \A k \in Loopers : \A i \in Nat : BallAt(k, i)' => BallAt(k, i)
  BY <1>1, PostFacts DEF BallAt
<1>3. QED
  BY <1>2, BallKept

\* A thread throws the ball it has in hand.
LEMMA PostThrows ==
    ASSUME TypeOK, BallInv, NEW k \in Loopers, current[k] \in Ball(k), ~acted[k],
           acted' = [acted EXCEPT ![k] = TRUE],
           NEW l \in Loopers, NEW m \in Sent(l), Post(l, m), main' = main
    PROVE  BallInv'
<1>1. BallAt(k, 0) /\ main \notin {"init", "worker", "startWorker"}
  BY DEF BallAt, BallInv
<1>2. ASSUME NEW h \in Loopers, NEW i \in Nat, BallAt(h, i)'
      PROVE  h = l /\ i = Len(queue[l]) + 1
  <2>1. current' = current
    BY DEF Post
  <2>2. CASE i = 0
    <3>1. current[h] \in Ball(h) /\ ~acted'[h]
      BY <1>2, <2>1, <2>2 DEF BallAt
    <3>2. h # k /\ ~acted[h]
      BY <3>1 DEF TypeOK
    <3>3. BallAt(h, 0)
      BY <3>1, <3>2 DEF BallAt
    <3>4. QED
      BY <1>1, <3>2, <3>3 DEF BallInv
  <2>3. CASE i # 0
    <3>1. \/ BallAt(h, i)
          \/ h = l /\ i = Len(queue[l]) + 1
      BY <1>2, <2>3, PostFacts DEF BallAt
    <3>2. ~BallAt(h, i)
      BY <1>1, <2>3 DEF BallInv
    <3>3. QED
      BY <3>1, <3>2
  <2>4. QED
    BY <2>2, <2>3
<1>3. main' \notin {"init", "worker", "startWorker"}
  BY <1>1
<1>4. QED
  BY <1>2, <1>3 DEF BallInv

\* A thread takes the next message, or drops it.
LEMMA TakeMoves ==
    ASSUME TypeOK, BallInv, NEW l \in Loopers, Due(l), main' = main,
           \/ Take(l) /\ acted' = [acted EXCEPT ![l] = FALSE]
           \/ Discard(l) /\ acted' = acted
    PROVE  BallInv'
<1> DEFINE up == [k \in Loopers |-> IF k = l THEN 1 ELSE 0]
<1>1. up \in [Loopers -> {0, 1}]
  OBVIOUS
<1>2. /\ queue[l] # <<>> /\ queue' = [queue EXCEPT ![l] = Tail(@)] /\ current[l] = None
      /\ \A k \in Loopers : k # l => current'[k] = current[k] /\ acted'[k] = acted[k]
      /\ current'[l] \in {None, Head(queue[l])}
  BY DEF Take, Discard, Due, Idle, TypeOK
<1>3. ASSUME NEW k \in Loopers, NEW i \in Nat, BallAt(k, i)'
      PROVE  BallAt(k, i + up[k])
  <2>1. CASE k # l
    <3>1. up[k] = 0 /\ queue'[k] = queue[k]
      BY <1>2, <2>1, TakeFacts
    <3>2. QED
      BY <1>2, <1>3, <2>1, <3>1 DEF BallAt
  <2>2. CASE k = l /\ i = 0
    <3>1. None \notin Ball(l)
      BY ReflectorFacts DEF Ball
    <3>2. Head(queue[l]) \in Ball(l)
      BY <1>2, <1>3, <2>2, <3>1 DEF BallAt
    <3>3. QED
      BY <1>2, <2>2, <3>2, TakeFacts DEF BallAt
  <2>3. CASE k = l /\ i # 0
    <3>1. i <= Len(queue'[l]) /\ queue'[l][i] \in Ball(l)
      BY <1>3, <2>3 DEF BallAt
    <3>2. i + 1 <= Len(queue[l]) /\ queue'[l][i] = queue[l][i + 1]
      BY <1>2, <2>3, <3>1, TakeFacts
    <3>3. QED
      BY <2>3, <3>1, <3>2 DEF BallAt
  <2>4. QED
    BY <2>1, <2>2, <2>3
<1> HIDE DEF up
<1>4. QED
  BY <1>1, <1>3, BallsStay

LEMMA MainBall == TypeOK /\ BallInv /\ MainSteps => BallInv'
<1> SUFFICES ASSUME TypeOK, BallInv, MainSteps PROVE BallInv'
  OBVIOUS
<1> USE ReflectorFacts DEF At, object
<1>1. ASSUME UNCHANGED <<queue, current, acted>>,
             main' \in {"init", "worker", "startWorker"} =>
                 main \in {"init", "worker", "startWorker"}
      PROVE  BallInv'
  BY <1>1, BallKept DEF BallAt
<1>2. CASE InitTester \/ InitWorker
  BY <1>1, <1>2 DEF InitTester, InitWorker, Begin
<1>3. CASE StartWorker
  <2>1. /\ main = "startWorker" /\ main' = "start" /\ Post("worker", "start")
        /\ acted' = acted /\ current' = current
    BY <1>3 DEF StartWorker, Post
  <2>2. PICK n \in Nat : n = Len(queue["worker"]) + 1
    BY DEF TypeOK
  <2>3. ASSUME NEW l \in Loopers, NEW i \in Nat, BallAt(l, i)'
        PROVE  l = "worker" /\ i = n
    <3>1. ~BallAt(l, i)
      BY <2>1 DEF BallInv
    <3>2. BallAt(l, i) \/ (l = "worker" /\ i = n)
      BY <2>1, <2>2, <2>3, PostFacts DEF BallAt, Sent
    <3>3. QED
      BY <3>1, <3>2
  <2>4. main' \notin {"init", "worker", "startWorker"}
    BY <2>1
  <2>5. QED
    BY <2>3, <2>4, BallThrown
<1>4. CASE Start
  BY <1>4, PostKeeps DEF Start, Sent, Ball
<1>5. CASE StopWorker
  BY <1>5, PostKeeps DEF StopWorker, Sent, Ball
<1>6. CASE UnregisterWorker \/ StopLooper \/ JoinWorker
  BY <1>1, <1>6 DEF UnregisterWorker, Unregister, StopLooper, RequestStop, JoinWorker, looper
<1>7. CASE Stop
  BY <1>7, PostKeeps DEF Stop, Sent, Ball
<1>8. CASE Clear
  BY <1>1, <1>8 DEF Clear, looper
<1>9. CASE UnregisterReflector \/ StopReflector \/ JoinReflector
  BY <1>1, <1>9 DEF UnregisterReflector, Unregister, StopReflector, RequestStop, JoinReflector,
                    looper
<1>10. QED
  BY <1>2, <1>3, <1>4, <1>5, <1>6, <1>7, <1>8, <1>9 DEF MainSteps

LEMMA ThreadBall == TypeOK /\ BallInv /\ (TesterSteps \/ WorkerSteps) => BallInv'
<1> SUFFICES ASSUME TypeOK, BallInv, TesterSteps \/ WorkerSteps PROVE BallInv'
  OBVIOUS
<1> USE ReflectorFacts DEF object
<1>1. CASE DeliverToTester \/ DropForTester
  BY <1>1, TakeMoves DEF DeliverToTester, DropForTester
<1>2. CASE DeliverToWorker \/ DropForWorker
  BY <1>2, TakeMoves DEF DeliverToWorker, DropForWorker
<1>3. ASSUME NEW l \in Loopers, main' = main, queue' = queue,
             current' = current \/ current' = [current EXCEPT ![l] = None],
             acted' = acted \/ acted' = [acted EXCEPT ![l] = TRUE]
      PROVE  BallInv'
  <2>1. None \notin Ball(l)
    BY DEF Ball
  <2>2. \A k \in Loopers : \A i \in Nat : BallAt(k, i)' => BallAt(k, i)
    BY <1>3, <2>1 DEF BallAt, TypeOK
  <2>3. QED
    BY <1>3, <2>2, BallKept
<1>4. CASE HandleByTester
  <2>1. CASE current["reflector"] = "write"
    BY <1>4, <2>1, PostThrows DEF HandleByTester, Sent, Ball
  <2>2. CASE current["reflector"] # "write"
    BY <1>3, <1>4, <2>2 DEF HandleByTester, looper
  <2>3. QED
    BY <2>1, <2>2
<1>5. CASE HandleByWorker
  <2>1. CASE current["worker"] = "start"
    <3>1. Post("worker", "read")
      BY <1>5, <2>1 DEF HandleByWorker
    <3>2. QED
      BY <1>5, <2>1, <3>1, PostThrows DEF HandleByWorker, Sent, Ball
  <2>2. CASE current["worker"] = "read"
    <3>1. Post("reflector", "write")
      BY <1>5, <2>2 DEF HandleByWorker
    <3>2. QED
      BY <1>5, <2>2, <3>1, PostThrows DEF HandleByWorker, Sent, Ball
  <2>3. CASE current["worker"] \notin {"start", "read"}
    BY <1>3, <1>5, <2>3 DEF HandleByWorker, looper
  <2>4. QED
    BY <2>1, <2>2, <2>3
<1>6. CASE ReturnFromTester
  BY <1>3, <1>6 DEF ReturnFromTester
<1>7. CASE ReturnFromWorker
  BY <1>3, <1>7 DEF ReturnFromWorker, Finish
<1>8. ASSUME NEW l \in Loopers, ThreadRuns(l) \/ ThreadExits(l)
      PROVE  BallInv'
  BY <1>3, <1>8 DEF ThreadRuns, Run, ThreadExits, Exit
<1>9. QED
  BY <1>1, <1>2, <1>4, <1>5, <1>6, <1>7, <1>8 DEF TesterSteps, WorkerSteps

LEMMA NextBall == TypeOK /\ BallInv /\ [Next]_vars => BallInv'
<1> SUFFICES ASSUME TypeOK, BallInv, [Next]_vars PROVE BallInv'
  OBVIOUS
<1>1. CASE UNCHANGED vars
  BY <1>1 DEF vars, looper, BallInv, BallAt
<1>2. QED
  BY <1>1, MainBall, ThreadBall DEF Next, Over

(***************************************************************************)
(* At most one read or write is queued or being handled: the worker's kick *)
(* counts as the ball from the moment main posts it.                       *)
(***************************************************************************)
THEOREM PingPong == Spec => []OneBall
<1>1. ASSUME TypeOK, BallInv PROVE OneBall
  <2>1. ASSUME NEW x \in Queued
        PROVE  \E l \in Loopers, i \in Nat \ {0} : x = <<l, i>> /\ BallAt(l, i)
    <3>1. PICK l \in Loopers : x \in {<<l, i>> : i \in QueuedOf(l, {"read", "write"})}
      BY <2>1 DEF Queued
    <3>2. PICK i \in 1 .. Len(queue[l]) : x = <<l, i>> /\ queue[l][i] \in {"read", "write"}
      BY <3>1 DEF QueuedOf
    <3>3. queue[l][i] \in Sent(l) /\ i \in Nat \ {0} /\ i <= Len(queue[l])
      BY <1>1, <3>2 DEF TypeOK
    <3>4. QED
      BY <3>2, <3>3, ReflectorFacts DEF BallAt, Sent, Ball
  <2>2. ASSUME NEW l \in Playing
        PROVE  l \in Loopers /\ BallAt(l, 0)
    BY <1>1, <2>2, ReflectorFacts DEF Playing, BallAt, TypeOK, Sent, Ball
  <2>3. \A x, y \in Queued : x = y
    BY <1>1, <2>1 DEF BallInv
  <2>4. \A l, k \in Playing : l = k
    BY <1>1, <2>2 DEF BallInv
  <2>5. Queued = {} \/ Playing = {}
    BY <1>1, <2>1, <2>2 DEF BallInv
  <2>6. ASSUME NEW S, \A x, y \in S : x = y
        PROVE  Cardinality(S) \in {0, 1} /\ (S = {} => Cardinality(S) = 0)
    <3>1. S = {} \/ \E x : S = {x}
      BY <2>6
    <3>2. QED
      BY <3>1, FS_EmptySet, FS_Singleton
  <2>7. QED
    BY <2>3, <2>4, <2>5, <2>6 DEF OneBall
<1>2. Init => TypeOK /\ LifeInv /\ BallInv
  BY InitLife
<1>3. TypeOK /\ LifeInv /\ BallInv /\ [Next]_vars => (TypeOK /\ LifeInv /\ BallInv)'
  BY NextLife, NextBall
<1>4. QED
  BY <1>1, <1>2, <1>3, PTL DEF Spec

(***************************************************************************)
(* A message is handled by an object that is alive, whichever thread       *)
(* destroys the tester and whenever.                                       *)
(***************************************************************************)
THEOREM Alive == Spec => []HandlersAlive
<1>1. LifeInv => HandlersAlive
  BY DEF LifeInv, HandlersAlive
<1>2. Init => TypeOK /\ LifeInv
  BY InitLife
<1>3. TypeOK /\ LifeInv /\ [Next]_vars => (TypeOK /\ LifeInv)'
  BY NextLife
<1>4. QED
  BY <1>1, <1>2, <1>3, PTL DEF Spec

-----------------------------------------------------------------------------
(***************************************************************************)
(* ALooperTester, which has a looper of its own and more to tell main.     *)
(***************************************************************************)
VARIABLES delayed, reply, handled

TesterMessages == {"start", "read", "wait", "other", "mesg", "stop"}

T == INSTANCE ALooperTester WITH Loopers <- {"tester"}, Messages <- TesterMessages

\* What is queued, what was handled, and both.
Pending == queue["tester"]
Done    == {handled[i] : i \in 1 .. Len(handled)}
Known   == Done \cup {Pending[i] : i \in 1 .. Len(Pending)}

\* While the handler is registered and owned, what is posted is delivered.
Hears == registered["tester"] /\ owners # {}

TestTypeOK ==
    /\ queue \in [{"tester"} -> Seq(TesterMessages)] /\ handled \in Seq(TesterMessages)
    /\ registered \in [{"tester"} -> BOOLEAN] /\ stopping \in [{"tester"} -> BOOLEAN]
    /\ current \in [{"tester"} -> TesterMessages \cup {None}] /\ acted \in BOOLEAN

\* The queue goes on where what was handled ends.
GoesOn ==
    \A j \in 1 .. Len(Pending) :
        /\ Pending[j] \notin Done /\ \A i \in 1 .. j - 1 : Pending[i] # Pending[j]
        /\ \A m \in TesterMessages : <<m, Pending[j]>> \in T!Follows =>
               m \in Done \/ \E i \in 1 .. j - 1 : Pending[i] = m

\* What was handled is in the order of posting.
Ordered ==
    \A j \in 1 .. Len(handled) :
        /\ \A i \in 1 .. j - 1 : handled[i] # handled[j]
        /\ \A m \in TesterMessages : <<m, handled[j]>> \in T!Follows =>
                                  \E i \in 1 .. j - 1 : handled[i] = m

\* Where main, the delay and the handler are tells what was posted.
Accounted ==
    /\ "start" \in Known <=> main \notin {"start", "post"}
    /\ "wait"  \in Known <=> main \notin {"start", "post", "read", "wait"}
    /\ "other" \in Known <=> main \notin {"start", "post", "read", "wait", "await", "other"}
    /\ "stop"  \in Known =>
           main \notin {"start", "post", "read", "wait", "await", "other", "stop"}
    /\ "read"  \in Known => delayed = "due"
    /\ "mesg"  \in Known => "other" \in Done /\ (current["tester"] = "other" => acted)

StartInv ==
    /\ main = "start" => handled = <<>> /\ Pending = <<>> /\ owners = {} /\ current["tester"] = None
    /\ main \in {"start", "post", "read"} => delayed = "none"

AnswerInv ==
    /\ current["tester"] # None => current["tester"] \in Done
    /\ reply = "posted" \/ main \notin {"start", "post", "read", "wait", "await"} => "wait" \in Done

TestInv == TestTypeOK /\ StartInv /\ AnswerInv /\ Ordered /\ (Hears => GoesOn /\ Accounted)

-----------------------------------------------------------------------------
LEMMA Enqueue ==
    ASSUME TestTypeOK, GoesOn, NEW m \in TesterMessages, m \notin Known,
           \A p \in TesterMessages : <<p, m>> \in T!Follows => p \in Known,
           queue' = [queue EXCEPT !["tester"] = Append(@, m)], handled' = handled
    PROVE  GoesOn' /\ Known' = Known \cup {m} /\ Done' = Done
<1>1. Pending \in Seq(TesterMessages) /\ Pending' = Append(Pending, m) /\ Len(Pending) \in Nat
  BY DEF TestTypeOK, Pending
<1>2. /\ Len(Pending') = Len(Pending) + 1 /\ Pending'[Len(Pending) + 1] = m
      /\ \A i \in 1 .. Len(Pending) : Pending'[i] = Pending[i]
  BY <1>1
<1>3. Done' = Done
  BY DEF Done
<1>4. Known' = Known \cup {m}
  BY <1>1, <1>2, <1>3 DEF Known
<1>5. ASSUME NEW j \in 1 .. Len(Pending')
      PROVE  /\ Pending'[j] \notin Done /\ \A i \in 1 .. j - 1 : Pending'[i] # Pending'[j]
             /\ \A p \in TesterMessages : <<p, Pending'[j]>> \in T!Follows =>
                    p \in Done \/ \E i \in 1 .. j - 1 : Pending'[i] = p
  <2>1. CASE j \in 1 .. Len(Pending)
    <3>1. Pending'[j] = Pending[j] /\ \A i \in 1 .. j - 1 : Pending'[i] = Pending[i]
      BY <1>1, <1>2, <2>1
    <3>2. /\ Pending[j] \notin Done /\ \A i \in 1 .. j - 1 : Pending[i] # Pending[j]
          /\ \A p \in TesterMessages : <<p, Pending[j]>> \in T!Follows =>
                 p \in Done \/ \E i \in 1 .. j - 1 : Pending[i] = p
      BY <2>1 DEF GoesOn
    <3>3. QED
      BY <3>1, <3>2
  <2>2. CASE j = Len(Pending) + 1
    <3>1. 1 .. j - 1 = 1 .. Len(Pending) /\ Pending'[j] = m
      BY <1>1, <1>2, <2>2
    <3>2. QED
      BY <1>2, <3>1 DEF Known
  <2>3. QED
    BY <1>1, <1>2, <2>1, <2>2
<1>6. QED
  BY <1>3, <1>4, <1>5 DEF GoesOn

LEMMA Dequeue ==
    ASSUME TestTypeOK, GoesOn, Ordered, Pending # <<>>,
           queue' = [queue EXCEPT !["tester"] = Tail(@)],
           handled' = Append(handled, Head(queue["tester"]))
    PROVE  /\ GoesOn' /\ Ordered' /\ Known' = Known
           /\ Head(Pending) \notin Done /\ Done' = Done \cup {Head(Pending)}
<1>1. PICK head \in TesterMessages : head = Head(Pending)
  BY DEF TestTypeOK, Pending
<1>2. PICK n \in Nat : n = Len(handled)
  BY DEF TestTypeOK
<1>3. /\ Pending \in Seq(TesterMessages) /\ Pending' = Tail(Pending)
      /\ handled' = Append(handled, head) /\ handled \in Seq(TesterMessages)
  BY <1>1 DEF TestTypeOK, Pending
<1>4. /\ Len(Pending) \in Nat \ {0} /\ Len(Pending') = Len(Pending) - 1 /\ Pending[1] = head
      /\ \A i \in 1 .. Len(Pending) - 1 : Pending'[i] = Pending[i + 1]
  BY <1>1, <1>3
<1>5. /\ Len(handled') = n + 1 /\ handled'[n + 1] = head
      /\ \A i \in 1 .. n : handled'[i] = handled[i]
  BY <1>2, <1>3
<1>6. Done' = Done \cup {head}
  BY <1>2, <1>5 DEF Done
<1>7. head \notin Done /\ \A m \in TesterMessages : <<m, head>> \in T!Follows => m \in Done
  BY <1>4 DEF GoesOn
<1>8. Known' = Known
  <2>1. ASSUME NEW x \in Known PROVE x \in Known'
    <3>1. CASE x \in Done
      BY <1>6, <3>1 DEF Known
    <3>2. ASSUME NEW i \in 1 .. Len(Pending), x = Pending[i] PROVE x \in Known'
      <4>1. CASE i = 1
        BY <1>4, <1>6, <3>2, <4>1 DEF Known
      <4>2. CASE i # 1
        <5>1. i - 1 \in 1 .. Len(Pending) - 1 /\ (i - 1) + 1 = i
          BY <1>4, <4>2
        <5>2. Pending'[i - 1] = x /\ i - 1 \in 1 .. Len(Pending')
          BY <1>4, <3>2, <5>1
        <5>3. QED
          BY <5>2 DEF Known
      <4>3. QED
        BY <4>1, <4>2
    <3>3. QED
      BY <2>1, <3>1, <3>2 DEF Known
  <2>2. ASSUME NEW x \in Known' PROVE x \in Known
    <3>1. CASE x \in Done'
      BY <1>4, <1>6, <3>1 DEF Known
    <3>2. ASSUME NEW i \in 1 .. Len(Pending'), x = Pending'[i] PROVE x \in Known
      <4>1. i + 1 \in 1 .. Len(Pending) /\ x = Pending[i + 1]
        BY <1>4, <3>2
      <4>2. QED
        BY <4>1 DEF Known
    <3>3. QED
      BY <2>2, <3>1, <3>2 DEF Known
  <2>3. QED
    BY <2>1, <2>2
<1>9. GoesOn'
  <2>1. SUFFICES ASSUME NEW j \in 1 .. Len(Pending')
                 PROVE  /\ Pending'[j] \notin Done'
                        /\ \A i \in 1 .. j - 1 : Pending'[i] # Pending'[j]
                        /\ \A m \in TesterMessages : <<m, Pending'[j]>> \in T!Follows =>
                               m \in Done' \/ \E i \in 1 .. j - 1 : Pending'[i] = m
    BY DEF GoesOn
  <2>2. j + 1 \in 1 .. Len(Pending) /\ Pending'[j] = Pending[j + 1] /\ 1 \in 1 .. (j + 1) - 1
    BY <1>4
  <2>3. \A i \in 1 .. j - 1 : i + 1 \in 1 .. (j + 1) - 1 /\ Pending'[i] = Pending[i + 1]
    BY SMTT(30), <1>4
  <2>4. Pending'[j] \notin Done'
    BY <1>4, <1>6, <2>2 DEF GoesOn
  <2>5. \A i \in 1 .. j - 1 : Pending'[i] # Pending'[j]
    BY <2>2, <2>3 DEF GoesOn
  <2>6. ASSUME NEW m \in TesterMessages, <<m, Pending'[j]>> \in T!Follows, m \notin Done'
        PROVE  \E i \in 1 .. j - 1 : Pending'[i] = m
    <3>1. PICK i \in 1 .. (j + 1) - 1 : Pending[i] = m
      BY <1>6, <2>2, <2>6 DEF GoesOn
    <3>2. i # 1
      BY <1>4, <1>6, <2>6, <3>1
    <3>3. i - 1 \in 1 .. j - 1 /\ (i - 1) + 1 = i
      BY <3>2
    <3>4. QED
      BY <2>3, <3>1, <3>3
  <2>7. QED
    BY <2>4, <2>5, <2>6
<1>10. Ordered'
  <2>1. SUFFICES ASSUME NEW j \in 1 .. n + 1
                 PROVE  /\ \A i \in 1 .. j - 1 : handled'[i] # handled'[j]
                        /\ \A m \in TesterMessages : <<m, handled'[j]>> \in T!Follows =>
                               \E i \in 1 .. j - 1 : handled'[i] = m
    BY <1>5 DEF Ordered
  <2>2. \A i \in 1 .. j - 1 : handled'[i] = handled[i]
    BY <1>5
  <2>3. CASE j \in 1 .. n
    BY <1>2, <1>5, <2>2, <2>3 DEF Ordered
  <2>4. CASE j = n + 1
    <3>1. handled'[j] = head /\ 1 .. j - 1 = 1 .. n
      BY <1>5, <2>4
    <3>2. QED
      BY <1>2, <1>7, <2>2, <3>1 DEF Done
  <2>5. j \in 1 .. n \/ j = n + 1
    BY <1>2
  <2>6. QED
    BY <2>3, <2>4, <2>5
<1>11. QED
  BY <1>1, <1>6, <1>7, <1>8, <1>9, <1>10

\* m is posted, at a time when it is m's turn if anybody hears it.
LEMMA PostHeard ==
    ASSUME TestInv, NEW m \in TesterMessages, T!Post("tester", m), UNCHANGED <<handled, owners>>,
           Hears /\ Accounted =>
               m \notin Known /\ \A p \in TesterMessages : <<p, m>> \in T!Follows => p \in Known,
           Hears /\ Accounted /\ Known' = Known \cup {m} /\ Done' = Done => Accounted',
           acted' \in BOOLEAN, main # "start", StartInv', AnswerInv'
    PROVE  TestInv'
<1>1. UNCHANGED <<registered, thread, stopping, current>>
  BY DEF T!Post
<1>2. queue' = IF registered["tester"] THEN [queue EXCEPT !["tester"] = Append(@, m)] ELSE queue
  BY DEF T!Post, T!Posted
<1>3. queue["tester"] \in Seq(TesterMessages)
  BY DEF TestInv, TestTypeOK
<1>4. queue' \in [{"tester"} -> Seq(TesterMessages)]
  BY <1>2, <1>3 DEF TestInv, TestTypeOK
<1>5. TestTypeOK'
  BY <1>1, <1>4 DEF TestInv, TestTypeOK
<1>6. ASSUME Hears PROVE GoesOn' /\ Accounted'
  <2>1. queue' = [queue EXCEPT !["tester"] = Append(@, m)]
    BY <1>2, <1>6 DEF Hears
  <2>2. TestTypeOK /\ GoesOn /\ Accounted
    BY <1>6 DEF TestInv
  <2>3. GoesOn' /\ Known' = Known \cup {m} /\ Done' = Done
    BY <1>6, <2>1, <2>2, Enqueue
  <2>4. QED
    BY <1>6, <2>2, <2>3
<1>7. Hears' => Hears
  BY <1>1 DEF Hears
<1>8. Ordered'
  BY DEF TestInv, Ordered
<1>9. QED
  BY <1>5, <1>6, <1>7, <1>8 DEF TestInv

\* Nothing is posted or handled; what is queued stays, or is dropped unheard.
LEMMA Unheard ==
    ASSUME TestInv, Hears' => Hears /\ queue' = queue, handled' = handled,
           TestTypeOK', StartInv', AnswerInv',
           Hears' /\ Accounted /\ Known' = Known /\ Done' = Done => Accounted'
    PROVE  TestInv'
<1>1. Ordered' /\ Done' = Done
  BY DEF TestInv, Ordered, Done
<1>2. ASSUME Hears' PROVE GoesOn' /\ Accounted'
  <2>1. Pending' = Pending /\ Known' = Known
    BY <1>1, <1>2 DEF Pending, Known
  <2>2. GoesOn'
    BY <1>1, <1>2, <2>1 DEF TestInv, GoesOn
  <2>3. QED
    BY <1>1, <1>2, <2>1, <2>2 DEF TestInv
<1>3. QED
  BY <1>1, <1>2 DEF TestInv

LEMMA MainTest == TestInv /\ T!MainSteps => TestInv'
<1> SUFFICES ASSUME TestInv, T!MainSteps PROVE TestInv'
  OBVIOUS
<1> USE DEF T!At, T!object, T!sent, T!looper
<1>1. CASE T!Register
  <2>1. /\ handled = <<>> /\ queue["tester"] = <<>> /\ current["tester"] = None
        /\ delayed = "none" /\ main = "start"
    BY <1>1 DEF T!Register, TestInv, StartInv, Pending
  <2>2. UNCHANGED <<queue, stopping, current, acted, delayed, reply, handled>> /\ main' = "post"
    BY <1>1 DEF T!Register, T!Begin
  <2>3. Known' = {} /\ Done' = {} /\ Done = {}
    BY <2>1, <2>2 DEF Known, Done, Pending
  <2>4. TestTypeOK'
    BY <1>1, <2>2 DEF T!Register, T!Begin, TestInv, TestTypeOK
  <2>5. GoesOn' /\ Ordered'
    BY <2>1, <2>2 DEF GoesOn, Pending, Ordered
  <2>6. Accounted' /\ StartInv' /\ AnswerInv'
    BY <2>1, <2>2, <2>3 DEF Accounted, StartInv, AnswerInv, TestInv
  <2>7. QED
    BY <2>4, <2>5, <2>6 DEF TestInv
<1>2. ASSUME UNCHANGED handled, current' = current, reply' # "posted" \/ reply' = reply, AnswerInv,
             main' \in {"start", "post", "read", "wait", "await"}
                 \/ main \notin {"start", "post", "read", "wait", "await"} \/ reply = "posted"
      PROVE  AnswerInv'
  BY <1>2 DEF AnswerInv, Done
<1>3. CASE T!PostStart
  BY <1>2, <1>3, PostHeard
     DEF T!PostStart, T!Post, T!Follows, TesterMessages, TestInv, TestTypeOK, Accounted, StartInv
<1>4. CASE T!PostWait
  BY <1>2, <1>4, PostHeard
     DEF T!PostWait, T!Post, T!Follows, TesterMessages, TestInv, TestTypeOK, Accounted, StartInv
<1>5. CASE T!PostOther
  BY <1>2, <1>5, PostHeard
     DEF T!PostOther, T!Post, T!Follows, TesterMessages, TestInv, TestTypeOK, Accounted, StartInv
<1>6. CASE T!PostStop
  BY <1>2, <1>6, PostHeard
     DEF T!PostStop, T!Post, T!Follows, TesterMessages, TestInv, TestTypeOK, Accounted, StartInv
<1>7. CASE T!PostRead
  BY <1>2, <1>7, Unheard DEF T!PostRead, TestInv, TestTypeOK, Hears, Accounted, StartInv
<1>8. CASE T!Await
  BY <1>2, <1>8, Unheard DEF T!Await, TestInv, TestTypeOK, Hears, Accounted, StartInv
<1>9. CASE T!Clear
  BY <1>2, <1>9, Unheard DEF T!Clear, TestInv, TestTypeOK, Hears, Accounted, StartInv
<1>10. CASE T!UnregisterTester
  BY <1>2, <1>10, Unheard
     DEF T!UnregisterTester, T!Unregister, TestInv, TestTypeOK, Hears, Accounted, StartInv
<1>11. CASE T!StopLooper
  BY <1>2, <1>11, Unheard
     DEF T!StopLooper, T!RequestStop, TestInv, TestTypeOK, Hears, Accounted, StartInv
<1>12. CASE T!JoinLooper
  BY <1>2, <1>12, Unheard DEF T!JoinLooper, TestInv, TestTypeOK, Hears, Accounted, StartInv
<1>13. QED
  BY <1>1, <1>3, <1>4, <1>5, <1>6, <1>7, <1>8, <1>9, <1>10, <1>11, <1>12 DEF T!MainSteps

LEMMA LooperTest ==
    ASSUME None \notin TesterMessages, TestInv, T!LooperSteps \/ T!DelayOver
    PROVE  TestInv'
<1> USE DEF T!object, T!sent, T!looper
<1>1. CASE T!DelayOver
  <2>1. AnswerInv'
    BY <1>1 DEF T!DelayOver, T!Post, TestInv, AnswerInv, Done
  <2>2. QED
    BY <1>1, <2>1, PostHeard
       DEF T!DelayOver, T!Post, T!Follows, TesterMessages, TestInv, TestTypeOK, Accounted, StartInv
<1>2. CASE T!Deliver
  <2>1. /\ Pending # <<>> /\ Hears /\ queue' = [queue EXCEPT !["tester"] = Tail(@)]
        /\ handled' = Append(handled, Head(queue["tester"])) /\ acted' = FALSE
        /\ current' = [current EXCEPT !["tester"] = Head(queue["tester"])]
        /\ owners' = owners \cup {"tester"}
        /\ UNCHANGED <<registered, thread, stopping, main, tester, delayed, reply>>
    BY <1>2 DEF T!Deliver, T!Take, T!Due, T!Idle, Hears, Pending
  <2>2. TestTypeOK /\ GoesOn /\ Ordered /\ Accounted
    BY <2>1 DEF TestInv
  <2>3. /\ GoesOn' /\ Ordered' /\ Known' = Known
        /\ Head(Pending) \notin Done /\ Done' = Done \cup {Head(Pending)}
    BY <2>1, <2>2, Dequeue
  <2>4. current'["tester"] = Head(Pending)
    BY <2>1, <2>2 DEF TestTypeOK, Pending
  <2>5. TestTypeOK'
    <3>1. queue["tester"] \in Seq(TesterMessages) /\ queue["tester"] # <<>>
      BY <2>1, <2>2 DEF TestTypeOK, Pending
    <3>2. Head(queue["tester"]) \in TesterMessages /\ Tail(queue["tester"]) \in Seq(TesterMessages)
      BY <3>1
    <3>3. queue' \in [{"tester"} -> Seq(TesterMessages)] /\ handled' \in Seq(TesterMessages)
      BY <2>1, <2>2, <3>2 DEF TestTypeOK
    <3>4. current' \in [{"tester"} -> TesterMessages \cup {None}]
      BY <2>1, <2>2, <3>2 DEF TestTypeOK
    <3>5. QED
      BY <2>1, <2>2, <3>3, <3>4 DEF TestTypeOK
  <2>6. main # "start"
    BY <2>1 DEF TestInv, StartInv, Hears
  <2>7. StartInv' /\ AnswerInv'
    BY <2>1, <2>3, <2>4, <2>6 DEF TestInv, StartInv, AnswerInv
  <2>8. Accounted'
    BY <2>1, <2>2, <2>3, <2>4 DEF Accounted
  <2>9. QED
    BY <2>3, <2>5, <2>7, <2>8 DEF TestInv
<1>3. CASE T!Drop
  <2>1. /\ ~Hears /\ Pending # <<>> /\ queue' = [queue EXCEPT !["tester"] = Tail(@)]
        /\ UNCHANGED <<registered, thread, stopping, current, main, owners, acted, delayed, reply,
                       handled>>
    BY <1>3 DEF T!Drop, T!Discard, T!Due, T!Idle, Hears, Pending
  <2>2. TestTypeOK'
    BY <2>1 DEF TestInv, TestTypeOK, Pending
  <2>3. StartInv' /\ AnswerInv' /\ ~Hears'
    BY <2>1 DEF TestInv, StartInv, AnswerInv, Hears, Done
  <2>4. QED
    BY <2>1, <2>2, <2>3, Unheard
<1>4. CASE T!Handle
  <2>1. /\ current["tester"] # None /\ acted' = TRUE /\ ~acted
        /\ UNCHANGED <<main, owners, delayed, handled>> /\ current' = current
        /\ reply' = IF current["tester"] = "wait" THEN "posted" ELSE reply
    BY <1>4 DEF T!Handle, T!Post
  <2>2. StartInv' /\ AnswerInv' /\ main # "start"
    BY <2>1 DEF TestInv, StartInv, AnswerInv, Done
  <2>3. CASE current["tester"] = "other"
    <3>1. T!Post("tester", "mesg") /\ "other" \in Done
      BY <1>4, <2>1, <2>3 DEF T!Handle, TestInv, AnswerInv
    <3>2. QED
      BY <2>1, <2>2, <2>3, <3>1, PostHeard DEF T!Follows, TesterMessages, Accounted, Known
  <2>4. CASE current["tester"] # "other"
    <3>1. UNCHANGED <<queue, registered, thread, stopping>>
      BY <1>4, <2>4 DEF T!Handle
    <3>2. TestTypeOK' /\ Hears' = Hears
      BY <2>1, <3>1 DEF TestInv, TestTypeOK, Hears
    <3>3. QED
      BY <2>1, <2>2, <2>4, <3>1, <3>2, Unheard DEF Accounted
  <2>5. QED
    BY <2>3, <2>4
<1>5. CASE T!Return
  <2>1. /\ current["tester"] # None /\ current' = [current EXCEPT !["tester"] = None]
        /\ owners' \subseteq owners /\ UNCHANGED <<queue, thread, main, acted, delayed, reply, handled>>
        /\ registered' \in {registered, [registered EXCEPT !["tester"] = FALSE]}
        /\ stopping' \in {stopping, [stopping EXCEPT !["tester"] = TRUE]}
    BY <1>5 DEF T!Return
  <2>2. TestTypeOK' /\ current'["tester"] = None
    BY <2>1 DEF TestInv, TestTypeOK
  <2>3. StartInv' /\ AnswerInv'
    BY <2>1, <2>2 DEF TestInv, StartInv, AnswerInv, Done
  <2>4. Hears' => Hears
    BY <2>1 DEF TestInv, TestTypeOK, Hears
  <2>5. Hears' /\ Accounted /\ Known' = Known /\ Done' = Done => Accounted'
    BY <2>1, <2>2 DEF Accounted, TesterMessages
  <2>6. QED
    BY <2>1, <2>2, <2>3, <2>4, <2>5, Unheard
<1>6. CASE T!ThreadRuns \/ T!ThreadExits
  BY <1>6, Unheard DEF T!ThreadRuns, T!Run, T!ThreadExits, T!Exit, TestInv, TestTypeOK, StartInv, AnswerInv, Pending,
                       Hears, Accounted, Done
<1>7. QED
  BY <1>1, <1>2, <1>3, <1>4, <1>5, <1>6 DEF T!LooperSteps

LEMMA TestInductive ==
    ASSUME None \notin TesterMessages
    PROVE  (T!Init => TestInv) /\ (TestInv /\ [T!Next]_(T!vars) => TestInv')
<1>1. ASSUME T!Init PROVE TestInv
  <2>1. /\ queue = [l \in {"tester"} |-> <<>>] /\ registered = [l \in {"tester"} |-> FALSE]
        /\ stopping = [l \in {"tester"} |-> FALSE] /\ current = [l \in {"tester"} |-> None]
        /\ main = "start" /\ owners = {} /\ acted = FALSE /\ delayed = "none" /\ reply = "none"
        /\ handled = <<>>
    BY <1>1 DEF T!Init, T!LooperInit
  <2>2. TestTypeOK
    <3>1. queue \in [{"tester"} -> Seq(TesterMessages)] /\ handled \in Seq(TesterMessages)
      BY <2>1
    <3>2. QED
      BY <2>1, <3>1, Zenon DEF TestTypeOK
  <2>3. StartInv /\ AnswerInv /\ ~Hears
    BY <2>1 DEF StartInv, AnswerInv, Hears, Pending
  <2>4. Ordered
    BY <2>1 DEF Ordered
  <2>5. QED
    BY <2>2, <2>3, <2>4 DEF TestInv
<1>2. ASSUME TestInv, [T!Next]_(T!vars) PROVE TestInv'
  <2>1. CASE UNCHANGED T!vars
    <3>1. UNCHANGED <<queue, registered, thread, stopping, current, main, owners, acted, delayed, reply,
                     handled>>
      BY <2>1 DEF T!vars, T!looper, T!object, T!sent
    <3>2. QED
      BY <1>2, <3>1 DEF TestInv, TestTypeOK, StartInv, AnswerInv, Hears, GoesOn, Accounted,
                        Known, Done, Pending, Ordered
  <2>2. QED
    BY <1>2, <2>1, MainTest, LooperTest DEF T!Next, T!Over
<1>3. QED
  BY <1>1, <1>2

(***************************************************************************)
(* Messages without a delay are handled in the order main posts them, each *)
(* at most once, wherever the delayed and the nested one come in; and main *)
(* comes back from wait() only when what it posted has been handled.       *)
(***************************************************************************)
THEOREM PostOrder == ASSUME None \notin TesterMessages PROVE T!Spec => []T!InPostOrder
<1>1. T!Init => TestInv
  BY TestInductive
<1>2. TestInv /\ [T!Next]_(T!vars) => TestInv'
  BY TestInductive
<1>3. ASSUME TestInv, main \notin {"start", "post", "read", "wait", "await"}
      PROVE  \E i, j \in 1 .. Len(handled) : i < j /\ handled[i] = "start" /\ handled[j] = "wait"
  <2>1. PICK j \in 1 .. Len(handled) : handled[j] = "wait"
    BY <1>3 DEF TestInv, AnswerInv, Done
  <2>2. "start" \in TesterMessages /\ <<"start", "wait">> \in T!Follows
    BY DEF TesterMessages, T!Follows
  <2>3. PICK i \in 1 .. j - 1 : handled[i] = "start"
    BY <1>3, <2>1, <2>2 DEF TestInv, Ordered
  <2>4. i \in 1 .. Len(handled) /\ i < j
    BY <1>3, <2>1 DEF TestInv, TestTypeOK
  <2>5. QED
    BY <2>1, <2>3, <2>4
<1>4. TestInv => T!InPostOrder
  BY <1>3 DEF TestInv, Ordered, T!InPostOrder, T!WaitReturnsAnswered
<1>5. QED
  BY <1>1, <1>2, <1>4, PTL DEF T!Spec
=============================================================================

---------------------------- MODULE AtomicTester ----------------------------
(***************************************************************************)
(* AtomicTester.cpp: THREAD_COUNT threads line up behind a condition       *)
(* variable, main starts them all at once, and each runs ITERATION_COUNT   *)
(* rounds of operations on counters they share: with atomic instructions   *)
(* (USE_ATOMIC_TYPE 1 and 2) or under mutexes (3).                         *)
(***************************************************************************)
EXTENDS Integers, FiniteSets

CONSTANTS THREAD_COUNT, ITERATION_COUNT,
          Modes        \* subset of {"atomic", "mutex"}

ASSUME AtomicTesterAssumption ==
    /\ THREAD_COUNT \in Nat \ {0} /\ ITERATION_COUNT \in Nat \ {0}
    /\ Modes \subseteq {"atomic", "mutex"}

Thread == 0 .. THREAD_COUNT - 1
Free   == -1                         \* holder of a mutex nobody has

VARIABLES mode,             \* USE_ATOMIC_TYPE
          main,             \* where main() is
          waitLock,         \* holder of waitLock: a thread, THREAD_COUNT for main
          threadsStarted,
          spurious,         \* has pthread_cond_wait() returned without a broadcast?
          pc,               \* where each thread is
          step,             \* the operation of the round it is at, 1 to 5
          iter,             \* the rounds it has done
          val,              \* its local copy of a counter
          total,            \* incTest, decTest, addTest, casTest
          lock              \* holders of incLock, decLock, addLock

line == <<main, waitLock, threadsStarted, spurious>>
vars == <<mode, main, waitLock, threadsStarted, spurious, pc, step, iter, val, total, lock>>

\* pthread_create() may fail for any of them: that is only logged.
Init ==
    /\ mode \in Modes
    /\ main = "check" /\ waitLock = Free /\ threadsStarted = 0 /\ spurious = FALSE
    /\ pc \in [Thread -> {"lock", "failed"}]
    /\ step = [t \in Thread |-> 1]
    /\ iter = [t \in Thread |-> 0]
    /\ val = [t \in Thread |-> 0]
    /\ total = [c \in {"inc", "dec", "add", "cas"} |-> 0]
    /\ lock = [c \in {"inc", "dec", "add"} |-> Free]

Go(t, at) == pc' = [pc EXCEPT ![t] = at]

\* The five operations of a round: the counter, what it adds, its mutex.
Counter(n)  == <<"inc", "dec", "add", "cas", "cas">>[n]
Delta(t, n) == <<1, -1, (t % 2) + 1, 3, -1>>[n]
Mutex(n)    == <<"inc", "dec", "add", "add", "add">>[n]
IsCas(n)    == n >= 4

-----------------------------------------------------------------------------
(***************************************************************************)
(* The starting line.                                                      *)
(***************************************************************************)
Lock(t) ==
    /\ pc[t] = "lock" /\ waitLock = Free
    /\ waitLock' = t
    /\ Go(t, "count")
    /\ UNCHANGED <<mode, spurious, main, threadsStarted, step, iter, val, total, lock>>

Count(t) ==
    /\ pc[t] = "count"
    /\ threadsStarted' = threadsStarted + 1
    /\ Go(t, "wait")
    /\ UNCHANGED <<mode, spurious, main, waitLock, step, iter, val, total, lock>>

\* pthread_cond_wait(): gives the mutex back and sleeps, in one step
Wait(t) ==
    /\ pc[t] = "wait"
    /\ waitLock' = Free
    /\ Go(t, "asleep")
    /\ UNCHANGED <<mode, spurious, main, threadsStarted, step, iter, val, total, lock>>

\* POSIX lets pthread_cond_wait() return without a broadcast, and line 187 does
\* not test threadsStarted again.
SpuriousWakeup(t) ==
    /\ pc[t] = "asleep"
    /\ Go(t, "woken")
    /\ spurious' = TRUE
    /\ UNCHANGED <<mode, main, waitLock, threadsStarted, step, iter, val, total, lock>>

\* has to get the mutex back to return from pthread_cond_wait(), and unlocks it
Leave(t) ==
    /\ pc[t] = "woken" /\ waitLock = Free
    /\ Go(t, "op")
    /\ UNCHANGED <<mode, line, step, iter, val, total, lock>>

\* Mutation of MainLock: threadsStarted is read without the mutex.
MainLockFree ==
    /\ main = "check"
    /\ main' = "test"
    /\ UNCHANGED <<mode, spurious, waitLock, threadsStarted, pc, step, iter, val, total, lock>>

MainLock ==
    /\ main = "check" /\ waitLock = Free
    /\ waitLock' = THREAD_COUNT
    /\ main' = "test"
    /\ UNCHANGED <<mode, spurious, threadsStarted, pc, step, iter, val, total, lock>>

\* Mutation of Broadcast: main starts the others one thread too early.
BroadcastEarly ==
    /\ main = "test" /\ threadsStarted >= THREAD_COUNT - 1
    /\ pc' = [t \in Thread |-> IF pc[t] = "asleep" THEN "woken" ELSE pc[t]]
    /\ waitLock' = Free
    /\ main' = "join"
    /\ UNCHANGED <<mode, spurious, threadsStarted, step, iter, val, total, lock>>

Broadcast ==
    /\ main = "test" /\ threadsStarted = THREAD_COUNT
    /\ pc' = [t \in Thread |-> IF pc[t] = "asleep" THEN "woken" ELSE pc[t]]
    /\ waitLock' = Free
    /\ main' = "join"
    /\ UNCHANGED <<mode, spurious, threadsStarted, step, iter, val, total, lock>>

\* unlock, usleep(), and once more
NotYet ==
    /\ main = "test" /\ threadsStarted # THREAD_COUNT
    /\ waitLock' = Free
    /\ main' = "check"
    /\ UNCHANGED <<mode, spurious, threadsStarted, pc, step, iter, val, total, lock>>

Join ==
    /\ main = "join" /\ \A t \in Thread : pc[t] = "done"
    /\ main' = "joined"
    /\ UNCHANGED <<mode, spurious, waitLock, threadsStarted, pc, step, iter, val, total, lock>>

-----------------------------------------------------------------------------
(***************************************************************************)
(* One round of doAtomicTest().                                            *)
(***************************************************************************)
Advance(t) ==
    IF step[t] < 5
    THEN step' = [step EXCEPT ![t] = @ + 1] /\ Go(t, "op") /\ UNCHANGED iter
    ELSE /\ step' = [step EXCEPT ![t] = 1]
         /\ iter' = [iter EXCEPT ![t] = @ + 1]
         /\ Go(t, IF iter[t] + 1 = ITERATION_COUNT THEN "done" ELSE "op")

AddTo(t, old) == total' = [total EXCEPT ![Counter(step[t])] = old + Delta(t, step[t])]

\* android_atomic_inc, _dec and _add, and their bionic counterparts
FetchAndAdd(t) ==
    /\ pc[t] = "op" /\ mode = "atomic" /\ ~IsCas(step[t])
    /\ AddTo(t, total[Counter(step[t])])
    /\ Advance(t)
    /\ UNCHANGED <<mode, line, val, lock>>

\* val = casTest, without a lock in either mode
ReadCas(t) ==
    /\ pc[t] = "op" /\ IsCas(step[t])
    /\ val' = [val EXCEPT ![t] = total["cas"]]
    /\ Go(t, "cas")
    /\ UNCHANGED <<mode, line, step, iter, total, lock>>

\* android_atomic_release_cas and android_atomic_acquire_cas
Cas(t) ==
    /\ pc[t] = "cas" /\ mode = "atomic"
    /\ IF total["cas"] = val[t] THEN AddTo(t, val[t]) /\ Advance(t)
       ELSE Go(t, "op") /\ UNCHANGED <<step, iter, total>>
    /\ UNCHANGED <<mode, line, val, lock>>

\* Mutation of LockCounter: TEST_MUTEX not defined.
LockCounterOff(t) ==
    /\ mode = "mutex"
    /\ pc[t] = (IF IsCas(step[t]) THEN "cas" ELSE "op")
    /\ Go(t, "locked")
    /\ UNCHANGED <<mode, line, step, iter, val, total, lock>>

\* incr(), decr(), add() and compareAndSwap() take the mutex first.
LockCounter(t) ==
    /\ mode = "mutex"
    /\ pc[t] = (IF IsCas(step[t]) THEN "cas" ELSE "op")
    /\ lock[Mutex(step[t])] = Free
    /\ lock' = [lock EXCEPT ![Mutex(step[t])] = t]
    /\ Go(t, "locked")
    /\ UNCHANGED <<mode, line, step, iter, val, total>>

UnlockCounter(t) == lock' = [lock EXCEPT ![Mutex(step[t])] = Free]

\* The read of incTest++ and the like; compareAndSwap() compares with val.
Load(t) ==
    /\ pc[t] = "locked"
    /\ IF IsCas(step[t]) /\ total["cas"] # val[t]
       THEN Go(t, "op") /\ UnlockCounter(t) /\ UNCHANGED val
       ELSE /\ Go(t, "store") /\ UNCHANGED lock
            /\ val' = [val EXCEPT ![t] = total[Counter(step[t])]]
    /\ UNCHANGED <<mode, line, step, iter, total>>

Store(t) ==
    /\ pc[t] = "store"
    /\ AddTo(t, val[t])
    /\ UnlockCounter(t)
    /\ Advance(t)
    /\ UNCHANGED <<mode, line, val>>

Acquire(t) == Lock(t) \/ Leave(t)
Operate(t) == FetchAndAdd(t) \/ ReadCas(t) \/ Cas(t) \/ LockCounter(t) \/ Load(t) \/ Store(t)

\* The program is over.
Over == main = "joined" /\ UNCHANGED vars

Next ==
    \/ \E t \in Thread : Acquire(t) \/ Count(t) \/ Wait(t) \/ SpuriousWakeup(t)
    \/ MainLock \/ Broadcast \/ NotYet \/ Join
    \/ \E t \in Thread : Operate(t)
    \/ Over

Spec == Init /\ [][Next]_vars

\* Every thread keeps running.  waitLock is taken by main again and again, so
\* its waiters need strong fairness: main sleeps 100ms without it each time.
FairSpec ==
    /\ Spec
    /\ SF_vars(MainLock) /\ WF_vars(Broadcast) /\ WF_vars(NotYet) /\ WF_vars(Join)
    /\ \A t \in Thread : /\ SF_vars(Acquire(t))
                         /\ WF_vars(Count(t)) /\ WF_vars(Wait(t)) /\ WF_vars(Operate(t))

-----------------------------------------------------------------------------
Running == {t \in Thread : pc[t] \in {"op", "cas", "locked", "store", "done"}}

\* No wakeup is lost: main reads threadsStarted under waitLock, and
\* pthread_cond_wait() gives the lock back only when it sleeps, so whom the
\* broadcast does not wake is past the line already.
AllWoken ==
    main \in {"join", "joined"} =>
        \A t \in Thread : pc[t] \notin {"failed", "lock", "count", "wait", "asleep"}

\* "wait for all the threads to reach the starting line" (AtomicTester.cpp:241):
\* as long as no wakeup is spurious, no thread operates before every thread is
\* there and main has said so; and main leaves nobody behind (184-188, 241-250).
StartTogether ==
    /\ ~spurious /\ Running # {} =>
           main \in {"join", "joined"} /\ threadsStarted = THREAD_COUNT
    /\ AllWoken

\* The rounds in which a thread has done its n-th operation, as <<thread, round>>.
Done(n) ==
    {x \in Thread \X (0 .. ITERATION_COUNT - 1) :
        x[2] < iter[x[1]] \/ (x[2] = iter[x[1]] /\ n < step[x[1]])}

\* No operation is lost or done twice, at any moment, whichever of incr(),
\* decr(), add() and compareAndSwap() interleave: casTest is only safe because
\* it shares addLock (AtomicTester.cpp:115-143).  When main has joined the
\* threads this is the list of results of AtomicTester.cpp:269-276.
NothingLost ==
    /\ total["inc"] = Cardinality(Done(1))
    /\ total["dec"] = -Cardinality(Done(2))
    /\ total["add"] = Cardinality(Done(3)) + Cardinality({x \in Done(3) : x[1] % 2 = 1})
    /\ total["cas"] = 3 * Cardinality(Done(4)) - Cardinality(Done(5))

\* No broadcast is lost and no retry goes on for ever: if every thread could be
\* created, main joins them all.
Finishes == (\A t \in Thread : pc[t] # "failed") ~> main = "joined"
=============================================================================

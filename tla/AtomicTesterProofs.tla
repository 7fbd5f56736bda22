------------------------- MODULE AtomicTesterProofs -------------------------
(***************************************************************************)
(* AtomicTester for any number of threads and rounds: they start together, *)
(* every operation is atomic, and none is lost or done twice.              *)
(***************************************************************************)
EXTENDS AtomicTester, FiniteSetTheorems, TLAPS

Counters == {"inc", "dec", "add", "cas"}
Mutexes  == {"inc", "dec", "add"}
AtLine   == {"lock", "count", "wait", "asleep", "woken", "failed"}

TypeOK ==
    /\ mode \in {"atomic", "mutex"}
    /\ main \in {"check", "test", "join", "joined"}
    /\ waitLock \in Thread \cup {Free, THREAD_COUNT}
    /\ threadsStarted \in Nat
    /\ spurious \in BOOLEAN
    /\ pc \in [Thread -> AtLine \cup {"op", "cas", "locked", "store", "done"}]
    /\ step \in [Thread -> 1 .. 5]
    /\ iter \in [Thread -> Nat]
    /\ val \in [Thread -> Int]
    /\ total \in [Counters -> Int]
    /\ lock \in [Mutexes -> Thread \cup {Free}]

-----------------------------------------------------------------------------
(***************************************************************************)
(* The starting line.  waitLock belongs to the thread that counts itself   *)
(* and to main while it looks at the count, so threadsStarted is the       *)
(* number of threads that have counted themselves, and when main finds all *)
(* of them there, all of them are asleep.                                  *)
(***************************************************************************)
Counted == {t \in Thread : pc[t] \notin {"failed", "lock", "count"}}

HoldsWaitLock ==
    /\ \A t \in Thread : pc[t] \in {"count", "wait"} => waitLock = t
    /\ main = "test" => waitLock = THREAD_COUNT

\* Whoever has left the line was broadcast to, or woken for nothing.
NobodyAhead ==
    ~spurious /\ main \in {"check", "test"} => \A t \in Thread : pc[t] \in AtLine \ {"woken"}

LineInv ==
    /\ TypeOK /\ HoldsWaitLock /\ NobodyAhead /\ AllWoken
    /\ threadsStarted = Cardinality(Counted)
    /\ main \in {"join", "joined"} => threadsStarted = THREAD_COUNT

(***************************************************************************)
(* The operations.  What a thread is about to store is one more than what  *)
(* the counter holds now.                                                  *)
(***************************************************************************)
HoldsLock(t) == mode = "mutex" /\ lock[Mutex(step[t])] = t

OperationInv ==
    \A t \in Thread :
        /\ pc[t] \in {"locked", "store"} => HoldsLock(t)
        /\ pc[t] = "store" => val[t] = total[Counter(step[t])]
        /\ pc[t] = "cas" => IsCas(step[t])

\* A thread that is not done has a round to do.
RoundInv == \A t \in Thread : pc[t] # "done" => iter[t] < ITERATION_COUNT

\* One thread does the operation it is at, on what the counter really holds,
\* and goes on to its next one.
OneOperation(t) ==
    /\ total' = [total EXCEPT ![Counter(step[t])] = @ + Delta(t, step[t])]
    /\ step' = [step EXCEPT ![t] = IF @ = 5 THEN 1 ELSE @ + 1]
    /\ iter' = [iter EXCEPT ![t] = IF step[t] = 5 THEN @ + 1 ELSE @]

\* The read and the write of an operation are one.
OperationsAtomic ==
    [][UNCHANGED <<total, step, iter>> \/ \E t \in Thread : OneOperation(t)]_vars

-----------------------------------------------------------------------------
LEMMA ThreadsFinite ==
    /\ IsFiniteSet(Thread) /\ Cardinality(Thread) = THREAD_COUNT
    /\ Free \notin Thread /\ THREAD_COUNT \notin Thread /\ THREAD_COUNT \in Nat
<1>1. THREAD_COUNT \in Nat \ {0}
  BY AtomicTesterAssumption
<1>2. IsFiniteSet(0 .. THREAD_COUNT - 1) /\ Cardinality(0 .. THREAD_COUNT - 1) = THREAD_COUNT
  BY <1>1, FS_Interval
<1>3. QED
  BY <1>1, <1>2 DEF Thread, Free

LEMMA OperationTypes ==
    ASSUME NEW n \in 1 .. 5
    PROVE  /\ Counter(n) \in Counters /\ Mutex(n) \in Mutexes
           /\ \A t \in Thread : Delta(t, n) \in Int
           /\ \A m \in 1 .. 5 : Counter(m) = Counter(n) => Mutex(m) = Mutex(n)
           /\ IsCas(n) => Counter(n) = "cas"
<1>1. \A t \in Thread : t % 2 \in Int
  BY AtomicTesterAssumption DEF Thread
<1>2. QED
  BY <1>1 DEF Counter, Mutex, Delta, IsCas, Counters, Mutexes

-----------------------------------------------------------------------------
LEMMA InitTypeOK == Init => TypeOK
<1> SUFFICES ASSUME Init PROVE TypeOK
  OBVIOUS
<1>1. pc \in [Thread -> AtLine \cup {"op", "cas", "locked", "store", "done"}]
  BY DEF Init, AtLine
<1>2. total \in [Counters -> Int] /\ lock \in [Mutexes -> Thread \cup {Free}]
  BY DEF Init, Counters, Mutexes
<1>3. mode \in {"atomic", "mutex"}
  BY AtomicTesterAssumption DEF Init
<1>4. spurious \in BOOLEAN
  BY DEF Init
<1>5. /\ main \in {"check", "test", "join", "joined"} /\ threadsStarted \in Nat
      /\ waitLock \in Thread \cup {Free, THREAD_COUNT}
      /\ step \in [Thread -> 1 .. 5] /\ iter \in [Thread -> Nat] /\ val \in [Thread -> Int]
  BY DEF Init
<1>6. QED
  BY <1>1, <1>2, <1>3, <1>4, <1>5 DEF TypeOK

LEMMA AdvanceTypes ==
    ASSUME TypeOK, NEW t \in Thread, Advance(t)
    PROVE  /\ step' \in [Thread -> 1 .. 5] /\ iter' \in [Thread -> Nat]
           /\ \E label \in {"op", "done"} : pc' = [pc EXCEPT ![t] = label]
  BY DEF Advance, TypeOK, Go

LEMMA ThreadTypeOK ==
    ASSUME TypeOK, NEW t \in Thread,
           Acquire(t) \/ Count(t) \/ Wait(t) \/ SpuriousWakeup(t) \/ Operate(t)
    PROVE  TypeOK'
<1>1. CASE Acquire(t) \/ Count(t) \/ Wait(t) \/ SpuriousWakeup(t)
  <2>1. \E label \in AtLine \cup {"op"} : pc' = [pc EXCEPT ![t] = label]
    BY <1>1 DEF Acquire, Lock, Leave, Count, Wait, SpuriousWakeup, Go, AtLine
  <2>2. waitLock' \in Thread \cup {Free, THREAD_COUNT} /\ threadsStarted' \in Nat
    BY <1>1 DEF TypeOK, Acquire, Lock, Leave, Count, Wait, SpuriousWakeup, line
  <2>5. spurious' \in BOOLEAN
    BY <1>1 DEF TypeOK, Acquire, Lock, Leave, Count, Wait, SpuriousWakeup, line
  <2>3. UNCHANGED <<mode, main, step, iter, val, total, lock>>
    BY <1>1 DEF Acquire, Lock, Leave, Count, Wait, SpuriousWakeup, line
  <2>4. QED
    BY <2>1, <2>2, <2>3, <2>5 DEF TypeOK
<1>2. CASE Operate(t)
  <2>1. step[t] \in 1 .. 5 /\ val[t] \in Int
    BY DEF TypeOK
  <2>2. /\ Counter(step[t]) \in Counters /\ Mutex(step[t]) \in Mutexes
        /\ Delta(t, step[t]) \in Int /\ "cas" \in Counters
    BY <2>1, OperationTypes DEF Counters
  <2>3. ASSUME NEW old \in Int, AddTo(t, old)
        PROVE  total' \in [Counters -> Int]
    BY <2>2, <2>3 DEF AddTo, TypeOK
  <2>4. CASE FetchAndAdd(t)
    BY <2>2, <2>3, <2>4, AdvanceTypes DEF FetchAndAdd, TypeOK, line
  <2>5. CASE ReadCas(t)
    BY <2>2, <2>5 DEF ReadCas, Go, TypeOK, line
  <2>6. CASE Cas(t)
    BY <2>1, <2>3, <2>6, AdvanceTypes DEF Cas, Go, TypeOK, line
  <2>7. CASE LockCounter(t)
    BY <2>2, <2>7 DEF LockCounter, Go, TypeOK, line
  <2>8. CASE Load(t)
    BY <2>2, <2>8 DEF Load, UnlockCounter, Go, TypeOK, line
  <2>9. CASE Store(t)
    BY <2>1, <2>2, <2>3, <2>9, AdvanceTypes DEF Store, UnlockCounter, TypeOK, line
  <2>10. QED
    BY <1>2, <2>4, <2>5, <2>6, <2>7, <2>8, <2>9 DEF Operate
<1>3. QED
  BY <1>1, <1>2

LEMMA NextTypeOK == TypeOK /\ [Next]_vars => TypeOK'
<1> SUFFICES ASSUME TypeOK, [Next]_vars PROVE TypeOK'
  OBVIOUS
<1>1. CASE MainLock \/ Broadcast \/ NotYet \/ Join
  BY <1>1 DEF MainLock, Broadcast, NotYet, Join, TypeOK, AtLine
<1>2. CASE UNCHANGED vars
  BY <1>2 DEF vars, TypeOK
<1>3. QED
  BY <1>1, <1>2, ThreadTypeOK DEF Next, Over

-----------------------------------------------------------------------------
(***************************************************************************)
(* The starting line.                                                      *)
(***************************************************************************)
LEMMA CountedTells ==
    ASSUME LineInv
    PROVE  /\ IsFiniteSet(Counted) /\ threadsStarted <= THREAD_COUNT
           /\ threadsStarted = THREAD_COUNT => Counted = Thread
<1>1. Counted \subseteq Thread
  BY DEF Counted
<1>2. QED
  BY <1>1, ThreadsFinite, FS_Subset, FS_CardinalityType DEF LineInv, TypeOK

\* What does not touch the line keeps what is said of it.
LEMMA LineStutter ==
    ASSUME LineInv, TypeOK',
           main' = main, waitLock' = waitLock, threadsStarted' = threadsStarted,
           spurious => spurious',
           \A t \in Thread : \/ pc'[t] = pc[t]
                             \/ {pc[t], pc'[t]} \cap AtLine = {}
                             \/ pc[t] = "asleep" /\ pc'[t] = "woken" /\ spurious'
                             \/ pc[t] = "woken" /\ pc'[t] = "op"
    PROVE  LineInv'
<1>1. Counted' = Counted
  BY DEF Counted, AtLine
<1>2. (HoldsWaitLock /\ NobodyAhead /\ AllWoken)'
  BY DEF LineInv, HoldsWaitLock, NobodyAhead, AllWoken, AtLine
<1>3. QED
  BY <1>1, <1>2 DEF LineInv

LEMMA InitLineInv == Init => LineInv
<1> SUFFICES ASSUME Init PROVE LineInv
  OBVIOUS
<1>1. Counted = {}
  BY DEF Init, Counted
<1>2. Cardinality(Counted) = 0
  BY <1>1, FS_EmptySet
<1>3. QED
  BY <1>2, InitTypeOK DEF Init, LineInv, HoldsWaitLock, NobodyAhead, AllWoken, AtLine

LEMMA OperateLine == ASSUME LineInv, TypeOK', NEW t \in Thread, Operate(t) PROVE LineInv'
<1>1. /\ pc[t] \notin AtLine /\ UNCHANGED line
      /\ \E label : label \notin AtLine /\ pc' = [pc EXCEPT ![t] = label]
  BY AdvanceTypes
     DEF LineInv, Operate, FetchAndAdd, ReadCas, Cas, LockCounter, Load, Store, Go, AtLine
<1>2. QED
  <2>1. main' = main /\ waitLock' = waitLock /\ threadsStarted' = threadsStarted
    BY <1>1 DEF line
  <2>2. spurious => spurious'
    BY <1>1 DEF line
  <2>3. \A u \in Thread : pc'[u] = pc[u] \/ {pc[u], pc'[u]} \cap AtLine = {}
    BY <1>1 DEF LineInv, TypeOK
  <2>4. QED
    BY <2>1, <2>2, <2>3, LineStutter

LEMMA NextLineInv == LineInv /\ [Next]_vars => LineInv'
<1> SUFFICES ASSUME LineInv, [Next]_vars PROVE LineInv'
  OBVIOUS
<1>1. TypeOK /\ TypeOK'
  BY NextTypeOK DEF LineInv
<1>2. ASSUME NEW t \in Thread, Lock(t) PROVE LineInv'
  <2>1. Counted' = Counted
    BY <1>1, <1>2 DEF Lock, Go, Counted, TypeOK
  <2>2. (HoldsWaitLock /\ NobodyAhead /\ AllWoken)'
    BY <1>1, <1>2, ThreadsFinite
       DEF Lock, Go, LineInv, HoldsWaitLock, NobodyAhead, AllWoken, TypeOK, AtLine, Free
  <2>3. QED
    BY <1>1, <1>2, <2>1, <2>2 DEF LineInv, Lock
<1>3. ASSUME NEW t \in Thread, Count(t) PROVE LineInv'
  <2>1. Counted' = Counted \cup {t} /\ t \notin Counted
    BY <1>1, <1>3 DEF Count, Go, Counted, TypeOK
  <2>2. Cardinality(Counted') = Cardinality(Counted) + 1
    BY <2>1, CountedTells, FS_AddElement
  <2>3. threadsStarted # THREAD_COUNT
    BY <2>1, CountedTells
  <2>4. (HoldsWaitLock /\ NobodyAhead /\ AllWoken)'
    BY <1>1, <1>3, <2>3
       DEF Count, Go, LineInv, HoldsWaitLock, NobodyAhead, AllWoken, TypeOK, AtLine
  <2>5. QED
    BY <1>1, <1>3, <2>2, <2>3, <2>4 DEF LineInv, Count
<1>4. ASSUME NEW t \in Thread, Wait(t) PROVE LineInv'
  <2>1. Counted' = Counted
    BY <1>1, <1>4 DEF Wait, Go, Counted, TypeOK
  <2>2. main # "test" /\ \A u \in Thread : pc[u] \in {"count", "wait"} => u = t
    BY <1>4, ThreadsFinite DEF Wait, LineInv, HoldsWaitLock
  <2>3. (HoldsWaitLock /\ NobodyAhead /\ AllWoken)'
    BY <1>1, <1>4, <2>2
       DEF Wait, Go, LineInv, HoldsWaitLock, NobodyAhead, AllWoken, TypeOK, AtLine
  <2>4. QED
    BY <1>1, <1>4, <2>1, <2>3 DEF LineInv, Wait
<1>5. ASSUME NEW t \in Thread, SpuriousWakeup(t) \/ Leave(t) PROVE LineInv'
  BY <1>1, <1>5, LineStutter DEF SpuriousWakeup, Leave, Go, TypeOK, line
<1>6. ASSUME NEW t \in Thread, Operate(t) PROVE LineInv'
  BY <1>1, <1>6, OperateLine
<1>7. CASE MainLock \/ NotYet \/ Join
  <2>1. Counted' = Counted
    BY <1>7 DEF MainLock, NotYet, Join, Counted
  <2>2. main = "test" => \A t \in Thread : pc[t] \notin {"count", "wait"}
    BY ThreadsFinite DEF LineInv, HoldsWaitLock
  <2>3. (HoldsWaitLock /\ NobodyAhead /\ AllWoken)'
    BY <1>1, <1>7, <2>2, ThreadsFinite
       DEF MainLock, NotYet, Join, LineInv, HoldsWaitLock, NobodyAhead, AllWoken, TypeOK, AtLine
  <2>4. QED
    BY <1>1, <1>7, <2>1, <2>3 DEF LineInv, MainLock, NotYet, Join
<1>8. CASE Broadcast
  <2>1. \A t \in Thread : pc[t] \notin {"failed", "lock", "count", "wait"}
    BY <1>8, ThreadsFinite, CountedTells DEF Broadcast, LineInv, HoldsWaitLock, Counted
  <2>2. Counted' = Thread /\ Counted = Thread
    BY <1>8, <2>1 DEF Broadcast, Counted
  <2>3. (HoldsWaitLock /\ NobodyAhead /\ AllWoken)'
    BY <1>8, <2>1 DEF Broadcast, HoldsWaitLock, NobodyAhead, AllWoken
  <2>4. QED
    BY <1>1, <1>8, <2>2, <2>3 DEF LineInv, Broadcast
<1>9. CASE UNCHANGED vars
  BY <1>1, <1>9, LineStutter DEF vars
<1>10. QED
  BY <1>2, <1>3, <1>4, <1>5, <1>6, <1>7, <1>8, <1>9 DEF Next, Acquire, Over

LEMMA LineInvariance == Spec => []LineInv
  BY InitLineInv, NextLineInv, PTL DEF Spec

(***************************************************************************)
(* StartTogether: no thread operates before every thread has counted       *)
(* itself and main has said so, and when main has broadcast no thread is   *)
(* before the condition wait or in it: the last one cannot be between its  *)
(* count and its sleep.                                                    *)
(***************************************************************************)
THEOREM TogetherAtTheLine == Spec => []StartTogether
<1>1. LineInv => StartTogether
  BY DEF LineInv, TypeOK, NobodyAhead, StartTogether, Running, AtLine
<1>2. QED
  BY <1>1, LineInvariance, PTL

-----------------------------------------------------------------------------
(***************************************************************************)
(* The operations.                                                         *)
(***************************************************************************)
LEMMA InitOperationInv == Init => OperationInv
  BY DEF Init, OperationInv

\* One thread's step leaves the others' locks and what they are about to store.
LEMMA OthersKeep ==
    ASSUME TypeOK, OperationInv, NEW t \in Thread, Operate(t),
           NEW u \in Thread, u # t, pc[u] \in {"locked", "store"}
    PROVE  /\ pc'[u] = pc[u] /\ step'[u] = step[u] /\ val'[u] = val[u] /\ mode' = mode
           /\ lock'[Mutex(step[u])] = u
           /\ pc[u] = "store" => total'[Counter(step[u])] = total[Counter(step[u])]
<1>1. /\ step[t] \in 1 .. 5 /\ step[u] \in 1 .. 5
      /\ Counter(step[t]) \in Counters /\ Counter(step[u]) \in Counters
      /\ Mutex(step[t]) \in Mutexes /\ Mutex(step[u]) \in Mutexes
      /\ Counter(step[t]) = Counter(step[u]) => Mutex(step[t]) = Mutex(step[u])
  BY OperationTypes DEF TypeOK
<1>2. mode = "mutex" /\ lock[Mutex(step[u])] = u
  BY DEF OperationInv, HoldsLock
<1>3. pc'[u] = pc[u] /\ step'[u] = step[u] /\ val'[u] = val[u] /\ mode' = mode
  BY DEF Operate, FetchAndAdd, ReadCas, Cas, LockCounter, Load, Store, Advance, Go, TypeOK
<1>4. CASE ReadCas(t)
  BY <1>2, <1>3, <1>4 DEF ReadCas
<1>5. CASE LockCounter(t)
  BY <1>1, <1>2, <1>3, <1>5, ThreadsFinite DEF LockCounter, TypeOK
<1>6. CASE Load(t) \/ Store(t)
  <2>1. Mutex(step[t]) # Mutex(step[u])
    BY <1>2, <1>6 DEF Load, Store, OperationInv, HoldsLock
  <2>2. QED
    BY <1>1, <1>2, <1>3, <1>6, <2>1 DEF Load, Store, UnlockCounter, AddTo, TypeOK
<1>7. QED
  BY <1>2, <1>4, <1>5, <1>6 DEF Operate, FetchAndAdd, Cas

LEMMA OperateKeeps ==
    ASSUME TypeOK, OperationInv, NEW t \in Thread, Operate(t)
    PROVE  OperationInv'
<1> SUFFICES ASSUME NEW u \in Thread
             PROVE  /\ pc'[u] \in {"locked", "store"} => HoldsLock(u)'
                    /\ pc'[u] = "store" => val'[u] = total'[Counter(step'[u])]
                    /\ pc'[u] = "cas" => IsCas(step'[u])
  BY DEF OperationInv
<1>1. CASE u # t
  <2>1. pc'[u] = pc[u] /\ step'[u] = step[u]
    BY <1>1 DEF Operate, FetchAndAdd, ReadCas, Cas, LockCounter, Load, Store, Advance,
                Go, TypeOK
  <2>2. QED
    BY <1>1, <2>1, OthersKeep DEF OperationInv, HoldsLock
<1>2. CASE u = t
  <2>1. step[t] \in 1 .. 5 /\ Mutex(step[t]) \in Mutexes
    BY OperationTypes DEF TypeOK
  <2>2. CASE FetchAndAdd(t) \/ Cas(t) \/ Store(t)
    BY <1>2, <2>2, AdvanceTypes DEF FetchAndAdd, Cas, Store, Go, TypeOK
  <2>3. CASE ReadCas(t)
    BY <1>2, <2>3 DEF ReadCas, Go, TypeOK
  <2>4. CASE LockCounter(t)
    BY <1>2, <2>1, <2>4 DEF LockCounter, Go, HoldsLock, TypeOK
  <2>5. CASE Load(t)
    BY <1>2, <2>1, <2>5 DEF Load, Go, HoldsLock, OperationInv, TypeOK
  <2>6. QED
    BY <2>2, <2>3, <2>4, <2>5 DEF Operate
<1>3. QED
  BY <1>1, <1>2

LEMMA NextOperationInv == TypeOK /\ OperationInv /\ [Next]_vars => OperationInv'
<1> SUFFICES ASSUME TypeOK, OperationInv, [Next]_vars PROVE OperationInv'
  OBVIOUS
<1>1. ASSUME UNCHANGED <<mode, step, val, total, lock>>,
             \A t \in Thread : pc'[t] = pc[t] \/ pc'[t] \notin {"cas", "locked", "store"}
      PROVE  OperationInv'
  BY <1>1 DEF OperationInv, HoldsLock
<1>2. ASSUME NEW t \in Thread, Acquire(t) \/ Count(t) \/ Wait(t) \/ SpuriousWakeup(t)
      PROVE  OperationInv'
  BY <1>1, <1>2 DEF Acquire, Lock, Leave, Count, Wait, SpuriousWakeup, Go, TypeOK
<1>3. CASE MainLock \/ Broadcast \/ NotYet \/ Join
  BY <1>1, <1>3 DEF MainLock, Broadcast, NotYet, Join
<1>4. ASSUME NEW t \in Thread, Operate(t) PROVE OperationInv'
  BY <1>4, OperateKeeps
<1>5. CASE UNCHANGED vars
  BY <1>1, <1>5 DEF vars
<1>6. QED
  BY <1>2, <1>3, <1>4, <1>5 DEF Next, Over

\* A thread that goes on has done its operation on the counter as it is.
LEMMA OperateOnce ==
    ASSUME TypeOK, OperationInv, NEW t \in Thread, Operate(t)
    PROVE  UNCHANGED <<total, step, iter>> \/ OneOperation(t)
<1>1. step[t] \in 1 .. 5 /\ Counter(step[t]) \in Counters
  BY OperationTypes DEF TypeOK
<1>2. pc[t] = "cas" => Counter(step[t]) = "cas"
  BY <1>1, OperationTypes DEF OperationInv
<1>3. ASSUME AddTo(t, total[Counter(step[t])]), Advance(t) PROVE OneOperation(t)
  BY <1>1, <1>3 DEF AddTo, Advance, OneOperation, TypeOK
<1>4. CASE FetchAndAdd(t)
  BY <1>3, <1>4 DEF FetchAndAdd
<1>5. CASE Cas(t)
  BY <1>2, <1>3, <1>5 DEF Cas
<1>6. CASE Store(t)
  BY <1>3, <1>6 DEF Store, OperationInv
<1>7. CASE ReadCas(t) \/ LockCounter(t) \/ Load(t)
  BY <1>7 DEF ReadCas, LockCounter, Load
<1>8. QED
  BY <1>4, <1>5, <1>6, <1>7 DEF Operate

\* What a step does to the counters.
LEMMA StepIsAtomic ==
    ASSUME TypeOK, OperationInv, [Next]_vars
    PROVE  \/ UNCHANGED <<total, step, iter>>
           \/ \E t \in Thread : Operate(t) /\ OneOperation(t)
<1>1. ASSUME NEW t \in Thread, Acquire(t) \/ Count(t) \/ Wait(t) \/ SpuriousWakeup(t)
      PROVE  UNCHANGED <<total, step, iter>>
  BY <1>1 DEF Acquire, Lock, Leave, Count, Wait, SpuriousWakeup
<1>2. CASE MainLock \/ Broadcast \/ NotYet \/ Join
  BY <1>2 DEF MainLock, Broadcast, NotYet, Join
<1>3. CASE UNCHANGED vars
  BY <1>3 DEF vars
<1>4. QED
  BY <1>1, <1>2, <1>3, OperateOnce DEF Next, Over

LEMMA OperationInvariance == Spec => [](TypeOK /\ OperationInv)
<1>1. Init => TypeOK /\ OperationInv
  BY InitTypeOK, InitOperationInv
<1>2. TypeOK /\ OperationInv /\ [Next]_vars => (TypeOK /\ OperationInv)'
  BY NextTypeOK, NextOperationInv
<1>3. QED
  BY <1>1, <1>2, PTL DEF Spec

(***************************************************************************)
(* OperationsAtomic: with atomic instructions or under the mutexes, every  *)
(* step is one whole operation of one thread on what the counter holds, or *)
(* leaves the counters and the rounds alone.                               *)
(***************************************************************************)
THEOREM AtomicOperations == Spec => OperationsAtomic
<1> DEFINE Step == UNCHANGED <<total, step, iter>> \/ \E t \in Thread : OneOperation(t)
<1>1. TypeOK /\ OperationInv /\ [Next]_vars => [Step]_vars
  BY StepIsAtomic
<1>2. Spec => [][Step]_vars
  BY <1>1, OperationInvariance, PTL DEF Spec
<1>3. QED
  BY <1>2 DEF OperationsAtomic

-----------------------------------------------------------------------------
(***************************************************************************)
(* The totals.  Every operation puts one pair into Done, and adds its      *)
(* delta to its counter.                                                   *)
(***************************************************************************)
LEMMA InitRoundInv == Init => RoundInv
  BY AtomicTesterAssumption DEF Init, RoundInv

LEMMA NextRoundInv == TypeOK /\ RoundInv /\ [Next]_vars => RoundInv'
<1> SUFFICES ASSUME TypeOK, RoundInv, [Next]_vars PROVE RoundInv'
  OBVIOUS
<1>1. ASSUME iter' = iter, \A t \in Thread : pc'[t] # "done" => pc[t] # "done"
      PROVE  RoundInv'
  BY <1>1 DEF RoundInv
<1>2. ASSUME NEW t \in Thread, Acquire(t) \/ Count(t) \/ Wait(t) \/ SpuriousWakeup(t)
      PROVE  RoundInv'
  BY <1>1, <1>2 DEF Acquire, Lock, Leave, Count, Wait, SpuriousWakeup, Go, TypeOK
<1>3. CASE MainLock \/ Broadcast \/ NotYet \/ Join
  BY <1>1, <1>3 DEF MainLock, Broadcast, NotYet, Join
<1>4. ASSUME NEW t \in Thread, Operate(t) PROVE RoundInv'
  <2>1. CASE Advance(t)
    <3>1. pc[t] # "done" /\ ITERATION_COUNT \in Nat
      BY <1>4, AtomicTesterAssumption
         DEF Operate, FetchAndAdd, ReadCas, Cas, LockCounter, Load, Store
    <3>2. QED
      BY <2>1, <3>1 DEF Advance, Go, RoundInv, TypeOK
  <2>2. CASE iter' = iter /\ \E label : pc' = [pc EXCEPT ![t] = label]
    <3>1. pc[t] # "done"
      BY <1>4 DEF Operate, FetchAndAdd, ReadCas, Cas, LockCounter, Load, Store
    <3>2. QED
      BY <1>1, <2>2, <3>1 DEF TypeOK
  <2>3. QED
    BY <1>4, <2>1, <2>2 DEF Operate, FetchAndAdd, ReadCas, Cas, LockCounter, Load, Store, Go
<1>5. CASE UNCHANGED vars
  BY <1>1, <1>5 DEF vars
<1>6. QED
  BY <1>2, <1>3, <1>4, <1>5 DEF Next, Over

\* Done of one operation in one round, for the threads with a property.
LEMMA DoneFinite ==
    ASSUME NEW n
    PROVE  /\ IsFiniteSet(Done(n)) /\ Cardinality(Done(n)) \in Nat
           /\ IsFiniteSet({x \in Done(n) : x[1] % 2 = 1})
           /\ Cardinality({x \in Done(n) : x[1] % 2 = 1}) \in Nat
<1>1. IsFiniteSet(0 .. ITERATION_COUNT - 1)
  BY AtomicTesterAssumption, FS_Interval
<1>2. IsFiniteSet(Thread \X (0 .. ITERATION_COUNT - 1))
  BY <1>1, ThreadsFinite, FS_Product
<1>3. Done(n) \subseteq Thread \X (0 .. ITERATION_COUNT - 1)
  BY DEF Done
<1>4. IsFiniteSet(Done(n))
  BY <1>2, <1>3, FS_Subset
<1>5. {x \in Done(n) : x[1] % 2 = 1} \subseteq Done(n)
  OBVIOUS
<1>6. IsFiniteSet({x \in Done(n) : x[1] % 2 = 1})
  BY <1>4, <1>5, FS_Subset
<1>7. QED
  BY <1>4, <1>6, FS_CardinalityType

\* An operation puts its pair into its own Done, and only there.
LEMMA DoneGrows ==
    ASSUME TypeOK, NEW t \in Thread, OneOperation(t), iter[t] < ITERATION_COUNT,
           NEW n \in 1 .. 5
    PROVE  /\ n # step[t] => Done(n)' = Done(n)
           /\ n = step[t] => /\ <<t, iter[t]>> \notin Done(n)
                             /\ Done(n)' = Done(n) \cup {<<t, iter[t]>>}
<1>1. iter[t] \in 0 .. ITERATION_COUNT - 1 /\ step[t] \in 1 .. 5
  BY AtomicTesterAssumption DEF TypeOK
<1> DEFINE Has(u, k) == k < iter[u] \/ (k = iter[u] /\ n < step[u])
<1>2. \A u \in Thread, k \in 0 .. ITERATION_COUNT - 1 :
         /\ <<u, k>> \in Done(n) <=> Has(u, k)
         /\ <<u, k>> \in Done(n)' <=> Has(u, k)'
  BY DEF Done
<1>3. \A u \in Thread \ {t} : iter'[u] = iter[u] /\ step'[u] = step[u]
  BY DEF OneOperation, TypeOK
<1>4. /\ step[t] = 5 => iter'[t] = iter[t] + 1 /\ step'[t] = 1
      /\ step[t] # 5 => iter'[t] = iter[t] /\ step'[t] = step[t] + 1
  BY DEF OneOperation, TypeOK
<1>5. \A k \in 0 .. ITERATION_COUNT - 1 :
         Has(t, k)' <=> Has(t, k) \/ (k = iter[t] /\ n = step[t])
  <2> SUFFICES ASSUME NEW k \in 0 .. ITERATION_COUNT - 1
               PROVE  Has(t, k)' <=> Has(t, k) \/ (k = iter[t] /\ n = step[t])
    OBVIOUS
  <2>1. iter[t] \in Nat /\ step[t] \in 1 .. 5 /\ k \in Nat
    BY AtomicTesterAssumption DEF TypeOK
  <2>2. CASE step[t] = 5
    BY <1>4, <2>1, <2>2
  <2>3. CASE step[t] # 5
    BY <1>4, <2>1, <2>3
  <2>4. QED
    BY <2>2, <2>3
<1>6. ~Has(t, iter[t]) \/ n < step[t]
  BY DEF TypeOK
<1>7. \A u \in Thread, k \in 0 .. ITERATION_COUNT - 1 :
         <<u, k>> \in Done(n)' <=>
            <<u, k>> \in Done(n) \/ (u = t /\ k = iter[t] /\ n = step[t])
  BY <1>2, <1>3, <1>5
<1>8. /\ Done(n) \subseteq Thread \X (0 .. ITERATION_COUNT - 1)
      /\ Done(n)' \subseteq Thread \X (0 .. ITERATION_COUNT - 1)
  BY DEF Done
<1>9. n # step[t] => Done(n)' = Done(n)
  BY <1>7, <1>8
<1>10. n = step[t] => Done(n)' = Done(n) \cup {<<t, iter[t]>>}
  BY <1>1, <1>7, <1>8
<1>11. n = step[t] => <<t, iter[t]>> \notin Done(n)
  BY <1>1, <1>2, <1>6
<1>12. QED
  BY <1>9, <1>10, <1>11

\* ... so it counts one more there, and among the odd threads if it is odd.
LEMMA DoneCounts ==
    ASSUME TypeOK, NEW t \in Thread, OneOperation(t), iter[t] < ITERATION_COUNT
    PROVE  /\ \A n \in 1 .. 5 :
                 Cardinality(Done(n))' =
                    Cardinality(Done(n)) + (IF n = step[t] THEN 1 ELSE 0)
           /\ Cardinality({x \in Done(3) : x[1] % 2 = 1})' =
                 Cardinality({x \in Done(3) : x[1] % 2 = 1})
                    + (IF step[t] = 3 /\ t % 2 = 1 THEN 1 ELSE 0)
<1>1. ASSUME NEW n \in 1 .. 5
      PROVE  Cardinality(Done(n))' =
                Cardinality(Done(n)) + (IF n = step[t] THEN 1 ELSE 0)
  <2>1. IsFiniteSet(Done(n)) /\ Cardinality(Done(n)) \in Nat
    BY DoneFinite
  <2>2. CASE n = step[t]
    <3>1. <<t, iter[t]>> \notin Done(n) /\ Done(n)' = Done(n) \cup {<<t, iter[t]>>}
      BY <2>2, DoneGrows
    <3>2. Cardinality(Done(n) \cup {<<t, iter[t]>>}) = Cardinality(Done(n)) + 1
      BY <2>1, <3>1, FS_AddElement
    <3>3. QED
      BY <2>2, <3>1, <3>2
  <2>3. CASE n # step[t]
    <3>1. Done(n)' = Done(n)
      BY <2>3, DoneGrows
    <3>2. QED
      BY <2>1, <2>3, <3>1
  <2>4. QED
    BY <2>2, <2>3
<1> DEFINE Odd(D) == {x \in D : x[1] % 2 = 1}
<1>2. Cardinality(Odd(Done(3)))' =
         Cardinality(Odd(Done(3))) + (IF step[t] = 3 /\ t % 2 = 1 THEN 1 ELSE 0)
  <2>1. IsFiniteSet(Odd(Done(3))) /\ Cardinality(Odd(Done(3))) \in Nat
    BY DoneFinite
  <2>2. Odd(Done(3))' = Odd(Done(3)')
    OBVIOUS
  <2>grows. /\ step[t] # 3 => Done(3)' = Done(3)
            /\ step[t] = 3 => /\ <<t, iter[t]>> \notin Done(3)
                              /\ Done(3)' = Done(3) \cup {<<t, iter[t]>>}
    <3>1. 3 \in 1 .. 5
      OBVIOUS
    <3>2. QED
      BY <3>1, DoneGrows
  <2>3. CASE step[t] = 3 /\ t % 2 = 1
    <3>1. <<t, iter[t]>> \notin Done(3) /\ Done(3)' = Done(3) \cup {<<t, iter[t]>>}
      BY <2>3, <2>grows
    <3>2. Odd(Done(3) \cup {<<t, iter[t]>>}) = Odd(Done(3)) \cup {<<t, iter[t]>>}
      BY <2>3
    <3>3. Odd(Done(3))' = Odd(Done(3)) \cup {<<t, iter[t]>>}
      BY <2>2, <3>1, <3>2
    <3>4. <<t, iter[t]>> \notin Odd(Done(3))
      BY <3>1
    <3> HIDE DEF Odd
    <3>5. Cardinality(Odd(Done(3)) \cup {<<t, iter[t]>>}) = Cardinality(Odd(Done(3))) + 1
      BY <2>1, <3>4, FS_AddElement
    <3>6. QED
      BY <2>3, <3>3, <3>5
  <2>4. CASE ~(step[t] = 3 /\ t % 2 = 1)
    <3>1. Done(3)' = Done(3) \/ (Done(3)' = Done(3) \cup {<<t, iter[t]>>} /\ t % 2 # 1)
      BY <2>grows, <2>4
    <3>2. t % 2 # 1 => Odd(Done(3) \cup {<<t, iter[t]>>}) = Odd(Done(3))
      OBVIOUS
    <3>3. Odd(Done(3)') = Odd(Done(3))
      BY <3>1, <3>2
    <3> HIDE DEF Odd
    <3>4. QED
      BY <2>1, <2>2, <2>4, <3>3
  <2>5. QED
    BY <2>3, <2>4
<1>3. QED
  BY <1>1, <1>2

LEMMA InitNothingLost == Init => NothingLost
<1> SUFFICES ASSUME Init PROVE NothingLost
  OBVIOUS
<1>1. \A n \in 1 .. 5 : Done(n) = {}
  BY DEF Init, Done
<1>2. /\ \A n \in 1 .. 5 : Cardinality(Done(n)) = 0
      /\ Cardinality({x \in Done(3) : x[1] % 2 = 1}) = 0
  BY <1>1, FS_EmptySet
<1>3. QED
  BY <1>2 DEF Init, NothingLost

LEMMA NextNothingLost ==
    ASSUME TypeOK, OperationInv, RoundInv, NothingLost, [Next]_vars
    PROVE  NothingLost'
<1>1. CASE UNCHANGED <<total, step, iter>>
  BY <1>1 DEF NothingLost, Done
<1>2. ASSUME NEW t \in Thread, Operate(t), OneOperation(t) PROVE NothingLost'
  <2>1. iter[t] < ITERATION_COUNT
    BY <1>2 DEF RoundInv, Operate, FetchAndAdd, ReadCas, Cas, LockCounter, Load, Store
  <2> DEFINE C(n) == Cardinality(Done(n))
             O    == Cardinality({x \in Done(3) : x[1] % 2 = 1})
  <2>2. /\ \A n \in 1 .. 5 : C(n)' = C(n) + (IF n = step[t] THEN 1 ELSE 0)
        /\ O' = O + (IF step[t] = 3 /\ t % 2 = 1 THEN 1 ELSE 0)
    BY <1>2, <2>1, DoneCounts
  <2>3. (\A n \in 1 .. 5 : C(n) \in Nat) /\ O \in Nat
    BY DoneFinite
  <2>4. step[t] \in 1 .. 5 /\ t % 2 \in {0, 1}
    BY AtomicTesterAssumption DEF TypeOK, Thread
  <2>5. total' = [total EXCEPT ![Counter(step[t])] = @ + Delta(t, step[t])]
    BY <1>2 DEF OneOperation
  <2>6. /\ total["inc"] = C(1) /\ total["dec"] = -C(2)
        /\ total["add"] = C(3) + O /\ total["cas"] = 3 * C(4) - C(5)
    BY DEF NothingLost
  <2>7. /\ total'["inc"] = C(1)' /\ total'["dec"] = -C(2)'
        /\ total'["add"] = C(3)' + O' /\ total'["cas"] = 3 * C(4)' - C(5)'
    <3> HIDE DEF C, O
    <3>1. CASE step[t] = 1
      BY <2>2, <2>3, <2>4, <2>5, <2>6, <3>1 DEF Counter, Delta, TypeOK, Counters
    <3>2. CASE step[t] = 2
      BY <2>2, <2>3, <2>4, <2>5, <2>6, <3>2 DEF Counter, Delta, TypeOK, Counters
    <3>3. CASE step[t] = 3
      BY <2>2, <2>3, <2>4, <2>5, <2>6, <3>3 DEF Counter, Delta, TypeOK, Counters
    <3>4. CASE step[t] = 4
      BY <2>2, <2>3, <2>4, <2>5, <2>6, <3>4 DEF Counter, Delta, TypeOK, Counters
    <3>5. CASE step[t] = 5
      BY <2>2, <2>3, <2>4, <2>5, <2>6, <3>5 DEF Counter, Delta, TypeOK, Counters
    <3>6. QED
      BY <2>4, <3>1, <3>2, <3>3, <3>4, <3>5
  <2>8. QED
    BY <2>7 DEF NothingLost
<1>3. QED
  BY <1>1, <1>2, StepIsAtomic

(***************************************************************************)
(* NothingLost: at every moment each counter holds what the operations     *)
(* done so far add up to, for any number of threads and rounds.            *)
(***************************************************************************)
THEOREM NothingIsLost == Spec => []NothingLost
<1>1. Init => RoundInv /\ NothingLost
  BY InitRoundInv, InitNothingLost
<1>2. TypeOK /\ OperationInv /\ RoundInv /\ NothingLost /\ [Next]_vars
         => (RoundInv /\ NothingLost)'
  BY NextRoundInv, NextNothingLost
<1>3. QED
  BY <1>1, <1>2, OperationInvariance, PTL DEF Spec

-----------------------------------------------------------------------------
(***************************************************************************)
(* Waiting.  Whoever has a mutex is inside the code that it guards, and    *)
(* that code waits for nothing else.                                       *)
(***************************************************************************)
WaitLockHeld ==
    waitLock # Free =>
        \/ waitLock = THREAD_COUNT /\ main = "test"
        \/ waitLock \in Thread /\ pc[waitLock] \in {"count", "wait"}

LocksHeld ==
    \A m \in Mutexes : lock[m] # Free =>
        pc[lock[m]] \in {"locked", "store"} /\ Mutex(step[lock[m]]) = m

\* Nobody waits for somebody who waits: a mutex that is taken is given back by the
\* next steps of its holder, a thread sleeps only while main still polls, and main
\* joins only threads that are awake.
NobodyStuck ==
    /\ WaitLockHeld /\ LocksHeld
    /\ \A t \in Thread : pc[t] = "asleep" => main \in {"check", "test"}
    /\ main = "join" => \A t \in Thread : pc[t] \notin AtLine \ {"woken"}

LEMMA InitHeld == Init => WaitLockHeld /\ LocksHeld
  BY DEF Init, WaitLockHeld, LocksHeld, Mutexes

LEMMA NextWaitLockHeld == ASSUME TypeOK, WaitLockHeld, [Next]_vars PROVE WaitLockHeld'
<1> USE DEF TypeOK, WaitLockHeld
<1>1. ASSUME NEW t \in Thread, Acquire(t) \/ Count(t) \/ Wait(t) \/ SpuriousWakeup(t)
      PROVE  WaitLockHeld'
  BY <1>1, ThreadsFinite DEF Acquire, Lock, Leave, Count, Wait, SpuriousWakeup, Go, line
<1>2. CASE MainLock \/ Broadcast \/ NotYet \/ Join
  BY <1>2, ThreadsFinite DEF MainLock, Broadcast, NotYet, Join
<1>3. ASSUME NEW t \in Thread, Operate(t) PROVE WaitLockHeld'
  <2>1. /\ UNCHANGED <<waitLock, main>> /\ pc[t] \notin {"count", "wait"}
        /\ \E label : pc' = [pc EXCEPT ![t] = label]
    BY <1>3, AdvanceTypes
       DEF Operate, FetchAndAdd, ReadCas, Cas, LockCounter, Load, Store, Go, line
  <2>2. QED
    BY <2>1
<1>4. CASE UNCHANGED vars
  BY <1>4 DEF vars
<1>5. QED
  BY <1>1, <1>2, <1>3, <1>4 DEF Next, Over

LEMMA NextLocksHeld ==
    ASSUME TypeOK, OperationInv, LocksHeld, [Next]_vars PROVE LocksHeld'
<1>1. ASSUME UNCHANGED <<step, lock>>,
             \A t \in Thread : pc'[t] = pc[t] \/ pc[t] \notin {"locked", "store"}
      PROVE  LocksHeld'
  BY <1>1, ThreadsFinite DEF TypeOK, LocksHeld
<1>2. ASSUME NEW t \in Thread, Acquire(t) \/ Count(t) \/ Wait(t) \/ SpuriousWakeup(t)
      PROVE  LocksHeld'
  BY <1>1, <1>2 DEF Acquire, Lock, Leave, Count, Wait, SpuriousWakeup, Go, TypeOK
<1>3. CASE MainLock \/ Broadcast \/ NotYet \/ Join
  BY <1>1, <1>3 DEF MainLock, Broadcast, NotYet, Join
<1>4. ASSUME NEW t \in Thread, Operate(t) PROVE LocksHeld'
  <2> SUFFICES ASSUME NEW m \in Mutexes, lock'[m] # Free
               PROVE  pc'[lock'[m]] \in {"locked", "store"} /\ Mutex(step'[lock'[m]]) = m
    BY DEF LocksHeld
  <2>1. /\ step[t] \in 1 .. 5 /\ Mutex(step[t]) \in Mutexes
        /\ lock[m] \in Thread \cup {Free} /\ Free \notin Thread
    BY OperationTypes, ThreadsFinite DEF TypeOK
  <2>2. \A u \in Thread \ {t} : pc'[u] = pc[u] /\ step'[u] = step[u]
    BY <1>4 DEF Operate, FetchAndAdd, ReadCas, Cas, LockCounter, Load, Store, Advance, Go, TypeOK
  <2>3. CASE FetchAndAdd(t) \/ ReadCas(t) \/ Cas(t)
    BY <2>1, <2>2, <2>3 DEF FetchAndAdd, ReadCas, Cas, LocksHeld, TypeOK
  <2>4. CASE LockCounter(t)
    BY <2>1, <2>2, <2>4 DEF LockCounter, Go, IsCas, LocksHeld, TypeOK
  <2>5. CASE Load(t)
    BY <2>1, <2>2, <2>5 DEF Load, UnlockCounter, Go, LocksHeld, TypeOK
  <2>6. CASE Store(t)
    BY <2>1, <2>2, <2>6 DEF Store, UnlockCounter, LocksHeld, TypeOK
  <2>7. QED
    BY <1>4, <2>3, <2>4, <2>5, <2>6 DEF Operate
<1>5. CASE UNCHANGED vars
  BY <1>1, <1>5 DEF vars
<1>6. QED
  BY <1>2, <1>3, <1>4, <1>5 DEF Next, Over

(***************************************************************************)
(* NobodyStuck: for any number of threads there is no circle of waiting,   *)
(* neither through waitLock and the condition variable nor through the     *)
(* mutexes of the counters (AtomicTester.cpp:80-143, 182-189, 241-258).    *)
(***************************************************************************)
THEOREM NoCircle == Spec => []NobodyStuck
<1>1. Spec => [](WaitLockHeld /\ LocksHeld)
  BY InitHeld, NextWaitLockHeld, NextLocksHeld, OperationInvariance, PTL DEF Spec
<1>2. ASSUME LineInv, WaitLockHeld, LocksHeld PROVE NobodyStuck
  BY <1>2 DEF LineInv, AllWoken, TypeOK, AtLine, NobodyStuck
<1>3. QED
  BY <1>1, <1>2, LineInvariance, PTL
=============================================================================

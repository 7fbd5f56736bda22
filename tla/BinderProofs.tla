---------------------------- MODULE BinderProofs ----------------------------
(***************************************************************************)
(* TestBinder with any number of clients and of threads in the server:     *)
(* what a client is told is true, and its memory is there while the        *)
(* service has it in its hands.                                            *)
(***************************************************************************)
EXTENDS Binder, TLAPS

InHand  == {"taken", "asks", "given", "refused"}
Replies == {Dead, True} \cup {Sum(c) : c \in Clients}

TypeOK ==
    /\ server \in {"instantiate", "startThreadPool", "joinThreadPool", "serving", "dead"}
    /\ registered \in BOOLEAN /\ working \subseteq Threads
    /\ serving \in [Threads -> Clients \cup {"none"}]
    /\ client \in [Clients -> {"seek", "add", "adding", "allocate", "share", "sharing",
                               "end", "crashed"}]
    /\ call \in [Clients -> {"none", "sent", "replied", "failed"} \cup InHand]
    /\ reply \in [Clients -> Replies]
    /\ sum \in [Clients -> Replies]
    /\ ret \in [Clients -> Replies]
    /\ memory \in [Clients -> {"none", "filled"}]
    /\ shared \in [Clients -> {"no", "mapped", "unmapped"}]
    /\ dropped \subseteq Clients \X {"add", "share"}

\* A call is in the hands of one thread at most, from Take to Reply.
OneThread ==
    \A t \in Threads, c \in Clients : serving[t] = c =>
        call[c] \in InHand /\ \A u \in Threads : serving[u] = c => u = t

\* A client has a call only while it waits in transact(), and only share_mem()
\* makes the service ask for the memory, which is there.
Waits(c) ==
    /\ call[c] # "none" => client[c] \in {"adding", "sharing"}
    /\ call[c] \in {"asks", "given", "refused"} => client[c] = "sharing"
    /\ call[c] = "refused" => Faults
    /\ client[c] \in {"share", "sharing"} => memory[c] = "filled"

\* What is in the parcel answers the call that is under way.
Parcel(c) ==
    /\ call[c] \notin {"none", "replied"} => reply[c] = Dead
    /\ call[c] = "replied" /\ client[c] = "adding" => reply[c] = Sum(c)
    /\ call[c] = "replied" /\ client[c] = "sharing" => reply[c] = True /\ shared[c] # "no"

\* What the client has read from its parcels: Dead only where transact() failed.
Told(c) ==
    /\ sum[c] \in {Dead, Sum(c)} /\ ret[c] \in {Dead, True}
    /\ ret[c] = True => shared[c] # "no"
    /\ IF client[c] \in {"allocate", "share", "sharing", "end"}
       THEN sum[c] = Dead <=> <<c, "add">> \in dropped
       ELSE client[c] # "crashed" => <<c, "add">> \notin dropped
    /\ IF client[c] = "end" THEN ret[c] = Dead <=> <<c, "share">> \in dropped
                            ELSE <<c, "share">> \notin dropped

\* The driver has told whoever waited for a server that died.
Forgotten == server = "dead" => \A c \in Clients : call[c] \notin {"sent"} \cup InHand

\* Who calls has found a server that was started, and from joinThreadPool() on
\* the server has a thread to serve with.
Started ==
    /\ server = "instantiate" => ~registered /\ \A c \in Clients : client[c] = "seek"
    /\ server = "serving" => "main" \in working

\* No thread lets go of a call that it has not answered.
Served == \A c \in Clients : call[c] \in InHand => \E t \in Threads : serving[t] = c

CallInv ==
    TypeOK /\ OneThread /\ Forgotten /\ \A c \in Clients : Waits(c) /\ Parcel(c) /\ Told(c)

-----------------------------------------------------------------------------
LEMMA RepliesHas ==
    /\ Dead \in Replies /\ True \in Replies /\ Dead # True
    /\ \A c \in Clients : Sum(c) \in Replies /\ Sum(c) # Dead
<1>1. Dead # True /\ \A c \in Clients : Sum(c) # Dead
  BY DEF Dead, True, Sum
<1>2. QED
  BY <1>1 DEF Replies

LEMMA InitCallInv == Init => CallInv
<1> SUFFICES ASSUME Init PROVE CallInv
  OBVIOUS
<1>1. TypeOK
  BY RepliesHas DEF Init, TypeOK, InHand
<1>2. OneThread /\ Forgotten
  BY BinderAssumption DEF Init, OneThread, Forgotten
<1>3. \A c \in Clients : Waits(c) /\ Parcel(c) /\ Told(c)
  BY RepliesHas DEF Init, Waits, Parcel, Told
<1>4. QED
  BY <1>1, <1>2, <1>3 DEF CallInv

\* main() of the server and the driver's thread-making touch no call.
LEMMA ServerKeeps ==
    ASSUME CallInv, Instantiate \/ Serve \/ (\E t \in Threads : Spawn(t))
    PROVE  CallInv'
<1>1. TypeOK'
  BY BinderAssumption DEF CallInv, TypeOK, Instantiate, Serve, Spawn, clientVars, history
<1>2. /\ UNCHANGED <<serving, clientVars, call, reply, history>>
      /\ (server # "dead" /\ server' # "dead") \/ server' = server
  BY DEF Instantiate, Serve, Spawn
<1>3. QED
  BY <1>1, <1>2 DEF CallInv, OneThread, Forgotten, Waits, Parcel, Told, clientVars, history

LEMMA DeathKeeps == ASSUME CallInv, ServerDies PROVE CallInv'
<1>1. TypeOK'
  BY DEF CallInv, TypeOK, ServerDies, clientVars, history
<1>2. (OneThread /\ Forgotten)'
  BY BinderAssumption DEF CallInv, TypeOK, ServerDies, OneThread, Forgotten, InHand
<1>3. ASSUME NEW c \in Clients PROVE (Waits(c) /\ Parcel(c) /\ Told(c))'
  BY DEF CallInv, TypeOK, ServerDies, Waits, Parcel, Told, clientVars, history
<1>4. QED
  BY <1>1, <1>2, <1>3 DEF CallInv

\* A thread of the server.
LEMMA ThreadKeeps ==
    ASSUME CallInv, NEW t \in Threads, NEW c \in Clients,
           Take(t, c) \/ OnAdd(t, c) \/ OnShare(t, c) \/ OnShared(t, c)
    PROVE  CallInv'
<1>1. TypeOK'
  BY RepliesHas
     DEF CallInv, TypeOK, Take, OnAdd, OnShare, OnShared, Reply, serverVars, clientVars, history, InHand
<1>2. OneThread'
  BY BinderAssumption
     DEF CallInv, TypeOK, OneThread, Take, OnAdd, OnShare, OnShared, Reply, InHand
<1>3. Forgotten'
  BY DEF CallInv, TypeOK, Forgotten, Take, OnAdd, OnShare, OnShared, Reply, serverVars, InHand
<1>4. ASSUME NEW d \in Clients PROVE (Waits(d) /\ Parcel(d) /\ Told(d))'
  BY DEF CallInv, TypeOK, Waits, Parcel, Told, Take, OnAdd, OnShare, OnShared, Reply,
         serverVars, clientVars, history, InHand
<1>5. QED
  BY <1>1, <1>2, <1>3, <1>4 DEF CallInv

LEMMA ClientKeeps == ASSUME CallInv, NEW c \in Clients, ClientStep(c) PROVE CallInv'
<1>1. TypeOK'
  BY RepliesHas
     DEF CallInv, TypeOK, ClientStep, GetService, Add, AddReturns, Allocate, ShareMem,
         GiveMemory, ShareMemReturns, Transact, Sent, Answered, serverVars, clientVars, history, InHand
<1>2. OneThread'
  BY DEF CallInv, TypeOK, OneThread, Waits, ClientStep, GetService, Add, AddReturns, Allocate,
         ShareMem, GiveMemory, ShareMemReturns, Transact, Sent, Answered, InHand
<1>3. Forgotten'
  BY DEF CallInv, TypeOK, Forgotten, ClientStep, GetService, Add, AddReturns, Allocate,
         ShareMem, GiveMemory, ShareMemReturns, Transact, Sent, Answered, serverVars, InHand
<1>4. ASSUME NEW d \in Clients PROVE (Waits(d) /\ Parcel(d) /\ Told(d))'
  BY RepliesHas
     DEF CallInv, TypeOK, Waits, Parcel, Told, ClientStep, GetService, Add, AddReturns, Allocate,
         ShareMem, GiveMemory, ShareMemReturns, Transact, Sent, Answered, serverVars, clientVars, history, InHand
<1>5. QED
  BY <1>1, <1>2, <1>3, <1>4 DEF CallInv

LEMMA NextCallInv == CallInv /\ [Next]_vars => CallInv'
<1> SUFFICES ASSUME CallInv, [Next]_vars PROVE CallInv'
  OBVIOUS
<1>1. CASE UNCHANGED vars
  BY <1>1 DEF vars, serverVars, clientVars, history, CallInv, TypeOK, OneThread, Forgotten, Waits, Parcel, Told
<1>2. QED
  BY <1>1, ServerKeeps, DeathKeeps, ThreadKeeps, ClientKeeps DEF Next, ThreadStep, Halt

LEMMA CallInvariance == Spec => []CallInv
  BY InitCallInv, NextCallInv, PTL DEF Spec

(***************************************************************************)
(* ToldTheTruth: the sum is of the client's own numbers, a 1 from          *)
(* share_mem() means that the service was called with the memory, and a 0  *)
(* that transact() failed.                                                 *)
(***************************************************************************)
THEOREM Truth == Spec => []ToldTheTruth
<1>1. CallInv => ToldTheTruth
  BY DEF CallInv, Told, ToldTheTruth
<1>2. QED
  BY <1>1, CallInvariance, PTL

(***************************************************************************)
(* MemoryThere: the memory that the service holds is filled, and the client *)
(* waits to serve the calls that come back for it.                         *)
(***************************************************************************)
THEOREM Memory == Spec => []MemoryThere
<1>1. CallInv => MemoryThere
  BY DEF CallInv, TypeOK, OneThread, Waits, MemoryThere, InHand
<1>2. QED
  BY <1>1, CallInvariance, PTL

-----------------------------------------------------------------------------
(* Nobody waits in vain.                                                   *)

\* Whoever a client waits for can take the next step: the server that is about to
\* start its threads, a thread that is free or serves somebody, the client itself
\* if it is asked for its memory or has its answer.
NobodyStuck ==
    \A c \in Clients :
        /\ call[c] = "asks" => client[c] = "sharing"
        /\ call[c] \in InHand => \E t \in Threads : serving[t] = c
        /\ call[c] = "sent" => \/ server \in {"startThreadPool", "joinThreadPool"}
                              \/ \E t \in working : \/ serving[t] = "none"
                                                   \/ call[serving[t]] \in InHand

LEMMA InitServed == Init => Started /\ Served
  BY DEF Init, Started, Served, InHand

LEMMA NextServed ==
    ASSUME CallInv, Started, Served, [Next]_vars PROVE Started' /\ Served'
<1> USE DEF CallInv, TypeOK, Started, Served, serverVars, clientVars, history
<1>1. CASE Instantiate \/ Serve \/ \E t \in Threads : Spawn(t)
  <2>1. Served'
    <3>1. UNCHANGED <<call, serving>>
      BY <1>1 DEF Instantiate, Serve, Spawn
    <3>2. QED
      BY <3>1
  <2>2. server' # "instantiate" \/ UNCHANGED <<client, server, registered>>
    BY <1>1 DEF Instantiate, Serve, Spawn
  <2>3. server' = "serving" => "main" \in working'
    BY <1>1 DEF Instantiate, Serve, Spawn
  <2>4. QED
    BY <2>1, <2>2, <2>3
<1>2. CASE ServerDies
  BY <1>2 DEF ServerDies, InHand
<1>3. ASSUME NEW t \in Threads, NEW c \in Clients,
             Take(t, c) \/ OnAdd(t, c) \/ OnShare(t, c) \/ OnShared(t, c)
      PROVE  Started' /\ Served'
  BY <1>3, BinderAssumption DEF Take, OnAdd, OnShare, OnShared, Reply, OneThread, InHand
<1>4. ASSUME NEW c \in Clients, ClientStep(c) PROVE Started' /\ Served'
  BY <1>4 DEF ClientStep, GetService, Add, AddReturns, Allocate, ShareMem, GiveMemory,
              ShareMemReturns, Transact, Sent, Answered, InHand
<1>5. CASE UNCHANGED vars
  BY <1>5 DEF vars
<1>6. QED
  BY <1>1, <1>2, <1>3, <1>4, <1>5 DEF Next, ThreadStep, Halt

(***************************************************************************)
(* NobodyStuck: however many clients call, and however few threads there   *)
(* are, the server and its clients never wait for each other in a circle   *)
(* (TestBinderService.cpp:33): what is left to fairness is that each runs. *)
(***************************************************************************)
THEOREM NoCircle == Spec => []NobodyStuck
<1>1. Spec => [](Started /\ Served)
  BY InitServed, NextServed, CallInvariance, PTL DEF Spec
<1>2. ASSUME CallInv, Started, Served PROVE NobodyStuck
  <2>1. ASSUME NEW c \in Clients, call[c] = "sent",
               server \notin {"startThreadPool", "joinThreadPool"}
        PROVE  \E t \in working : serving[t] = "none" \/ call[serving[t]] \in InHand
    <3>1. server = "serving"
      BY <1>2, <2>1 DEF CallInv, TypeOK, Forgotten, Waits, Started
    <3>2. "main" \in working /\ "main" \in Threads
      BY <1>2, <3>1, BinderAssumption DEF Started
    <3>3. serving["main"] = "none" \/ call[serving["main"]] \in InHand
      BY <1>2, <3>2 DEF CallInv, TypeOK, OneThread
    <3>4. QED
      BY <3>2, <3>3
  <2>2. QED
    BY <1>2, <2>1 DEF CallInv, Waits, Served, NobodyStuck
<1>3. QED
  BY <1>1, <1>2, CallInvariance, PTL

-----------------------------------------------------------------------------
(* Binder implements TestService.                                          *)

LEMMA InitService == Init => Service!Init
<1> SUFFICES ASSUME Init PROVE Service!Init
  OBVIOUS
<1>1. \A c \in Clients : call[c] = "none" /\ Heard(sum[c], Sum(c)) = "none"
                          /\ Heard(ret[c], True) = "none"
  BY RepliesHas DEF Init, Heard, Dead, Sum
<1>2. \A c \in Clients : Outcome(c) = "none"
  BY <1>1 DEF Outcome
<1>3. QED
  BY <1>1, <1>2 DEF Init, Service!Init

\* The steps that the clients cannot see.
LEMMA HiddenSteps ==
    ASSUME CallInv,
           \/ Instantiate \/ Serve \/ Halt \/ UNCHANGED vars
           \/ \E t \in Threads : Spawn(t) \/ \E c \in Clients : Take(t, c) \/ OnShare(t, c)
           \/ \E c \in Clients : GetService(c) \/ Allocate(c) \/ GiveMemory(c)
    PROVE  UNCHANGED Service!vars
<1>1. /\ (server # "dead") = (server # "dead")'
      /\ UNCHANGED <<sum, ret, shared>>
  BY DEF Instantiate, Serve, Halt, Spawn, Take, OnShare, GetService, Allocate, GiveMemory,
         vars, serverVars, clientVars, history
<1>2. \A c \in Clients :
        /\ (call[c] = "none") = (call'[c] = "none")
        /\ Outcome(c)' = Outcome(c)
        /\ call[c] # "none" => client'[c] = client[c]
  <2>1. CASE UNCHANGED <<call, client>>
    BY <2>1 DEF Outcome
  <2>2. CASE \E c \in Clients : GetService(c) \/ Allocate(c)
    BY <2>2 DEF CallInv, TypeOK, Waits, GetService, Allocate, Outcome
  <2>3. CASE \/ \E t \in Threads, c \in Clients : Take(t, c) \/ OnShare(t, c)
             \/ \E c \in Clients : GiveMemory(c)
    BY <2>3 DEF CallInv, TypeOK, Take, OnShare, GiveMemory, clientVars, Outcome
  <2>4. QED
    BY <2>1, <2>2, <2>3 DEF Instantiate, Serve, Halt, Spawn, vars, clientVars
<1>3. QED
  BY <1>1, <1>2 DEF Service!vars

LEMMA AnswerStep ==
    ASSUME CallInv, NEW t \in Threads, NEW c \in Clients, OnAdd(t, c) \/ OnShared(t, c)
    PROVE  Service!CarryOut(c)
<1> DEFINE ops == [d \in Clients |-> IF call[d] = "none" THEN "none" ELSE
                                     IF client[d] = "adding" THEN "add" ELSE "share"]
           outcomes == [d \in Clients |-> Outcome(d)]
<1>1. /\ call[c] \in InHand /\ server # "dead" /\ UNCHANGED <<server, sum, ret, client>>
      /\ \/ call' = [call EXCEPT ![c] = "replied"]
         \/ Faults /\ call' = [call EXCEPT ![c] = "failed"]
  BY DEF CallInv, Forgotten, OnAdd, OnShared, Reply, InHand, serverVars, clientVars
<1>2. call'[c] \in {"replied", "failed"} /\ \A d \in Clients \ {c} : call'[d] = call[d]
  BY <1>1 DEF CallInv, TypeOK
<1>3. outcomes[c] = "open" /\ UNCHANGED ops
  BY <1>1, <1>2 DEF InHand, Outcome
<1>4. \/ outcomes' = [outcomes EXCEPT ![c] = "done"]
      \/ Faults /\ outcomes' = [outcomes EXCEPT ![c] = "lost"]
  <2>1. \A d \in Clients \ {c} : Outcome(d)' = Outcome(d)
    BY <1>2 DEF Outcome
  <2>2. Outcome(c)' = "done" \/ (Faults /\ Outcome(c)' = "lost")
    <3>1. ASSUME NEW s, call' = [call EXCEPT ![c] = s] PROVE call'[c] = s
      BY <3>1 DEF CallInv, TypeOK
    <3>2. call'[c] = "replied" \/ (Faults /\ call'[c] = "failed")
      BY <1>1, <3>1, Zenon
    <3>3. QED
      BY <3>2 DEF Outcome
  <2>3. QED
    BY <2>1, <2>2
<1>5. \/ ops[c] = "add" /\ UNCHANGED shared
      \/ ops[c] = "share" /\ shared' = [shared EXCEPT ![c] = "mapped"]
      \/ ops[c] = "share" /\ Faults /\ shared' = [shared EXCEPT ![c] = "unmapped"]
  BY DEF CallInv, TypeOK, Waits, OnAdd, OnShared
<1>6. QED
  BY <1>1, <1>3, <1>4, <1>5 DEF Service!CarryOut

LEMMA CallStep ==
    ASSUME CallInv, NEW c \in Clients, Add(c) \/ ShareMem(c)
    PROVE  \E op \in {"add", "share"} : Service!Call(c, op)
<1> DEFINE outcomes == [d \in Clients |-> Outcome(d)]
<1>1. /\ call[c] = "none" /\ client'[c] \in {"adding", "sharing"}
      /\ \A d \in Clients \ {c} : client'[d] = client[d]
      /\ UNCHANGED <<server, sum, ret, shared>>
  BY DEF CallInv, TypeOK, Waits, Add, ShareMem, InHand, serverVars, history
<1>2. \/ server # "dead" /\ call' = [call EXCEPT ![c] = "sent"]
      \/ Faults /\ call' = [call EXCEPT ![c] = "failed"]
  BY DEF Add, ShareMem, Transact, Sent
<1>3. call'[c] \in {"sent", "failed"} /\ \A d \in Clients \ {c} : call'[d] = call[d]
  BY <1>2 DEF CallInv, TypeOK
<1>4. \/ server # "dead" /\ outcomes' = [outcomes EXCEPT ![c] = "open"]
      \/ Faults /\ outcomes' = [outcomes EXCEPT ![c] = "lost"]
  <2>1. \A d \in Clients \ {c} : Outcome(d)' = Outcome(d)
    BY <1>3 DEF Outcome
  <2>2. (server # "dead" /\ Outcome(c)' = "open") \/ (Faults /\ Outcome(c)' = "lost")
    <3>1. ASSUME NEW s, call' = [call EXCEPT ![c] = s] PROVE call'[c] = s
      BY <3>1 DEF CallInv, TypeOK
    <3>2. (server # "dead" /\ call'[c] = "sent") \/ (Faults /\ call'[c] = "failed")
      BY <1>2, <3>1, Zenon
    <3>3. QED
      BY <3>2 DEF Outcome
  <2>3. QED
    BY <2>1, <2>2
<1>5. PICK op \in {"add", "share"} : op = IF client'[c] = "adding" THEN "add" ELSE "share"
  OBVIOUS
<1>6. Service!Call(c, op)
  BY <1>1, <1>3, <1>4, <1>5 DEF Service!Call
<1>7. QED
  BY <1>6

LEMMA ReturnStep ==
    ASSUME CallInv, NEW c \in Clients, AddReturns(c) \/ ShareMemReturns(c)
    PROVE  Service!Return(c)
<1> DEFINE op == IF client[c] = "adding" THEN "add" ELSE "share"
           outcomes == [d \in Clients |-> Outcome(d)]
           heard == IF op = "add" THEN Heard(sum'[c], Sum(c)) ELSE Heard(ret'[c], True)
           results == [d \in Clients |-> [o \in {"add", "share"} |->
                         IF o = "add" THEN Heard(sum[d], Sum(d)) ELSE Heard(ret[d], True)]]
<1>1. /\ call[c] \in {"replied", "failed"} /\ call' = [call EXCEPT ![c] = "none"]
      /\ \A d \in Clients \ {c} : call'[d] = call[d] /\ client'[d] = client[d]
                               /\ sum'[d] = sum[d] /\ ret'[d] = ret[d]
      /\ UNCHANGED <<server, shared>>
  BY DEF CallInv, TypeOK, AddReturns, ShareMemReturns, Answered, serverVars, history
<1>2. /\ heard = IF call[c] = "replied" THEN "right" ELSE "none"
      /\ op = "add" => ret'[c] = ret[c]
      /\ op = "share" => sum'[c] = sum[c]
  BY RepliesHas, <1>1
     DEF CallInv, TypeOK, Parcel, AddReturns, ShareMemReturns, Heard, Dead, Sum, True
<1>3. results' = [results EXCEPT ![c][op] = heard]
  <2>1. \A d \in Clients \ {c} : results'[d] = results[d]
    BY <1>1
  <2>2. results'[c] = [results[c] EXCEPT ![op] = heard]
    BY <1>2
  <2>3. QED
    BY <2>1, <2>2
<1>4. outcomes' = [outcomes EXCEPT ![c] = "none"]
  BY <1>1 DEF CallInv, TypeOK, Outcome
<1>5. outcomes[c] = (IF call[c] = "replied" THEN "done" ELSE "lost")
  BY <1>1 DEF Outcome
<1>6. [d \in Clients |-> IF call[d] = "none" THEN "none" ELSE
                          IF client[d] = "adding" THEN "add" ELSE "share"]'
      = [[d \in Clients |-> IF call[d] = "none" THEN "none" ELSE
                            IF client[d] = "adding" THEN "add" ELSE "share"]
            EXCEPT ![c] = "none"]
  BY <1>1 DEF CallInv, TypeOK
<1>7. heard = IF outcomes[c] = "done" THEN "right" ELSE "none"
  BY <1>1, <1>2, <1>5
<1>8. /\ outcomes[c] \in {"done", "lost"} /\ UNCHANGED <<server, shared>>
      /\ op = [d \in Clients |-> IF call[d] = "none" THEN "none" ELSE
                                 IF client[d] = "adding" THEN "add" ELSE "share"][c]
  BY <1>1, <1>5
<1> HIDE DEF heard
<1>9. QED
  BY <1>3, <1>4, <1>6, <1>7, <1>8 DEF Service!Return

LEMMA DeathStep == ASSUME CallInv, ServerDies PROVE Service!Die
<1>1. /\ Faults /\ server # "dead" /\ server' = "dead" /\ UNCHANGED <<client, sum, ret, shared>>
      /\ \A c \in Clients :
            call'[c] = IF call[c] \in {"none", "replied"} THEN call[c] ELSE "failed"
  BY DEF ServerDies, clientVars, history
<1>2. \A c \in Clients : Outcome(c)' = IF Outcome(c) = "open" THEN "lost" ELSE Outcome(c)
  BY <1>1 DEF Outcome
<1>3. QED
  BY <1>1, <1>2 DEF Service!Die

(***************************************************************************)
(* ImplementsService: every step of the server, its threads, the driver    *)
(* and the clients is a step of the service or one that no client sees.    *)
(***************************************************************************)
THEOREM Implementation == Spec => ImplementsService
<1>1. CallInv /\ [Next]_vars => [Service!Next]_(Service!vars)
  BY HiddenSteps, AnswerStep, CallStep, ReturnStep, DeathStep
     DEF Next, ThreadStep, ClientStep, Service!Next
<1>2. QED
  BY <1>1, InitService, CallInvariance, PTL DEF Spec, ImplementsService, Service!Spec
=============================================================================

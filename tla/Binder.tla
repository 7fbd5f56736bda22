------------------------------- MODULE Binder -------------------------------
(***************************************************************************)
(* TestBinder: a service that adds two numbers and takes shared memory,    *)
(* and its clients.  Calls go through binder, here its driver: a call      *)
(* waits for a thread of the server, and the thread that serves it may     *)
(* call back into the client, which has no threads but the one that waits. *)
(***************************************************************************)
EXTENDS FiniteSets

CONSTANTS Clients,     \* processes that run the client
          Threads,     \* bound: threads of the server; "main" and "pool" are two
          Faults       \* may the server die, and calls fail?

ASSUME BinderAssumption ==
    {"main", "pool"} \subseteq Threads /\ Faults \in BOOLEAN /\ "none" \notin Clients

VARIABLES server,      \* where main() of the server is, or "dead"
          registered,  \* does the service manager know the service?
          working,     \* the threads in the server's pool
          serving,     \* the client a thread serves, or "none"
          client,      \* where main() of a client is
          call,        \* a client's call: "none", "sent", "taken", "asks" (for
                       \* the memory), "given" or "refused", "replied", "failed"
          reply,       \* what is in the reply parcel, 0 if nothing
          sum, ret,    \* what a client was told
          memory,      \* a client's shared memory: "none", "filled"
          shared,      \* was share_mem() carried out with a client's memory:
                       \* "no", "mapped", or "unmapped" (pointer() is NULL)
          dropped      \* the calls that failed: their status is dropped (history)

serverVars == <<server, registered, working>>
clientVars == <<client, sum, ret, memory>>
history == <<shared, dropped>>
vars == <<serverVars, serving, clientVars, call, reply, history>>

\* add(3, 4): the sum that belongs to a client's own numbers
Sum(c) == <<"sum", c>>
Dead == <<"empty">>        \* readInt32() of a reply that never came: 0
True == <<"true">>

Init ==
    /\ server = "instantiate" /\ registered = FALSE /\ working = {}
    /\ serving = [t \in Threads |-> "none"]
    /\ client = [c \in Clients |-> "seek"] /\ call = [c \in Clients |-> "none"]
    /\ reply = [c \in Clients |-> Dead]
    /\ sum = [c \in Clients |-> Dead] /\ ret = [c \in Clients |-> Dead]
    /\ memory = [c \in Clients |-> "none"]
    /\ shared = [c \in Clients |-> "no"] /\ dropped = {}

-----------------------------------------------------------------------------
(* The server.                                                             *)

\* instantiate(): the status of addService() is only logged.
Instantiate ==
    /\ server = "instantiate" /\ server' = "startThreadPool"
    /\ registered' \in (IF Faults THEN BOOLEAN ELSE {TRUE})
    /\ UNCHANGED <<working, serving, clientVars, call, reply, history>>

\* Mutation of Serve: no thread begins to serve.
ServeNobody ==
    /\ \/ server = "startThreadPool" /\ server' = "joinThreadPool"
       \/ server = "joinThreadPool" /\ server' = "serving"
    /\ UNCHANGED <<registered, working, serving, clientVars, call, reply, history>>

\* startThreadPool() and joinThreadPool(), in this order
Serve ==
    /\ \/ server = "startThreadPool" /\ server' = "joinThreadPool" /\ working' = {"pool"}
       \/ server = "joinThreadPool" /\ server' = "serving" /\ working' = {"pool", "main"}
    /\ UNCHANGED <<registered, serving, clientVars, call, reply, history>>

\* The driver has another thread made when all are busy.
Spawn(t) ==
    /\ working # {} /\ t \notin working \cup {"main", "pool"}
    /\ \A u \in working : serving[u] # "none"
    /\ working' = working \cup {t}
    /\ UNCHANGED <<server, registered, serving, clientVars, call, reply, history>>

Take(t, c) ==
    /\ t \in working /\ serving[t] = "none" /\ call[c] = "sent"
    /\ serving' = [serving EXCEPT ![t] = c]
    /\ call' = [call EXCEPT ![c] = "taken"]
    /\ UNCHANGED <<serverVars, clientVars, reply, history>>

\* The thread is done with the call; its reply may not get through.
Reply(t, c, r) ==
    /\ \/ reply' = [reply EXCEPT ![c] = r] /\ call' = [call EXCEPT ![c] = "replied"]
       \/ Faults /\ call' = [call EXCEPT ![c] = "failed"] /\ UNCHANGED reply
    /\ serving' = [serving EXCEPT ![t] = "none"]
    /\ UNCHANGED <<serverVars, clientVars, dropped>>

\* onTransact(): ADD
OnAdd(t, c) ==
    /\ serving[t] = c /\ call[c] = "taken" /\ client[c] = "adding"
    /\ Reply(t, c, Sum(c)) /\ UNCHANGED shared

\* onTransact(): SHARE_MEM.  share_mem() asks for the pointer, and that is a
\* call back to the client.
OnShare(t, c) ==
    /\ serving[t] = c /\ call[c] = "taken" /\ client[c] # "adding"
    /\ call' = [call EXCEPT ![c] = "asks"]
    /\ UNCHANGED <<serverVars, serving, clientVars, reply, history>>

\* Mutation of OnShared: share_mem() is not called.
OnSharedUnseen(t, c) ==
    /\ serving[t] = c /\ call[c] \in {"given", "refused"}
    /\ Reply(t, c, True) /\ UNCHANGED shared

\* share_mem() looks at the pointer, which is NULL if the call back failed; the
\* answer is that a memory was passed, whatever became of it.
OnShared(t, c) ==
    /\ serving[t] = c /\ call[c] \in {"given", "refused"}
    /\ shared' = [shared EXCEPT ![c] = IF call[c] = "given" THEN "mapped" ELSE "unmapped"]
    /\ Reply(t, c, True)

\* Whoever waits for the server gets an error.
ServerDies ==
    /\ Faults /\ server \notin {"instantiate", "dead"}
    /\ server' = "dead" /\ registered' = FALSE /\ working' = {}
    /\ serving' = [t \in Threads |-> "none"]
    /\ call' = [c \in Clients |-> IF call[c] \in {"none", "replied"} THEN call[c] ELSE "failed"]
    /\ UNCHANGED <<clientVars, reply, history>>

-----------------------------------------------------------------------------
(* A client.                                                               *)

\* getService() once a second until there is one
GetService(c) ==
    /\ client[c] = "seek" /\ registered
    /\ client' = [client EXCEPT ![c] = "add"]
    /\ UNCHANGED <<serverVars, serving, call, reply, sum, ret, memory, history>>

\* A call goes to a server that lives, unless it fails at once.
Sent(c) ==
    \/ server # "dead" /\ call' = [call EXCEPT ![c] = "sent"]
    \/ Faults /\ call' = [call EXCEPT ![c] = "failed"]

\* Mutation of Transact: one reply parcel for all the calls of a client.
TransactStale(c) == Sent(c) /\ UNCHANGED reply

\* Each call has a reply parcel of its own.
Transact(c) == Sent(c) /\ reply' = [reply EXCEPT ![c] = Dead]

\* transact() returns, and nobody looks at its status.
Answered(c, op) ==
    /\ call[c] \in {"replied", "failed"} /\ call' = [call EXCEPT ![c] = "none"]
    /\ dropped' = IF call[c] = "failed" THEN dropped \cup {<<c, op>>} ELSE dropped

Add(c) ==
    /\ client[c] = "add" /\ client' = [client EXCEPT ![c] = "adding"]
    /\ Transact(c)
    /\ UNCHANGED <<serverVars, serving, sum, ret, memory, history>>

\* An empty reply reads as 0.
AddReturns(c) ==
    /\ client[c] = "adding" /\ Answered(c, "add")
    /\ client' = [client EXCEPT ![c] = "allocate"]
    /\ sum' = [sum EXCEPT ![c] = reply[c]]
    /\ UNCHANGED <<serverVars, serving, reply, ret, memory, shared>>

\* Nor at what allocate() returned.
Allocate(c) ==
    /\ client[c] = "allocate"
    /\ \/ /\ client' = [client EXCEPT ![c] = "share"]
          /\ memory' = [memory EXCEPT ![c] = "filled"]
       \/ Faults /\ client' = [client EXCEPT ![c] = "crashed"] /\ UNCHANGED memory
    /\ UNCHANGED <<serverVars, serving, call, reply, sum, ret, history>>

\* Mutation of ShareMem: a one-way call, for which the client does not wait.
ShareMemOneWay(c) ==
    /\ client[c] = "share" /\ client' = [client EXCEPT ![c] = "end"]
    /\ memory' = [memory EXCEPT ![c] = "none"]
    /\ Transact(c)
    /\ UNCHANGED <<serverVars, serving, sum, ret, history>>

ShareMem(c) ==
    /\ client[c] = "share" /\ client' = [client EXCEPT ![c] = "sharing"]
    /\ Transact(c)
    /\ UNCHANGED <<serverVars, serving, sum, ret, memory, history>>

\* The thread that waits in transact() serves the call back, and the server
\* maps what it is given, unless one of the two fails.
GiveMemory(c) ==
    /\ call[c] = "asks" /\ client[c] = "sharing"
    /\ \/ call' = [call EXCEPT ![c] = "given"]
       \/ Faults /\ call' = [call EXCEPT ![c] = "refused"]
    /\ UNCHANGED <<serverVars, serving, clientVars, reply, history>>

\* main() returns, and its memory goes with it.
ShareMemReturns(c) ==
    /\ client[c] = "sharing" /\ Answered(c, "share")
    /\ client' = [client EXCEPT ![c] = "end"]
    /\ ret' = [ret EXCEPT ![c] = reply[c]]
    /\ memory' = [memory EXCEPT ![c] = "none"]
    /\ UNCHANGED <<serverVars, serving, reply, sum, shared>>

-----------------------------------------------------------------------------
ClientStep(c) ==
    \/ GetService(c) \/ Add(c) \/ AddReturns(c) \/ Allocate(c)
    \/ ShareMem(c) \/ GiveMemory(c) \/ ShareMemReturns(c)

ThreadStep(t) == \E c \in Clients : Take(t, c) \/ OnAdd(t, c) \/ OnShare(t, c) \/ OnShared(t, c)

\* The service will not be found any more.
Gone == server = "dead" \/ (server # "instantiate" /\ ~registered)

Ended(c) == client[c] \in {"end", "crashed"} \/ (Gone /\ client[c] = "seek")

Halt == (\A c \in Clients : Ended(c)) /\ UNCHANGED vars

Next ==
    \/ Instantiate \/ Serve \/ ServerDies \/ Halt
    \/ \E t \in Threads : Spawn(t) \/ ThreadStep(t)
    \/ \E c \in Clients : ClientStep(c)

\* The server is started some time, and its threads and the clients run.
Spec ==
    /\ Init /\ [][Next]_vars
    /\ WF_vars(Instantiate) /\ WF_vars(Serve)
    /\ \A t \in Threads : WF_vars(ThreadStep(t))
    /\ \A c \in Clients : WF_vars(ClientStep(c))

-----------------------------------------------------------------------------
\* What a client was told is true, however many call at the same time: a sum
\* that is not 0 is of its own numbers, a 1 means that share_mem() was called
\* for its memory (whether that was mapped is not said: TestBinderService.cpp:33
\* and ITestBinderService.cpp:77), and it reads a 0 exactly where transact()
\* failed and its status was dropped (ITestBinderService.cpp:30, 46).
ToldTheTruth ==
    \A c \in Clients :
        /\ sum[c] \in {Dead, Sum(c)} /\ ret[c] \in {Dead, True}
        /\ ret[c] = True => shared[c] # "no"
        /\ client[c] \in {"allocate", "share", "sharing", "end"} =>
               (sum[c] = Dead <=> <<c, "add">> \in dropped)
        /\ client[c] = "end" => (ret[c] = Dead <=> <<c, "share">> \in dropped)

\* While the service has a client's memory in its hands the client has it too,
\* filled, and waits in transact() to serve the calls that its pointer() needs
\* (TestBinderService.cpp:33): a client has no thread pool to serve them.
MemoryThere ==
    \A t \in Threads, c \in Clients :
        serving[t] = c /\ client[c] # "adding" => memory[c] = "filled" /\ client[c] = "sharing"

\* TestBinder implements the service: what a client is told by a call is what
\* the service did between the start and the return of that very call, never
\* what an earlier call left behind, and a 0 in its place means that the call
\* failed or the server died before its answer came.
Heard(was, right) == IF was = right THEN "right" ELSE IF was = Dead THEN "none" ELSE "wrong"

Outcome(c) == CASE call[c] = "none"    -> "none"
                [] call[c] = "replied" -> "done"
                [] call[c] = "failed"  -> "lost"
                [] OTHER               -> "open"

Service == INSTANCE TestService WITH
    alive   <- server # "dead",
    call    <- [c \in Clients |-> IF call[c] = "none" THEN "none" ELSE
                                  IF client[c] = "adding" THEN "add" ELSE "share"],
    outcome <- [c \in Clients |-> Outcome(c)],
    result  <- [c \in Clients |-> [op \in {"add", "share"} |->
                  IF op = "add" THEN Heard(sum[c], Sum(c)) ELSE Heard(ret[c], True)]]

ImplementsService == Service!Spec

\* Every client that finds the service ends, whatever fails and whether or not
\* the server lives, and every client finds it if it is registered and lives.
\* A client that looks for a service that will not come again seeks for ever
\* (testBinder.cpp:18-25): that is left to it (Gone).
ClientsEnd == <>(\A c \in Clients : Ended(c))
=============================================================================

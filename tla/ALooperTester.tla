--------------------------- MODULE ALooperTester ---------------------------
(***************************************************************************)
(* ALooperTester.cpp: main() posts messages of every kind (at once,        *)
(* delayed, awaiting a response, holding another message) to a handler     *)
(* that owns its looper, and then drops its only reference to it.          *)
(***************************************************************************)
EXTENDS Looper

VARIABLES main,       \* where main() is
          tester,     \* ALooperTester: "none", "alive", "dying", "deleted"
          owners,     \* who holds an sp to it: main, its looper's thread
          acted,      \* has the handler of the current message done its work?
          delayed,    \* the message posted with a delay: "none", "pending", "due"
          reply,      \* of postAndAwaitResponse(): "none", "awaited", "posted"
          handled     \* what was handed to the handler, oldest first

object == <<tester, owners>>
sent   == <<delayed, reply>>
vars   == <<looper, main, object, acted, sent, handled>>

ASSUME ALooperTesterAssumption ==
    /\ Loopers = {"tester"}
    /\ Messages = {"start", "read", "wait", "other", "mesg", "stop"}

Init ==
    /\ LooperInit
    /\ main = "start"
    /\ tester = "none" /\ owners = {} /\ acted = FALSE
    /\ delayed = "none" /\ reply = "none" /\ handled = <<>>

At(here, next) == main = here /\ main' = next

-----------------------------------------------------------------------------
(***************************************************************************)
(* main()                                                                  *)
(***************************************************************************)
\* tester = new ..., and the first half of start(): the handler is registered
\* before anything is posted to it.
Register ==
    /\ At("start", "post")
    /\ tester' = "alive" /\ owners' = {"main"}
    /\ Begin("tester")
    /\ UNCHANGED <<acted, sent, handled>>

PostStart ==
    /\ At("post", "read")
    /\ Post("tester", "start")
    /\ UNCHANGED <<object, acted, sent, handled>>

\* read(): post(2000 * 1000)
PostRead ==
    /\ At("read", "wait")
    /\ delayed' = "pending"
    /\ UNCHANGED <<looper, object, acted, reply, handled>>

\* wait(): postAndAwaitResponse() ...
PostWait ==
    /\ At("wait", "await")
    /\ Post("tester", "wait")
    /\ reply' = "awaited"
    /\ UNCHANGED <<object, acted, delayed, handled>>

\* ... returns with the response.
Await ==
    /\ At("await", "other") /\ reply = "posted"
    /\ reply' = "none"
    /\ UNCHANGED <<looper, object, acted, delayed, handled>>

PostOther ==
    /\ At("other", "stop")
    /\ Post("tester", "other")
    /\ UNCHANGED <<object, acted, sent, handled>>

PostStop ==
    /\ At("stop", "clear")
    /\ Post("tester", "stop")
    /\ UNCHANGED <<object, acted, sent, handled>>

\* three seconds later tester.clear(): destroys it unless a delivery holds it
Clear ==
    /\ main = "clear"
    /\ owners' = owners \ {"main"}
    /\ IF owners = {"main"} THEN tester' = "dying" /\ main' = "unregister"
                            ELSE UNCHANGED tester /\ main' = "end"
    /\ UNCHANGED <<looper, acted, sent, handled>>

\* ~ALooperTester() on main's thread
UnregisterTester ==
    /\ At("unregister", "stopLooper")
    /\ Unregister("tester")
    /\ UNCHANGED <<object, acted, sent, handled>>

StopLooper ==
    /\ At("stopLooper", "join")
    /\ RequestStop("tester")
    /\ UNCHANGED <<object, acted, sent, handled>>

JoinLooper ==
    /\ At("join", "end") /\ Stopped("tester")
    /\ tester' = "deleted"
    /\ UNCHANGED <<looper, owners, acted, sent, handled>>

-----------------------------------------------------------------------------
(***************************************************************************)
(* The looper's thread.                                                    *)
(***************************************************************************)
\* The delay is over: from now on the message is in its turn.
DelayOver ==
    /\ delayed = "pending"
    /\ delayed' = "due"
    /\ Post("tester", "read")
    /\ UNCHANGED <<main, object, acted, reply, handled>>

Deliver ==
    /\ Due("tester") /\ registered["tester"] /\ owners # {}
    /\ Take("tester")
    /\ owners' = owners \cup {"tester"}
    /\ acted' = FALSE
    /\ handled' = Append(handled, Head(queue["tester"]))
    /\ UNCHANGED <<main, tester, sent>>

Drop ==
    /\ Due("tester") /\ (~registered["tester"] \/ owners = {})
    /\ Discard("tester")
    /\ UNCHANGED <<main, object, acted, sent, handled>>

\* Mutation of Handle: kWhatWait is not answered.
HandleUnanswered ==
    LET m == current["tester"]
    IN  /\ m # None /\ ~acted
        /\ acted' = TRUE
        /\ IF m = "other" THEN Post("tester", "mesg") ELSE UNCHANGED looper
        /\ UNCHANGED <<main, object, sent, handled>>

\* onMessageReceived(): kWhatWait is answered, kWhatOther posts the message it
\* holds, the others only log.
Handle ==
    LET m == current["tester"]
    IN  /\ m # None /\ ~acted
        /\ acted' = TRUE
        /\ IF m = "other" THEN Post("tester", "mesg") ELSE UNCHANGED looper
        /\ reply' = IF m = "wait" THEN "posted" ELSE reply
        /\ UNCHANGED <<main, object, delayed, handled>>

\* The delivery gives its sp back; if it is the last one ~ALooperTester() runs
\* on the looper's own thread.
Return ==
    /\ current["tester"] # None /\ acted
    /\ owners' = owners \ {"tester"}
    /\ current' = [current EXCEPT !["tester"] = None]
    /\ IF owners = {"tester"}
       THEN /\ tester' = "deleted"
            /\ registered' = [registered EXCEPT !["tester"] = FALSE]
            /\ stopping' = [stopping EXCEPT !["tester"] = TRUE]
       ELSE UNCHANGED <<tester, registered, stopping>>
    /\ UNCHANGED <<queue, thread, main, acted, sent, handled>>

ThreadRuns == Run("tester") /\ UNCHANGED <<main, object, acted, sent, handled>>

ThreadExits == Exit("tester") /\ UNCHANGED <<main, object, acted, sent, handled>>

MainSteps ==
    \/ Register \/ PostStart \/ PostRead \/ PostWait \/ Await \/ PostOther \/ PostStop
    \/ Clear \/ UnregisterTester \/ StopLooper \/ JoinLooper

LooperSteps == ThreadRuns \/ Deliver \/ Drop \/ Handle \/ Return \/ ThreadExits

\* main() has returned and the thread has ended.
Over == main = "end" /\ Stopped("tester") /\ UNCHANGED vars

Next == MainSteps \/ LooperSteps \/ DelayOver \/ Over

\* main and the looper are threads of the system: neither is left out.
Spec == Init /\ [][Next]_vars /\ WF_vars(MainSteps) /\ WF_vars(LooperSteps)

-----------------------------------------------------------------------------
\* Each message main posts without a delay comes after the one before it, and
\* the nested one after the one that holds it.
Follows == {<<"start", "wait">>, <<"wait", "other">>, <<"other", "stop">>, <<"other", "mesg">>}

\* wait() returns only when its own message has been handled, and everything
\* posted before it, though not the delayed read.
WaitReturnsAnswered ==
    main \notin {"start", "post", "read", "wait", "await"} =>
        \E i, j \in 1 .. Len(handled) : i < j /\ handled[i] = "start" /\ handled[j] = "wait"

\* What main posts without a delay is handled in the order it is posted, none
\* left out and each at most once, wherever the delayed message and the nested
\* one come in between; the nested one is handled at most once, and only after
\* the one that held it; and main goes on from wait() only when all it posted
\* so far has been handled (ALooperTester.cpp:92-152, 219-228).  This holds
\* for what is posted before the looper's thread has run, of which the comment
\* at line 91 says "deliver may fail when mLooper's internal thread has not
\* run": start() registers the handler first (87), so the message is queued
\* and waits for the thread.
InPostOrder ==
    /\ \A j \in 1 .. Len(handled) :
          /\ \A i \in 1 .. j - 1 : handled[i] # handled[j]
          /\ \A m \in Messages : <<m, handled[j]>> \in Follows =>
                                    \E i \in 1 .. j - 1 : handled[i] = m
    /\ WaitReturnsAnswered

\* main is not left waiting for its response, and whoever destroys the tester,
\* main or the looper's own thread, the looper ends with it (line 77-82).
EverythingEnds ==
    <>[](main = "end" /\ thread["tester"] = "exited" /\ tester = "deleted")
=============================================================================

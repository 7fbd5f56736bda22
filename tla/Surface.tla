------------------------------ MODULE Surface ------------------------------
(***************************************************************************)
(* SurfaceDemo.cpp and SoftwareRendererDemo.cpp: the pictures of a file to *)
(* the display, the first program through the buffer queue itself, the     *)
(* second through a SoftwareRenderer.                                      *)
(***************************************************************************)
EXTENDS BufferQueue

CONSTANTS MaxPictures, \* bound: pictures in the file
          Faults       \* may calls of the system and the libraries fail?

ASSUME SurfaceAssumption == MaxPictures \in Nat /\ Faults \in BOOLEAN

VARIABLES program,     \* "surface" or "software"
          empty,       \* is width * height * 3 / 2 zero?
          pictures,    \* whole pictures in the file
          pc,          \* where main() is, or "ok", "error", "aborted"
          turn,        \* turns of the loop that allocates
          held,        \* the buffer main() works with: none or one
          locked,      \* the buffers that are locked
          img,         \* did lock() give memory?
          picture,     \* pictures read
          failed       \* where calls have failed and the program has gone on:
                       \* places of pc, "unlock" or "malloc"

setup == <<program, empty, pictures>>
vars == <<bufferQueue, setup, pc, turn, held, locked, img, picture, failed>>

bufCnt == Cardinality(Buffers)
Partial == -1          \* a picture of which the file has only a part
Over == pc \in {"ok", "error", "aborted"}

Init ==
    /\ QueueInit
    /\ program \in {"surface", "software"}
    /\ empty \in BOOLEAN /\ pictures \in 0 .. MaxPictures
    /\ pc = "usage" /\ turn = 0 /\ held = {} /\ locked = {} /\ img = FALSE
    /\ picture = 0 /\ failed = {}

Go(here, next) == pc = here /\ pc' = next
GoOrFail(here, next, wrong) == pc = here /\ pc' \in (IF Faults THEN {next, wrong} ELSE {next})

\* The calls that fail without the program minding.
Failing(calls) == IF Faults THEN SUBSET calls ELSE {{}}

\* What CHECK() guards aborts.  After its usage line the program goes on: to the
\* atoi() of an argument that is not there, the fopen() of a file without a
\* name, or past an argument too many.
SurfaceSetup ==
    /\ program = "surface"
    /\ \/ pc = "usage" /\ \E argc \in 1 .. 6 :
             pc' \in (CASE argc < 3 -> {"aborted"}
                       [] argc = 3 -> {"aborted", "error"}
                       [] OTHER    -> {"open"})
       \/ GoOrFail("open", "show", "error")
       \/ GoOrFail("show", "connect", "aborted")
       \/ GoOrFail("connect", "format", "error")
       \/ GoOrFail("format", "init", "error")
    /\ UNCHANGED <<bufferQueue, setup, turn, held, locked, img, picture, failed>>

\* At the end a picture's memory, which may not be there.
SoftwareSetup ==
    /\ program = "software"
    /\ \/ /\ \/ \E argc \in 1 .. 6 : Go("usage", IF argc = 5 THEN "open" ELSE "error")
             \/ GoOrFail("open", "show", "error")
             \/ GoOrFail("show", "connect", "aborted")
             \/ Faults /\ Go("connect", "error")
          /\ UNCHANGED <<img, failed>>
       \/ /\ Go("connect", "read")
          /\ \E lost \in Failing({"malloc"}) : img' = (lost = {}) /\ failed' = failed \cup lost
    /\ UNCHANGED <<bufferQueue, setup, turn, held, locked, picture>>

-----------------------------------------------------------------------------
(* SurfaceDemo: a loop that makes the queue allocate its buffers, with one *)
(* turn for each of the bufCnt, then the loop over the pictures.           *)

InitDequeue ==
    /\ turn < bufCnt /\ Go("init", "initqueue")
    /\ \E b \in Buffers : Dequeue(b) /\ held' = {b}
    /\ UNCHANGED <<queue, allocating, content, fences, setup, turn, locked, img, picture, failed>>

\* Mutation of InitQueue: does not queue the buffer.
InitKeep ==
    /\ Go("initqueue", "init") /\ held' = {} /\ turn' = turn + 1
    /\ UNCHANGED <<bufferQueue, setup, locked, img, picture, failed>>

\* Nobody looks at the status of queueBuffer(): where it fails, the buffer stays
\* with the program.
InitQueue ==
    /\ Go("initqueue", "init") /\ turn' = turn + 1
    /\ \/ (\E b \in held : Queue(b)) /\ UNCHANGED failed
       \/ Faults /\ failed' = failed \cup {"initqueue"} /\ UNCHANGED <<at, queue>>
    /\ held' = {}
    /\ UNCHANGED <<allocating, content, fences, setup, locked, img, picture>>

InitEnd ==
    /\ turn = bufCnt /\ Go("init", "dequeue")
    /\ allocating' = FALSE
    /\ UNCHANGED <<at, queue, content, fences, setup, turn, held, locked, img, picture, failed>>

\* A dequeueBuffer() that fails ends the loop and not the program.
InitBreak ==
    /\ Faults /\ turn < bufCnt /\ Go("init", "dequeue")
    /\ allocating' = FALSE /\ failed' = failed \cup {"init"}
    /\ UNCHANGED <<at, queue, content, fences, setup, turn, held, locked, img, picture>>

DequeueBuffer ==
    /\ Go("dequeue", "lock")
    /\ \E b \in Buffers : Dequeue(b) /\ held' = {b}
    /\ UNCHANGED <<queue, allocating, content, fences, setup, turn, locked, img, picture, failed>>

\* The line after the loop says all the same that all frames are rendered.
DequeueError ==
    /\ Faults /\ Go("dequeue", "finish") /\ failed' = failed \cup {"dequeue"}
    /\ UNCHANGED <<bufferQueue, setup, turn, held, locked, img, picture>>

\* Nobody looks at the status of lock(), nor waits for the fence.
LockBuffer ==
    /\ Go("lock", "read")
    /\ \E lost \in Failing({"lock"}) :
          /\ img' = (lost = {}) /\ failed' = failed \cup lost
          /\ locked' = IF img' THEN locked \cup held ELSE locked
    /\ UNCHANGED <<bufferQueue, setup, turn, held, picture>>

\* Mutation of SurfaceRead: queues the part of a picture at the end as well.
SurfaceReadAll ==
    /\ program = "surface" /\ ~empty /\ img /\ Go("read", "queue")
    /\ picture' = IF picture < pictures THEN picture + 1 ELSE Partial
    /\ content' = [b \in Buffers |-> IF b \in held THEN picture' ELSE content[b]]
    /\ UNCHANGED <<at, queue, allocating, fences, setup, turn, held, locked, img, failed>>

\* Mutation of SurfaceRead: takes the last picture for the end of the file.
SurfaceReadLess ==
    /\ program = "surface" /\ ~empty /\ img
    /\ IF picture + 1 < pictures
       THEN Go("read", "queue") /\ picture' = picture + 1
       ELSE Go("read", "finish") /\ UNCHANGED picture
    /\ content' = [b \in Buffers |-> IF b \in held THEN picture' ELSE content[b]]
    /\ UNCHANGED <<at, queue, allocating, fences, setup, turn, held, locked, img, failed>>

\* The fread() of a picture.  At the end of the file the buffer holds a part
\* of one and stays with the program, locked.
SurfaceRead ==
    /\ program = "surface" /\ ~empty /\ img
    /\ IF picture < pictures
       THEN Go("read", "queue") /\ picture' = picture + 1
       ELSE Go("read", "finish") /\ UNCHANGED picture
    /\ content' = [b \in Buffers |-> IF b \notin held THEN content[b]
                                     ELSE IF pc' = "queue" THEN picture' ELSE Partial]
    /\ UNCHANGED <<at, queue, allocating, fences, setup, turn, held, locked, img, failed>>

\* No byte wanted is no byte missing: an empty picture is always read whole.
SurfaceReadEmpty ==
    /\ program = "surface" /\ empty /\ Go("read", "queue")
    /\ UNCHANGED <<bufferQueue, setup, turn, held, locked, img, picture, failed>>

\* Mutation of QueueBuffer: without unlock().
QueueLocked ==
    /\ Go("queue", "dequeue")
    /\ \/ (\E b \in held : Queue(b)) /\ UNCHANGED failed
       \/ Faults /\ failed' = failed \cup {"queue"} /\ UNCHANGED <<at, queue>>
    /\ held' = {} /\ UNCHANGED locked
    /\ UNCHANGED <<allocating, content, fences, setup, turn, img, picture>>

\* unlock() and queueBuffer(), the status of neither looked at
QueueBuffer ==
    /\ Go("queue", "dequeue")
    /\ \E lost \in Failing({"unlock", "queue"}) :
          /\ failed' = failed \cup lost
          /\ locked' = IF "unlock" \in lost THEN locked ELSE locked \ held
          /\ IF "queue" \in lost THEN UNCHANGED <<at, queue>> ELSE \E b \in held : Queue(b)
    /\ held' = {}
    /\ UNCHANGED <<allocating, content, fences, setup, turn, img, picture>>

\* The end of the process, or dispose() before it.
Leave == Dispose /\ held' = {} /\ locked' = {}

SurfaceEnd ==
    /\ program = "surface" /\ Go("finish", "ok")
    /\ Leave
    /\ UNCHANGED <<setup, turn, img, picture, failed>>

-----------------------------------------------------------------------------
(* SoftwareRendererDemo.                                                   *)

SoftwareRead ==
    /\ program = "software" /\ ~empty /\ img
    /\ IF picture < pictures
       THEN Go("read", "render") /\ picture' = picture + 1
       ELSE Go("read", "finish") /\ UNCHANGED picture
    /\ UNCHANGED <<bufferQueue, setup, turn, held, locked, img, failed>>

SoftwareReadEmpty ==
    /\ program = "software" /\ empty /\ Go("read", "render")
    /\ UNCHANGED <<bufferQueue, setup, turn, held, locked, img, picture, failed>>

\* fread() to memory that is not there: the process dies, or the read fails
\* and is taken for the end of the file.
NoMemory ==
    /\ ~empty /\ ~img
    /\ \/ Go("read", "aborted") /\ Leave
       \/ Go("read", "finish") /\ UNCHANGED <<bufferQueue, held, locked>>
    /\ UNCHANGED <<setup, turn, img, picture, failed>>

\* render() takes a free buffer, fills and queues it.
Render ==
    /\ Go("render", "read")
    /\ \E b \in Buffers : Available(b) /\ Queue(b) /\ content' = [content EXCEPT ![b] = picture]
    /\ UNCHANGED <<allocating, fences, setup, turn, held, locked, img, picture, failed>>

\* It gives up a picture if it gets no buffer, which the program does not see.
RenderDrop ==
    /\ Faults /\ Go("render", "read") /\ failed' = failed \cup {"render"}
    /\ UNCHANGED <<bufferQueue, setup, turn, held, locked, img, picture>>

SoftwareEnd ==
    /\ program = "software" /\ Go("finish", "ok")
    /\ Leave
    /\ UNCHANGED <<setup, turn, img, picture, failed>>

-----------------------------------------------------------------------------
Main ==
    \/ SurfaceSetup \/ SoftwareSetup \/ NoMemory
    \/ InitDequeue \/ InitQueue \/ InitEnd \/ DequeueBuffer
    \/ LockBuffer \/ SurfaceRead \/ SurfaceReadEmpty \/ QueueBuffer \/ SurfaceEnd
    \/ SoftwareRead \/ SoftwareReadEmpty \/ Render \/ SoftwareEnd

\* A dequeueBuffer() that could wait for ever need not fail.
NoBuffer == InitBreak \/ DequeueError \/ RenderDrop

Display == (Latch \/ Signal) /\ UNCHANGED <<setup, pc, turn, held, locked, img, picture, failed>>

\* dequeueBuffer() waits for the display for ever when it has no buffer but the
\* one that it shows.
Starved ==
    /\ pc \in {"dequeue", "render"} /\ queue = <<>>
    /\ ~\E b \in Buffers : Available(b)

Halt == (Over \/ Starved) /\ UNCHANGED vars

Next == Main \/ NoBuffer \/ Display \/ Halt

\* The program runs, the display shows what is queued and its fences signal.
Spec == Init /\ [][Next]_vars /\ WF_vars(Main) /\ WF_vars(Display)

-----------------------------------------------------------------------------
\* What is locked is the program's, which has one buffer at a time
\* (SurfaceDemo.cpp:219-221), as long as unlock() and queueBuffer(), whose
\* status nobody looks at, do not fail.  Nobody waits for the fence of line 190
\* either: what the program writes the display may still be reading, but only
\* after it has gone on to another buffer.
LockedIsOwned ==
    /\ "unlock" \notin failed => \A b \in locked : at[b] = "app"
    /\ failed \cap {"initqueue", "queue"} = {} => Cardinality({b \in Buffers : at[b] = "app"}) <= 1
    /\ locked \cap fences # {} => \E b \in Buffers \ fences : at[b] = "shown"

\* What is on the screen.
Shown == {content[b] : b \in {c \in Buffers : at[c] = "shown"}}
ShownPicture == IF Shown = {} THEN 0 ELSE CHOOSE p \in Shown : TRUE

\* What is queued for the screen.
Way == [i \in 1 .. Len(queue) |-> content[queue[i]]]

\* Have pictures been lost on the way?
Lost == failed \cap {"queue", "render"} # {}

\* Every step is one of Screen or changes nothing there: until the layer goes the
\* pictures of the file come to the screen in order, none twice and none in
\* part, none is overwritten while it is queued, and none is left out unless a
\* queueBuffer() at line 221 failed or render() dropped one.
Screen == INSTANCE Screen WITH
    file <- pictures, lost <- Lost, way <- Way, screen <- ShownPicture, open <- ~Over

ImplementsScreen == Screen!Spec

\* "we have renderred all frames now!" (SurfaceDemo.cpp:228,
\* SoftwareRendererDemo.cpp:176): unless a call failed that cost a picture, the
\* last one of the file is on the screen or on its way, where dispose() may
\* still stop it.
AllRendered ==
    pc = "finish" /\ failed \subseteq {"init", "initqueue", "unlock"} /\ pictures > 0 =>
        \E b \in Buffers : at[b] \in {"queued", "shown"} /\ content[b] = pictures

\* What leaves dequeueBuffer(), which has no time limit, without a buffer to wait
\* for (SurfaceDemo.cpp:167): fewer than two were allocated, or queueBuffer() has
\* failed and the program still has one.
MayStarve ==
    /\ program = "surface"
    /\ \/ "init" \in failed /\ turn < 2
       \/ failed \cap {"initqueue", "queue"} # {} /\ \E b \in Buffers : at[b] = "app"

\* The program ends: only an empty picture is read for ever, and only a
\* dequeueBuffer() or queueBuffer() that failed leaves it waiting
\* (SurfaceDemo.cpp:171, 179, 221; 190).
Ends == <>(Over \/ empty \/ (Starved /\ MayStarve))
=============================================================================

--------------------------- MODULE SurfaceProofs ---------------------------
(***************************************************************************)
(* SurfaceDemo and SoftwareRendererDemo with any number of buffers and     *)
(* pictures: who owns a buffer, and in which order the pictures are shown. *)
(***************************************************************************)
EXTENDS Surface, SequenceTheorems, FiniteSetTheorems, TLAPS

Setup == {"usage", "open", "show", "connect", "format"}

\* Where a call may fail without the program minding.
Places == {"init", "initqueue", "dequeue", "lock", "unlock", "queue", "render", "malloc"}

TypeOK ==
    /\ at \in [Buffers -> {"none", "free", "app", "queued", "shown"}]
    /\ queue \in Seq(Buffers) /\ content \in [Buffers -> Int] /\ fences \subseteq Buffers
    /\ program \in {"surface", "software"} /\ pictures \in Nat
    /\ pc \in Setup \cup {"init", "initqueue", "dequeue", "lock", "read", "queue", "render",
                          "finish", "ok", "error", "aborted"}
    /\ held \subseteq Buffers /\ locked \subseteq Buffers /\ picture \in Nat
    /\ failed \subseteq Places

(***************************************************************************)
(* Ownership.                                                              *)
(***************************************************************************)
\* The queue holds every queued buffer once, and one buffer at most is shown.
\* The display may still read buffers that were shown before that one.
QueueInv ==
    /\ \A b \in Buffers : at[b] = "queued" <=> \E i \in 1 .. Len(queue) : queue[i] = b
    /\ \A i, j \in 1 .. Len(queue) : queue[i] = queue[j] => i = j
    /\ \A b, c \in Buffers : at[b] = "shown" /\ at[c] = "shown" => b = c
    /\ \A b \in fences : at[b] # "shown"
    /\ fences # {} => \E b \in Buffers : at[b] = "shown"

\* Has a queueBuffer() failed, so that a buffer stayed with the program?
Kept == failed \cap {"initqueue", "queue"} # {}

\* The program has the buffer that it holds, one at most, and those that
\* queueBuffer() did not take.
HeldInv ==
    /\ \A b \in held : at[b] = "app"
    /\ Kept \/ \A b \in Buffers : at[b] = "app" => b \in held
    /\ \A b, c \in held : b = c
    /\ "unlock" \in failed \/ (locked \subseteq held /\ (pc \in {"initqueue", "lock"} => locked = {}))
    /\ pc \in Setup \cup {"init", "dequeue", "render"} \/ program = "software" => held = {}
    /\ pc \in Setup \/ Over => queue = <<>> /\ fences = {} /\ \A b \in Buffers : at[b] = "none"
    /\ pc \in {"format", "init", "initqueue", "dequeue", "lock", "queue"} => program = "surface"
    /\ pc = "render" => program = "software"
    /\ program = "software" => ~Kept

(***************************************************************************)
(* Order.  From the screen to the end of the queue every buffer holds the  *)
(* picture that follows, up to the one that was read last; the buffers of  *)
(* the first loop, and all of them if the pictures are empty, hold 0.      *)
(***************************************************************************)
Follows(p, q) ==
    \/ q = p + 1
    \/ p = 0 /\ q = 0
    \/ Lost /\ p < q

\* The last picture on its way to the screen.
Reached == IF queue = <<>> THEN ShownPicture ELSE content[queue[Len(queue)]]

Ordered ==
    /\ ShownPicture \in Nat /\ \A i \in 1 .. Len(queue) : content[queue[i]] \in Nat
    /\ queue # <<>> => Follows(ShownPicture, content[queue[1]])
    /\ \A i \in 1 .. Len(queue) - 1 : Follows(content[queue[i]], content[queue[i + 1]])

\* Has a call failed that ends the loop over the pictures?
Ended == failed \cap {"dequeue", "lock", "malloc"} # {}

\* How far the file is read, against what is on its way.
Progress ==
    /\ Reached <= picture /\ picture <= pictures
    /\ IF pc \in {"queue", "render"} THEN Follows(Reached, picture)
       ELSE Over \/ Reached = picture \/ Lost
    /\ pc = "queue" => \A b \in held : content[b] = picture
    /\ empty \/ pc \in Setup \cup {"init", "initqueue"} =>
        picture = 0 /\ \A b \in Buffers : content[b] = 0
    /\ pc \in {"read", "render"} => img \/ Ended
    /\ pc = "finish" => Ended \/ (picture = pictures /\ ~empty)

SurfaceInv == TypeOK /\ QueueInv /\ HeldInv /\ Ordered /\ Progress

-----------------------------------------------------------------------------
LEMMA Lengths ==
    ASSUME NEW q \in Seq(Buffers)
    PROVE  Len(q) \in Nat /\ (q = <<>> <=> Len(q) = 0) /\ \A i \in 1 .. Len(q) : q[i] \in Buffers
  BY EmptySeq

LEMMA Appended ==
    ASSUME queue \in Seq(Buffers), NEW b \in Buffers, queue' = Append(queue, b)
    PROVE  /\ queue' \in Seq(Buffers) /\ Len(queue') = Len(queue) + 1
           /\ \A i \in 1 .. Len(queue) : queue'[i] = queue[i]
           /\ queue'[Len(queue) + 1] = b
  OBVIOUS

LEMMA Latched ==
    ASSUME queue \in Seq(Buffers), queue # <<>>, queue' = Tail(queue)
    PROVE  /\ queue' \in Seq(Buffers) /\ Len(queue') = Len(queue) - 1 /\ Len(queue) \in Nat \ {0}
           /\ Head(queue) = queue[1] /\ Head(queue) \in Buffers
           /\ \A i \in 1 .. Len(queue') : queue'[i] = queue[i + 1]
  OBVIOUS

LEMMA InitTypeOK == Init => TypeOK
  BY SurfaceAssumption DEF Init, QueueInit, TypeOK, Setup

LEMMA QueueTypes ==
    ASSUME TypeOK, NEW b \in Buffers, Queue(b)
    PROVE  queue' \in Seq(Buffers) /\ at' \in [Buffers -> {"none", "free", "app", "queued", "shown"}]
  BY Appended DEF Queue, TypeOK

LEMMA NextTypeOK == TypeOK /\ [Next]_vars => TypeOK'
<1> SUFFICES ASSUME TypeOK, [Next]_vars PROVE TypeOK'
  OBVIOUS
<1> USE DEF TypeOK, Setup, Places, setup, bufferQueue, Go, GoOrFail, Failing
<1>1. CASE SurfaceSetup
  <2>1. pc' \in {"open", "show", "connect", "format", "init", "error", "aborted"}
    BY <1>1 DEF SurfaceSetup
  <2>2. QED
    BY <1>1, <2>1 DEF SurfaceSetup
<1>2. CASE SoftwareSetup
  <2>1. pc' \in {"open", "show", "connect", "read", "error", "aborted"}
    BY <1>2 DEF SoftwareSetup
  <2>2. failed' \subseteq Places
    BY <1>2 DEF SoftwareSetup
  <2>3. QED
    BY <1>2, <2>1, <2>2 DEF SoftwareSetup
<1>3. CASE InitDequeue \/ DequeueBuffer
  BY <1>3 DEF InitDequeue, DequeueBuffer, Dequeue
<1>4. CASE InitQueue
  <2>1. queue' \in Seq(Buffers) /\ at' \in [Buffers -> {"none", "free", "app", "queued", "shown"}]
    BY <1>4, QueueTypes DEF InitQueue
  <2>2. QED
    BY <1>4, <2>1 DEF InitQueue
<1>5. CASE QueueBuffer
  <2>1. queue' \in Seq(Buffers) /\ at' \in [Buffers -> {"none", "free", "app", "queued", "shown"}]
    BY <1>5, QueueTypes DEF QueueBuffer
  <2>2. failed' \subseteq Places /\ locked' \subseteq Buffers
    BY <1>5 DEF QueueBuffer
  <2>3. QED
    BY <1>5, <2>1, <2>2 DEF QueueBuffer
<1>6. CASE Render
  BY <1>6, QueueTypes DEF Render
<1>7. CASE InitEnd \/ SurfaceReadEmpty \/ SoftwareRead \/ SoftwareReadEmpty
  <2>1. CASE InitEnd
    BY <2>1 DEF InitEnd
  <2>2. CASE SurfaceReadEmpty
    BY <2>2 DEF SurfaceReadEmpty
  <2>3. CASE SoftwareRead
    BY <2>3 DEF SoftwareRead
  <2>4. CASE SoftwareReadEmpty
    BY <2>4 DEF SoftwareReadEmpty
  <2>5. QED
    BY <1>7, <2>1, <2>2, <2>3, <2>4
<1>8. CASE LockBuffer
  BY <1>8 DEF LockBuffer
<1>9. CASE NoMemory \/ SurfaceEnd \/ SoftwareEnd
  BY <1>9, EmptySeq DEF NoMemory, SurfaceEnd, SoftwareEnd, Leave, Dispose
<1>10. CASE NoBuffer
  BY <1>10 DEF NoBuffer, InitBreak, DequeueError, RenderDrop
<1>11. CASE Display
  BY <1>11, Latched DEF Display, Latch, Signal
<1>12. CASE UNCHANGED vars
  BY <1>12 DEF vars
<1>13. CASE SurfaceRead
  <2>1. picture' \in Nat /\ pc' \in {"queue", "finish"}
    BY <1>13 DEF SurfaceRead
  <2>2. content' \in [Buffers -> Int]
    BY <1>13, <2>1 DEF SurfaceRead, Partial
  <2>3. QED
    BY <1>13, <2>1, <2>2 DEF SurfaceRead
<1>14. QED
  BY <1>1, <1>2, <1>3, <1>4, <1>5, <1>6, <1>7, <1>8, <1>9, <1>10, <1>11, <1>12, <1>13 DEF Next, Main, Halt

-----------------------------------------------------------------------------
(***************************************************************************)
(* Ownership.                                                              *)
(***************************************************************************)
LEMMA DequeueKeeps ==
    ASSUME TypeOK, QueueInv, NEW b \in Buffers, Dequeue(b), UNCHANGED <<queue, fences>>
    PROVE  QueueInv'
  BY DEF TypeOK, QueueInv, Dequeue, Available

LEMMA QueueKeeps ==
    ASSUME TypeOK, QueueInv, NEW b \in Buffers, at[b] \notin {"queued", "shown"}, Queue(b),
           UNCHANGED fences
    PROVE  QueueInv'
<1>1. /\ Len(queue) \in Nat /\ Len(queue') = Len(queue) + 1
      /\ \A i \in 1 .. Len(queue) : queue'[i] = queue[i]
      /\ queue'[Len(queue) + 1] = b
  BY Appended, Lengths DEF Queue, TypeOK
<1>2. \A i \in 1 .. Len(queue) : queue[i] # b /\ queue[i] \in Buffers
  BY Lengths DEF QueueInv, TypeOK
<1>3. \A i, j \in 1 .. Len(queue') : queue'[i] = queue'[j] => i = j
  BY <1>1, <1>2 DEF QueueInv
<1>4. ASSUME NEW c \in Buffers
      PROVE  at'[c] = "queued" <=> \E i \in 1 .. Len(queue') : queue'[i] = c
  <2>1. CASE c = b
    BY <1>1, <2>1 DEF Queue, TypeOK
  <2>2. CASE c # b
    BY <1>1, <2>2 DEF Queue, TypeOK, QueueInv
  <2>3. QED
    BY <2>1, <2>2
<1>5. \A c \in Buffers : at'[c] = "shown" <=> at[c] = "shown"
  BY DEF Queue, TypeOK
<1>6. QED
  BY <1>3, <1>4, <1>5 DEF QueueInv, TypeOK

LEMMA LatchKeeps == ASSUME TypeOK, QueueInv, Latch PROVE QueueInv'
<1>1. /\ Len(queue) \in Nat \ {0} /\ Len(queue') = Len(queue) - 1
      /\ Head(queue) = queue[1] /\ Head(queue) \in Buffers
      /\ \A i \in 1 .. Len(queue') : queue'[i] = queue[i + 1]
  BY Latched DEF Latch, TypeOK
<1>2. \A i, j \in 1 .. Len(queue') : queue'[i] = queue'[j] => i = j
  BY <1>1 DEF QueueInv
<1>3. ASSUME NEW c \in Buffers
      PROVE  at'[c] = "queued" <=> \E i \in 1 .. Len(queue') : queue'[i] = c
  <2>1. at'[c] = "queued" <=> at[c] = "queued" /\ c # queue[1]
    BY <1>1 DEF Latch, TypeOK
  <2>2. at[c] = "queued" /\ c # queue[1] <=> \E i \in 2 .. Len(queue) : queue[i] = c
    BY <1>1 DEF QueueInv
  <2>3. (\E i \in 2 .. Len(queue) : queue[i] = c) <=> \E i \in 1 .. Len(queue') : queue'[i] = c
    <3>1. ASSUME NEW i \in 2 .. Len(queue), queue[i] = c
          PROVE  i - 1 \in 1 .. Len(queue') /\ queue'[i - 1] = c
      BY <1>1, <3>1
    <3>2. ASSUME NEW i \in 1 .. Len(queue'), queue'[i] = c
          PROVE  i + 1 \in 2 .. Len(queue) /\ queue[i + 1] = c
      BY <1>1, <3>2
    <3>3. QED
      BY <3>1, <3>2
  <2>4. QED
    BY <2>1, <2>2, <2>3
<1>4. \A c \in Buffers : at'[c] = "shown" <=> c = Head(queue)
  BY <1>1 DEF Latch, TypeOK
<1>5. at[Head(queue)] = "queued"
  BY <1>1 DEF QueueInv
<1>6. \A b \in fences' : at'[b] # "shown"
  BY <1>1, <1>4, <1>5 DEF Latch, TypeOK
<1>7. QED
  BY <1>1, <1>2, <1>3, <1>4, <1>6 DEF QueueInv

LEMMA InitOwnership == Init => QueueInv /\ HeldInv
  BY DEF Init, QueueInit, QueueInv, HeldInv, Kept, Setup, Over

\* The steps that move no buffer while the layer is there ...
Still ==
    \/ SurfaceSetup \/ SoftwareSetup \/ (NoMemory /\ pc' = "finish") \/ InitEnd \/ LockBuffer
    \/ SurfaceRead \/ SurfaceReadEmpty \/ SoftwareRead \/ SoftwareReadEmpty \/ NoBuffer
    \/ UNCHANGED vars

\* ... a buffer that goes to the queue, or stays when queueBuffer() fails ...
Put == (InitQueue \/ QueueBuffer) /\ \E b \in held : Queue(b)
Keep == (InitQueue \/ QueueBuffer) /\ UNCHANGED <<at, queue>>

\* ... and the end.
Depart == ((NoMemory /\ pc' = "aborted") \/ SurfaceEnd \/ SoftwareEnd) /\ Leave

LEMMA Moving ==
    [Next]_vars => \/ Still \/ InitDequeue \/ DequeueBuffer \/ Put \/ Keep \/ Depart
                   \/ Render \/ (Display /\ Latch) \/ (Display /\ Signal)
<1>1. InitQueue \/ QueueBuffer => Put \/ Keep
  BY DEF InitQueue, QueueBuffer, Put, Keep
<1>2. SurfaceEnd \/ SoftwareEnd => Depart
  BY DEF SurfaceEnd, SoftwareEnd, Depart
<1>3. NoMemory => Depart \/ Still
  BY DEF NoMemory, Go, Depart, Still
<1>4. QED
  BY <1>1, <1>2, <1>3 DEF Next, Main, Halt, Still, Display

LEMMA StillFrame ==
    ASSUME Still
    PROVE  /\ UNCHANGED <<at, queue, held, fences, program, pictures>> /\ (empty' <=> empty)
           /\ \E lost \in SUBSET {"init", "dequeue", "lock", "malloc"} :
                 failed' = failed \cup lost \/ (RenderDrop /\ failed' = failed \cup {"render"})
<1> USE DEF Still, SurfaceSetup, SoftwareSetup, NoMemory, InitEnd, LockBuffer, SurfaceRead,
            SurfaceReadEmpty, SoftwareRead, SoftwareReadEmpty, NoBuffer, InitBreak, DequeueError,
            vars, bufferQueue, setup, Failing
<1>1. UNCHANGED <<at, queue, held, fences, program, pictures>>
  BY DEF RenderDrop, Go
<1>2. empty' = empty
  BY DEF RenderDrop
<1>3. \/ failed' = failed \/ LockBuffer \/ SoftwareSetup
      \/ \E x \in {"init", "dequeue"} : failed' = failed \cup {x}
      \/ RenderDrop /\ failed' = failed \cup {"render"}
  BY DEF RenderDrop
<1>4. LockBuffer => \E lost \in SUBSET {"lock"} : failed' = failed \cup lost
  OBVIOUS
<1>5. SoftwareSetup => failed' = failed \/ failed' = failed \cup {"malloc"}
  OBVIOUS
<1>6. \E lost \in SUBSET {"init", "dequeue", "lock", "malloc"} :
          failed' = failed \cup lost \/ (RenderDrop /\ failed' = failed \cup {"render"})
  <2>1. CASE \E lost \in SUBSET {"lock"} : failed' = failed \cup lost
    BY ONLY <2>1
  <2>2. CASE failed' = failed
    <3>1. failed' = failed \cup {}
      BY ONLY <2>2
    <3>2. QED
      BY ONLY <3>1
  <2>3. CASE \E x \in {"init", "dequeue", "malloc"} : failed' = failed \cup {x}
    <3>1. PICK x \in {"init", "dequeue", "malloc"} : failed' = failed \cup {x}
      BY <2>3
    <3>2. {x} \in SUBSET {"init", "dequeue", "lock", "malloc"}
      BY ONLY x \in {"init", "dequeue", "malloc"}
    <3>3. QED
      BY ONLY <3>1, <3>2
  <2>4. CASE RenderDrop /\ failed' = failed \cup {"render"}
    BY ONLY <2>4
  <2>5. QED
    BY ONLY <1>3, <1>4, <1>5, <2>1, <2>2, <2>3, <2>4
<1>7. empty' <=> empty
  BY ONLY <1>2, Zenon
<1>8. QED
  BY ONLY <1>1, <1>6, <1>7

LEMMA StillOwnership ==
    ASSUME TypeOK, QueueInv, HeldInv, Still PROVE QueueInv' /\ HeldInv'
<1> USE DEF Still, SurfaceSetup, SoftwareSetup, NoMemory, InitEnd, LockBuffer, SurfaceRead,
            SurfaceReadEmpty, SoftwareRead, SoftwareReadEmpty, NoBuffer, InitBreak, DequeueError,
            RenderDrop, vars, bufferQueue, setup, Go, GoOrFail
<1>1. UNCHANGED <<at, queue, held, fences, program>>
  BY StillFrame
<1>2. locked' = locked \/ (locked' = locked \cup held /\ pc = "lock" /\ pc' = "read")
  OBVIOUS
<1>3. (Kept' <=> Kept) /\ ("unlock" \in failed' <=> "unlock" \in failed)
  BY ONLY StillFrame, Still DEF Kept
<1>4. \/ pc' = pc
      \/ pc' \in {"read", "finish"}
      \/ pc' \in Setup \cup {"error", "aborted"} /\ pc \in Setup
      \/ pc' \in {"init", "dequeue", "render"} /\ held = {}
      \/ pc' = "queue" /\ program = "surface"
  BY DEF HeldInv, Setup
<1>5. /\ pc' \in {"format", "init", "initqueue", "dequeue", "lock", "queue"} =>
            program = "surface"
      /\ pc' = "render" => program = "software"
  BY DEF HeldInv
<1>6. QueueInv'
  BY ONLY <1>1, QueueInv DEF QueueInv
<1>7. HeldInv'
  BY ONLY <1>1, <1>2, <1>3, <1>4, <1>5, HeldInv DEF HeldInv, Setup, Over
<1>8. QED
  BY <1>6, <1>7

LEMMA NextOwnership ==
    ASSUME TypeOK, QueueInv, HeldInv, [Next]_vars PROVE QueueInv' /\ HeldInv'
<1>1. CASE InitDequeue \/ DequeueBuffer
  <2>1. PICK b \in Buffers : Dequeue(b) /\ held' = {b}
    BY <1>1 DEF InitDequeue, DequeueBuffer
  <2>2. /\ UNCHANGED <<queue, fences, program, locked, failed>> /\ held = {} /\ program = "surface"
        /\ pc \notin Setup
    BY <1>1 DEF InitDequeue, DequeueBuffer, setup, Go, HeldInv, Setup
  <2>3. pc' \in {"initqueue", "lock"}
    BY <1>1 DEF InitDequeue, DequeueBuffer, Go
  <2>4. /\ at'[b] = "app"
        /\ \A c \in Buffers : c # b => at'[c] = at[c]
    BY <2>1 DEF Dequeue, TypeOK
  <2>5. HeldInv'
    BY <2>1, <2>2, <2>3, <2>4 DEF HeldInv, Kept, Setup, Over
  <2>6. QED
    BY <2>1, <2>2, <2>5, DequeueKeeps
<1>2. CASE Put
  <2>1. PICK b \in held : Queue(b)
    BY <1>2 DEF Put
  <2>2. /\ held' = {} /\ UNCHANGED <<fences, program>>
        /\ (locked' = locked \ held \/ locked' = locked \/ "unlock" \in failed')
        /\ pc' \in {"init", "dequeue"} /\ program = "surface" /\ failed \subseteq failed'
        /\ pc \in {"initqueue", "queue"}
    BY <1>2 DEF Put, InitQueue, QueueBuffer, setup, Go, HeldInv
  <2>3. b \in Buffers /\ at[b] = "app"
    BY DEF HeldInv, TypeOK
  <2>4. /\ at'[b] = "queued"
        /\ \A c \in Buffers : c # b => at'[c] = at[c]
    BY <2>1, <2>3 DEF Queue, TypeOK
  <2>5. "unlock" \in failed' \/ locked' = {}
    <3>1. CASE InitQueue
      BY <2>2, <3>1 DEF InitQueue, Go, HeldInv
    <3>2. CASE QueueBuffer
      BY <2>2, <3>2 DEF QueueBuffer, HeldInv
    <3>3. QED
      BY <1>2, <3>1, <3>2 DEF Put
  <2>6. Kept' \/ \A c \in Buffers : at'[c] # "app"
    BY <2>1, <2>2, <2>3, <2>4 DEF HeldInv, Kept
  <2>7. HeldInv'
    BY <2>2, <2>5, <2>6 DEF HeldInv, Setup, Over
  <2>8. QED
    BY <2>1, <2>2, <2>3, <2>7, QueueKeeps
<1>3. CASE Keep
  <2>1. /\ held' = {} /\ UNCHANGED <<at, queue, fences, program>>
        /\ pc' \in {"init", "dequeue"} /\ program = "surface" /\ failed \subseteq failed'
        /\ pc \in {"initqueue", "queue"}
    BY <1>3 DEF Keep, InitQueue, QueueBuffer, setup, Go, HeldInv
  <2>2. "unlock" \in failed' \/ locked' = {}
    <3>1. CASE InitQueue
      BY <2>1, <3>1 DEF InitQueue, Go, HeldInv
    <3>2. CASE QueueBuffer
      BY <2>1, <3>2 DEF QueueBuffer, HeldInv
    <3>3. QED
      BY <1>3, <3>1, <3>2 DEF Keep
  <2>3. Kept' \/ \E b \in held : Queue(b)
    BY <1>3 DEF Keep, InitQueue, QueueBuffer, Kept
  <2>4. ~\E b \in held : Queue(b)
    BY <2>1 DEF Queue, HeldInv, TypeOK
  <2>5. QueueInv'
    BY <2>1 DEF QueueInv
  <2>6. HeldInv'
    BY <2>1, <2>2, <2>3, <2>4 DEF HeldInv, Setup, Over
  <2>7. QED
    BY <2>5, <2>6
<1>4. CASE Depart
  <2>1. /\ held' = {} /\ locked' = {} /\ queue' = <<>> /\ fences' = {} /\ UNCHANGED program
        /\ \A b \in Buffers : at'[b] = "none"
        /\ pc' \in {"ok", "aborted"} /\ failed' = failed /\ Len(queue') = 0
    BY <1>4, EmptySeq DEF Depart, Leave, Dispose, NoMemory, SurfaceEnd, SoftwareEnd, Go, setup
  <2>2. QueueInv'
    BY <2>1 DEF QueueInv
  <2>3. HeldInv'
    BY <2>1 DEF HeldInv, Kept, Setup, Over
  <2>4. QED
    BY <2>2, <2>3
<1>5. CASE Render
  <2>1. PICK b \in Buffers : Available(b) /\ Queue(b)
    BY <1>5 DEF Render
  <2>2. /\ UNCHANGED <<held, locked, fences, program, failed>> /\ pc' = "read"
        /\ held = {} /\ program = "software"
    BY <1>5 DEF Render, setup, Go, HeldInv
  <2>3. /\ at[b] \notin {"queued", "shown", "app"} /\ at'[b] = "queued"
        /\ \A c \in Buffers : c # b => at'[c] = at[c]
    BY <2>1 DEF Available, Queue, TypeOK
  <2>4. HeldInv'
    BY <2>2, <2>3 DEF HeldInv, Kept, Setup, Over
  <2>5. QED
    BY <2>1, <2>2, <2>3, <2>4, QueueKeeps
<1>6. CASE Display /\ Latch
  <2>1. UNCHANGED <<held, locked, program, pc, failed>>
    BY <1>6 DEF Display, setup
  <2>2. Len(queue) \in Nat \ {0} /\ Head(queue) = queue[1] /\ Head(queue) \in Buffers
    BY <1>6, Latched DEF Latch, TypeOK
  <2>3. at[Head(queue)] = "queued" /\ queue # <<>>
    BY <1>6, <2>2 DEF QueueInv, Latch
  <2>4. \A b \in Buffers : at'[b] = "app" <=> at[b] = "app"
    BY <1>6, <2>3 DEF Latch, TypeOK
  <2>5. HeldInv'
    BY <2>1, <2>3, <2>4 DEF HeldInv, Kept, TypeOK, Over
  <2>6. QED
    BY <1>6, <2>5, LatchKeeps
<1>7. CASE Display /\ Signal
  <2>1. UNCHANGED <<held, locked, program, pc, failed, at, queue>> /\ fences' \subseteq fences
    BY <1>7 DEF Display, Signal, setup
  <2>2. QueueInv'
    BY <2>1 DEF QueueInv
  <2>3. HeldInv'
    BY <2>1 DEF HeldInv, Kept, Over
  <2>4. QED
    BY <2>2, <2>3
<1>8. QED
  BY <1>1, <1>2, <1>3, <1>4, <1>5, <1>6, <1>7, StillOwnership, Moving

-----------------------------------------------------------------------------
(***************************************************************************)
(* Order.                                                                  *)
(***************************************************************************)
LEMMA OnScreen ==
    ASSUME TypeOK, QueueInv
    PROVE  /\ \A c \in Buffers : at[c] = "shown" => ShownPicture = content[c]
           /\ (\A c \in Buffers : at[c] # "shown") => ShownPicture = 0
<1>1. ASSUME NEW c \in Buffers, at[c] = "shown" PROVE ShownPicture = content[c]
  <2>1. Shown = {content[c]}
    BY <1>1 DEF QueueInv, Shown
  <2>2. QED
    BY <2>1 DEF ShownPicture
<1>2. ASSUME \A c \in Buffers : at[c] # "shown" PROVE ShownPicture = 0
  BY <1>2 DEF Shown, ShownPicture
<1>3. QED
  BY <1>1, <1>2

\* The screen changes only when the display latches.
LEMMA ScreenStays ==
    ASSUME \A b \in Buffers : at'[b] = "shown" <=> at[b] = "shown",
           \A b \in Buffers : at[b] = "shown" => content'[b] = content[b]
    PROVE  ShownPicture' = ShownPicture
<1>1. Shown' = Shown
  BY DEF Shown
<1>2. QED
  BY <1>1 DEF ShownPicture

\* What a program does to a buffer of its own.
LEMMA OwnWork ==
    ASSUME TypeOK, QueueInv, Ordered, UNCHANGED queue, Lost => Lost',
           \A b \in Buffers : at'[b] = "shown" <=> at[b] = "shown",
           \A b \in Buffers : at[b] \in {"queued", "shown"} => content'[b] = content[b]
    PROVE  Ordered' /\ Reached' = Reached /\ ShownPicture' = ShownPicture /\ Way' = Way
<1>1. ShownPicture' = ShownPicture
  BY ScreenStays
<1>2. /\ \A i \in 1 .. Len(queue) : content'[queue[i]] = content[queue[i]]
      /\ Len(queue) \in Nat /\ (queue = <<>> <=> Len(queue) = 0)
  BY Lengths DEF QueueInv, TypeOK
<1>3. \A p, q : Follows(p, q) => Follows(p, q)'
  BY DEF Follows
<1>4. Reached' = Reached
  BY <1>1, <1>2 DEF Reached
<1>5. Ordered'
  <2>1. ShownPicture' \in Nat /\ \A i \in 1 .. Len(queue) : content'[queue[i]] \in Nat
    BY <1>1, <1>2 DEF Ordered
  <2>2. queue # <<>> => Follows(ShownPicture, content[queue[1]])'
    BY <1>1, <1>2, <1>3 DEF Ordered
  <2>3. \A i \in 1 .. Len(queue) - 1 : Follows(content[queue[i]], content[queue[i + 1]])'
    BY <1>2, <1>3 DEF Ordered
  <2>4. QED
    BY <2>1, <2>2, <2>3, Zenon DEF Ordered
<1>6. Way' = Way
  BY <1>2 DEF Way
<1>7. QED
  BY <1>1, <1>4, <1>5, <1>6

\* A buffer with the next picture goes to the end of the queue.
LEMMA QueueOrder ==
    ASSUME TypeOK, QueueInv, Ordered, Lost' <=> Lost,
           NEW b \in Buffers, at[b] \notin {"queued", "shown"}, Queue(b),
           \A c \in Buffers : c # b => content'[c] = content[c],
           content'[b] \in Nat, Follows(Reached, content'[b])
    PROVE  /\ Ordered' /\ Reached' = content'[b] /\ ShownPicture' = ShownPicture
           /\ Way' = Append(Way, content'[b])
<1>1. /\ Len(queue) \in Nat /\ Len(queue') = Len(queue) + 1 /\ queue' # <<>>
      /\ \A i \in 1 .. Len(queue) : queue'[i] = queue[i]
      /\ queue'[Len(queue) + 1] = b
  <2>1. queue \in Seq(Buffers) /\ queue' \in Seq(Buffers) /\ queue' = Append(queue, b)
    BY Appended DEF Queue, TypeOK
  <2>2. Len(queue) \in Nat /\ (queue' = <<>> <=> Len(queue') = 0)
    BY <2>1, Lengths
  <2>3. QED
    BY <2>1, <2>2, Appended
<1>2. \A i \in 1 .. Len(queue) : content'[queue'[i]] = content[queue[i]]
  BY <1>1, Lengths DEF QueueInv, TypeOK
<1>3. ShownPicture' = ShownPicture
  BY ScreenStays DEF Queue, TypeOK
<1>4. Reached' = content'[b]
  BY <1>1 DEF Reached
<1>5. \A p, q : Follows(p, q)' <=> Follows(p, q)
  BY DEF Follows
<1>6. Reached = IF Len(queue) = 0 THEN ShownPicture ELSE content[queue[Len(queue)]]
  BY Lengths DEF Reached, TypeOK
<1>7. ASSUME NEW i \in 1 .. Len(queue') PROVE content'[queue'[i]] \in Nat
  BY SMTT(30), <1>1, <1>2 DEF Ordered
<1>8. Follows(ShownPicture, content[queue[1]])'
  BY <1>1, <1>2, <1>3, <1>5, <1>6, Lengths DEF Ordered, TypeOK
<1>9. ASSUME NEW i \in 1 .. Len(queue') - 1
      PROVE  Follows(content[queue[i]], content[queue[i + 1]])'
  <2>1. CASE i = Len(queue)
    BY <1>1, <1>2, <1>5, <1>6, <2>1
  <2>2. CASE i # Len(queue)
    BY <1>1, <1>2, <1>5, <2>2 DEF Ordered
  <2>3. QED
    BY <2>1, <2>2
<1>10. Way' = Append(Way, content'[b])
  BY <1>1, <1>2 DEF Way
<1>11. Ordered'
  BY <1>3, <1>7, <1>8, <1>9, Zenon DEF Ordered
<1>12. QED
  BY <1>3, <1>4, <1>10, <1>11

LEMMA LatchOrder ==
    ASSUME TypeOK, QueueInv, Ordered, Latch, Lost' <=> Lost
    PROVE  /\ Ordered' /\ Reached' = Reached
           /\ Way # <<>> /\ Way' = Tail(Way) /\ ShownPicture' = Head(Way)
<1>1. /\ Len(queue) \in Nat \ {0} /\ Len(queue') = Len(queue) - 1
      /\ Head(queue) = queue[1] /\ Head(queue) \in Buffers
      /\ \A i \in 1 .. Len(queue') : queue'[i] = queue[i + 1]
      /\ queue # <<>> /\ UNCHANGED content
  BY Latched DEF Latch, TypeOK
<1>2. queue' = <<>> <=> Len(queue') = 0
  <2>1. queue' \in Seq(Buffers)
    BY Latched DEF Latch, TypeOK
  <2>2. QED
    BY <2>1, Lengths
<1>3. ShownPicture' = content[queue[1]]
  <2>1. at'[queue[1]] = "shown" /\ \A b \in Buffers : at'[b] = "shown" => b = queue[1]
    BY <1>1 DEF Latch, TypeOK
  <2>2. Shown' = {content[queue[1]]}
    BY <1>1, <2>1 DEF Shown
  <2>3. QED
    BY <2>2 DEF ShownPicture
<1>4. Reached' = Reached
  BY <1>1, <1>2, <1>3 DEF Reached
<1>5. \A p, q : Follows(p, q)' <=> Follows(p, q)
  BY DEF Follows
<1>6. Ordered'
  <2>1. ShownPicture' \in Nat /\ \A i \in 1 .. Len(queue') : content'[queue'[i]] \in Nat
    BY <1>1, <1>3 DEF Ordered
  <2>2. queue' # <<>> => Follows(ShownPicture, content[queue[1]])'
    BY <1>1, <1>2, <1>3, <1>5 DEF Ordered
  <2>3. ASSUME NEW i \in 1 .. Len(queue') - 1
        PROVE  Follows(content[queue[i]], content[queue[i + 1]])'
    <3>1. i + 1 \in 1 .. Len(queue) - 1 /\ queue'[i] = queue[i + 1]
          /\ queue'[i + 1] = queue[(i + 1) + 1]
      BY <1>1
    <3>2. QED
      BY <1>1, <1>5, <3>1 DEF Ordered
  <2>4. QED
    BY <2>1, <2>2, <2>3, Zenon DEF Ordered
<1>7. Way # <<>> /\ Way' = Tail(Way) /\ Head(Way) = content[queue[1]]
  BY <1>1 DEF Way
<1>8. QED
  BY <1>3, <1>4, <1>6, <1>7

\* The last picture of the abstract specification.
LEMMA LastReached == ASSUME TypeOK, Ordered PROVE Screen!Last = Reached /\ Reached \in Nat
<1>1. Len(queue) \in Nat /\ (queue = <<>> <=> Len(queue) = 0)
  BY Lengths DEF TypeOK
<1>2. Len(Way) = Len(queue) /\ (Way = <<>> <=> queue = <<>>)
      /\ \A i \in 1 .. Len(queue) : Way[i] = content[queue[i]]
  BY <1>1 DEF Way
<1>3. QED
  BY <1>1, <1>2 DEF Screen!Last, Reached, Ordered

LEMMA InitOrder == Init => Ordered /\ Progress
<1> SUFFICES ASSUME Init PROVE Ordered /\ Progress
  OBVIOUS
<1>1. Shown = {} /\ queue = <<>>
  BY DEF Init, QueueInit, Shown
<1>2. ShownPicture = 0 /\ Reached = 0
  BY <1>1 DEF ShownPicture, Reached
<1>3. QED
  BY <1>1, <1>2, SurfaceAssumption DEF Init, QueueInit, Ordered, Progress, Setup

\* A step that the audience does not see.
LEMMA Unseen ==
    ASSUME UNCHANGED <<pictures, Way, ShownPicture>>, Lost' <=> Lost, Over' <=> Over
    PROVE  UNCHANGED Screen!vars
<1>1. Lost' = Lost
  BY DEF Lost
<1>2. (~Over)' = ~Over
  OBVIOUS
<1>3. QED
  BY ONLY <1>1, <1>2, UNCHANGED <<pictures, Way, ShownPicture>> DEF Screen!vars

LEMMA StillOrder ==
    ASSUME SurfaceInv, Still
    PROVE  Ordered' /\ Progress' /\ [Screen!Next]_(Screen!vars)
<1>1. TypeOK /\ QueueInv /\ HeldInv /\ Ordered /\ Progress
  BY DEF SurfaceInv
<1>2. UNCHANGED <<at, queue, held, program, pictures>> /\ (empty' <=> empty)
  BY StillFrame
<1>3. (Lost => Lost') /\ (Lost' => Lost \/ RenderDrop) /\ (Ended => Ended')
  BY StillFrame DEF Lost, Ended
<1>4. \A b \in Buffers : b \notin held => content'[b] = content[b]
  BY <1>1
     DEF Still, SurfaceSetup, SoftwareSetup, NoMemory, InitEnd, LockBuffer, SurfaceRead,
         SurfaceReadEmpty, SoftwareRead, SoftwareReadEmpty, NoBuffer, InitBreak, DequeueError,
         RenderDrop, vars, bufferQueue, TypeOK, Go
<1>5. Ordered' /\ Reached' = Reached /\ ShownPicture' = ShownPicture /\ Way' = Way
  BY <1>1, <1>2, <1>3, <1>4, OwnWork DEF HeldInv
<1>6. Reached \in Nat
  BY <1>1, Lengths DEF Ordered, Reached, TypeOK
<1>7. Progress'
  <2> USE <1>1, <1>2, <1>3, <1>5, <1>6
      DEF Progress, Follows, Over, Go, GoOrFail, Setup, TypeOK, setup, bufferQueue, Failing
  <2>1. CASE SurfaceSetup \/ SoftwareSetup
    <3>1. UNCHANGED <<content, picture>> /\ pc \in Setup
      BY <2>1 DEF SurfaceSetup, SoftwareSetup
    <3>2. pc' \in Setup \cup {"init", "read", "error", "aborted"}
      BY <2>1 DEF SurfaceSetup, SoftwareSetup
    <3>3. pc' = "read" => img' \/ Ended'
      BY <2>1 DEF SurfaceSetup, SoftwareSetup, Ended
    <3>4. QED
      BY <3>1, <3>2, <3>3
  <2>2. CASE NoMemory /\ pc' = "finish"
    BY <2>2 DEF NoMemory
  <2>3. CASE InitEnd \/ InitBreak
    BY <2>3 DEF InitEnd, InitBreak
  <2>4. CASE DequeueError
    BY <2>4 DEF DequeueError, Ended
  <2>5. CASE LockBuffer
    <3>1. img' \/ Ended'
      BY <2>5 DEF LockBuffer, Ended
    <3>2. QED
      BY <2>5, <3>1 DEF LockBuffer
  <2>6. CASE SurfaceRead
    BY <2>6 DEF SurfaceRead
  <2>7. CASE SoftwareRead
    BY <2>7 DEF SoftwareRead
  <2>8. CASE SurfaceReadEmpty \/ SoftwareReadEmpty
    BY <2>8 DEF SurfaceReadEmpty, SoftwareReadEmpty
  <2>9. CASE RenderDrop
    <3>1. Lost'
      BY <2>9 DEF RenderDrop, Lost
    <3>2. QED
      BY <2>9, <3>1 DEF RenderDrop, HeldInv
  <2>10. CASE UNCHANGED vars
    BY <2>10 DEF vars
  <2>11. QED
    BY <2>1, <2>2, <2>3, <2>4, <2>5, <2>6, <2>7, <2>8, <2>9, <2>10 DEF Still, NoBuffer
<1>8. [Screen!Next]_(Screen!vars)
  <2>1. CASE RenderDrop
    <3>1. ~Over /\ ~Over' /\ Lost'
      BY <2>1 DEF RenderDrop, Over, Go, Lost
    <3>2. Screen!Lose
      BY <1>2, <1>5, <3>1 DEF Screen!Lose
    <3>3. QED
      BY <3>2 DEF Screen!Next
  <2>2. CASE ~RenderDrop /\ (Over' <=> Over)
    BY <1>2, <1>3, <1>5, <2>2, Unseen
  <2>3. CASE ~RenderDrop /\ (Over' # Over)
    <3>1. pc \in Setup /\ ~Over /\ Over'
      BY <2>3 DEF Still, SurfaceSetup, SoftwareSetup, NoMemory, InitEnd, LockBuffer, SurfaceRead,
         SurfaceReadEmpty, SoftwareRead, SoftwareReadEmpty, NoBuffer, InitBreak, DequeueError,
         RenderDrop, vars, Over, Go, GoOrFail, Setup
    <3>2. Way = <<>> /\ ShownPicture = 0
      <4>1. queue = <<>> /\ \A b \in Buffers : at[b] # "shown"
        BY <1>1, <3>1 DEF HeldInv
      <4>2. QED
        BY <1>1, <4>1, OnScreen, EmptySeq DEF Way
    <3>3. Lost' = Lost
      BY <1>3, <2>3 DEF Lost
    <3>4. Screen!Close
      BY ONLY <1>2, <1>5, <3>1, <3>2, <3>3 DEF Screen!Close
    <3>5. QED
      BY <3>4 DEF Screen!Next
  <2>4. QED
    BY <2>1, <2>2, <2>3
<1>9. QED
  BY <1>5, <1>7, <1>8

\* A buffer that goes to the queue brings its picture to the audience.
LEMMA Brought ==
    ASSUME TypeOK, Ordered, ~Over, ~Over', Lost' <=> Lost, UNCHANGED <<pictures, ShownPicture>>,
           NEW p \in 0 .. pictures, Follows(Reached, p), Way' = Append(Way, p)
    PROVE  Screen!Next
<1>1. Screen!Last = Reached /\ Reached \in Nat
  BY LastReached
<1>2. Screen!Bring(p)
  BY <1>1 DEF Follows, Screen!Bring
<1>3. QED
  BY <1>2 DEF Screen!Next

LEMMA NextOrder ==
    ASSUME SurfaceInv, [Next]_vars
    PROVE  Ordered' /\ Progress' /\ [Screen!Next]_(Screen!vars)
<1>1. TypeOK /\ QueueInv /\ HeldInv /\ Ordered /\ Progress
  BY DEF SurfaceInv
<1>2. CASE InitDequeue \/ DequeueBuffer
  <2>1. PICK b \in Buffers : Dequeue(b) /\ held' = {b}
    BY <1>2 DEF InitDequeue, DequeueBuffer
  <2>2. /\ UNCHANGED <<queue, content, failed, pictures, picture>> /\ (empty' <=> empty)
        /\ ~Over /\ ~Over'
    BY <1>2 DEF InitDequeue, DequeueBuffer, setup, Go, Over
  <2>3. (Lost' <=> Lost) /\ (Ended' <=> Ended)
    BY <2>2 DEF Lost, Ended
  <2>4. Ordered' /\ Reached' = Reached /\ ShownPicture' = ShownPicture /\ Way' = Way
    BY <1>1, <2>1, <2>2, <2>3, OwnWork DEF Dequeue, Available, TypeOK
  <2>5. Progress'
    BY <1>1, <1>2, <2>2, <2>3, <2>4 DEF InitDequeue, DequeueBuffer, Go, Progress, Setup
  <2>6. UNCHANGED Screen!vars
    BY <2>2, <2>3, <2>4, Unseen
  <2>7. QED
    BY <2>4, <2>5, <2>6
<1>3. CASE Put
  <2>1. PICK b \in held : Queue(b)
    BY <1>3 DEF Put
  <2>2. /\ UNCHANGED <<content, pictures, picture>> /\ (empty' <=> empty)
        /\ ~Over /\ ~Over' /\ held' = {}
        /\ \/ pc = "initqueue" /\ pc' = "init"
           \/ pc = "queue" /\ pc' = "dequeue"
    BY <1>3 DEF Put, InitQueue, QueueBuffer, setup, Go, Over
  <2>3. at[b] = "app" /\ b \in Buffers /\ queue' # queue
    BY <1>1, <2>1 DEF HeldInv, TypeOK, Queue
  <2>4. (Lost' <=> Lost) /\ (Ended' <=> Ended)
    <3>1. CASE InitQueue
      BY <3>1 DEF InitQueue, Lost, Ended
    <3>2. CASE QueueBuffer
      BY <2>3, <3>2 DEF QueueBuffer, Lost, Ended, Failing
    <3>3. QED
      BY <1>3, <3>1, <3>2 DEF Put
  <2>5. content[b] = picture /\ picture \in Nat /\ Follows(Reached, picture)
    <3>1. picture \in Nat /\ Reached \in Nat
      BY <1>1, LastReached DEF TypeOK
    <3>2. CASE pc = "initqueue"
      BY <1>1, <2>3, <3>1, <3>2 DEF Progress, Follows
    <3>3. CASE pc = "queue"
      BY <1>1, <2>1, <2>3, <3>1, <3>3 DEF Progress
    <3>4. QED
      BY <2>2, <3>2, <3>3, <3>1
  <2>6. /\ Ordered' /\ Reached' = picture /\ ShownPicture' = ShownPicture
        /\ Way' = Append(Way, picture)
    BY <1>1, <2>1, <2>2, <2>3, <2>4, <2>5, QueueOrder
  <2>7. Progress'
    BY <1>1, <2>2, <2>4, <2>6 DEF Progress, Setup, TypeOK
  <2>8. Screen!Next
    BY <1>1, <2>2, <2>4, <2>5, <2>6, Brought DEF Progress, TypeOK
  <2>9. QED
    BY <2>6, <2>7, <2>8
<1>4. CASE Keep
  <2>1. /\ UNCHANGED <<at, queue, content, pictures, picture>> /\ (empty' <=> empty)
        /\ ~Over /\ ~Over' /\ held' = {} /\ failed \subseteq failed'
        /\ \/ pc = "initqueue" /\ pc' = "init"
           \/ pc = "queue" /\ pc' = "dequeue"
    BY <1>4 DEF Keep, InitQueue, QueueBuffer, setup, Go, Over
  <2>2. Lost => Lost'
    BY <2>1 DEF Lost
  <2>3. Ordered' /\ Reached' = Reached /\ ShownPicture' = ShownPicture /\ Way' = Way
    BY <1>1, <2>1, <2>2, OwnWork
  <2>4. pc = "queue" => Lost'
    <3>1. ASSUME pc = "queue" PROVE "queue" \in failed'
      <4>1. QueueBuffer /\ ~\E b \in held : Queue(b)
        BY <1>1, <1>4, <3>1 DEF Keep, InitQueue, Go, Queue, TypeOK
      <4>2. QED
        BY <4>1 DEF QueueBuffer
    <3>2. QED
      BY <3>1 DEF Lost
  <2>5. Progress'
    BY <1>1, <2>1, <2>2, <2>3, <2>4 DEF Progress, Setup, Over, Follows
  <2>6. CASE Lost' <=> Lost
    BY <2>1, <2>3, <2>5, <2>6, Unseen
  <2>7. CASE Lost'
    <3>1. Screen!Lose
      BY <2>1, <2>3, <2>7 DEF Screen!Lose
    <3>2. QED
      BY <2>3, <2>5, <3>1 DEF Screen!Next
  <2>8. QED
    BY <2>2, <2>6, <2>7
<1>5. CASE Depart
  <2>1. /\ queue' = <<>> /\ \A b \in Buffers : at'[b] = "none"
        /\ ~Over /\ Over' /\ UNCHANGED <<failed, content, pictures, picture>>
        /\ (empty' <=> empty) /\ pc \in {"read", "finish"}
    <3>1. /\ queue' = <<>> /\ UNCHANGED <<failed, content, pictures, picture>>
          /\ \A b \in Buffers : at'[b] = "none"
      BY <1>5 DEF Depart, Leave, Dispose, NoMemory, SurfaceEnd, SoftwareEnd, setup
    <3>2. (empty' <=> empty) /\ pc \in {"read", "finish"}
      BY <1>5 DEF Depart, NoMemory, SurfaceEnd, SoftwareEnd, setup, Go
    <3>3. pc' \in {"ok", "aborted"}
      BY <1>5 DEF Depart, NoMemory, SurfaceEnd, SoftwareEnd, Go, Leave
    <3>4. QED
      BY <3>1, <3>2, <3>3 DEF Over
  <2>2. ShownPicture' = 0 /\ Reached' = 0
    <3>1. Shown' = {}
      BY <2>1 DEF Shown
    <3>2. QED
      BY <2>1, <3>1 DEF ShownPicture, Reached
  <2>3. Ordered'
    BY <2>1, <2>2, EmptySeq DEF Ordered
  <2>4. Progress'
    BY <1>1, <2>1, <2>2 DEF Progress, Over, Setup, TypeOK
  <2>5. Way' = <<>> /\ (Lost' <=> Lost)
    BY <2>1, EmptySeq DEF Way, Lost
  <2>6. Screen!Close
    BY <2>1, <2>2, <2>5 DEF Screen!Close
  <2>7. QED
    BY <2>3, <2>4, <2>6 DEF Screen!Next
<1>6. CASE Render
  <2>1. PICK b \in Buffers : /\ Available(b) /\ Queue(b)
                             /\ content' = [content EXCEPT ![b] = picture]
    BY <1>6 DEF Render
  <2>2. /\ UNCHANGED <<pictures, picture, failed>> /\ (empty' <=> empty) /\ ~Over /\ ~Over'
        /\ pc = "render" /\ pc' = "read" /\ img' = img
    BY <1>6 DEF Render, setup, Go, Over
  <2>3. (Lost' <=> Lost) /\ (Ended' <=> Ended)
    BY <2>2 DEF Lost, Ended
  <2>4. /\ content'[b] = picture /\ picture \in Nat /\ Follows(Reached, picture)
        /\ at[b] \notin {"queued", "shown"}
        /\ \A c \in Buffers : c # b => content'[c] = content[c]
    BY <1>1, <2>1, <2>2 DEF Progress, TypeOK, Available
  <2>5. /\ Ordered' /\ Reached' = picture /\ ShownPicture' = ShownPicture
        /\ Way' = Append(Way, picture)
    BY <1>1, <2>1, <2>3, <2>4, QueueOrder
  <2>6. Progress'
    BY <1>1, <2>1, <2>2, <2>3, <2>5 DEF Progress, Setup, TypeOK
  <2>7. Screen!Next
    BY <1>1, <2>2, <2>3, <2>4, <2>5, Brought DEF Progress, TypeOK
  <2>8. QED
    BY <2>5, <2>6, <2>7
<1>7. CASE Display /\ Latch
  <2>1. UNCHANGED <<failed, empty, pictures, picture, pc, held, content, img>> /\ Latch
    BY <1>7 DEF Display, Latch, setup
  <2>2. /\ (Lost' <=> Lost) /\ (Ended' <=> Ended) /\ (Over' <=> Over) /\ (empty' <=> empty)
        /\ (img' <=> img)
    BY <2>1, Zenon DEF Lost, Ended, Over
  <2>3. /\ Ordered' /\ Reached' = Reached
        /\ Way # <<>> /\ Way' = Tail(Way) /\ ShownPicture' = Head(Way)
    BY <1>1, <2>1, <2>2, LatchOrder
  <2>4. Progress'
    BY <1>1, <2>1, <2>2, <2>3 DEF Progress, Follows
  <2>5. CASE ~Over
    <3>1. Lost' = Lost /\ pictures' = pictures /\ ~Over'
      BY <2>1, <2>2, <2>5 DEF Lost
    <3>2. Screen!Show
      BY ONLY <2>3, <2>5, <3>1 DEF Screen!Show
    <3>3. QED
      BY <2>3, <2>4, <3>2 DEF Screen!Next
  <2>6. CASE Over
    BY <1>1, <2>1, <2>6 DEF HeldInv, Latch, Over
  <2>7. QED
    BY <2>5, <2>6
<1>8. CASE Display /\ Signal
  <2>1. UNCHANGED <<failed, empty, pictures, picture, pc, held, content, img, at, queue>>
    BY <1>8 DEF Display, Signal, setup
  <2>2. /\ (Lost' <=> Lost) /\ (Ended' <=> Ended) /\ (Over' <=> Over) /\ (empty' <=> empty)
        /\ (img' <=> img)
    BY <2>1, Zenon DEF Lost, Ended, Over
  <2>3. Ordered' /\ Reached' = Reached /\ ShownPicture' = ShownPicture /\ Way' = Way
    BY <1>1, <2>1, <2>2, OwnWork
  <2>4. Progress'
    BY <1>1, <2>1, <2>2, <2>3 DEF Progress, Follows
  <2>5. UNCHANGED Screen!vars
    BY <2>1, <2>2, <2>3, Unseen
  <2>6. QED
    BY <2>3, <2>4, <2>5
<1>9. QED
  BY <1>2, <1>3, <1>4, <1>5, <1>6, <1>7, <1>8, StillOrder, Moving

LEMMA SurfaceInvariance == Spec => []SurfaceInv
<1>1. Init => SurfaceInv
  BY InitTypeOK, InitOwnership, InitOrder DEF SurfaceInv
<1>2. SurfaceInv /\ [Next]_vars => SurfaceInv'
  BY NextTypeOK, NextOwnership, NextOrder DEF SurfaceInv
<1>3. QED
  BY <1>1, <1>2, PTL DEF Spec

(***************************************************************************)
(* LockedIsOwned: what is locked is the program's, unless unlock() failed, *)
(* and the program never has two buffers, whatever the number of slots,    *)
(* unless queueBuffer() failed; the display still reads what is locked     *)
(* only when it shows a buffer latched after that one.                     *)
(***************************************************************************)
THEOREM Owned == Spec => []LockedIsOwned
<1>1. ASSUME SurfaceInv PROVE LockedIsOwned
  <2>1. "unlock" \notin failed => \A b \in locked : at[b] = "app"
    BY <1>1 DEF SurfaceInv, HeldInv, TypeOK
  <2>2. ASSUME failed \cap {"initqueue", "queue"} = {}
        PROVE  Cardinality({b \in Buffers : at[b] = "app"}) <= 1
    <3>1. {b \in Buffers : at[b] = "app"} = held
      BY <1>1, <2>2 DEF SurfaceInv, HeldInv, Kept, TypeOK
    <3>2. held = {} \/ \E b \in held : held = {b}
      BY <1>1 DEF SurfaceInv, HeldInv
    <3>3. Cardinality(held) \in {0, 1}
      BY <3>2, FS_EmptySet, FS_Singleton
    <3>4. QED
      BY <3>1, <3>3
  <2>3. locked \cap fences # {} => \E b \in Buffers \ fences : at[b] = "shown"
    BY <1>1 DEF SurfaceInv, QueueInv
  <2>4. QED
    BY <2>1, <2>2, <2>3 DEF LockedIsOwned
<1>2. QED
  BY <1>1, SurfaceInvariance, PTL

(***************************************************************************)
(* AllRendered: a program that says that all is rendered, and in which no  *)
(* call failed that costs a picture, has shown the last picture of the     *)
(* file or has it in the queue.                                            *)
(***************************************************************************)
THEOREM Rendered == Spec => []AllRendered
<1>1. ASSUME SurfaceInv PROVE AllRendered
  <2>1. SUFFICES ASSUME pc = "finish", failed \subseteq {"init", "initqueue", "unlock"}, pictures > 0
                 PROVE  \E b \in Buffers : at[b] \in {"queued", "shown"} /\ content[b] = pictures
    BY DEF AllRendered
  <2>2. ~Ended /\ ~Lost /\ ~Over
    BY <2>1 DEF Ended, Lost, Over
  <2>3. TypeOK /\ QueueInv /\ Reached = pictures
    BY <1>1, <2>1, <2>2 DEF SurfaceInv, Progress
  <2>4. CASE queue = <<>>
    BY <2>1, <2>3, <2>4, OnScreen DEF Reached, TypeOK
  <2>5. CASE queue # <<>>
    <3>1. Len(queue) \in 1 .. Len(queue) /\ queue[Len(queue)] \in Buffers
      BY <2>3, <2>5, Lengths DEF TypeOK
    <3>2. at[queue[Len(queue)]] = "queued"
      BY <2>3, <3>1 DEF QueueInv
    <3>3. QED
      BY <2>3, <2>5, <3>1, <3>2 DEF Reached
  <2>6. QED
    BY <2>4, <2>5
<1>2. QED
  BY <1>1, SurfaceInvariance, PTL

(***************************************************************************)
(* ImplementsScreen: until the layer goes the pictures come to the screen  *)
(* in order, unchanged, and none is left out unless a queueBuffer() failed *)
(* or render() has dropped one.                                            *)
(***************************************************************************)
THEOREM InOrder == Spec => ImplementsScreen
<1>1. ASSUME Init PROVE Screen!Init
  <2>1. Shown = {} /\ queue = <<>> /\ pictures \in Nat
    BY <1>1, SurfaceAssumption DEF Init, QueueInit, Shown
  <2>2. ShownPicture = 0 /\ Way = <<>>
    BY <2>1, EmptySeq DEF ShownPicture, Way
  <2>3. ~Lost /\ ~Over
    BY <1>1 DEF Init, Lost, Over
  <2>4. QED
    BY <2>1, <2>2, <2>3 DEF Screen!Init
<1>2. SurfaceInv /\ [Next]_vars => [Screen!Next]_(Screen!vars)
  BY NextOrder
<1>3. QED
  BY <1>1, <1>2, SurfaceInvariance, PTL DEF Spec, ImplementsScreen, Screen!Spec

(***************************************************************************)
(* Waiting for a buffer.                                                   *)
(***************************************************************************)
Allocated(b) == at[b] # "none"

\* A buffer becomes free when another one takes its place on the screen, so the
\* second turn of the loop that allocates finds no free one but with two in memory.
AllocationInv ==
    /\ turn \in Nat /\ (program = "software" => allocating)
    /\ (\E b \in Buffers : at[b] = "free") => \E b \in Buffers : at[b] = "shown"
    /\ pc = "initqueue" \/ (turn >= 1 /\ ~Over) => \E b \in Buffers : Allocated(b)
    /\ (turn >= 2 /\ ~Over) \/ (turn >= 1 /\ pc = "initqueue") =>
            \E b, c \in Buffers : b # c /\ Allocated(b) /\ Allocated(c)
    /\ pc \in {"dequeue", "lock", "read", "queue"} /\ program = "surface" =>
            turn >= 2 \/ "init" \in failed

\* The program waits for a buffer for ever only after a dequeueBuffer() failed
\* before two buffers had been allocated, or a queueBuffer() that left one with it
\* (SurfaceDemo.cpp:171-179, 190, 221).
WaitsForEver == Starved => MayStarve

LEMMA InitAllocation == Init => AllocationInv
  BY DEF Init, QueueInit, AllocationInv

LEMMA NextAllocation ==
    ASSUME TypeOK, QueueInv, HeldInv, AllocationInv, [Next]_vars PROVE AllocationInv'
<1>1. CASE Still
  <2> USE DEF Still, SurfaceSetup, SoftwareSetup, NoMemory, InitEnd, LockBuffer, SurfaceRead,
         SurfaceReadEmpty, SoftwareRead, SoftwareReadEmpty, NoBuffer, InitBreak, DequeueError,
         RenderDrop, vars, bufferQueue, setup
  <2>1. UNCHANGED <<at, turn, program>>
    BY <1>1 DEF Go
  <2>2. /\ (allocating => allocating') \/ program = "surface"
        /\ pc' = "initqueue" => pc = "initqueue"
        /\ Over => Over'
    BY <1>1 DEF Go, GoOrFail, HeldInv, Over
  <2>3. failed \subseteq failed'
    BY ONLY <1>1, StillFrame
  <2>4. ASSUME program = "surface", pc' \in {"dequeue", "lock", "read", "queue"}
        PROVE  turn' >= 2 \/ "init" \in failed'
    <3>1. CASE InitBreak
      BY <3>1
    <3>2. CASE InitEnd
      BY <3>2, BuffersAssumption DEF bufCnt
    <3>3. CASE pc \in {"dequeue", "lock", "read", "queue"}
      BY <2>1, <2>3, <2>4, <3>3 DEF AllocationInv
    <3>4. CASE SurfaceSetup \/ SoftwareSetup
      BY <2>1, <2>4, <3>4 DEF Go, GoOrFail
    <3>5. QED
      <4> HIDE DEF InitBreak, InitEnd, SurfaceSetup, SoftwareSetup
      <4>1. QED
        BY <1>1, <2>1, <2>4, <3>1, <3>2, <3>3, <3>4 DEF Go, HeldInv
  <2>5. QED
    BY ONLY AllocationInv, <2>1, <2>2, <2>4 DEF AllocationInv, Allocated
<1>2. CASE InitDequeue \/ DequeueBuffer
  <2>1. PICK b \in Buffers : Dequeue(b)
    BY <1>2 DEF InitDequeue, DequeueBuffer
  <2>2. /\ UNCHANGED <<turn, program, failed, allocating>> /\ ~Over
        /\ (pc = "init" /\ pc' = "initqueue") \/ (pc = "dequeue" /\ pc' = "lock")
    BY <1>2 DEF InitDequeue, DequeueBuffer, Go, setup, Over
  <2>3. /\ \A c \in Buffers : at[c] # "none" => at'[c] # "none"
        /\ \A c \in Buffers : (at[c] = "shown") = (at'[c] = "shown")
        /\ \A c \in Buffers : at'[c] = "free" => at[c] = "free"
        /\ at'[b] # "none"
    BY <2>1 DEF Dequeue, Available, TypeOK
  <2>4. turn >= 1 => \E c, d \in Buffers : c # d /\ Allocated(c)' /\ Allocated(d)'
    <3>1. CASE at[b] = "free"
      <4>1. PICK c \in Buffers : at[c] = "shown"
        BY <3>1 DEF AllocationInv
      <4>2. QED
        BY <2>3, <3>1, <4>1 DEF Allocated
    <3>2. CASE at[b] = "none"
      BY <2>2, <2>3, <3>2 DEF AllocationInv, Allocated
    <3>3. QED
      BY <2>1, <3>1, <3>2 DEF Dequeue, Available
  <2>5. QED
    BY <2>2, <2>3, <2>4 DEF AllocationInv, Allocated
<1>3. CASE Put \/ Keep \/ Render
  <2>1. (\E b \in Buffers : Queue(b) /\ at[b] # "shown") \/ UNCHANGED at
    BY <1>3 DEF Put, Keep, Render, Available, HeldInv, TypeOK
  <2>2. /\ UNCHANGED <<program, allocating>> /\ failed \subseteq failed' /\ ~Over
        /\ \/ pc = "initqueue" /\ pc' = "init" /\ turn' = turn + 1
           \/ pc = "queue" /\ pc' = "dequeue" /\ turn' = turn
           \/ program = "software" /\ pc' = "read" /\ turn' = turn
    BY <1>3 DEF Put, Keep, InitQueue, QueueBuffer, Render, Go, setup, HeldInv, Over
  <2>3. /\ \A c \in Buffers : at[c] # "none" => at'[c] # "none"
        /\ \A c \in Buffers : (at[c] = "shown") = (at'[c] = "shown")
        /\ \A c \in Buffers : at'[c] = "free" => at[c] = "free"
    BY <2>1 DEF Queue, TypeOK
  <2>4. QED
    BY <2>2, <2>3 DEF AllocationInv, Allocated
<1>4. CASE Depart
  <2>1. /\ \A b \in Buffers : at'[b] = "none"
        /\ UNCHANGED <<turn, allocating, program>> /\ pc' \in {"ok", "aborted"}
    <3>1. (\A b \in Buffers : at'[b] = "none") /\ UNCHANGED <<turn, allocating, program>>
      BY <1>4 DEF Depart, Leave, Dispose, NoMemory, SurfaceEnd, SoftwareEnd, setup
    <3>2. pc' \in {"ok", "aborted"}
      <4>1. CASE SurfaceEnd \/ SoftwareEnd
        BY <4>1 DEF SurfaceEnd, SoftwareEnd, Go
      <4>2. CASE NoMemory /\ ~(SurfaceEnd \/ SoftwareEnd)
        BY <1>4, <4>2 DEF NoMemory, Go, Depart, Leave, Dispose
      <4>3. QED
        BY <1>4, <4>1, <4>2 DEF Depart
    <3>3. QED
      BY <3>1, <3>2
  <2>2. QED
    BY <2>1 DEF AllocationInv, Allocated, Over
<1>5. CASE Display
  <2>1. UNCHANGED <<program, failed, allocating, turn, pc>> /\ (Over' <=> Over)
    BY <1>5 DEF Display, Latch, Signal, setup, Over
  <2>2. CASE Latch
    <3>1. /\ Head(queue) \in Buffers /\ at'[Head(queue)] = "shown"
          /\ \A c \in Buffers : at[c] # "none" => at'[c] # "none"
      BY <2>2, Latched DEF Latch, TypeOK
    <3>2. QED
      BY <2>1, <3>1 DEF AllocationInv, Allocated
  <2>3. CASE Signal
    BY <2>1, <2>3 DEF Signal, AllocationInv, Allocated
  <2>4. QED
    BY <1>5, <2>2, <2>3 DEF Display
<1>6. QED
  BY <1>1, <1>2, <1>3, <1>4, <1>5, Moving

\* Two slots at least.
LEMMA TwoBuffers == \E b, c \in Buffers : b # c
<1>1. SUFFICES ASSUME \A b, c \in Buffers : b = c PROVE FALSE
  OBVIOUS
<1>2. Buffers = {} \/ \E b \in Buffers : Buffers = {b}
  BY <1>1
<1>3. Cardinality(Buffers) \in {0, 1}
  BY <1>2, FS_EmptySet, FS_Singleton
<1>4. QED
  BY <1>3, BuffersAssumption

(***************************************************************************)
(* WaitsForEver: what makes a dequeueBuffer() wait without end, whatever   *)
(* the number of slots: a loop that stopped before it had two buffers, or  *)
(* a queueBuffer() that failed; nothing in SoftwareRenderer.               *)
(***************************************************************************)
THEOREM Starving == Spec => []WaitsForEver
<1>1. Init => AllocationInv
  BY InitAllocation
<1>2. SurfaceInv /\ AllocationInv /\ [Next]_vars => AllocationInv'
  BY NextAllocation DEF SurfaceInv
<1>3. ASSUME SurfaceInv, AllocationInv PROVE WaitsForEver
  <2>1. SUFFICES ASSUME Starved PROVE MayStarve
    BY DEF WaitsForEver
  <2>2. CASE \E b \in Buffers : at[b] = "app"
    <3>1. Kept
      BY <1>3, <2>1, <2>2 DEF SurfaceInv, HeldInv, Starved, Setup
    <3>2. program = "surface"
      BY <1>3, <3>1 DEF SurfaceInv, HeldInv, TypeOK
    <3>3. QED
      BY <2>2, <3>1, <3>2 DEF MayStarve, Kept
  <2>3. CASE ~\E b \in Buffers : at[b] = "app"
    <3>1. /\ \A b \in Buffers : at[b] \in {"none", "shown"}
          /\ \A b, c \in Buffers : at[b] = "shown" /\ at[c] = "shown" => b = c
      BY <1>3, <2>1, <2>3, Lengths DEF SurfaceInv, TypeOK, QueueInv, Starved, Available
    <3>2. turn \in Nat /\ ~(turn >= 2)
      BY <1>3, <2>1, <3>1 DEF AllocationInv, Allocated, Starved, Over
    <3>3. ~allocating
      BY <2>1, <3>1, TwoBuffers DEF Starved, Available
    <3>4. program = "surface" /\ pc = "dequeue"
      BY <1>3, <2>1, <3>3 DEF SurfaceInv, TypeOK, HeldInv, AllocationInv, Starved
    <3>5. QED
      BY <1>3, <3>2, <3>4 DEF AllocationInv, MayStarve
  <2>4. QED
    BY <2>2, <2>3
<1>4. QED
  BY <1>1, <1>2, <1>3, SurfaceInvariance, PTL DEF Spec
=============================================================================

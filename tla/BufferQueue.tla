---------------------------- MODULE BufferQueue ----------------------------
(***************************************************************************)
(* The queue of graphic buffers between a program and the display, as far  *)
(* as SurfaceDemo and SoftwareRendererDemo use it.  The program dequeues a *)
(* buffer, fills it and queues it; the display latches queued buffers in   *)
(* order and lets go of the one it showed.  A slot without memory is given *)
(* out only while allocation is allowed and no buffer is free, and a       *)
(* program that finds neither waits.  The display may go on reading a      *)
(* buffer it has let go of: a fence tells when it has done, and travels    *)
(* with the buffer, out by dequeueBuffer() and back by queueBuffer().      *)
(***************************************************************************)
EXTENDS Integers, Sequences, FiniteSets

CONSTANT Buffers       \* the slots of the queue

ASSUME BuffersAssumption == IsFiniteSet(Buffers) /\ Cardinality(Buffers) >= 2

VARIABLES at,          \* where a buffer is: "none" (no memory yet), "free",
                       \* "app", "queued", "shown"
          queue,       \* the queued buffers, oldest first
          allocating,  \* is allocation allowed?
          content,     \* the picture in a buffer, by its number in the file
          fences       \* the buffers whose fence has not signalled yet

bufferQueue == <<at, queue, allocating, content, fences>>

QueueInit ==
    /\ at = [b \in Buffers |-> "none"] /\ queue = <<>>
    /\ allocating = TRUE /\ content = [b \in Buffers |-> 0] /\ fences = {}

Available(b) ==
    \/ at[b] = "free"
    \/ allocating /\ at[b] = "none" /\ \A c \in Buffers : at[c] # "free"

\* Two moves of a dequeued buffer.
Dequeue(b) == Available(b) /\ at' = [at EXCEPT ![b] = "app"]
Queue(b) == at' = [at EXCEPT ![b] = "queued"] /\ queue' = Append(queue, b)

\* The display shows the next buffer, once its fence has signalled.
Latch ==
    /\ queue # <<>> /\ Head(queue) \notin fences /\ queue' = Tail(queue)
    /\ at' = [b \in Buffers |-> IF b = Head(queue) THEN "shown"
                                ELSE IF at[b] = "shown" THEN "free" ELSE at[b]]
    /\ fences' = fences \cup {b \in Buffers : at[b] = "shown"}
    /\ UNCHANGED <<allocating, content>>

Signal ==
    /\ \E b \in fences : fences' = fences \ {b}
    /\ UNCHANGED <<at, queue, allocating, content>>

\* The layer goes, and all that was queued for it.
Dispose ==
    /\ at' = [b \in Buffers |-> "none"] /\ queue' = <<>> /\ fences' = {}
    /\ UNCHANGED <<allocating, content>>
=============================================================================

---------------------------- MODULE AudioDevice ----------------------------
(***************************************************************************)
(* AudioTrack and AudioRecord of Android's media library, as far as the    *)
(* programs under NativeAudioTest/ use them, and the WAV file and FILE     *)
(* they work on.  A device has a thread of its own that calls the          *)
(* program back while the device is active.                                *)
(***************************************************************************)
EXTENDS Integers, Sequences

CONSTANTS MaxBlocks,   \* bound: blocks of sound in a file
          Chunk,       \* blocks in the buffer of a callback or a write
          Faults       \* may calls of the system and of the library fail?

ASSUME AudioAssumption ==
    MaxBlocks \in Nat /\ Chunk \in Nat \ {0} /\ Faults \in BOOLEAN

VARIABLES device,     \* "none", "failed", "ready", "active", "stopped"
          callback,   \* is the device's thread in the callback?
          file,       \* the program's FILE: "none", "open", "closed"
          wav,        \* the file: is there one, is its format right, the size
                      \* in its header, its blocks
          fault       \* has a call failed without the program minding?

audio == <<device, callback, file, wav, fault>>

Stale == 0   \* a block of memory that nothing was read into

\* new AudioTrack(...), new AudioRecord(...): initCheck() tells how it went
Create == device' \in (IF Faults THEN {"ready", "failed"} ELSE {"ready"})

\* start(); a program that does not look at the status goes on
Start ==
    \/ device = "ready" /\ device' = "active" /\ UNCHANGED fault
    \/ (Faults \/ device # "ready") /\ fault' = TRUE /\ UNCHANGED device

\* stop(): no callback begins any more, one in progress goes on
Stop == device' = IF device = "active" THEN "stopped" ELSE device

\* clear() of the last sp: the destructor waits for the device's thread.
Release == ~callback /\ device' = "none"

CallBack == device = "active" /\ ~callback /\ callback' = TRUE
=============================================================================

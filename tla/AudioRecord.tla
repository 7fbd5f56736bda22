---------------------------- MODULE AudioRecord ----------------------------
(***************************************************************************)
(* AudioRecordDemo.cpp: capture_thread() writes a WAV header for the time  *)
(* it means to record and then what the device captures, in the device's   *)
(* callback (CAP_CALLBACK) or in a loop of reads.  sleep() orders nothing. *)
(***************************************************************************)
EXTENDS AudioDevice

CONSTANT Builds        \* subset of {"callback", "loop"}: is CAP_CALLBACK defined?

ASSUME AudioRecordAssumption == Builds \subseteq {"callback", "loop"}

VARIABLES rec,         \* where capture_thread() is
          build,
          dura,        \* the blocks it means to record
          captured,    \* the blocks the device has captured
          lost         \* those of them that did not get into the file

recorder == <<rec, build, dura, captured, lost>>

RecAt(here, next) == rec = here /\ rec' = next
RecOver == rec \in {"end", "crashed"}

\* audio_fix_wavheader(): the size that n blocks take
NewWav(n) == [there |-> TRUE, valid |-> TRUE, header |-> n, data |-> <<>>]

\* The file is created and its header written; nobody looks at what fwrite()
\* returns.
RecOpen ==
    /\ RecAt("open", "create")
    /\ file' = "open"
    /\ \/ wav' = NewWav(dura) /\ UNCHANGED fault
       \/ Faults /\ fault' = TRUE /\ wav' = [NewWav(dura) EXCEPT !.valid = FALSE]
    /\ UNCHANGED <<device, callback, build, dura, captured, lost>>

RecNoFile ==
    /\ Faults /\ RecAt("open", "end")
    /\ UNCHANGED <<audio, build, dura, captured, lost>>

\* The callback build only logs what initCheck() says.
RecCreate ==
    /\ rec = "create" /\ Create
    /\ rec' = IF build = "loop" /\ device' = "failed" THEN "fail" ELSE "start"
    /\ UNCHANGED <<callback, file, wav, fault, build, dura, captured, lost>>

RecStart ==
    /\ rec = "start" /\ Start
    /\ rec' = IF build = "callback" THEN "sleep"
              ELSE IF device' = "active" THEN "read" ELSE "fail"
    /\ UNCHANGED <<callback, file, wav, build, dura, captured, lost>>

\* The loop build returns from a failure without fclose().
RecFail ==
    /\ RecAt("fail", "end")
    /\ Release
    /\ UNCHANGED <<callback, file, wav, fault, build, dura, captured, lost>>

\* The device captures a block, and fwrite() gets it into the file ...
Write ==
    /\ captured' = captured + 1
    /\ wav' = [wav EXCEPT !.data = Append(@, captured + 1)]
    /\ UNCHANGED <<fault, lost>>

\* ... or, whatever its reason, does not.
Lose ==
    /\ captured' = captured + 1
    /\ lost' = lost \cup {captured + 1}
    /\ UNCHANGED wav

WriteFails == Faults /\ Lose /\ fault' = TRUE

RecRead ==
    /\ rec = "read" /\ captured < dura
    /\ Write \/ WriteFails
    /\ UNCHANGED <<device, callback, file, rec, build, dura>>

\* What is still in the buffer of the FILE does not get into the file.
LoseUnflushed ==
    /\ Faults /\ fault' = TRUE
    /\ \E n \in 0 .. Len(wav.data), flushed \in BOOLEAN :
          /\ n > 0 => flushed
          /\ wav' = [wav EXCEPT !.valid = @ /\ flushed, !.data = SubSeq(@, 1, n)]
          /\ lost' = lost \cup ({wav.data[i] : i \in n + 1 .. Len(wav.data)} \ {Stale})

\* read() returns an error, which fwrite() takes for a size beyond the buffer.
\* The process dies, and what it has not yet flushed is lost ...
RecReadDies ==
    /\ captured < dura
    /\ RecAt("read", "crashed")
    /\ device' = "none"
    /\ LoseUnflushed
    /\ UNCHANGED <<callback, file, build, dura, captured>>

\* ... or it writes what memory there is, and the loop goes on.
RecReadGarbage ==
    /\ Faults /\ captured < dura
    /\ RecAt("read", "read")
    /\ captured' = captured + 1
    /\ lost' = lost \cup {captured + 1}
    /\ wav' = [wav EXCEPT !.data = Append(@, Stale)]
    /\ fault' = TRUE
    /\ UNCHANGED <<device, callback, file, build, dura>>

\* Mutation of RecStop: closes the file while the device goes on.
RecStopForgets ==
    /\ rec = "sleep" \/ (rec = "read" /\ captured = dura)
    /\ rec' = "close"
    /\ UNCHANGED <<audio, build, dura, captured, lost>>

RecStop ==
    /\ rec = "sleep" \/ (rec = "read" /\ captured = dura)
    /\ rec' = "close"
    /\ Stop
    /\ UNCHANGED <<callback, file, wav, fault, build, dura, captured, lost>>

\* Nobody looks at what fclose() returns either.
RecClose ==
    /\ RecAt("close", "clear")
    /\ file' = "closed"
    /\ LoseUnflushed \/ UNCHANGED <<wav, fault, lost>>
    /\ UNCHANGED <<device, callback, build, dura, captured>>

RecClear ==
    /\ RecAt("clear", "end")
    /\ Release
    /\ UNCHANGED <<callback, file, wav, fault, build, dura, captured, lost>>

RecCalled ==
    /\ build = "callback" /\ captured < MaxBlocks
    /\ CallBack
    /\ UNCHANGED <<device, file, wav, fault, recorder>>

\* pcm_cb() for EVENT_MORE_DATA.  To write to a FILE that is closed is
\* undefined: the block is lost ...
PcmCallback ==
    /\ callback
    /\ IF file = "open" THEN Write \/ WriteFails ELSE Lose /\ UNCHANGED fault
    /\ callback' = FALSE
    /\ UNCHANGED <<device, file, rec, build, dura>>

\* ... and the process may die of it.
PcmDies ==
    /\ callback /\ file # "open"
    /\ Lose
    /\ callback' = FALSE /\ device' = "none" /\ rec' = "crashed"
    /\ UNCHANGED <<file, fault, build, dura>>

RecThread ==
    \/ RecOpen \/ RecNoFile \/ RecCreate \/ RecStart \/ RecFail
    \/ RecRead \/ RecReadDies \/ RecReadGarbage \/ RecStop \/ RecClose \/ RecClear
=============================================================================

----------------------------- MODULE AudioTrack -----------------------------
(***************************************************************************)
(* AudioTrackDemo.cpp: play_thread() opens a WAV file and hands it to an   *)
(* AudioTrack: from the track's callback, into buffers it obtains, by      *)
(* write(), or in shared memory.  sleep() orders nothing.                  *)
(***************************************************************************)
EXTENDS AudioDevice

VARIABLES play,        \* where play_thread() is
          mode,        \* transfer_type
          result,      \* what play_thread() returns
          position,    \* blocks read from the file
          played       \* what the track was given

player == <<play, mode, result, position, played>>

Modes == {"callback", "obtain", "sync", "shared", "unknown"}

PlayAt(here, next) == play = here /\ play' = next

Rest == Len(wav.data) - position
Smaller(m, n) == IF m < n THEN m ELSE n

\* A buffer of n blocks after fread(), and what was read of it.
Filled(n) == [i \in 1 .. n |-> IF i <= Rest THEN wav.data[position + i] ELSE Stale]
BlocksRead(n) == SubSeq(wav.data, position + 1, position + Smaller(n, Rest))
Advance(n) == position' = position + Smaller(n, Rest)

OpenFile ==
    /\ PlayAt("open", "format")
    /\ wav.there /\ file' = "open"
    /\ UNCHANGED <<device, callback, wav, fault, mode, result, position, played>>

NoFile ==
    /\ ~wav.there \/ Faults
    /\ PlayAt("open", "end")
    /\ result' = "file_err"
    /\ UNCHANGED <<audio, mode, position, played>>

\* The format, then the transfer type.
CheckFormat ==
    /\ play = "format"
    /\ IF ~wav.valid
       THEN play' = "end" /\ file' = "closed" /\ result' = "fmt_err"
       ELSE /\ play' = CASE mode = "unknown" -> "close"
                         [] mode = "shared"  -> "share"
                         [] OTHER            -> "create"
            /\ result' = IF mode = "unknown" THEN "param_err" ELSE "play_ok"
            /\ UNCHANGED file
    /\ UNCHANGED <<device, callback, wav, fault, mode, position, played>>

\* The memory is as large as the header says.
ShareMemory ==
    /\ PlayAt("share", "create")
    /\ played' = Filled(wav.header)
    /\ Advance(wav.header)
    /\ UNCHANGED <<audio, mode, result>>

\* Nobody checks what allocate() returned.
NoMemory ==
    /\ Faults /\ PlayAt("share", "crashed")
    /\ UNCHANGED <<audio, mode, result, position, played>>

CreateTrack ==
    /\ play = "create" /\ Create
    /\ IF device' = "failed"
       THEN play' = "clear" /\ result' = "play_err"
       ELSE play' = "start" /\ UNCHANGED result
    /\ UNCHANGED <<callback, file, wav, fault, mode, position, played>>

StartTrack ==
    /\ play = "start" /\ Start
    /\ play' = IF mode \in {"callback", "shared"} THEN "sleep" ELSE "loop"
    /\ UNCHANGED <<callback, file, wav, mode, result, position, played>>

\* Mutation of SyncWrite: writes the whole buffer, read or not.
SyncWriteWhole ==
    /\ play = "loop" /\ mode = "sync" /\ Rest > 0
    /\ Advance(Chunk)
    /\ played' = IF device = "active" THEN played \o Filled(Chunk) ELSE played
    /\ UNCHANGED <<audio, play, mode, result>>

\* write() blocks until the track has taken the data; one that does not run
\* takes none, and nobody looks at what write() returns.
SyncWrite ==
    /\ play = "loop" /\ mode = "sync" /\ Rest > 0
    /\ Advance(Chunk)
    /\ played' = IF device = "active" THEN played \o BlocksRead(Chunk) ELSE played
    /\ UNCHANGED <<audio, play, mode, result>>

\* Mutation of SyncEnd: takes the 0 of the end of the file for more to come.
SyncEndMissed ==
    /\ mode = "sync" /\ Rest = 0
    /\ PlayAt("loop", "loop")
    /\ UNCHANGED <<audio, mode, result, position, played>>

SyncEnd ==
    /\ mode = "sync" /\ Rest = 0
    /\ PlayAt("loop", "stop")
    /\ UNCHANGED <<audio, mode, result, position, played>>

\* obtainBuffer() of a track that does not run: nothing has to come of it.
Waiting == play = "loop" /\ mode = "obtain" /\ device # "active"

\* obtainBuffer(), fread() and releaseBuffer(), which hands over all of it.
\* A track that does not run may still have room for it.
Obtain ==
    /\ play = "loop" /\ mode = "obtain"
    /\ Advance(Chunk)
    /\ played' = played \o Filled(Chunk)
    /\ play' = IF Rest < Chunk THEN "stop" ELSE "loop"
    /\ UNCHANGED <<audio, mode, result>>

\* TIMED_OUT and WOULD_BLOCK: obtainBuffer() is called again.
ObtainAgain ==
    /\ Faults \/ device # "active"
    /\ mode = "obtain" /\ PlayAt("loop", "loop")
    /\ UNCHANGED <<audio, mode, result, position, played>>

\* Any other error ends the loop, not the good result.
ObtainError ==
    /\ Faults \/ device # "active"
    /\ mode = "obtain" /\ PlayAt("loop", "stop")
    /\ fault' = TRUE
    /\ UNCHANGED <<device, callback, file, wav, mode, result, position, played>>

\* The track dies under the program.
TrackDies ==
    /\ Faults /\ play = "loop" /\ mode = "sync" /\ device = "active"
    /\ device' = "failed" /\ fault' = TRUE
    /\ UNCHANGED <<callback, file, wav, player>>

StopTrack ==
    /\ play \in {"sleep", "stop"}
    /\ play' = "clear"
    /\ Stop
    /\ UNCHANGED <<callback, file, wav, fault, mode, result, position, played>>

\* Mutation of ClearTrack: lets go of the track without its callback ending.
ClearTrackEarly ==
    /\ PlayAt("clear", "close")
    /\ device' = "none"
    /\ UNCHANGED <<callback, file, wav, fault, mode, result, position, played>>

ClearTrack ==
    /\ PlayAt("clear", "close")
    /\ Release
    /\ UNCHANGED <<callback, file, wav, fault, mode, result, position, played>>

CloseFile ==
    /\ PlayAt("close", "end")
    /\ file' = "closed"
    /\ UNCHANGED <<device, callback, wav, fault, mode, result, position, played>>

PlayCalled ==
    /\ mode = "callback" /\ Len(played) < MaxBlocks + Chunk
    /\ CallBack
    /\ UNCHANGED <<device, file, wav, fault, player>>

\* play_callback() for EVENT_MORE_DATA: the size of the buffer stays.
PlayCallback ==
    /\ callback /\ callback' = FALSE
    /\ Advance(Chunk)
    /\ played' = played \o Filled(Chunk)
    /\ UNCHANGED <<device, file, wav, fault, play, mode, result>>

PlayThread ==
    \/ OpenFile \/ NoFile \/ CheckFormat \/ ShareMemory \/ NoMemory
    \/ CreateTrack \/ StartTrack \/ SyncWrite \/ SyncEnd \/ Obtain \/ ObtainError
    \/ StopTrack \/ ClearTrack \/ CloseFile
=============================================================================

------------------------------- MODULE Audio -------------------------------
(***************************************************************************)
(* A WAV file from NativeAudioTest's recorder to its player: AudioRecord   *)
(* writes it, or it comes from elsewhere, and AudioTrack plays it.  The    *)
(* header and the data of the file are all the two programs share, and     *)
(* nothing makes them agree.                                               *)
(***************************************************************************)
EXTENDS AudioRecord, AudioTrack

vars == <<audio, recorder, player>>

NoWav == [there |-> FALSE, valid |-> FALSE, header |-> 0, data |-> <<>>]

\* A file that somebody else made.
Wavs == [there : {TRUE}, valid : BOOLEAN, header : 0 .. MaxBlocks,
         data : {[i \in 1 .. n |-> i] : n \in 0 .. MaxBlocks}]

Init ==
    /\ device = "none" /\ callback = FALSE /\ file = "none" /\ fault = FALSE
    /\ \/ rec = "open" /\ wav = NoWav
       \/ rec = "elsewhere" /\ wav \in Wavs
    /\ build \in Builds /\ dura \in 0 .. MaxBlocks
    /\ captured = 0 /\ lost = {}
    /\ play = "idle" /\ mode \in Modes
    /\ result = "none" /\ position = 0 /\ played = <<>>

\* main() of AudioTrackDemo, once the file is there.
Play ==
    /\ RecOver \/ rec = "elsewhere"
    /\ PlayAt("idle", "open")
    /\ file' = "none" /\ fault' = FALSE
    /\ UNCHANGED <<device, callback, wav, recorder, mode, result, position, played>>

PlayOver == play \in {"end", "crashed"}

RecordSteps ==
    /\ play = "idle"
    /\ RecThread \/ RecCalled \/ PcmCallback \/ PcmDies
    /\ UNCHANGED player

PlaySteps ==
    /\ play # "idle"
    /\ PlayThread \/ ObtainAgain \/ TrackDies \/ PlayCalled \/ PlayCallback
    /\ UNCHANGED recorder

Over == PlayOver /\ UNCHANGED vars

Next == RecordSteps \/ Play \/ PlaySteps \/ Over

\* The threads of the programs run, and a callback returns.  No device has to
\* call back, no call has to fail, and a track that does not run need not give
\* a buffer nor an error.
Spec ==
    /\ Init /\ [][Next]_vars
    /\ WF_vars(RecThread /\ UNCHANGED player)
    /\ WF_vars(play = "idle" /\ PcmCallback /\ UNCHANGED player)
    /\ WF_vars(Play)
    /\ WF_vars(play # "idle" /\ ~Waiting /\ PlayThread /\ UNCHANGED recorder)
    /\ WF_vars(play # "idle" /\ PlayCallback /\ UNCHANGED recorder)

-----------------------------------------------------------------------------
\* No callback reads a file that play_thread() has closed, or conf from its
\* stack after it returned: clear() comes before fclose()
\* (AudioTrackDemo.cpp:132, 353), and while a device can still begin a callback
\* the file is open, in the recorder as well (AudioRecordDemo.cpp:136-137).
CallbackHasFile ==
    /\ device = "active" => file = "open"
    /\ play # "idle" /\ callback => file = "open"

\* The file holds blocks that were captured, in order and each once, and every
\* one it does not hold a call has lost.  Memory that was never read into comes
\* only from the loop build, where read() failed.  If no call failed, only the
\* last block can be missing: the recorder closes its file before the callback
\* that stop() left in progress has ended (AudioRecordDemo.cpp:136-139, 61).
\* The file of the loop build is then as long as its header says.
RecordedInOrder ==
    play = "idle" /\ rec # "elsewhere" =>
        /\ \A i, j \in 1 .. Len(wav.data) :
              i < j /\ Stale \notin {wav.data[i], wav.data[j]} => wav.data[i] < wav.data[j]
        /\ \A n \in 1 .. captured : n \in lost \/ \E i \in 1 .. Len(wav.data) : wav.data[i] = n
        /\ \A i \in 1 .. Len(wav.data) :
              /\ wav.data[i] \in 0 .. captured
              /\ wav.data[i] = Stale => build = "loop" /\ fault
        /\ ~fault =>
              /\ lost \subseteq {captured}
              /\ build = "loop" /\ rec \in {"close", "clear"} => Len(wav.data) = wav.header

\* The track is given the file from its first block on, in order, and then at
\* most what a buffer that fread() did not fill still held: never with write(),
\* up to one buffer with obtainBuffer(), and with the callback or in shared
\* memory as much as the device asks or the header claims.  "play finished!"
\* (AudioTrackDemo.cpp:17) says, if no call failed behind its back, that the
\* whole file was handed over, or in shared memory what the header tells of it;
\* the callback may be stopped anywhere.
PlayedInOrder ==
    /\ \A i \in 1 .. Len(played) :
          played[i] = (IF i <= Len(wav.data) THEN wav.data[i] ELSE Stale)
    /\ mode = "sync" => Len(played) <= Len(wav.data)
    /\ mode = "obtain" => Len(played) <= Len(wav.data) + Chunk
    /\ result = "play_ok" /\ play = "end" /\ ~fault =>
          /\ mode \in {"sync", "obtain"} => Len(played) >= Len(wav.data)
          /\ mode = "shared" => Len(played) = wav.header

\* Recorder and player end, whatever fails and whenever a callback comes.  Only
\* a player whose start() failed may go on for ever: it does not look at the
\* status and calls obtainBuffer() again as long as that would block
\* (AudioTrackDemo.cpp:174, 190).
Ends == <>PlayOver \/ <>[]Waiting
=============================================================================

------------------------------ MODULE Encoder ------------------------------
(***************************************************************************)
(* MediaCodecDemo.cpp: videoEncode() reads raw frames from a file, feeds   *)
(* them to a MediaCodec, and writes what it gives back to another file,    *)
(* until the end of the stream, an error or a signal.  The codec works on  *)
(* its own threads; it is modelled from its use.                           *)
(***************************************************************************)
EXTENDS Options

CONSTANTS MaxFrames,    \* bound: whole frames in the input file
          InBuffers,    \* input buffers of the codec
          OutBuffers,   \* output buffers of the codec
          MaxSide,      \* the largest width and height the codec encodes
          MaxSignals,   \* bound: signals that are caught
          Faults        \* may calls of the system and of the codec fail?

ASSUME EncoderAssumption ==
    /\ {MaxFrames, MaxSignals, MaxSide} \subseteq Nat
    /\ MaxSide * MaxSide * 3 < Word
    /\ {InBuffers, OutBuffers} \subseteq Nat \ {0}
    /\ Faults \in BOOLEAN

Signals == {"INT", "HUP"}
EOS     == 0                    \* BUFFER_FLAG_EOS, in the place of a frame
CSD     == -1                   \* BUFFER_FLAG_CODECCONFIG
Buffer  == 1 .. InBuffers

VARIABLES pc,              \* where the main thread is
          err,             \* has a call failed?
          gStopRequested,
          handler,         \* "default" or "catcher", of each signal
          caught,          \* the signals caught so far, each with the step that
                           \* its handler is at, or "done"; early: caught before
                           \* both handlers were installed
          frames,          \* whole frames in the input file
          position,        \* frames read from it
          inFile, outFile, \* "none", "open", "closed"
          written,         \* what the output file got
          lost,            \* ghost: what a failed call has lost
          codec,           \* "none", "started", "released"
          free,            \* input buffers dequeueInputBuffer() may return
          refused,         \* input buffers that queueInputBuffer() did not take
          work,            \* the input queued, as <<buffer, frame>>
          ended,           \* has the codec met the end of the stream?
          out              \* the output ready, oldest first

signal == <<gStopRequested, handler, caught>>
output == <<written, lost>>
files  == <<frames, position, inFile, outFile, output>>
input  == <<free, refused, work>>
coder  == <<codec, input, ended, out>>
vars   == <<pc, err, options, signal, files, coder>>

Init ==
    /\ pc = "options" /\ err = FALSE /\ OptionsInit
    /\ gStopRequested = FALSE /\ caught = <<>>
    /\ handler = [s \in Signals |-> "default"]
    /\ frames \in 0 .. MaxFrames
    /\ position = 0 /\ inFile = "none" /\ outFile = "none"
    /\ written = <<>> /\ lost = {}
    /\ codec = "none" /\ free = {} /\ refused = {} /\ work = <<>> /\ ended = FALSE /\ out = <<>>

At(here, next) == pc = here /\ pc' = next
Ended == pc \in {"exited", "killed"}
ExitWith(error) == pc' = "exited" /\ err' = error

-----------------------------------------------------------------------------
(***************************************************************************)
(* main()                                                                  *)
(***************************************************************************)
NextOption ==
    /\ pc = "options" /\ optind <= Len(argv)
    /\ Take(argv[optind])
    /\ UNCHANGED <<pc, err, signal, files, coder>>

\* --help returns 0, an option that is not accepted 2.
StopAtOption ==
    /\ pc = "options" /\ optind <= Len(argv)
    /\ ~Accepted(argv[optind])
    /\ ExitWith(argv[optind].opt # "help")
    /\ UNCHANGED <<options, signal, files, coder>>

LastOption ==
    /\ optind > Len(argv) /\ At("options", "configureINT")
    /\ UNCHANGED <<options, err, signal, files, coder>>

-----------------------------------------------------------------------------
(***************************************************************************)
(* signalCatcher() runs on any thread of the process, and other signals    *)
(* may come between its steps.  Until the thread pool is there it runs on  *)
(* the main thread, which waits for it, and the same signal waits as well. *)
(* A signal that is not caught kills the process.                          *)
(***************************************************************************)
InHandler == \E i \in DOMAIN caught : caught[i].step # "done"
Alone     == pc = "configureHUP"

Comes(s) == ~Ended /\ ~(Alone /\ InHandler /\ s = "INT")

Catch(s) ==
    /\ Comes(s) /\ handler[s] = "catcher" /\ Len(caught) < MaxSignals
    /\ caught' = Append(caught, [signal |-> s, early |-> Alone, step |-> "flag"])
    /\ UNCHANGED <<options, pc, err, gStopRequested, handler, files, coder>>

Kill(s) ==
    /\ Comes(s) /\ handler[s] = "default"
    /\ pc' = "killed"
    /\ UNCHANGED <<options, err, signal, files, coder>>

HandlerAt(i, here, next) ==
    /\ ~Ended /\ caught[i].step = here
    /\ caught' = [caught EXCEPT ![i].step = next]

RequestStop(i) ==
    /\ HandlerAt(i, "flag", "INT")
    /\ gStopRequested' = TRUE
    /\ UNCHANGED <<options, pc, err, handler, files, coder>>

\* Mutation of Restore: only the handler of the signal that was caught.
RestoreOwn(i, s, here, next) ==
    /\ HandlerAt(i, here, next)
    /\ handler' = IF caught[i].signal = s THEN [handler EXCEPT ![s] = "default"] ELSE handler
    /\ UNCHANGED <<options, pc, err, gStopRequested, files, coder>>

Restore(i, s, here, next) ==
    /\ HandlerAt(i, here, next)
    /\ handler' = [handler EXCEPT ![s] = "default"]
    /\ UNCHANGED <<options, pc, err, gStopRequested, files, coder>>

RestoreINT(i) == Restore(i, "INT", "INT", "HUP")
RestoreHUP(i) == Restore(i, "HUP", "HUP", "done")

Handler == \E i \in DOMAIN caught : RequestStop(i) \/ RestoreINT(i) \/ RestoreHUP(i)

\* configureSignals() installs the handlers one after the other.
Configure(s, here, next) ==
    /\ At(here, next) /\ ~InHandler
    /\ handler' = [handler EXCEPT ![s] = "catcher"]
    /\ UNCHANGED <<options, err, gStopRequested, caught, files, coder>>

ConfigureINT == Configure("INT", "configureINT", "configureHUP")
ConfigureHUP == Configure("HUP", "configureHUP", "size")

-----------------------------------------------------------------------------
(***************************************************************************)
(* videoEncode() up to the loop, and its errors.                           *)
(***************************************************************************)
\* A sigaction() or CreateByType() that fails ends the program with nothing to
\* undo.
FailEarly ==
    /\ Faults /\ pc \in {"configureINT", "configureHUP", "prepare"} /\ ~(Alone /\ InHandler)
    /\ ExitWith(TRUE)
    /\ UNCHANGED <<options, signal, files, coder>>

SetSize ==
    /\ At("size", "prepare") /\ UseDefaults
    /\ UNCHANGED <<err, signal, files, coder>>

Supported == gVideoWidth \in 1 .. MaxSide /\ gVideoHeight \in 1 .. MaxSide

\* prepareEncoder(): created, configured and started
Prepare ==
    /\ At("prepare", "openIn") /\ Supported
    /\ codec' = "started" /\ free' = Buffer /\ out' = <<CSD>>
    /\ UNCHANGED <<options, err, signal, files, refused, work, ended>>

\* configure() or start() fails on a codec that was created, configure()
\* always on a size that it does not support.
FailPrepare ==
    /\ Faults \/ ~Supported
    /\ pc = "prepare"
    /\ codec' = "released"
    /\ ExitWith(TRUE)
    /\ UNCHANGED <<options, signal, files, input, ended, out>>

OpenIn ==
    /\ At("openIn", "openOut")
    /\ inFile' = "open"
    /\ UNCHANGED <<options, err, signal, frames, position, outFile, output, coder>>

OpenOut ==
    /\ At("openOut", "getBuffers")
    /\ outFile' = "open"
    /\ UNCHANGED <<options, err, signal, frames, position, inFile, output, coder>>

\* fopen() fails: the encoder is released; an input file that was open stays so
FailOpen ==
    /\ Faults /\ pc \in {"openIn", "openOut"}
    /\ codec' = "released"
    /\ ExitWith(TRUE)
    /\ UNCHANGED <<options, signal, files, input, ended, out>>

-----------------------------------------------------------------------------
(***************************************************************************)
(* runEncoder()                                                            *)
(***************************************************************************)
\* getInputBuffers(), getOutputBuffers()
\* (The assert(rawOutFp == NULL) before them is compiled out; it is false.)
GetBuffers ==
    /\ At("getBuffers", "loop")
    /\ UNCHANGED <<options, err, signal, files, coder>>

FailBuffers ==
    /\ Faults /\ At("getBuffers", "cleanup") /\ err' = TRUE
    /\ UNCHANGED <<options, signal, files, coder>>

\* while (!gStopRequested)
Continue ==
    /\ At("loop", "input") /\ ~gStopRequested
    /\ UNCHANGED <<options, err, signal, files, coder>>

Leave ==
    /\ At("loop", "cleanup") /\ gStopRequested
    /\ UNCHANGED <<options, err, signal, files, coder>>

NextItem == IF position < frames THEN position + 1 ELSE EOS

\* Mutation of Feed: the end of the file stops the loop at once (line 253).
FeedStops(b) ==
    /\ At("input", "output") /\ b \in free /\ free' = free \ {b}
    /\ work' = Append(work, <<b, NextItem>>)
    /\ position' = IF NextItem = EOS THEN position ELSE NextItem
    /\ gStopRequested' = (NextItem = EOS)
    /\ UNCHANGED <<options, err, handler, caught, frames, inFile, outFile, output,
                   codec, refused, ended, out>>

\* Mutation of Feed: a buffer that is not taken is filled and queued once more.
FeedAgain(b) ==
    /\ At("input", "output") /\ b \in free /\ free' = free \ {b}
    /\ position' = IF NextItem = EOS THEN position ELSE NextItem
    /\ \/ work' = Append(work, <<b, NextItem>>) /\ UNCHANGED <<refused, lost>>
       \/ /\ Faults /\ refused' = refused \cup {b}
          /\ work' = Append(work, <<b, NextItem>>) /\ UNCHANGED lost
    /\ UNCHANGED <<options, err, signal, frames, inFile, outFile, written, codec, ended, out>>

\* dequeueInputBuffer() returns b, a frame is read and queued; at the end of the
\* file the end of the stream is queued, each time round again.  Nobody looks at
\* the status of queueInputBuffer(): where it fails, the frame is lost and the
\* buffer stays with the program.
Feed(b) ==
    /\ At("input", "output") /\ b \in free /\ free' = free \ {b}
    /\ position' = IF NextItem = EOS THEN position ELSE NextItem
    /\ \/ work' = Append(work, <<b, NextItem>>) /\ UNCHANGED <<refused, lost>>
       \/ /\ Faults /\ refused' = refused \cup {b}
          /\ lost' = lost \cup ({NextItem} \ {EOS}) /\ UNCHANGED work
    /\ UNCHANGED <<options, err, signal, frames, inFile, outFile, written, codec, ended, out>>

\* No input buffer, or an error, which is only logged.
NoInput ==
    /\ At("input", "output") /\ (free = {} \/ Faults)
    /\ UNCHANGED <<options, err, signal, files, coder>>

\* A buffer is written unless it is empty.  Nobody looks at what fwrite() returns.
Write(item) ==
    \/ item = EOS /\ UNCHANGED output
    \/ item # EOS /\ written' = Append(written, item) /\ UNCHANGED lost
    \/ Faults /\ item # EOS /\ lost' = lost \cup {item} /\ UNCHANGED written

\* Mutation of Drain: the flag of the end of the stream is not looked at.
DrainIgnoresEnd ==
    /\ At("output", "loop") /\ out # <<>>
    /\ Write(Head(out)) /\ out' = Tail(out)
    /\ UNCHANGED <<options, err, signal, frames, position, inFile, outFile, codec, input, ended>>

\* A buffer, written and released; the end of the stream stops the loop.
Drain ==
    /\ At("output", "loop") /\ out # <<>>
    /\ Write(Head(out)) /\ out' = Tail(out)
    /\ gStopRequested' = (gStopRequested \/ Head(out) = EOS)
    /\ UNCHANGED <<options, err, handler, caught, frames, position, inFile, outFile,
                   codec, input, ended>>

\* releaseOutputBuffer() fails on a buffer that has been written.
FailRelease ==
    /\ Faults /\ At("output", "cleanup") /\ out # <<>>
    /\ Write(Head(out)) /\ err' = TRUE
    /\ UNCHANGED <<options, signal, frames, position, inFile, outFile, coder>>

\* An error of dequeueOutputBuffer(), or of getOutputBuffers() when they change
FailOutput ==
    /\ Faults /\ At("output", "cleanup") /\ err' = TRUE
    /\ UNCHANGED <<options, signal, files, coder>>

\* -EAGAIN after 250ms without output, or a change of format or of buffers
Again ==
    /\ At("output", "loop") /\ out = <<>>
    /\ UNCHANGED <<options, err, signal, files, coder>>

\* Mutation of Cleanup: an error returns at once.
CleanupUnlessError ==
    /\ At("cleanup", "exited")
    /\ IF err THEN UNCHANGED <<inFile, outFile, codec>>
       ELSE inFile' = "closed" /\ outFile' = "closed" /\ codec' = "released"
    /\ UNCHANGED <<options, err, signal, frames, position, output, input, ended, out>>

Cleanup ==
    /\ At("cleanup", "exited")
    /\ inFile' = "closed" /\ outFile' = "closed" /\ codec' = "released"
    /\ UNCHANGED <<options, err, signal, frames, position, output, input, ended, out>>

-----------------------------------------------------------------------------
(***************************************************************************)
(* The codec takes its input in order, one output buffer for each frame,   *)
(* and ignores what comes after the end of the stream, buffers included.   *)
(***************************************************************************)
Encode ==
    /\ codec = "started" /\ ~Ended
    /\ work # <<>> /\ (ended \/ Len(out) < OutBuffers)
    /\ work' = Tail(work)
    /\ LET b == Head(work)[1]
           f == Head(work)[2]
       IN  /\ out' = IF ended THEN out ELSE Append(out, f)
           /\ free' = IF ended \/ f = EOS THEN free ELSE free \cup {b}
           /\ ended' = (ended \/ f = EOS)
    /\ UNCHANGED <<options, pc, err, signal, files, codec, refused>>

MainSteps ==
    \/ NextOption \/ StopAtOption \/ LastOption \/ SetSize
    \/ ConfigureINT \/ ConfigureHUP \/ Prepare \/ OpenIn \/ OpenOut
    \/ FailEarly \/ FailPrepare \/ FailOpen \/ FailBuffers \/ FailRelease \/ FailOutput
    \/ GetBuffers \/ Continue \/ Leave \/ NoInput \/ Drain \/ Again \/ Cleanup
    \/ \E b \in Buffer : Feed(b)

Over == Ended /\ UNCHANGED vars

Next == MainSteps \/ Encode \/ (\E s \in Signals : Catch(s) \/ Kill(s)) \/ Handler \/ Over

Spec == Init /\ [][Next]_vars

\* The main thread and a handler run: no call of the loop waits longer than its
\* timeout.
\* The codec works on what it has been given.  An input buffer that is there
\* is not refused for ever.
FairSpec ==
    /\ Spec
    /\ WF_vars(MainSteps) /\ WF_vars(Handler) /\ WF_vars(Encode)
    /\ SF_vars(\E b \in Buffer : Feed(b))

-----------------------------------------------------------------------------
\* Whatever the command line is, an encoder that runs has the width, the height
\* and the rate that were asked last if 32 bits hold them, a rate within the limits
\* also when the unit overflowed (MediaCodecDemo.cpp:490), and a frame that is not
\* empty: the division at 413 and the loop's test for the end of the file rely
\* on what configure() refuses.
EncoderParameters ==
    codec = "started" =>
        /\ gBitRate \in kMinBitRate .. kMaxBitRate /\ FrameSize > 0
        /\ LET rate == LastAsked("bit-rate", 4 * Mega, Asked)
           IN  rate \in 0 .. Word - 1 => gBitRate = rate
        /\ LET width == LastAsked("size", DefaultWidth, LAMBDA a : a.width)
           IN  width \in 0 .. Word - 1 => gVideoWidth = width
        /\ LET height == LastAsked("size", DefaultHeight, LAMBDA a : a.height)
           IN  height \in 0 .. Word - 1 => gVideoHeight = height

\* An input buffer is never queued twice, nor dequeued while it is queued or after
\* queueInputBuffer() has not taken it.
BuffersOwnedOnce ==
    /\ \A i, j \in 1 .. Len(work) : work[i][1] = work[j][1] => i = j
    /\ \A i \in 1 .. Len(work) : work[i][1] \notin free \cup refused
    /\ free \cap refused = {}

\* The configuration and the frames up to the n-th.
Items(n) == {CSD} \cup 1 .. n
Written == {written[i] : i \in 1 .. Len(written)}

\* The output file: the configuration first, then frames of the input in order,
\* none twice, and none left out but by a queueInputBuffer() or fwrite() that
\* failed, whose status nobody looks at (MediaCodecDemo.cpp:254-256, 277), however
\* the program ended.  And so up to the last frame if it ended by itself and
\* without an error: the loop outlives the end of the input file until the
\* codec has drained (MediaCodecDemo.cpp:253 is commented out for that).
WrittenInOrder ==
    /\ \A i, j \in 1 .. Len(written) : i < j => written[i] < written[j]
    /\ \A f \in Written : f \in Items(frames) /\ Items(f) \subseteq Written \cup lost
    /\ pc = "exited" /\ ~err /\ caught = <<>> /\ codec # "none" =>
        Items(frames) \subseteq Written \cup lost

\* On every way out, errors included, a codec that was created is released and
\* the files are closed; but for an input file whose output file does not open
\* (MediaCodecDemo.cpp:419-423).
ReleasedAtExit ==
    pc = "exited" =>
        /\ codec # "started"
        /\ outFile # "open"
        /\ inFile = "open" => err /\ outFile = "none"

\* "a second Ctrl-C will kill the process" (MediaCodecDemo.cpp:86), and so will a
\* SIGHUP: from the return of a handler on neither signal is caught, wherever
\* other handlers are.  Only a handler that ran between the two sigaction() calls
\* (114, 120) leaves the one for SIGHUP to be installed.
KillsOnceCaught ==
    \A i \in 1 .. Len(caught) : caught[i].step = "done" =>
        /\ handler["INT"] = "default"
        /\ caught[i].early \/ handler["HUP"] = "default"

\* The program ends: by the end of the stream, although the loop queues it
\* again and again, or soon after a signal.  Only when queueInputBuffer() has
\* refused every buffer (MediaCodecDemo.cpp:254, 256) does it wait for a signal.
Terminates == <>(Ended \/ refused = Buffer)
=============================================================================

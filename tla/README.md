# AndroidUtilsDemo in TLA+

AndroidUtilsDemo is a collection of small native programs around Android's utility
and media libraries. This directory holds TLA+ models of the parts of it that carry
logic of their own: the reference-counting library that `RefBaseTester` vendors and
exercises (`RefBase`, `sp<T>`, `wp<T>`), and the demo programs, each with the
library or device it talks to. TLC checks the models on small instances; TLAPS
proves the safety properties of every program that has parameters for all their
values: any number of pointers, objects, threads, frames, buffers or clients.

Paths below are relative to `src/`.

## 1. Inventory

| Component | State it keeps | Operations | Talks to | Hard behaviour |
|---|---|---|---|---|
| RefBase reference counts (`RefBaseTester/RefBaseSrc/RefBase.cpp`, `RefBase.h`) | `mStrong`, `mWeak`, `mFlags` of a `weakref_impl`; the object | incStrong, decStrong, forceIncStrong, incWeak, decWeak, attemptIncStrong, attemptIncWeak, extendObjectLifetime, ~RefBase | callbacks onFirstRef, onLastStrongRef, onIncStrongAttempted | lock-free code; who deletes what; promote() against the last release |
| sp and wp operators (`StrongPointer.h`, `RefBase.h`) | `m_ptr`, `m_refs` | constructors, assignment, clear, promote, comparison | RefBase | a release runs destructors in the middle of an assignment; cycles |
| RefBaseTester demo (`RefBaseTester/demo`) | its `sp`s | testAutoRelease, testHandRelease, testRefCounter, testSwapObj | sp, wp | manual inc/dec next to an `sp` |
| AtomicTester (`AtomicTester/AtomicTester.cpp`) | `threadsStarted`, four counters, `waitLock`, `waitCond`, three mutexes | startLine, three styles of counting, join | pthreads | starting line; lost broadcast; spurious wakeup; compare-and-swap retry |
| ReflectorTester (`ALooperTester/ReflectorTester.cpp`) | tester, worker, two loopers, the one `mNotify` message | init, start, stop, reset, handlers | foundation library | two loopers, an AHandler deleted on its own looper thread, stop against messages on their way |
| ALooperTester (`ALooperTester/ALooperTester.cpp`) | tester, its looper | posts: immediate, delayed, awaited, nested; stop | foundation library | order of messages, blocking for an answer, teardown race |
| MediaCodecDemo (`MediaCodecDemo/MediaCodecDemo.cpp`) | options, files, codec buffers, `gStopRequested`, signal handlers and their progress | main, prepareEncoder, runEncoder, videoEncode, configureSignals, signalCatcher | MediaCodec, signals | 32-bit sizes and rates, ownership of buffers, end of stream, signals at any point, errors half way |
| AudioRecordDemo (`NativeAudioTest/AudioRecordDemo.cpp`) | WAV file, record object | capture_thread in two builds, pcm_cb | AudioRecord; AudioTrackDemo through the file | callback thread against stop(), fclose() and clear(); read() that fails |
| AudioTrackDemo (`NativeAudioTest/AudioTrackDemo.cpp`) | WAV file, track, shared memory | play_thread: by callback, obtain, sync, shared memory | AudioTrack | short reads, a header that does not fit its data, callback thread at the end |
| SurfaceDemo (`SurfaceDemo/SurfaceDemo.cpp`) | dequeued and locked buffers of a window, yuv file | allocate; dequeue, lock, fill, unlock, queue; dispose | native window, display | who owns a buffer, a fence nobody waits for, queueBuffer() that fails unseen, waiting for a buffer |
| SoftwareRendererDemo (`SoftwareRendererDemo/`) | yuv file, memory for one picture | read, render | SoftwareRenderer, display | pictures dropped unseen |
| TestBinder (`TestBinder/`) | a service, its thread pool; a proxy, shared memory | add, share_mem, onTransact; getService in a loop | binder driver, service manager | a call back into a client that waits, calls that fail unseen, a server that dies or never appears, concurrent clients |
| SoundPoolDemo | a pool of samples | load, play in the loaded callback | SoundPool | callback thread (inside the library) |
| FrameDecoderDemo, MediaCodecListDemo | none worth a model | straight lines of calls | media libraries | none of their own |

What makes each component right:

- **RefBase**: nothing is used or freed after it was deleted; an `sp` keeps its
  object; the counts are the references; nothing leaks; a strong count of zero is
  final under the normal life-time; the callbacks balance; a promotion ends.
- **sp/wp**: copying, assigning and clearing take before they give back, so that no
  operand dangles; everything not reachable is deleted, but for cycles.
- **AtomicTester**: all threads start together, no update is lost, main joins.
- **ReflectorTester, ALooperTester**: messages are handled in order, on living
  objects, those posted before a looper's thread has run too; the teardown ends
  whichever thread drops the last reference.
- **MediaCodecDemo**: the codec is given what the command line asked; what is
  written is the stream in order, with no gap but what a call lost whose status
  nobody looks at; what was acquired is released; the program ends, a signal stops
  it, and what comes after the handler has run kills it.
- **AudioRecordDemo, AudioTrackDemo**: the file holds what was captured, the track
  is given the file in order; no callback outlives what the player reads; both end.
- **SurfaceDemo, SoftwareRendererDemo**: what is locked is the program's, not queued
  nor shown; the pictures come to the screen in order, each once, and none is
  missing but where a call failed or the layer was taken away.
- **TestBinder**: a client is told its own sum, and 1 only if the service was called
  for its memory; the memory is there as long as the service works with it; clients
  end.

`PROJECT.json` lists the hazards of this code one by one, each at its line, with the
properties that catch it.

## 2. Modules

```
RefLifetime            what the counts promise (abstract)
   ^ implemented by
RefBase  <- RefBaseInvariant <- RefBaseProofs
SmartPointers          several objects, one thread: operators over atomic counts
   ^ SmartPointersProofs
AtomicTester           threads, one condition variable, mutexes
   ^ AtomicTesterProofs
Looper                 the foundation library, external
   ^ extended by
Reflector, ALooperTester
   ^ LooperProofs         extends the first, instantiates the second
Options                the command line of MediaCodecDemo
   ^ extended by
Encoder                MediaCodecDemo, its codec external
   ^ EncoderProofs
AudioDevice            AudioTrack and AudioRecord of the library, external; the file
   ^ extended by
AudioRecord, AudioTrack
   ^ composed by
Audio                  a WAV file from the recorder to the player
   ^ AudioProofs
BufferQueue            the window's buffers and the display, external
   ^ extended by
Surface                SurfaceDemo and SoftwareRendererDemo
   ^ SurfaceProofs
Screen                 what the audience sees (abstract), implemented by Surface
Binder                 TestBinder: clients, the service and its threads
   ^ BinderProofs
TestService            what the clients are promised (abstract), implemented by Binder
MC*.tla, MC*.cfg       instances for TLC
```

`RefBase.tla` looks at one object with all interleavings; `SmartPointers.tla` at
many objects with the counts as `RefBase.tla` shows they behave: each inc and dec as
one step, by one thread, because what is new there is the nesting of destructors,
not the races.

A definition such as `AttemptCasBlind` or `LastWeakForgets`, which no action uses,
is a wrong version of the definition that follows it: the mistake an edit of the
code could make. Each property of a passing run is known to fail for one of them
(`mutants` in `PROJECT.json`).

### RefBase.tla

| In the model | In the code |
|---|---|
| a handle in `Sp` or `Wp` | one `sp<T>` or `wp<T>` variable, used by one thread at a time |
| `pc[h]` = "null", "set" | the variable holds no reference, or one |
| `pc[h]` another label | a thread is inside incStrong, attemptIncStrong, ... for it |
| `cur[h]` | the local `curCount` of the retry loops |
| `src[h]` | the handle the call reads its pointer from |
| `mStrong`, `mWeak`, `mFlags` | the members of `weakref_impl` |
| `object`, `refs` | the memory of the object and of the `weakref_impl` |
| `owed` | onFirstRef and accepted onIncStrongAttempted minus onLastStrongRef (history) |

A step is one atomic access of `mStrong` or `mWeak`, one callback, or one delete. A
failed compare-and-swap reloads the count in a step of its own. Two steps are
coarser than that. The delete of the object runs `~RefBase` with it: the object's
own destructor is opaque, and all that ~RefBase reads is the counts and the flags.
What a decWeak does after it took mWeak to zero is one step as well: nobody else has
a reference by then, which is what `NoUseAfterFree` and `InvLastWeak` say. The
contract of a client is part of the model: a handle that another call reads from
(`src`) is not changed meanwhile; the first reference is made by the thread that
made the object; the `sp` made first finishes its onFirstRef before it is copied.
`ForceSetEarly` says whether `sp::force_set` may be called on an object that has
never had a strong reference.

### SmartPointers.tla

`ptr` holds the `m_ptr` of every `sp`: variables (`Root`) and one member per object,
named by the object. `wptr` and `wrefs` are the two members of a `wp`. `stack` holds
the operators in progress: a release that destroys an object runs the destructor's
own release in a frame on top, and the assignment goes on when it returns. `hand`
counts the references the program took with incStrong by hand (testRefCounter).
`Reach(S)` is the least set that contains what the slots of `S` hold and what the
members of its own objects hold; `Reached` is that of the roots, `Behind(o)` that of
one object's member. Both serve the properties, and which slots a program can name.

### AtomicTester.tla

`pc` is the place of each thread: `startLine` up to the condition wait, then one of
five operations per round in `mode`. `step` and `val` are what a mutex or a
compare-and-swap can interleave with. `spurious` remembers that `pthread_cond_wait`
returned without a broadcast. `main` polls `threadsStarted` under `waitLock` and
broadcasts, then joins. The threads for which `pthread_create` fails are chosen in
`Init`, since a failure is only logged.

### Looper.tla, Reflector.tla, ALooperTester.tla

`Looper` models ALooper, ALooperRoster and AHandlerReflector from their use: a FIFO
of messages per looper, delivery to a handler that must be registered and whose weak
pointer must still promote, stop() that asks the thread to end and waits for it
unless the caller is that thread. Messages due at one time are delivered in the
order of posting; a delayed one is set aside in `delayed` and enters the queue at
any later step. `sleep()` orders nothing, and start() does not wait for the thread:
between `Begin` and `Run` it is "starting", while messages are posted already, and
stop() waits for it then as well. In both testers `owners` is the set of `sp`s to
the tester, one of main and one of a delivery in progress: the last one runs the
destructor, on main or on the looper's own thread.

### Options.tla, Encoder.tla

`argv` is the command line, one record per option, and `optind` the next one. A
number is read as a `long` and kept modulo `Word`, which stands for 2^32, after the
unit has multiplied it: `Rate`, `Width`, `Height`. What is malformed is one option
of its own. `FrameSize` is the divisor at line 413.

`pc` is the place of the main thread, one label per call or group of calls between
which a signal or the codec can matter. A frame is its number, the end of stream 0,
the codec configuration -1. `free`, `work` and `out` are the input buffers the codec
would hand out, its queued input and its output. With `Faults` every call that may
fail does: those with a status that is looked at go to the exit they go to in the
code; where nobody looks, at queueInputBuffer() (254, 256) and fwrite() (277), the
program goes on, the frame is `lost` and, in the first case, the buffer is in
`refused`, with the program for good.

A signal comes at any step. Where the handler is the default the process is killed
(`Kill`: what the system does). Where it is `signalCatcher`, `caught` gets one more
record, with the step its handler is at: it sets `gStopRequested`, then takes back
the handler of SIGINT, then that of SIGHUP (`RequestStop`, `RestoreINT`,
`RestoreHUP`). These are three steps, since the process has other threads, and a
signal of the other kind is not masked. Only between the two sigaction() calls of
configureSignals(), when there is no other thread yet, does the handler run on the
main thread, which waits for it (`Alone`).

### AudioDevice.tla, AudioRecord.tla, AudioTrack.tla, Audio.tla

A block is a piece of sound of the size the programs work in, and is its number in
the recording; `Stale` is what a block of memory holds that nothing was read into.
`wav` is the file: whether it is there, whether its format is right, the size in its
header and its blocks. `device` is the `AudioTrack` or the `AudioRecord`, and
`callback` says whether its thread is in the program's callback: `Stop` lets that
one go on, `Release` waits for it. `rec` and `play` are the places of
`capture_thread` and `play_thread`. `fault` remembers that a call failed and the
program went on. The loop build of the recorder (CAP_CALLBACK not defined) reads one
block per turn. In `AudioTrack` `mode` is the `transfer_type`, 0 being "sync"; a
buffer that is handed over has `Chunk` blocks, or what the header says in shared
memory. `Audio` composes the two programs by their file: the player starts on what
the recorder left behind, a recorder that died included, or on a file from elsewhere
whose header and data need not agree.

Nobody looks at what fwrite() returns. A block that it does not get into the file is
in `lost` (`WriteFails`), and so is what fclose() could not flush (`RecClose`); a
file without its header is not `valid` (`RecOpen`). What fwrite() does with a `FILE` that is closed is undefined: in
`PcmCallback` the block is lost, in `PcmDies` the process dies too. A `read()` that
fails gives fwrite() a size beyond its buffer: `RecReadDies` and `RecReadGarbage`
are the two outcomes, and a process that dies loses what it has not flushed.

An error of obtainBuffer() is one of two: TIMED_OUT and WOULD_BLOCK have it called
again (`ObtainAgain`), any other ends the loop (`ObtainError`). A track whose
start() failed, a status nobody looks at, may answer either, or give a buffer, for
as long as it likes.

### BufferQueue.tla, Surface.tla

`at` is the owner of each buffer, `content` the number of the picture in it.
`Dequeue` takes a free buffer, or a new one while allocation is allowed; `Latch` is
the display, which shows the queued buffers in order and lets go of the one it
showed. It may still read that one until its fence signals: `fences` are the buffers
it reads, `Signal` ends it, and the fence goes with the buffer through
dequeueBuffer() and back through queueBuffer(), where the display waits for it.
main() does not: `LockBuffer` and `SurfaceRead` do not ask for it.

`program` says which of the two programs runs. The setup of the window is a chain of
steps of which each may fail: what `CHECK` guards aborts, the rest returns -1.
SurfaceDemo goes on after its usage line: with an argument missing it dies or has no
file to open, with one too many it runs. `held` is the one buffer that main() works
with, `locked` what is locked, `img` whether the memory to read into is there.
`failed` holds the calls that failed without the program minding; a queueBuffer()
that failed leaves its buffer at "app" for ever. `empty` stands for a width or
height that makes the size of a picture 0. `render()` of `SoftwareRenderer` is
`Render` or, without a buffer, `RenderDrop`. `Dispose` is dispose() of the control,
or the end of the process: the layer goes with what is queued for it.

`Screen.tla` has no buffers: a file of pictures, those on their way and the one on
the screen, until the layer goes. `Way` maps the queue to the pictures in it; `Lost`
is a queueBuffer() at line 221, or a render(), that failed.

### Binder.tla

`client` and `server` are the places of the two main()s. `call` follows a client's
call through the driver: sent, taken by a thread of the server, for SHARE_MEM a call
back for the memory ("asks", then "given" or "refused"), replied, or failed.
`serving` says which thread works for whom. The thread of a client that waits in
transact() is the only one it has, and serves the call back (`GiveMemory`).
`ServerDies` may come at any moment.

With `Faults` a call fails also while everybody lives: before the server hears of it
(`Transact`), or after it was carried out, when the reply is lost (`Reply`). Its
status is dropped: the client reads 0, here `Dead`, and `dropped` remembers the
call. The call back, or the mapping of what it gave, may fail as well: then
pointer() is NULL, `shared` is "unmapped", and the service answers 1 all the same,
since what it answers is only that it was passed a memory (`OnShared`).

`TestService.tla` has no threads, parcels or calls back: a call is started, carried
out once at most, while the service lives, and returns what was done or, if it
failed or the service died, nothing. A call is carried out when onTransact() writes
the reply (`OnAdd`, `OnShared`); `result` compares what a client read with what is
right for that call.

## 3. What the runs check

| Run | Instance | Distinct states | Question |
|---|---|---|---|
| `refbase` | 3 sp, 2 wp, both life-times, first reference of either kind | 227,500 (symmetry) | is the counting code safe? does it implement `RefLifetime`? |
| `refbase_live` | 2 sp, 2 wp | 39,601 | do promotions end? is garbage deleted? |
| `refbase_force` | 2 sp, 1 wp, `ForceSetEarly` | violation | may force_set race promote on a fresh object? |
| `refbase_unneeded` | 2 sp, 1 wp, wp first | violation | is onLastStrongRef only called for a reference somebody holds? |
| `smart_pointers` | 3 objects, 2 sp, 2 wp, 1 reference by hand | 818,762 (symmetry) | do the operators keep what they use, and leak only cycles? |
| `atomic` | 3 threads, 1 round, atomics and mutexes | 96,448 | do threads start together, is any update lost, does main join? |
| `reflector` | the whole program | 1,406 | one message on its way, no dead handler, full teardown |
| `looper_tester` | the whole program | 877 | order, answers, nesting, teardown, posts before the thread runs |
| `encoder` | 29 command lines, 2 frames, 2+2 buffers, 2 signals, faults | 684,654 | what the codec is given, what is written, released, what a signal leaves, and that it ends |
| `audio` | files of up to 3 blocks, buffers of 2, both builds, every way of transfer, faults | 43,318 | what is recorded and played, callbacks against teardown, both programs end |
| `surface` | up to 4 pictures, 3 buffers, fences, faults | 166,528 | owners of buffers, order on the screen, when the programs end |
| `binder` | 3 clients, up to 3 threads, calls that fail, a server that may die | 554,864 | answers, memory, clients end |

### Properties, and why they are not obvious

`refbase`
- `NoUseAfterFree`: no thread is about to touch an object or a `weakref_impl` that
  is deleted. decStrong calls decWeak after it may have deleted the object, and wp's
  outlive it.
- `ReferenceKeepsObject`: a complete `sp` (or, under the extended life-time, a `wp`)
  has a living object behind it, whatever a promote does meanwhile.
- `AssertsHold`: the ALOG_ASSERTs of the counting functions never fail.
- `CountsMatch`: the counts are the references that exist, with INITIAL_STRONG_VALUE
  on top exactly until first use.
- `NoLeak`: when the last handle is null, the object and its `weakref_impl` are
  free.
- `CallbackBalance`: while nothing is in progress, onFirstRef and the accepted
  attempts exceed onLastStrongRef by one if there is a strong reference, else by
  none (for an object whose first reference is strong, see finding 2).
- `NeverRevived`, `ImplementsLifetime`: under the normal life-time zero is final;
  every step of the code is a step of `RefLifetime` or changes nothing in it.

`refbase_live`: `PromoteEnds` (attemptIncStrong is lock-free: it can be delayed for
ever only by calls that succeed for ever), `ImplementsDeletion` (garbage is deleted,
not only deletable).

`smart_pointers`: `SlotCounts` (the count of each object is the slots, hand
references and operators in progress), `NoDangling` (no operator in progress, no
slot and no wp points at what is deleted), `LeaksOnlyCycles` (all other garbage
goes, and so do the `weakref_impl`s nobody asks).

`atomic`: `StartTogether` (no thread works before all are at the line, unless a
wakeup is spurious, and when main has broadcast no thread is before the condition
wait or still in it), `NothingLost` (at every moment each total is the sum of the
operations done, counted as pairs of a thread and a round), `Finishes`.

`reflector`: `OneBall` (one read or write on its way), `HandlersAlive`,
`EverythingEnds`. `looper_tester`: `InPostOrder` (what is handled, nested and
delayed messages included, keeps its order, none is lost before the teardown, and
main goes on from its wait() only when all before it was handled, which is
`WaitReturnsAnswered`; what is posted before the looper's thread has run is no
exception, see section 5), `EverythingEnds`.

`encoder`
- `EncoderParameters`: a codec that runs has the width, the height and the rate
  asked last wherever 32 bits hold them, a rate within the limits even if its unit
  overflowed, and frames that are not empty, on which the division at line 413
  relies.
- `BuffersOwnedOnce`: no input buffer is queued twice, or given out while it is
  queued or stuck with the program.
- `WrittenInOrder`: the output file has the configuration and the frames in order,
  none twice, none missing but what queueInputBuffer() or fwrite() lost, and reaches
  the last frame if the program ended by itself without an error.
- `ReleasedAtExit`: on every way out, but for the input file at 419-423.
- `KillsOnceCaught`: once a handler has returned neither signal is caught, wherever
  other handlers are, unless it ran between the two sigaction() calls.
- `Terminates`: unless queueInputBuffer() has refused every buffer, which leaves the
  program waiting for a signal.

`audio`
- `CallbackHasFile`: clear() before fclose() is what keeps the player's callback
  from a closed file and from `conf` on a stack that is gone.
- `RecordedInOrder`: what the file holds was captured, in order and once, and all
  that it does not hold a call has lost. The recorder has the other order, fclose()
  before clear(): without any failure it may lose one block to a callback in
  progress (or die of it), never more, never one in the middle.
- `PlayedInOrder`: what each way of transfer may play beyond the end of the file,
  and that "play finished!" without a failure means that all was handed over.
- `Ends`: in spite of callbacks that clear() waits for, and of errors in the loops;
  but for obtainBuffer() of a track whose start() failed, which may be asked again
  for ever.

`surface`
- `LockedIsOwned`: what is locked is the program's, which has one buffer at a time,
  as long as unlock() and queueBuffer() do what they should; and what it writes to
  without having waited for the fence is at least no longer on the screen.
- `ImplementsScreen`: no picture twice or in part, none overwritten while it is
  queued, none left out but by a queueBuffer() or render() that failed.
- `AllRendered`: at the line "we have renderred all frames now!" the last picture is
  on the screen or queued, unless a call failed.
- `Ends`: but for an empty picture, which is read for ever, and a dequeueBuffer()
  that waits for ever (`MayStarve`): because fewer than two buffers were allocated
  before allocation was forbidden, or because queueBuffer() failed and the program
  still has a buffer.

`binder`
- `ToldTheTruth`: with several clients at once each gets its own sum, and 1 from
  share_mem() only if share_mem() was called for its memory; it reads 0 exactly
  where the call failed.
- `MemoryThere`: the memory the service works with is there, because share_mem() is
  synchronous, and its owner waits where it can serve the call back.
- `ImplementsService`: every step is one of `TestService` or hidden from the
  clients; no answer is an earlier call's, which a reply parcel kept by the proxy
  would give.
- `ClientsEnd`: no client waits for ever, but for a service that will not be there
  again: a client that still looks for it counts as over (`Gone`).

### Bounds, and why they are enough

- 3 sp and 2 wp on one object: two promoters, a releaser, and a weak reference for
  each promoter to read from while the other goes; the proofs cover any number.
  `INITIAL_STRONG_VALUE` only has to exceed the number of sp's (the assumption of
  the theorems too); 4 or 5 replaces 2^28.
- 3 objects with one member each give every shape that matters: chain, cycle,
  self-owner, a chain into a cycle. 2 roots and 2 wp let an assignment have two
  distinct operands and an alias.
- 3 threads: one can be late while another is asleep and a third is at the line. One
  round covers all five operations; rounds share nothing but the sums.
- 2 frames, with the configuration and the end of stream, through 2+2 buffers reuse
  every buffer, fill the output, and put the end of stream into several free
  buffers; 2 signals put one handler between the steps of another. Steps of a
  handler only take handlers back, so a third adds nothing to what two leave.
- The command lines have each case of the parsers: alone and behind an option that
  was taken those that end the program (at once or at configure()), and one with a
  size and a rate that are given again, with values that 32 bits cut. `Word` = 64
  and `Mega` = 4 leave room below and above the limits of the rate for a product
  that overflows into them; a size of 8x8 has an empty frame in 32 bits.
- 3 blocks with buffers of 2: a file that ends inside a buffer, at its end, and an
  empty one; headers below, at and above the data.
- 3 buffers for the 12 of `bufCnt`: one shown, one queued, one with the program; the
  code treats all alike. 4 pictures use each again, and a queueBuffer() can fail for
  one, two or all of them.
- 3 clients and 3 threads: a thread for each, or a call that waits, with the thread
  that the driver has made when two are busy.
- The looper programs have no bounds: their main() is finite, and only one read or
  write is ever on its way.

Integers of 32 bits do not overflow below 2^28 references (2^31 - 1 for `mWeak`),
and are modelled without a width.

`CHECK_DEADLOCK FALSE` is set where the system really stops: an object whose
references are gone allows no more calls (the RefBase runs). The other runs check
for deadlock; a program that is over stutters through an explicit `Over` step.

### Fairness

- `RefBase`: weak fairness of every thread inside a counting function (the scheduler
  runs it); none on the calls of clients, so liveness never assumes that somebody
  releases. Compare-and-swap has no fairness: `PromoteEnds` allows retries as long
  as others complete calls.
- `AtomicTester`: weak fairness of threads and main, strong fairness of taking
  `waitLock`: main sleeps 100 ms without it between polls, so no waiter is overtaken
  for ever. None on spurious wakeups.
- `Reflector`, `ALooperTester`: weak fairness of main and of each looper thread. The
  delay of the delayed message need not end.
- `Encoder`: weak fairness of the main thread, of a handler that has begun and of
  the codec; strong fairness of `Feed`: dequeueInputBuffer with its timeout does not
  keep back a free buffer for ever. None on signals or errors.
- `Audio`: weak fairness of the threads of the programs and of a callback that has
  begun, which holds up clear() and nothing else; no device has to call back, and
  obtainBuffer() of a track that does not run (`Waiting`) need not come to anything.
- `Surface`: weak fairness of main() and of the display, which shows what is queued
  and whose fences signal. A dequeueBuffer() without a timeout need not fail: it may
  wait for ever.
- `Binder`: weak fairness of the clients, of the threads of the server and of its
  start; none on the making of new threads or on the death of the server.

## 4. What is proved

Every theorem holds for all values of the constants that the named assumption of its
module admits; nothing else is assumed, except `ForceSetEarly = FALSE` for the
RefBase theorems after the first.

| Theorem | Module | Statement |
|---|---|---|
| `TypeCorrect` | RefBaseProofs | `Spec => []TypeOK` |
| `Counting` | RefBaseProofs | `Spec => []CountsMatch` |
| `MemorySafety` | RefBaseProofs | `Spec => []NoUseAfterFree` |
| `References` | RefBaseProofs | `Spec => []ReferenceKeepsObject` |
| `Asserts` | RefBaseProofs | `Spec => []AssertsHold` |
| `NothingLeaks` | RefBaseProofs | `Spec => []NoLeak` |
| `NoRevival` | RefBaseProofs | `Spec => NeverRevived` |
| `Callbacks` | RefBaseProofs | `Spec => []CallbackBalance` |
| `Refinement` | RefBaseProofs | `Spec => ImplementsLifetime` |
| `LifetimeKept` | RefBaseProofs | `Spec => []Lifetime!Outlives` |
| `Counts` | SmartPointersProofs | `Spec => []SlotCounts` |
| `AllAlive` | SmartPointersProofs | `Spec => []NoDangling` |
| `OnlyCycles` | SmartPointersProofs | `Spec => []LeaksOnlyCycles` |
| `TogetherAtTheLine` | AtomicTesterProofs | `Spec => []StartTogether` |
| `AtomicOperations` | AtomicTesterProofs | `Spec => OperationsAtomic` |
| `NothingIsLost` | AtomicTesterProofs | `Spec => []NothingLost` |
| `NoCircle` | AtomicTesterProofs | `Spec => []NobodyStuck` |
| `PingPong` | LooperProofs | `Spec => []OneBall` |
| `Alive` | LooperProofs | `Spec => []HandlersAlive` |
| `PostOrder` | LooperProofs | `T!Spec => []T!InPostOrder`, T the instance of ALooperTester |
| `OwnedOnce` | EncoderProofs | `Spec => []BuffersOwnedOnce` |
| `InOrder` | EncoderProofs | `Spec => []WrittenInOrder` |
| `Released` | EncoderProofs | `Spec => []ReleasedAtExit` |
| `Killed` | EncoderProofs | `Spec => []KillsOnceCaught` |
| `Parameters` | EncoderProofs | `Spec => []EncoderParameters` |
| `FileThere` | AudioProofs | `Spec => []CallbackHasFile` |
| `Recorded` | AudioProofs | `Spec => []RecordedInOrder` |
| `Played` | AudioProofs | `Spec => []PlayedInOrder` |
| `Owned` | SurfaceProofs | `Spec => []LockedIsOwned` |
| `Rendered` | SurfaceProofs | `Spec => []AllRendered` |
| `InOrder` | SurfaceProofs | `Spec => ImplementsScreen` |
| `Starving` | SurfaceProofs | `Spec => []WaitsForEver` |
| `Truth` | BinderProofs | `Spec => []ToldTheTruth` |
| `Memory` | BinderProofs | `Spec => []MemoryThere` |
| `Implementation` | BinderProofs | `Spec => ImplementsService` |
| `NoCircle` | BinderProofs | `Spec => []NobodyStuck` |

Each rests on an inductive invariant, since none of the properties is inductive by
itself. TLC found each invariant true on the instance of the run before it was
proved; the prover then asked for what TLC cannot ask for, that it is kept from
every state that satisfies it. A proof has one step per action, and under it one per
conjunct that the action disturbs; lemmas say how sets that are counted, sequences
and the operators of the model change.

### RefBase

For every finite set of handles and every `INITIAL_STRONG_VALUE` above the number of
sp's (`RefBaseAssumption`). A count equal to zero says nothing by itself about who
may raise it next; one needs that every handle in the middle of taking a reference
reads from one that is already counted and stays set (`InvSrc`), that a promote
which read a count has read one above zero (`InvCur`), that at most one thread is
about to delete (`InvLastStrong`, `InvLastWeak`), and that while `mStrong` carries
INITIAL_STRONG_VALUE either its creator is alone (`InvSpFirst`) or only promotions
run (`InvWpFirst`). `CountInv` in `RefBaseInvariant.tla` is the conjunction of these
with the two counting equations. The safety theorems are then consequences of
`CountInv` in a state; `NoRevival` and `Refinement` of a step.

`Callbacks` needs a ledger (`LedgerInv`): `owed` is one if there is a strong
reference, plus the handles whose callback was made and whose reference is not
counted yet, turns out to be unneeded or has gone (`Ahead`), less the one that is
counted and whose onFirstRef is still to come (`Behind`). It holds when the first
reference is strong; for the other case see finding 2.

`ForceSetEarly = FALSE` cannot be dropped: with it TRUE, run `refbase_force`
violates `AssertsHold`.

The refinement maps `held` to the handles that are neither null nor past their last
decrement, `strong` to those counted in mStrong, `fresh` to `mStrong =
INITIAL_STRONG_VALUE`, and `object`, `refs`, `lifetime` to the variables of the same
meaning; every action maps to Hold, Strengthen, Weaken, LetGo, Transfer,
DeleteObject, DeleteRefs or a stutter. `LifetimeKept` uses it: `Outlives` is proved
of the seven kinds of steps of `RefLifetime`, where no count and no interleaving
occurs, and holds for the code because the code implements it.

### SmartPointers

For any finite sets of objects and variables, hence for destructors that nest to any
depth (`SmartPointersAssumption`). `PointerInv` says how operators nest: the
outermost is the program's, each one inside it releases the member of the object
that the one around it deletes, and no slot is released twice (`Nested`). An object
is alive exactly while it is counted, up to the operator about to delete it
(`AliveInv`), its `weakref_impl` while its weak count is not zero (`RefsInv`), and
only a live object or one under destruction has a member that holds something
(`MemberInv`). The hard part is an assignment to a member, `r->next = ...`: its slot
must not go while what it held before is deleted. This is because a root reaches the
object that owns the slot without going through that slot (`Avoiding`), so no
destructor inside can get at it.

`OnlyCycles` needs no further invariant but an argument about finite graphs. An
object that is alive and that no root reaches has a reference: by hand, or from the
member of another such object. If neither a hand nor a cycle led to it, one could go
back along these members for ever; but objects are finitely many, so the sets of
their predecessors have a smallest one (`Smallest`), and the object it belongs to
would have no predecessor.

### AtomicTester

For any number of threads and rounds (`AtomicTesterAssumption`). `LineInv`:
`waitLock` belongs to the thread that counts itself, or to main while it looks at
the count, and `threadsStarted` is the number of threads that have counted
themselves; so when main finds all of them there, all of them are asleep.
`OperationInv`: who is inside incr(), decr(), add() or compareAndSwap() holds the
mutex of that counter, and what it is about to store is computed from what the
counter holds now; so every step is one whole operation or none
(`AtomicOperations`). `NothingIsLost` adds that a thread which is not done has a
round to do (`RoundInv`): each operation then puts one new pair of thread and round
into `Done`, and adds its delta to its counter. `NoCircle` adds the converse of the
lock invariants: a mutex that is taken belongs to somebody inside the code it
guards, who waits for nothing.

### ReflectorTester and ALooperTester

These programs have no parameter but `None`, so their runs are exhaustive already;
the proofs say why the properties hold. For ReflectorTester, `BallInv`: there is one
ball, a read or a write, which is queued for one of the two loopers or in the hands
of its handler before it has posted the next one (worker's start counts as one, for
it posts the first read); taking a message shifts the queue and cannot make a
second. `LifeInv`: the tester lives while main or a delivery owns it, and the worker
while its thread runs, which main has joined before it gives up the tester. For
ALooperTester, `TestInv` says, as long as somebody hears the messages, that the
queue goes on where what was handled ends (`GoesOn`) and that the places of main, of
the delay and of the handler tell which messages have been posted (`Accounted`);
after the teardown the queue may be dropped unheard, and only the order of what was
handled is left (`Ordered`). `PostOrder` is about the instance `T` of ALooperTester
with any messages that do not include `None`, since two programs with the same names
cannot be extended in one module.

### Encoder

For any command lines, any number of frames and of buffers, any number of signals,
any call failing, and any word size (`OptionsAssumption`, `EncoderAssumption`: the
defaults are positive numbers that fit the word, the default rate is within the
limits, a size that the codec supports has a frame that fits the word). `Stream` is
the argument for the output: what is in the file, in the output buffers and in the
input buffers is sorted, one after the other, with the end of the stream behind
everything else (`Precedes`); together with `lost` it covers the configuration and
all frames read so far; and once the end of the stream has been met only that is
left in the input. `File` is what remains of this when the program leaves the loop
at any point: sorted, and covered up to its last frame. `RateInv` and `SizeInv` tie
the rate, the width and the height to the last option that set them. `SignalInv`
says what the steps that each handler has made leave: after its second step SIGINT
is not caught, after its third SIGHUP is not either, unless it was early; this is
kept because handlers are installed only before any signal was caught, or after
early ones. `Resources` says which files and which codec there are, by the place of
the program.

### Audio

For files, headers, recordings and buffers of any length, and every way of failing
(`AudioAssumption`, `AudioRecordAssumption`). `DeviceInv`: a device is active, or a
callback in progress, only at the few places of each thread where its file and
device are still there; this is the order of stop(), fclose() and clear() in each
program. `RecordInv`: a block that was captured is in the file, in order, or in
`lost`; without a failure the file, while it is open, holds as many blocks as were
captured, and only a callback that began before stop() may add to the count after
fclose(). `PlayInv` ties `position`, how far the file is read, to `played`, what the
track has: equal for obtainBuffer() until a buffer is short, equal for write() as
long as the track runs, and the smaller of `played` and the file for callbacks.

### Surface

For any number of pictures and of two or more buffers (`BuffersAssumption`,
`SurfaceAssumption`), and any call failing. `QueueInv` and `HeldInv`: every buffer
has one owner, the queue holds each queued buffer once, the program has the one it
works with and those that queueBuffer() did not take (`Kept`), and the display reads
without showing only buffers it let go of for another one. `Ordered`: from the
screen to the end of the queue each buffer holds the picture that follows, or a
later one if one was lost; `Progress`: the last of them is the one read last.
`InOrder` follows for each step, `Rendered` for the end: a buffer that is queued
appends the picture that follows `Last`, a latch takes the head. `Starving` (a wait
for ever has one of the two reasons of `MayStarve`) needs `AllocationInv`: while the
program has kept no buffer, one is free only when another has taken its place on the
screen, so the second turn of the first loop cannot but have a second buffer
allocated, and with two one is free whenever the queue is empty.

### Binder

For any clients and any threads, main's and one of the pool among them
(`BinderAssumption`). `CallInv`: a call is in the hands of one thread at most
(`OneThread`), a client has one only while it waits in transact() (`Waits`), what is
in the parcel answers the call under way (`Parcel`), and a client knows nothing else
but what it read there, an empty parcel exactly where a status was dropped (`Told`);
whoever waited for a server that died was told so (`Forgotten`). `Implementation`
follows for each step. `NoCircle` needs that no thread lets go of a call it has not
answered (`Served`) and that the server was started before anybody could find it
(`Started`).

### What is only model-checked

- Liveness (`PromoteEnds`, `ImplementsDeletion`, `Finishes`, `EverythingEnds`,
  `Terminates`, `Ends`, `ClientsEnd`): out of the prover's reach, as are ENABLED and
  induction over data. `NoCircle` of AtomicTester and of Binder and `Starving` of
  Surface prove the safety half of three of them: nobody waits for somebody who
  cannot go on.
- The findings of section 5: the runs exhibit them.

## 5. Findings

1. **force_set takes INITIAL_STRONG_VALUE off twice** (`RefBase.cpp:370`, run
   `refbase_force`). forceIncStrong adds one, then subtracts the initial value
   unconditionally; attemptIncStrong in between sees the value still on top and
   takes it off with a compare-and-swap. `mStrong` goes negative and the assertion
   of line 345 fails for a caller who released once.
2. **onLastStrongRef for a reference nobody holds** (`RefBase.cpp:501`, run
   `refbase_unneeded`). Two promotions of an object of the normal life-time that has
   only had weak references: the loser calls onLastStrongRef, though
   onIncStrongAttempted was never asked. Lines 496-500 say it undoes an accepted
   attempt.

Seen while modelling, without a run of their own:

- `RefBaseTester.cpp:62`: testHandRelease gives back by hand the only reference, and
  clear() then calls decStrong() on freed memory.
- `AtomicTester.cpp:187`: a spurious wakeup starts a thread before the others are at
  the line, against the comment at line 241 (the premise of `StartTogether`). `236`:
  after a pthread_create() that failed main waits for ever (the premise of
  `Finishes`).
- `ALooperTester.cpp:91`: the comment says "deliver may fail when mLooper's internal
  thread has not run". As the library is modelled it does not: the handler is
  registered at line 87, before the first post, so the message is queued and waits
  for the thread. `InPostOrder` holds with a thread that starts at any time after
  start().
- `ReflectorTester.cpp:88`: kWhatWorkerStop logs "NOT Read and Write any more!" and
  sets nothing; a write on its way has another read posted.
- `RefBase.h:453`: clear() of a wp leaves `m_refs`, and lines 260 and 283 compare
  it: a cleared wp is neither `==` nor `!=` to one that still points at its old
  object.
- `MediaCodecDemo.cpp:86`: "a second Ctrl-C will kill the process": not one that
  comes on another thread, or a SIGHUP that comes at once, before the handler has
  made its two sigaction() calls (94, 95); that one is caught too. And `120`: a
  SIGINT between the two calls of configureSignals() has the SIGHUP that follows
  caught once more (`KillsOnceCaught` is what holds).
- `MediaCodecDemo.cpp:254, 256`: a queueInputBuffer() that fails loses a frame, and
  its buffer; when it has refused all of them the end of the stream is never queued,
  and only a signal ends the loop. `277`: an fwrite() that fails leaves a gap.
- `MediaCodecDemo.cpp:490`: "4296M" wraps to 1,032,704 and is accepted ("check for
  overflow?"); `419-423`: the input file stays open when the output file cannot be
  opened; `215`: the assertion `rawOutFp == NULL` is false and compiled out.
- `AudioTrackDemo.cpp:190-199`: an error of obtainBuffer() returns "play finished!";
  with the status of start() dropped at `174`, the loop may ask an inactive track
  for ever.
- `AudioTrackDemo.cpp:97`: a header with a sample rate or channel count of 0 divides
  by zero; the four transfers compute the duration before anything else.
- `AudioRecordDemo.cpp:112-113`: a negative `ret` is passed to fwrite() as its size;
  `96-104`: the loop build returns without fclose(); `137`: fclose() before clear(),
  so that a callback in progress writes to a closed `FILE` at 61; `61, 88, 113,
  137`: nobody looks at what fwrite() and fclose() return.
- `SurfaceDemo.cpp:70-73`: after the usage line main() goes on to `argv[1]`, also
  with an argument too many, when all is well; `213`: an empty picture is read for
  ever; `179, 221`: a queueBuffer() that fails loses the picture and leaves the
  buffer with the program; `174-190`: the endless waits of `MayStarve`; `190`: the
  fence is passed on and never waited for, so the fread() at 212 may write what the
  display still reads; `228`: the line about all frames is printed after a failed
  dequeueBuffer() too; `229`: dispose() may come before the last picture was shown;
  `214`: the last buffer is never unlocked nor given back.
- `ITestBinderService.cpp:30, 46`: the status of transact() is dropped, and 0 is an
  answer. `77`: the answer to SHARE_MEM is 1 also when the memory could not be
  mapped, and `TestBinderService.cpp:33` does not look at whether pointer() is NULL.

## 6. Not modelled, and why

- DEBUG_REFS tracking in `RefBase.cpp`: compiled out by the defines at lines 36-50.
- Memory orders weaker than sequential consistency: every access through
  `android_atomic_*` is a step of its own, in one order that all threads see.
- Process exit while a looper thread still runs: `EverythingEnds` assumes that the
  process lets its threads run. main may return while the destructor is still on the
  looper's thread.
- doBionicTest and timing of `AtomicTester`: one thread, results only logged.
- What messages carry in `ALooperTester`; a start() of a looper that fails.
- testHandRelease: nothing is defined after its second release.
- The number of arguments of the audio programs, and the division by zero for a
  header that has a sample rate of 0; the events of their callbacks that are only
  logged.
- The layout of a yuv picture; fillNV12Buffer, prepareRawOutput and floorToEven,
  which nobody calls.
- An fread() that fails before the end of the file: it reads like a shorter file.
- A client of TestBinder that dies, or passes no memory: the program always has one.
- SoundPoolDemo: one thread that loads and waits; what is concurrent, and the order
  of the loaded callbacks, is in SoundPool, which is not in the repository.
  FrameDecoderDemo, MediaCodecListDemo: straight lines of calls to such libraries.

## 7. Plan

Done: RefBase, Surface and Binder, each with its abstract specification and proofs;
SmartPointers; AtomicTester; Looper with Reflector and ALooperTester; Options and
Encoder; Audio.

Proved: every safety property that a passing run checks, and the three refinements.

Left: an abstract specification of the stream of the encoder and of what is recorded
and played, which `WrittenInOrder`, `RecordedInOrder` and `PlayedInOrder` state so
far as invariants; the safety half of `Terminates` and of the audio programs'
`Ends`.

--------------------------- MODULE EncoderProofs ---------------------------
(***************************************************************************)
(* MediaCodecDemo with any command line, any number of frames, buffers and *)
(* signals, and any call failing: what it encodes with, who owns an input  *)
(* buffer, what the output file gets, in which state the program ends, and *)
(* what a signal leaves of the handlers.                                   *)
(***************************************************************************)
EXTENDS Encoder, SequenceTheorems, TLAPS

Before  == {"options", "configureINT", "configureHUP", "size", "prepare"}
Running == {"openIn", "openOut", "getBuffers", "loop", "input", "output"}
Caught  == [signal : Signals, early : BOOLEAN, step : {"flag", "INT", "HUP", "done"}]

TypeOK ==
    /\ pc \in Before \cup Running \cup {"cleanup", "exited", "killed"}
    /\ err \in BOOLEAN /\ gStopRequested \in BOOLEAN /\ ended \in BOOLEAN
    /\ handler \in [Signals -> {"default", "catcher"}] /\ caught \in Seq(Caught)
    /\ frames \in Nat /\ position \in 0 .. frames
    /\ {inFile, outFile} \subseteq {"none", "open", "closed"}
    /\ codec \in {"none", "started", "released"}
    /\ written \in Seq(Int) /\ lost \subseteq Int /\ out \in Seq(Int)
    /\ free \subseteq Buffer /\ refused \subseteq Buffer /\ work \in Seq(Buffer \X Int)

\* Which files and which codec there are, by where the program is.
Resources ==
    /\ pc \in Before => codec = "none" /\ inFile = "none"
    /\ pc \in Before \cup {"openIn", "openOut"} => outFile = "none"
    /\ pc \in Running \cup {"cleanup"} => codec = "started"
    /\ codec = "none" =>
        /\ written = <<>> /\ out = <<>> /\ work = <<>> /\ refused = {}
        /\ ~ended /\ position = 0
    /\ ReleasedAtExit

\* The steps that a handler has made last: a handler is installed only before the
\* first signal is caught, or after none but early ones.
SignalInv ==
    /\ pc \in {"options", "configureINT"} =>
        caught = <<>> /\ \A s \in Signals : handler[s] = "default"
    /\ pc = "configureHUP" => \A i \in 1 .. Len(caught) : caught[i].early
    /\ \A i \in 1 .. Len(caught) :
        caught[i].step \in {"HUP", "done"} => handler["INT"] = "default"
    /\ \A i \in 1 .. Len(caught) :
        caught[i].step = "done" /\ ~caught[i].early => handler["HUP"] = "default"

(***************************************************************************)
(* The stream: what is in the output file, in the output buffers and in    *)
(* the input buffers is sorted, one after the other, and together with     *)
(* what was lost it is the configuration and the frames read so far; only  *)
(* the end of the stream comes behind the end of the stream.               *)
(***************************************************************************)
Precedes(x, y) == y = EOS \/ (x # EOS /\ x < y)
Sorted(q)  == \A i, j \in 1 .. Len(q) : i < j => Precedes(q[i], q[j])
In(q)      == {q[i] : i \in 1 .. Len(q)}
All(X, Y)  == \A x \in X, y \in Y : Precedes(x, y)
Queue      == [i \in 1 .. Len(work) |-> work[i][2]]

Stream ==
    /\ Sorted(out) /\ Sorted(Queue)
    /\ All(In(written), In(out)) /\ All(In(written), In(Queue)) /\ All(In(out), In(Queue))
    /\ In(written) \cup In(out) \cup In(Queue) \subseteq {EOS} \cup Items(position)
    /\ Items(position) \subseteq In(written) \cup In(out) \cup In(Queue) \cup lost
    /\ EOS \in In(out) => ended
    /\ ended \/ EOS \in In(Queue) => position = frames
    /\ ended => In(Queue) \subseteq {EOS}

\* What is in the output file, also when the program has left the loop.
File ==
    /\ Sorted(written) /\ In(written) \subseteq Items(frames)
    /\ \A f \in In(written) : Items(f) \subseteq In(written) \cup lost

StreamInv ==
    /\ File
    /\ pc \in Running => Stream
    /\ gStopRequested /\ caught = <<>> => Items(frames) \subseteq In(written) \cup lost
    /\ pc = "cleanup" => err \/ gStopRequested
    /\ pc = "exited" /\ ~err /\ codec # "none" => gStopRequested

(***************************************************************************)
(* The command line: the options taken so far determine the parameters.    *)
(***************************************************************************)
NoneOf(opt) == \A j \in 1 .. optind - 1 : argv[j].opt # opt

LastOf(opt, i) ==
    /\ i \in 1 .. optind - 1 /\ argv[i].opt = opt
    /\ \A j \in 1 .. optind - 1 : argv[j].opt = opt => j <= i

RateInv ==
    /\ gBitRate \in kMinBitRate .. kMaxBitRate
    /\ \/ NoneOf("bit-rate") /\ gBitRate = 4 * Mega
       \/ \E i \in 1 .. Len(argv) : LastOf("bit-rate", i) /\ gBitRate = Rate(argv[i])

SizeOf(a)   == gVideoWidth = Width(a) /\ gVideoHeight = Height(a)
DefaultSize == gVideoWidth = DefaultWidth /\ gVideoHeight = DefaultHeight

SizeInv ==
    /\ gVideoWidth \in Nat /\ gVideoHeight \in Nat
    /\ \/ /\ NoneOf("size")
          /\ DefaultSize \/ (gVideoWidth = 0 /\ gVideoHeight = 0)
          /\ pc = "prepare" \/ codec # "none" => DefaultSize
       \/ \E i \in 1 .. Len(argv) :
            LastOf("size", i) /\ SizeOf(argv[i]) /\ gVideoWidth # 0 /\ gVideoHeight # 0

OptionsInv ==
    /\ argv \in Seq(Args) /\ optind \in 1 .. Len(argv) + 1
    /\ pc \in (Before \ {"options"}) \cup Running \/ codec # "none" => optind > Len(argv)
    /\ RateInv /\ SizeInv
    /\ codec = "started" => Supported

EncoderInv == TypeOK /\ Resources /\ SignalInv /\ BuffersOwnedOnce /\ StreamInv /\ OptionsInv

-----------------------------------------------------------------------------
(***************************************************************************)
(* Sequences and numbers.                                                  *)
(***************************************************************************)
LEMMA Taken ==
    ASSUME NEW S, NEW q \in Seq(S), q # <<>>
    PROVE  /\ Len(q) \in Nat \ {0} /\ Head(q) = q[1] /\ q[1] \in S
           /\ Tail(q) \in Seq(S) /\ Len(Tail(q)) = Len(q) - 1
           /\ \A i \in 1 .. Len(q) - 1 : Tail(q)[i] = q[i + 1]
  OBVIOUS

LEMMA Added ==
    ASSUME NEW S, NEW q \in Seq(S), NEW e \in S
    PROVE  /\ Append(q, e) \in Seq(S) /\ Len(Append(q, e)) = Len(q) + 1 /\ Len(q) \in Nat
           /\ \A i \in 1 .. Len(q) : Append(q, e)[i] = q[i]
           /\ Append(q, e)[Len(q) + 1] = e
  OBVIOUS

\* What is taken from a sorted sequence precedes what is left.
LEMMA TakenSorted ==
    ASSUME NEW q \in Seq(Int), q # <<>>, Sorted(q)
    PROVE  /\ Head(q) \in Int /\ Tail(q) \in Seq(Int) /\ Sorted(Tail(q))
           /\ In(q) = {Head(q)} \cup In(Tail(q))
           /\ All({Head(q)}, In(Tail(q)))
<1>1. /\ Len(q) \in Nat \ {0} /\ Head(q) = q[1] /\ q[1] \in Int
      /\ Tail(q) \in Seq(Int) /\ Len(Tail(q)) = Len(q) - 1
      /\ \A i \in 1 .. Len(q) - 1 : Tail(q)[i] = q[i + 1]
  BY Taken
<1>2. ASSUME NEW i \in 1 .. Len(Tail(q))
      PROVE  Tail(q)[i] = q[i + 1] /\ i + 1 \in 1 .. Len(q) /\ Precedes(Head(q), Tail(q)[i])
  <2>1. Tail(q)[i] = q[i + 1] /\ i + 1 \in 1 .. Len(q) /\ 1 \in 1 .. Len(q) /\ 1 < i + 1
    BY <1>1
  <2>2. Precedes(q[1], q[i + 1])
    BY <2>1 DEF Sorted
  <2>3. QED
    BY <1>1, <2>1, <2>2
<1>3. Sorted(Tail(q))
  <2>1. SUFFICES ASSUME NEW i \in 1 .. Len(Tail(q)), NEW j \in 1 .. Len(Tail(q)), i < j
                 PROVE  Precedes(Tail(q)[i], Tail(q)[j])
    BY DEF Sorted
  <2>2. i + 1 < j + 1
    BY <2>1
  <2>3. Precedes(q[i + 1], q[j + 1])
    BY <1>2, <2>2 DEF Sorted
  <2>4. QED
    BY <1>2, <2>3
<1>4. In(q) = {Head(q)} \cup In(Tail(q))
  <2>1. ASSUME NEW i \in 1 .. Len(q) PROVE q[i] \in {Head(q)} \cup In(Tail(q))
    <3>1. CASE i = 1
      BY <1>1, <3>1
    <3>2. CASE i # 1
      <4>1. i - 1 \in 1 .. Len(Tail(q)) /\ (i - 1) + 1 = i
        BY <1>1, <3>2
      <4>2. Tail(q)[i - 1] = q[i]
        BY <1>2, <4>1
      <4>3. QED
        BY <4>1, <4>2 DEF In
    <3>3. QED
      BY <3>1, <3>2
  <2>2. Head(q) \in In(q)
    BY <1>1 DEF In
  <2>3. \A i \in 1 .. Len(Tail(q)) : Tail(q)[i] \in In(q)
    BY <1>2 DEF In
  <2>4. QED
    BY <2>1, <2>2, <2>3 DEF In
<1>5. All({Head(q)}, In(Tail(q)))
  BY <1>2 DEF All, In
<1>6. QED
  BY <1>1, <1>3, <1>4, <1>5

\* What is added behind all the others leaves a sequence sorted.
LEMMA AddedSorted ==
    ASSUME NEW q \in Seq(Int), NEW e \in Int, Sorted(q), All(In(q), {e})
    PROVE  Append(q, e) \in Seq(Int) /\ Sorted(Append(q, e)) /\ In(Append(q, e)) = In(q) \cup {e}
<1>1. /\ Append(q, e) \in Seq(Int) /\ Len(Append(q, e)) = Len(q) + 1 /\ Len(q) \in Nat
      /\ \A i \in 1 .. Len(q) : Append(q, e)[i] = q[i]
      /\ Append(q, e)[Len(q) + 1] = e
  BY Added
<1>2. \A i \in 1 .. Len(Append(q, e)) : i \in 1 .. Len(q) \/ i = Len(q) + 1
  BY <1>1
<1>3. Sorted(Append(q, e))
  <2>1. SUFFICES ASSUME NEW i \in 1 .. Len(Append(q, e)), NEW j \in 1 .. Len(Append(q, e)), i < j
                 PROVE  Precedes(Append(q, e)[i], Append(q, e)[j])
    BY DEF Sorted
  <2>2. i \in 1 .. Len(q)
    BY <1>1, <2>1
  <2>3. CASE j \in 1 .. Len(q)
    BY <1>1, <2>1, <2>2, <2>3 DEF Sorted
  <2>4. CASE j = Len(q) + 1
    <3>1. Precedes(q[i], e)
      BY <2>2 DEF All, In
    <3>2. QED
      BY <1>1, <2>2, <2>4, <3>1
  <2>5. QED
    BY <1>2, <2>3, <2>4
<1>4. In(Append(q, e)) = In(q) \cup {e}
  <2>1. ASSUME NEW i \in 1 .. Len(Append(q, e)) PROVE Append(q, e)[i] \in In(q) \cup {e}
    BY <1>1, <1>2 DEF In
  <2>2. ASSUME NEW i \in 1 .. Len(q) PROVE q[i] \in In(Append(q, e))
    <3>1. i \in 1 .. Len(Append(q, e)) /\ q[i] = Append(q, e)[i]
      BY <1>1
    <3>2. QED
      BY <3>1 DEF In
  <2>3. e \in In(Append(q, e))
    <3>1. Len(q) + 1 \in 1 .. Len(Append(q, e))
      BY <1>1
    <3>2. QED
      BY <1>1, <3>1 DEF In
  <2>4. QED
    BY <2>1, <2>2, <2>3 DEF In
<1>5. QED
  BY <1>1, <1>3, <1>4

\* The input follows the buffers that are queued.
LEMMA QueueType == ASSUME TypeOK PROVE Queue \in Seq(Int) /\ Len(Queue) = Len(work)
<1>1. Len(work) \in Nat /\ \A i \in 1 .. Len(work) : work[i] \in Buffer \X Int
  BY DEF TypeOK
<1>2. \A i \in 1 .. Len(work) : work[i][2] \in Int
  BY <1>1
<1>3. Queue \in [1 .. Len(work) -> Int]
  BY <1>2 DEF Queue
<1>4. QED
  BY <1>1, <1>3

LEMMA QueueAdded ==
    ASSUME TypeOK, NEW b \in Buffer, NEW e \in Int, work' = Append(work, <<b, e>>)
    PROVE  Queue' = Append(Queue, e)
<1>1. <<b, e>> \in Buffer \X Int /\ Queue \in Seq(Int) /\ Len(Queue) = Len(work)
  BY QueueType
<1>2. /\ Len(work') = Len(work) + 1 /\ Len(work) \in Nat
      /\ \A i \in 1 .. Len(work) : work'[i] = work[i]
      /\ work'[Len(work) + 1] = <<b, e>>
  BY <1>1, Added DEF TypeOK
<1>3. /\ Append(Queue, e) \in Seq(Int) /\ Len(Append(Queue, e)) = Len(work) + 1
      /\ \A i \in 1 .. Len(work) : Append(Queue, e)[i] = Queue[i]
      /\ Append(Queue, e)[Len(work) + 1] = e
  BY <1>1, Added
<1>4. ASSUME NEW i \in 1 .. Len(work) + 1 PROVE work'[i][2] = Append(Queue, e)[i]
  <2>1. CASE i \in 1 .. Len(work)
    BY <1>2, <1>3, <2>1 DEF Queue
  <2>2. CASE i = Len(work) + 1
    BY <1>2, <1>3, <2>2
  <2>3. i \in 1 .. Len(work) \/ i = Len(work) + 1
    BY <1>2
  <2>4. QED
    BY <2>1, <2>2, <2>3
<1>5. Queue' = [i \in 1 .. Len(work) + 1 |-> work'[i][2]]
  BY <1>2 DEF Queue
<1>6. \A i \in 1 .. Len(work) + 1 : work'[i][2] \in Int
  BY <1>1, <1>3, <1>4
<1>7. /\ Queue' \in Seq(Int) /\ Len(Queue') = Len(work) + 1
      /\ \A i \in 1 .. Len(work) + 1 : Queue'[i] = work'[i][2]
  BY <1>2, <1>5, <1>6
<1>8. QED
  BY <1>3, <1>4, <1>7, SeqEqual

LEMMA QueueTaken ==
    ASSUME TypeOK, work # <<>>, work' = Tail(work)
    PROVE  Queue # <<>> /\ Head(Queue) = Head(work)[2] /\ Queue' = Tail(Queue)
<1>1. Queue \in Seq(Int) /\ Len(Queue) = Len(work)
  BY QueueType
<1>2. /\ Len(work) \in Nat \ {0} /\ Head(work) = work[1] /\ Len(work') = Len(work) - 1
      /\ \A i \in 1 .. Len(work) - 1 : work'[i] = work[i + 1]
  BY Taken DEF TypeOK
<1>3. Queue # <<>>
  BY <1>1, <1>2
<1>4. /\ Head(Queue) = Queue[1] /\ Tail(Queue) \in Seq(Int) /\ Len(Tail(Queue)) = Len(work) - 1
      /\ \A i \in 1 .. Len(work) - 1 : Tail(Queue)[i] = Queue[i + 1]
  BY <1>1, <1>3, Taken
<1>5. Head(Queue) = Head(work)[2]
  BY <1>2, <1>4 DEF Queue
<1>6. ASSUME NEW i \in 1 .. Len(work) - 1 PROVE work'[i][2] = Tail(Queue)[i]
  <2>1. i + 1 \in 1 .. Len(work)
    BY <1>2
  <2>2. Queue[i + 1] = work[i + 1][2]
    BY <2>1 DEF Queue
  <2>3. QED
    BY <1>2, <1>4, <2>2
<1>7. Queue' = [i \in 1 .. Len(work) - 1 |-> work'[i][2]]
  BY <1>2 DEF Queue
<1>8. \A i \in 1 .. Len(work) - 1 : work'[i][2] \in Int
  BY <1>2, <1>4, <1>6
<1>9. /\ Queue' \in Seq(Int) /\ Len(Queue') = Len(work) - 1
      /\ \A i \in 1 .. Len(work) - 1 : Queue'[i] = work'[i][2]
  BY <1>2, <1>7, <1>8
<1>10. Queue' = Tail(Queue)
  BY <1>4, <1>6, <1>9, SeqEqual
<1>11. QED
  BY <1>3, <1>5, <1>10

\* A handler makes a step: the others stay where they are.
LEMMA Stepped ==
    ASSUME TypeOK, NEW i \in 1 .. Len(caught), NEW next \in {"flag", "INT", "HUP", "done"},
           caught' = [caught EXCEPT ![i].step = next]
    PROVE  /\ caught' \in Seq(Caught) /\ Len(caught') = Len(caught) /\ caught' # <<>>
           /\ \A j \in 1 .. Len(caught) :
                /\ caught'[j].early = caught[j].early
                /\ caught'[j].step = IF j = i THEN next ELSE caught[j].step
<1>1. caught \in Seq(Caught) /\ i \in 1 .. Len(caught) /\ Len(caught) \in Nat
  BY DEF TypeOK
<1> DEFINE c == [caught[i] EXCEPT !.step = next]
<1>2. \A j \in 1 .. Len(caught) : caught[j] \in Caught
  BY <1>1
<1>3. c \in Caught /\ c.early = caught[i].early /\ c.step = next
  BY <1>1, <1>2 DEF Caught
<1>4. caught' = [caught EXCEPT ![i] = c]
  OBVIOUS
<1> HIDE DEF c
<1>5. /\ caught' \in Seq(Caught) /\ Len(caught') = Len(caught)
      /\ \A j \in 1 .. Len(caught) : caught'[j] = IF j = i THEN c ELSE caught[j]
  <2>1. PICK q \in Seq(Caught) : q = caught
    BY <1>1
  <2>2. i \in 1 .. Len(q) /\ c \in Caught
    BY <1>1, <1>3, <2>1
  <2>3. /\ [q EXCEPT ![i] = c] \in Seq(Caught) /\ Len([q EXCEPT ![i] = c]) = Len(q)
        /\ \A j \in 1 .. Len(q) : [q EXCEPT ![i] = c][j] = IF j = i THEN c ELSE q[j]
    BY ONLY <2>2, ExceptSeq
  <2>4. QED
    BY <1>4, <2>1, <2>3
<1>6. ASSUME NEW j \in 1 .. Len(caught)
      PROVE  /\ caught'[j].early = caught[j].early
             /\ caught'[j].step = IF j = i THEN next ELSE caught[j].step
  BY <1>3, <1>5
<1>7. QED
  BY <1>1, <1>5, <1>6

\* Truncate() keeps a number that fits, and makes any other fit.
LEMMA Truncated ==
    /\ \A n \in 0 .. Word - 1 : Truncate(n) = n
    /\ \A n \in Int : Truncate(n) \in 0 .. Word - 1
<1>1. Word \in Nat \ {0}
  BY OptionsAssumption
<1>2. ASSUME NEW n \in 0 .. Word - 1 PROVE n % Word = n
  BY <1>1
<1>3. ASSUME NEW n \in Int PROVE n % Word \in 0 .. Word - 1
  BY <1>1
<1>4. QED
  BY <1>2, <1>3 DEF Truncate

-----------------------------------------------------------------------------
(***************************************************************************)
(* Types.                                                                  *)
(***************************************************************************)
\* Steps that leave the stream alone.
Quiet ==
    \/ NextOption \/ StopAtOption \/ LastOption \/ SetSize \/ ConfigureINT \/ ConfigureHUP
    \/ OpenIn \/ OpenOut \/ FailEarly \/ FailPrepare \/ FailOpen \/ FailBuffers \/ FailOutput
    \/ GetBuffers \/ Continue \/ Leave \/ NoInput \/ Again \/ Cleanup
    \/ (\E s \in Signals : Kill(s)) \/ UNCHANGED vars

Aside == Quiet \/ (\E s \in Signals : Catch(s)) \/ Handler

LEMMA Steps ==
    ASSUME [Next]_vars
    PROVE  Aside \/ Prepare \/ Drain \/ FailRelease \/ Encode \/ \E b \in Buffer : Feed(b)
  BY DEF Next, MainSteps, Over, Aside, Quiet

\* A signal that is caught begins a handler.
LEMMA CatchStep ==
    ASSUME TypeOK, NEW s \in Signals, Catch(s)
    PROVE  /\ UNCHANGED <<options, pc, err, gStopRequested, handler, files, coder>>
           /\ caught' \in Seq(Caught) /\ Len(caught') = Len(caught) + 1 /\ Len(caught) \in Nat
           /\ \A j \in 1 .. Len(caught) : caught'[j] = caught[j]
           /\ LET new == caught'[Len(caught) + 1]
              IN  new.step = "flag" /\ (new.early <=> pc = "configureHUP")
           /\ handler[s] = "catcher"
<1> DEFINE new == [signal |-> s, early |-> Alone, step |-> "flag"]
<1>1. new \in Caught /\ new.step = "flag" /\ (new.early <=> pc = "configureHUP")
  BY DEF Caught, Alone
<1>2. caught' = Append(caught, new)
  BY DEF Catch
<1> HIDE DEF new
<1>3. /\ caught' \in Seq(Caught) /\ Len(caught') = Len(caught) + 1 /\ Len(caught) \in Nat
      /\ \A j \in 1 .. Len(caught) : caught'[j] = caught[j]
      /\ caught'[Len(caught) + 1] = new
  BY <1>1, <1>2, Added DEF TypeOK
<1>4. UNCHANGED <<options, pc, err, gStopRequested, handler, files, coder>> /\ handler[s] = "catcher"
  BY DEF Catch
<1>5. QED
  BY <1>1, <1>3, <1>4

\* A handler raises the flag, or gives a signal its default action back.
LEMMA HandlerStep ==
    ASSUME TypeOK, Handler
    PROVE  /\ UNCHANGED <<options, pc, err, files, coder>>
           /\ caught' \in Seq(Caught) /\ Len(caught') = Len(caught) /\ caught' # <<>>
           /\ \E i \in 1 .. Len(caught) :
                /\ \A j \in 1 .. Len(caught) : caught'[j].early = caught[j].early
                /\ \A j \in 1 .. Len(caught) \ {i} : caught'[j].step = caught[j].step
                /\ \/ /\ gStopRequested' = TRUE /\ UNCHANGED handler
                      /\ caught'[i].step = "INT"
                   \/ /\ UNCHANGED gStopRequested /\ handler' = [handler EXCEPT !["INT"] = "default"]
                      /\ caught[i].step = "INT" /\ caught'[i].step = "HUP"
                   \/ /\ UNCHANGED gStopRequested /\ handler' = [handler EXCEPT !["HUP"] = "default"]
                      /\ caught[i].step = "HUP" /\ caught'[i].step = "done"
<1>1. PICK i \in DOMAIN caught : RequestStop(i) \/ RestoreINT(i) \/ RestoreHUP(i)
  BY DEF Handler
<1>2. i \in 1 .. Len(caught)
  BY DEF TypeOK
<1>3. CASE RequestStop(i)
  <2>1. /\ caught' = [caught EXCEPT ![i].step = "INT"]
        /\ UNCHANGED <<options, pc, err, files, coder>>
    BY <1>3 DEF RequestStop, HandlerAt
  <2>2. /\ caught' \in Seq(Caught) /\ Len(caught') = Len(caught) /\ caught' # <<>>
        /\ \A j \in 1 .. Len(caught) : caught'[j].early = caught[j].early
        /\ \A j \in 1 .. Len(caught) \ {i} : caught'[j].step = caught[j].step
        /\ caught'[i].step = "INT"
    <3>1. PICK next \in {"flag", "INT", "HUP", "done"} :
            next = "INT" /\ caught' = [caught EXCEPT ![i].step = next]
      BY <2>1
    <3>2. /\ caught' \in Seq(Caught) /\ Len(caught') = Len(caught) /\ caught' # <<>>
          /\ \A j \in 1 .. Len(caught) :
                /\ caught'[j].early = caught[j].early
                /\ caught'[j].step = IF j = i THEN next ELSE caught[j].step
      BY <1>2, <3>1, Stepped
    <3>3. QED
      BY <1>2, <3>1, <3>2
  <2>3. gStopRequested' = TRUE /\ UNCHANGED handler
    BY <1>3 DEF RequestStop
  <2>4. QED
    BY <1>2, <2>1, <2>2, <2>3
<1>4. CASE RestoreINT(i)
  <2>1. /\ caught' = [caught EXCEPT ![i].step = "HUP"] /\ caught[i].step = "INT"
        /\ UNCHANGED <<options, pc, err, files, coder>>
    BY <1>4 DEF RestoreINT, Restore, HandlerAt
  <2>2. /\ caught' \in Seq(Caught) /\ Len(caught') = Len(caught) /\ caught' # <<>>
        /\ \A j \in 1 .. Len(caught) : caught'[j].early = caught[j].early
        /\ \A j \in 1 .. Len(caught) \ {i} : caught'[j].step = caught[j].step
        /\ caught'[i].step = "HUP"
    <3>1. PICK next \in {"flag", "INT", "HUP", "done"} :
            next = "HUP" /\ caught' = [caught EXCEPT ![i].step = next]
      BY <2>1
    <3>2. /\ caught' \in Seq(Caught) /\ Len(caught') = Len(caught) /\ caught' # <<>>
          /\ \A j \in 1 .. Len(caught) :
                /\ caught'[j].early = caught[j].early
                /\ caught'[j].step = IF j = i THEN next ELSE caught[j].step
      BY <1>2, <3>1, Stepped
    <3>3. QED
      BY <1>2, <3>1, <3>2
  <2>3. UNCHANGED gStopRequested /\ handler' = [handler EXCEPT !["INT"] = "default"]
    BY <1>4 DEF RestoreINT, Restore
  <2>4. QED
    BY <1>2, <2>1, <2>2, <2>3
<1>5. CASE RestoreHUP(i)
  <2>1. /\ caught' = [caught EXCEPT ![i].step = "done"] /\ caught[i].step = "HUP"
        /\ UNCHANGED <<options, pc, err, files, coder>>
    BY <1>5 DEF RestoreHUP, Restore, HandlerAt
  <2>2. /\ caught' \in Seq(Caught) /\ Len(caught') = Len(caught) /\ caught' # <<>>
        /\ \A j \in 1 .. Len(caught) : caught'[j].early = caught[j].early
        /\ \A j \in 1 .. Len(caught) \ {i} : caught'[j].step = caught[j].step
        /\ caught'[i].step = "done"
    <3>1. PICK next \in {"flag", "INT", "HUP", "done"} :
            next = "done" /\ caught' = [caught EXCEPT ![i].step = next]
      BY <2>1
    <3>2. /\ caught' \in Seq(Caught) /\ Len(caught') = Len(caught) /\ caught' # <<>>
          /\ \A j \in 1 .. Len(caught) :
                /\ caught'[j].early = caught[j].early
                /\ caught'[j].step = IF j = i THEN next ELSE caught[j].step
      BY <1>2, <3>1, Stepped
    <3>3. QED
      BY <1>2, <3>1, <3>2
  <2>3. UNCHANGED gStopRequested /\ handler' = [handler EXCEPT !["HUP"] = "default"]
    BY <1>5 DEF RestoreHUP, Restore
  <2>4. QED
    BY <1>2, <2>1, <2>2, <2>3
<1>6. QED
  BY <1>1, <1>3, <1>4, <1>5

LEMMA InitTypeOK == Init => TypeOK
<1> SUFFICES ASSUME Init PROVE TypeOK
  OBVIOUS
<1>1. frames \in Nat /\ position \in 0 .. frames
  BY EncoderAssumption DEF Init
<1>2. err \in BOOLEAN /\ gStopRequested \in BOOLEAN /\ ended \in BOOLEAN
  BY DEF Init
<1>3. /\ handler \in [Signals -> {"default", "catcher"}] /\ caught \in Seq(Caught)
      /\ written \in Seq(Int) /\ lost \subseteq Int /\ out \in Seq(Int)
      /\ free \subseteq Buffer /\ refused \subseteq Buffer /\ work \in Seq(Buffer \X Int)
  BY DEF Init
<1>4. QED
  BY <1>1, <1>2, <1>3 DEF Init, TypeOK, Before

LEMMA QuietTypeOK == ASSUME TypeOK, Quiet PROVE TypeOK'
<1> USE DEF TypeOK, Before, Running, At, ExitWith, Take, UseDefaults, options, signal, output,
            files, input, coder
<1>1. CASE NextOption \/ StopAtOption \/ LastOption \/ SetSize
  BY <1>1 DEF NextOption, StopAtOption, LastOption, SetSize
<1>2. CASE ConfigureINT \/ ConfigureHUP
  BY <1>2 DEF ConfigureINT, ConfigureHUP, Configure
<1>3. CASE OpenIn \/ OpenOut \/ Cleanup
  BY <1>3 DEF OpenIn, OpenOut, Cleanup
<1>4. CASE FailEarly \/ FailPrepare \/ FailOpen \/ FailBuffers \/ FailOutput
  BY <1>4 DEF FailEarly, FailPrepare, FailOpen, FailBuffers, FailOutput
<1>5. CASE GetBuffers \/ Continue \/ Leave \/ NoInput \/ Again
  BY <1>5 DEF GetBuffers, Continue, Leave, NoInput, Again
<1>6. CASE \E s \in Signals : Kill(s)
  BY <1>6 DEF Kill
<1>7. CASE UNCHANGED vars
  BY <1>7 DEF vars
<1>8. QED
  BY <1>1, <1>2, <1>3, <1>4, <1>5, <1>6, <1>7 DEF Quiet

LEMMA AsideTypeOK == ASSUME TypeOK, Aside PROVE TypeOK'
<1>1. CASE Quiet
  BY <1>1, QuietTypeOK
<1>2. ASSUME NEW s \in Signals, Catch(s) PROVE TypeOK'
  <2>1. caught' \in Seq(Caught) /\ UNCHANGED <<pc, err, gStopRequested, handler, files, coder>>
    BY <1>2, CatchStep
  <2>2. QED
    BY <2>1 DEF TypeOK, files, output, coder, input
<1>3. CASE Handler
  <2>1. caught' \in Seq(Caught) /\ UNCHANGED <<pc, err, files, coder>>
    BY <1>3, HandlerStep
  <2>2. gStopRequested' \in {TRUE, gStopRequested}
    BY <1>3 DEF Handler, RequestStop, RestoreINT, RestoreHUP, Restore
  <2>3. handler' \in [Signals -> {"default", "catcher"}]
    BY <1>3 DEF Handler, RequestStop, RestoreINT, RestoreHUP, Restore, TypeOK
  <2>4. gStopRequested' \in BOOLEAN
    BY <2>2 DEF TypeOK
  <2>5. QED
    BY <2>1, <2>3, <2>4 DEF TypeOK, files, output, coder, input
<1>4. QED
  BY <1>1, <1>2, <1>3 DEF Aside

\* What is written, or lost.
LEMMA WriteType ==
    ASSUME TypeOK, NEW item \in Int, Write(item)
    PROVE  written' \in Seq(Int) /\ lost' \subseteq Int
<1>1. written \in Seq(Int) /\ lost \subseteq Int /\ Append(written, item) \in Seq(Int)
  BY DEF TypeOK
<1>2. written' \in {written, Append(written, item)} /\ lost' \in {lost, lost \cup {item}}
  BY DEF Write, output
<1>3. QED
  BY <1>1, <1>2

LEMMA NextItemType == ASSUME TypeOK PROVE NextItem \in Int /\ position \in Nat /\ frames \in Nat
  BY DEF TypeOK, NextItem, EOS

LEMMA NextTypeOK == TypeOK /\ [Next]_vars => TypeOK'
<1> SUFFICES ASSUME TypeOK, [Next]_vars PROVE TypeOK'
  OBVIOUS
<1> USE DEF TypeOK, Before, Running, At, options, signal, files, input, coder
<1>1. CASE Prepare
  BY <1>1, EncoderAssumption DEF Prepare, CSD, Buffer, output
<1>2. CASE Drain \/ FailRelease
  <2>1. out # <<>> /\ Write(Head(out))
    BY <1>2 DEF Drain, FailRelease
  <2>2. Head(out) \in Int /\ Tail(out) \in Seq(Int)
    BY <2>1, Taken
  <2>3. written' \in Seq(Int) /\ lost' \subseteq Int
    BY <2>1, <2>2, WriteType
  <2>4. gStopRequested' \in BOOLEAN
    BY <1>2 DEF Drain, FailRelease
  <2>5. out' \in Seq(Int) /\ pc' \in {"loop", "cleanup"} /\ err' \in {err, TRUE}
    BY <1>2, <2>2 DEF Drain, FailRelease
  <2>6. UNCHANGED <<handler, caught, frames, position, inFile, outFile, codec, free, refused,
                    work, ended>>
    BY <1>2 DEF Drain, FailRelease
  <2>7. QED
    BY <2>3, <2>4, <2>5, <2>6
<1>3. CASE Encode
  <2>1. work # <<>>
    BY <1>3 DEF Encode
  <2>2. Head(work) \in Buffer \X Int /\ Tail(work) \in Seq(Buffer \X Int)
    BY <2>1, Taken
  <2>3. Head(work)[1] \in Buffer /\ Head(work)[2] \in Int
    BY <2>2
  <2>4. out' \in Seq(Int)
    BY <1>3, <2>3, Added DEF Encode
  <2>5. free' \subseteq Buffer
    BY <1>3, <2>3 DEF Encode
  <2>6. ended' \in BOOLEAN
    BY <1>3 DEF Encode
  <2>7. QED
    BY <1>3, <2>2, <2>4, <2>5, <2>6 DEF Encode, output
<1>4. ASSUME NEW b \in Buffer, Feed(b) PROVE TypeOK'
  <2>1. NextItem \in Int /\ <<b, NextItem>> \in Buffer \X Int
    BY NextItemType
  <2>2. work' \in Seq(Buffer \X Int)
    <3>1. Append(work, <<b, NextItem>>) \in Seq(Buffer \X Int)
      BY <2>1, Added
    <3>2. QED
      BY <1>4, <3>1 DEF Feed
  <2>3. refused' \subseteq Buffer /\ lost' \subseteq Int /\ free' \subseteq Buffer
    BY <1>4, <2>1 DEF Feed
  <2>4. position' \in 0 .. frames
    BY <1>4, NextItemType DEF Feed, NextItem, EOS
  <2>5. QED
    BY <1>4, <2>2, <2>3, <2>4 DEF Feed
<1>5. QED
  BY <1>1, <1>2, <1>3, <1>4, AsideTypeOK, Steps

-----------------------------------------------------------------------------
(***************************************************************************)
(* Files, codec and signals.                                               *)
(***************************************************************************)
LEMMA InitControl == Init => Resources /\ SignalInv /\ BuffersOwnedOnce
  BY DEF Init, Resources, ReleasedAtExit, SignalInv, BuffersOwnedOnce, Before, Running

LEMMA NextResources == ASSUME TypeOK, Resources, [Next]_vars PROVE Resources'
<1> USE DEF Resources, ReleasedAtExit, Before, Running, At, ExitWith, options, signal, output,
            files, input, coder
<1>1. CASE NextOption \/ StopAtOption \/ LastOption \/ SetSize
  BY <1>1 DEF NextOption, StopAtOption, LastOption, SetSize
<1>2. CASE ConfigureINT \/ ConfigureHUP
  BY <1>2 DEF ConfigureINT, ConfigureHUP, Configure
<1>3. CASE Prepare
  BY <1>3 DEF Prepare
<1>4. CASE OpenIn \/ OpenOut \/ Cleanup
  BY <1>4 DEF OpenIn, OpenOut, Cleanup
<1>5. CASE FailEarly \/ FailPrepare \/ FailOpen \/ FailBuffers \/ FailOutput
  BY <1>5 DEF FailEarly, FailPrepare, FailOpen, FailBuffers, FailOutput, TypeOK
<1>6. CASE GetBuffers \/ Continue \/ Leave \/ NoInput \/ Again
  BY <1>6 DEF GetBuffers, Continue, Leave, NoInput, Again
<1>7. CASE Drain \/ FailRelease
  BY <1>7 DEF Drain, FailRelease
<1>8. CASE \E b \in Buffer : Feed(b)
  BY <1>8 DEF Feed
<1>9. CASE Encode
  BY <1>9 DEF Encode
<1>10. CASE \E s \in Signals : Kill(s)
  BY <1>10 DEF Kill
<1>11. CASE (\E s \in Signals : Catch(s)) \/ Handler
  <2>1. UNCHANGED <<pc, err, files, coder>>
    BY <1>11, HandlerStep DEF Catch
  <2>2. QED
    BY <2>1
<1>12. CASE UNCHANGED vars
  BY <1>12 DEF vars
<1>13. QED
  BY <1>1, <1>2, <1>3, <1>4, <1>5, <1>6, <1>7, <1>8, <1>9, <1>10, <1>11, <1>12
     DEF Next, MainSteps, Over

LEMMA NextSignals == ASSUME TypeOK, SignalInv, [Next]_vars PROVE SignalInv'
<1> USE DEF SignalInv, Signals
<1>1. ASSUME NEW s \in Signals, Catch(s) PROVE SignalInv'
  <2>1. /\ UNCHANGED <<pc, handler>> /\ Len(caught') = Len(caught) + 1 /\ Len(caught) \in Nat
        /\ \A j \in 1 .. Len(caught) : caught'[j] = caught[j]
        /\ caught'[Len(caught) + 1].step = "flag"
        /\ caught'[Len(caught) + 1].early <=> pc = "configureHUP"
    BY <1>1, CatchStep
  <2>2. \A j \in 1 .. Len(caught') : j \in 1 .. Len(caught) \/ j = Len(caught) + 1
    BY <2>1
  <2>3. pc' \notin {"options", "configureINT"}
    <3>1. handler[s] = "catcher"
      BY <1>1, CatchStep
    <3>2. QED
      BY <2>1, <3>1
  <2>4. QED
    BY <2>1, <2>2, <2>3
<1>2. CASE Handler
  <2>1. /\ pc' = pc /\ Len(caught') = Len(caught) /\ caught' # <<>>
        /\ \A j \in 1 .. Len(caught) : caught'[j].early = caught[j].early
        /\ caught \in Seq(Caught) /\ caught' \in Seq(Caught)
    BY <1>2, HandlerStep DEF TypeOK
  <2>2. PICK i \in 1 .. Len(caught) :
            /\ \A j \in 1 .. Len(caught) \ {i} : caught'[j].step = caught[j].step
            /\ \/ UNCHANGED handler /\ caught'[i].step = "INT"
               \/ /\ handler' = [handler EXCEPT !["INT"] = "default"]
                  /\ caught[i].step = "INT" /\ caught'[i].step = "HUP"
               \/ /\ handler' = [handler EXCEPT !["HUP"] = "default"]
                  /\ caught[i].step = "HUP" /\ caught'[i].step = "done"
    BY <1>2, HandlerStep
  <2>3. pc' \notin {"options", "configureINT"}
    BY <2>1, <2>2
  <2>4. \A s \in Signals : handler[s] = "default" => handler'[s] = "default"
    BY <2>2 DEF TypeOK
  <2>5. ASSUME NEW j \in 1 .. Len(caught), caught'[j].step \in {"HUP", "done"}
        PROVE  handler'["INT"] = "default"
    <3>1. caught[j].step \in {"HUP", "done"} \/ handler'["INT"] = "default"
      BY <2>2, <2>5 DEF TypeOK
    <3>2. QED
      BY <2>4, <3>1
  <2>6. ASSUME NEW j \in 1 .. Len(caught), caught'[j].step = "done", ~caught'[j].early
        PROVE  handler'["HUP"] = "default"
    <3>1. caught[j].step = "done" \/ handler'["HUP"] = "default"
      BY <2>2, <2>6 DEF TypeOK
    <3>2. ~caught[j].early
      BY <2>1, <2>6
    <3>3. QED
      BY <2>4, <3>1, <3>2
  <2>7. QED
    BY <2>1, <2>3, <2>5, <2>6
<1>3. CASE ConfigureINT
  BY <1>3 DEF ConfigureINT, Configure, At, TypeOK
<1>4. CASE ConfigureHUP
  BY <1>4 DEF ConfigureHUP, Configure, At, TypeOK
<1>5. CASE /\ UNCHANGED <<handler, caught>>
           /\ pc' \in {"options", "configureINT"} => pc \in {"options", "configureINT"}
           /\ pc' = "configureHUP" => pc = "configureHUP"
  BY <1>5
<1>6. CASE NextOption \/ StopAtOption \/ LastOption \/ SetSize \/ Prepare \/ OpenIn \/ OpenOut
  BY <1>5, <1>6 DEF NextOption, StopAtOption, LastOption, SetSize, Prepare, OpenIn, OpenOut,
                    At, ExitWith, signal
<1>7. CASE FailEarly \/ FailPrepare \/ FailOpen \/ FailBuffers \/ FailOutput \/ FailRelease
  BY <1>5, <1>7 DEF FailEarly, FailPrepare, FailOpen, FailBuffers, FailOutput, FailRelease,
                    At, ExitWith, signal
<1>8. CASE GetBuffers \/ Continue \/ Leave \/ NoInput \/ Drain \/ Again \/ Cleanup
  BY <1>5, <1>8 DEF GetBuffers, Continue, Leave, NoInput, Drain, Again, Cleanup, At, signal
<1>9. CASE Encode \/ UNCHANGED vars \/ (\E b \in Buffer : Feed(b)) \/ (\E s \in Signals : Kill(s))
  BY <1>5, <1>9 DEF Encode, Feed, Kill, vars, At, signal
<1>10. QED
  BY <1>1, <1>2, <1>3, <1>4, <1>6, <1>7, <1>8, <1>9 DEF Next, MainSteps, Over

-----------------------------------------------------------------------------
(***************************************************************************)
(* Input buffers.                                                          *)
(***************************************************************************)
LEMMA AsideCoder ==
    ASSUME TypeOK, Aside
    PROVE  UNCHANGED <<written, lost, frames, position, free, refused, work, ended, out>>
<1> USE DEF ExitWith, At, output, files, input, coder
<1>1. CASE NextOption \/ StopAtOption \/ LastOption \/ SetSize \/ ConfigureINT \/ ConfigureHUP
  BY <1>1 DEF NextOption, StopAtOption, LastOption, SetSize, ConfigureINT, ConfigureHUP, Configure
<1>2. CASE OpenIn \/ OpenOut \/ Cleanup \/ FailEarly \/ FailPrepare \/ FailOpen
  BY <1>2 DEF OpenIn, OpenOut, Cleanup, FailEarly, FailPrepare, FailOpen
<1>3. CASE GetBuffers \/ Continue \/ Leave \/ NoInput \/ Again \/ FailBuffers \/ FailOutput
  BY <1>3 DEF GetBuffers, Continue, Leave, NoInput, Again, FailBuffers, FailOutput
<1>4. CASE UNCHANGED vars \/ \E s \in Signals : Catch(s) \/ Kill(s)
  BY <1>4 DEF Catch, Kill, vars
<1>5. CASE Handler
  BY <1>5, HandlerStep
<1>6. QED
  BY <1>1, <1>2, <1>3, <1>4, <1>5 DEF Aside, Quiet

LEMMA NextOwned == ASSUME TypeOK, Resources, BuffersOwnedOnce, [Next]_vars PROVE BuffersOwnedOnce'
<1> USE DEF BuffersOwnedOnce
<1>1. CASE Aside \/ Drain \/ FailRelease
  <2>1. UNCHANGED <<free, refused, work>>
    BY <1>1, AsideCoder DEF Drain, FailRelease, coder, input
  <2>2. QED
    BY <2>1
<1>2. CASE Prepare
  BY <1>2 DEF Prepare, At, Resources, Before
<1>3. CASE Encode
  <2>1. /\ work # <<>> /\ work' = Tail(work) /\ free' \subseteq free \cup {Head(work)[1]}
        /\ refused' = refused
    BY <1>3 DEF Encode
  <2>2. /\ Head(work) = work[1] /\ Len(work) \in Nat \ {0} /\ Len(work') = Len(work) - 1
        /\ \A i \in 1 .. Len(work) - 1 : work'[i] = work[i + 1]
    BY <2>1, Taken DEF TypeOK
  <2>3. ASSUME NEW i \in 1 .. Len(work') PROVE work'[i][1] \notin free' \cup refused'
    <3>1. i + 1 \in 1 .. Len(work) /\ 1 \in 1 .. Len(work) /\ i + 1 # 1
      BY <2>2
    <3>2. work'[i] = work[i + 1] /\ work[i + 1][1] # work[1][1]
          /\ work[i + 1][1] \notin free \cup refused
      BY <2>2, <3>1
    <3>3. QED
      BY <2>1, <2>2, <3>2
  <2>4. ASSUME NEW i \in 1 .. Len(work'), NEW j \in 1 .. Len(work'), work'[i][1] = work'[j][1]
        PROVE  i = j
    <3>1. i + 1 \in 1 .. Len(work) /\ j + 1 \in 1 .. Len(work)
          /\ work'[i] = work[i + 1] /\ work'[j] = work[j + 1]
      BY <2>2
    <3>2. i + 1 = j + 1
      BY <2>4, <3>1
    <3>3. QED
      BY <3>2
  <2>5. free' \cap refused' = {}
    <3>1. work[1][1] \notin refused
      BY <2>2
    <3>2. QED
      BY <2>1, <2>2, <3>1
  <2>6. QED
    BY <2>3, <2>4, <2>5
<1>4. ASSUME NEW b \in Buffer, Feed(b) PROVE BuffersOwnedOnce'
  <2>1. b \in free /\ free' = free \ {b}
    BY <1>4 DEF Feed
  <2>2. CASE work' = Append(work, <<b, NextItem>>) /\ refused' = refused
    <3>1. <<b, NextItem>> \in Buffer \X Int
      BY NextItemType
    <3>2. /\ Len(work) \in Nat /\ Len(work') = Len(work) + 1
          /\ \A i \in 1 .. Len(work) : work'[i] = work[i]
          /\ work'[Len(work) + 1] = <<b, NextItem>>
      BY <2>2, <3>1, Added DEF TypeOK
    <3>3. QED
      BY <2>1, <2>2, <3>2
  <2>3. CASE work' = work /\ refused' = refused \cup {b}
    BY <2>1, <2>3
  <2>4. QED
    BY <1>4, <2>2, <2>3 DEF Feed
<1>5. QED
  BY <1>1, <1>2, <1>3, <1>4, Steps

-----------------------------------------------------------------------------
(***************************************************************************)
(* The stream.                                                             *)
(***************************************************************************)
LEMMA InitStream == Init => StreamInv
  BY DEF Init, StreamInv, File, Sorted, In, Running

LEMMA Numbers ==
    ASSUME TypeOK
    PROVE  /\ position \in Nat /\ frames \in Nat /\ position <= frames
           /\ \A n \in Nat : Items(n) \subseteq Int /\ EOS \notin Items(n)
           /\ \A n \in Nat : \A m \in 0 .. n : Items(m) \subseteq Items(n)
  BY DEF TypeOK, Items, CSD, EOS

\* Nothing outside the loop makes a stream, or stops one without a signal.
LEMMA AsideStops ==
    ASSUME TypeOK, Resources, Aside
    PROVE  /\ pc' \in Running => pc \in Running
           /\ gStopRequested' /\ caught' = <<>> => gStopRequested /\ caught = <<>>
<1> USE DEF ExitWith, At, signal, Running
<1>1. CASE NextOption \/ StopAtOption \/ LastOption \/ SetSize
  BY <1>1 DEF NextOption, StopAtOption, LastOption, SetSize
<1>2. CASE ConfigureINT \/ ConfigureHUP
  BY <1>2 DEF ConfigureINT, ConfigureHUP, Configure
<1>3. CASE OpenIn \/ OpenOut \/ Cleanup
  BY <1>3 DEF OpenIn, OpenOut, Cleanup
<1>4. CASE FailEarly \/ FailPrepare \/ FailOpen \/ FailBuffers \/ FailOutput
  BY <1>4 DEF FailEarly, FailPrepare, FailOpen, FailBuffers, FailOutput
<1>5. CASE GetBuffers \/ Continue \/ Leave \/ NoInput \/ Again
  BY <1>5 DEF GetBuffers, Continue, Leave, NoInput, Again
<1>6. ASSUME NEW s \in Signals, Catch(s)
      PROVE  pc' = pc /\ caught' # <<>>
  BY <1>6, CatchStep
<1>7. CASE Handler
  BY <1>7, HandlerStep
<1>8. CASE \E s \in Signals : Kill(s)
  BY <1>8 DEF Kill
<1>9. CASE UNCHANGED vars
  BY <1>9 DEF vars
<1>10. QED
  BY <1>1, <1>2, <1>3, <1>4, <1>5, <1>6, <1>7, <1>8, <1>9 DEF Aside, Quiet

\* The cleanup is reached by an error or a stop, and the end by the cleanup.
LEMMA AsideEnds ==
    ASSUME TypeOK, Resources, StreamInv, Aside
    PROVE  /\ pc' = "cleanup" => err' \/ gStopRequested'
           /\ pc' = "exited" /\ ~err' /\ codec' # "none" => gStopRequested'
<1> USE DEF ExitWith, At, signal, coder
<1>1. CASE NextOption \/ LastOption \/ SetSize \/ ConfigureINT \/ ConfigureHUP
  BY <1>1 DEF NextOption, LastOption, SetSize, ConfigureINT, ConfigureHUP, Configure
<1>2. CASE StopAtOption
  BY <1>2 DEF StopAtOption, Resources, Before
<1>3. CASE OpenIn \/ OpenOut \/ GetBuffers \/ Continue \/ Leave \/ NoInput \/ Again
  BY <1>3 DEF OpenIn, OpenOut, GetBuffers, Continue, Leave, NoInput, Again
<1>4. CASE FailEarly \/ FailPrepare \/ FailOpen \/ FailBuffers \/ FailOutput
  BY <1>4 DEF FailEarly, FailPrepare, FailOpen, FailBuffers, FailOutput
<1>5. CASE Cleanup
  BY <1>5 DEF Cleanup, StreamInv
<1>6. CASE \E s \in Signals : Kill(s)
  BY <1>6 DEF Kill
<1>7. CASE UNCHANGED <<pc, err, codec>> /\ (gStopRequested => gStopRequested')
  BY <1>7 DEF StreamInv
<1>8. CASE (\E s \in Signals : Catch(s)) \/ Handler
  BY <1>7, <1>8, HandlerStep DEF Catch
<1>9. CASE UNCHANGED vars
  BY <1>7, <1>9 DEF vars
<1>10. QED
  BY <1>1, <1>2, <1>3, <1>4, <1>5, <1>6, <1>8, <1>9 DEF Aside, Quiet

LEMMA AsideStream == ASSUME TypeOK, Resources, StreamInv, Aside PROVE StreamInv'
<1>1. UNCHANGED <<written, lost, frames, position, work, ended, out>>
  BY AsideCoder
<1>2. File' /\ (Stream => Stream')
  <2>1. File'
    BY <1>1 DEF StreamInv, File
  <2>2. Queue' = Queue
    BY <1>1 DEF Queue
  <2>3. Stream => Stream'
    BY <1>1, <2>2 DEF Stream
  <2>4. QED
    BY <2>1, <2>3
<1>3. pc' \in Running => Stream'
  BY <1>2, AsideStops DEF StreamInv
<1>4. gStopRequested' /\ caught' = <<>> => Items(frames') \subseteq In(written') \cup lost'
  BY <1>1, AsideStops DEF StreamInv
<1>5. QED
  BY <1>2, <1>3, <1>4, AsideEnds DEF StreamInv, Items, In

LEMMA PrepareStream == ASSUME TypeOK, Resources, StreamInv, Prepare PROVE StreamInv'
<1>1. written = <<>> /\ work = <<>> /\ ~ended /\ position = 0
  BY DEF Prepare, At, Resources, Before
<1>2. UNCHANGED <<written, lost, work, ended, position, frames, gStopRequested, caught>>
      /\ out' = <<CSD>>
  BY DEF Prepare, files, output, signal
<1>3. In(written') = {} /\ In(out') = {CSD} /\ In(Queue') = {} /\ Items(position') = {CSD}
  BY <1>1, <1>2 DEF In, Queue, Items
<1>4. Sorted(out') /\ Sorted(Queue')
  BY <1>1, <1>2 DEF Sorted, Queue
<1>5. Stream'
  BY <1>1, <1>2, <1>3, <1>4 DEF Stream, All, CSD, EOS
<1>6. File' /\ (gStopRequested /\ caught = <<>> => Items(frames) \subseteq In(written) \cup lost)
  BY <1>2 DEF StreamInv, File, Sorted, In, Precedes, Items
<1>7. pc' = "openIn"
  BY DEF Prepare, At
<1>8. QED
  BY <1>2, <1>5, <1>6, <1>7 DEF StreamInv, Items, In

\* What precedes the next item is all there is: a frame has a number above all
\* the others, and while there is one the end of the stream has not been queued.
LEMMA NextLast ==
    ASSUME TypeOK, Stream, In(written) \subseteq Items(frames)
    PROVE  \A x \in In(written) \cup In(out) \cup In(Queue) : Precedes(x, NextItem)
<1>1. CASE position < frames
  <2>1. EOS \notin In(out) \cup In(Queue) \cup In(written)
    BY <1>1, Numbers DEF Stream
  <2>2. In(written) \cup In(out) \cup In(Queue) \subseteq Items(position)
    BY <2>1 DEF Stream
  <2>3. NextItem = position + 1 /\ \A x \in Items(position) : x < position + 1
    BY <1>1, Numbers DEF NextItem, Items, CSD
  <2>4. QED
    BY <2>1, <2>2, <2>3 DEF Precedes
<1>2. CASE ~(position < frames)
  BY <1>2 DEF NextItem, Precedes
<1>3. QED
  BY <1>1, <1>2

LEMMA FeedStream ==
    ASSUME TypeOK, Resources, StreamInv, NEW b \in Buffer, Feed(b)
    PROVE  StreamInv'
<1>1. /\ UNCHANGED <<written, out, ended, frames, gStopRequested, caught, codec, err>>
      /\ pc = "input" /\ pc' = "output"
  BY DEF Feed, At, signal
<1>2. Stream /\ File /\ NextItem \in Int
  BY <1>1, NextItemType DEF StreamInv, Running
<1>3. \A x \in In(written) \cup In(out) \cup In(Queue) : Precedes(x, NextItem)
  BY <1>2, NextLast DEF File
<1>4. /\ position' \in Nat /\ position <= position' /\ position' <= frames
      /\ Items(position') \subseteq Items(position) \cup ({NextItem} \ {EOS})
      /\ Items(position) \subseteq Items(position')
      /\ NextItem \in {EOS} \cup Items(position')
      /\ NextItem = EOS \/ ended => position = frames
      /\ position = frames => NextItem = EOS /\ position' = position
  <2>1. CASE position < frames
    <3>1. NextItem = position + 1 /\ position' = position + 1 /\ NextItem # EOS /\ ~ended
      BY <1>2, <2>1, Numbers DEF Feed, NextItem, EOS, Stream
    <3>2. QED
      BY <2>1, <3>1, Numbers DEF Items, EOS
  <2>2. CASE position = frames
    <3>1. NextItem = EOS /\ position' = position
      BY <2>2, Numbers DEF Feed, NextItem
    <3>2. QED
      BY <2>2, <3>1, Numbers
  <2>3. QED
    BY <2>1, <2>2, Numbers
<1>5. ASSUME work' = Append(work, <<b, NextItem>>), lost' = lost PROVE Stream'
  <2>1. Queue' = Append(Queue, NextItem) /\ Queue \in Seq(Int) /\ Sorted(Queue)
    BY <1>2, <1>5, QueueAdded, QueueType DEF Stream
  <2>2. Sorted(Queue') /\ In(Queue') = In(Queue) \cup {NextItem}
    BY <1>2, <1>3, <2>1, AddedSorted DEF All
  <2>3. In(out') = In(out) /\ In(written') = In(written) /\ Sorted(out')
    BY <1>1, <1>2 DEF In, Sorted, Stream
  <2>4. All(In(written'), In(out')) /\ All(In(written'), In(Queue')) /\ All(In(out'), In(Queue'))
    BY <1>2, <1>3, <2>2, <2>3 DEF Stream, All
  <2>5. /\ In(written') \cup In(out') \cup In(Queue') \subseteq {EOS} \cup Items(position')
        /\ Items(position') \subseteq In(written') \cup In(out') \cup In(Queue') \cup lost'
    BY <1>2, <1>4, <1>5, <2>2, <2>3 DEF Stream
  <2>6. /\ EOS \in In(out') => ended'
        /\ ended' \/ EOS \in In(Queue') => position' = frames'
        /\ ended' => In(Queue') \subseteq {EOS}
    BY <1>1, <1>2, <1>4, <2>2, <2>3 DEF Stream
  <2>7. QED
    BY <2>2, <2>3, <2>4, <2>5, <2>6 DEF Stream
<1>6. ASSUME work' = work, lost' = lost \cup ({NextItem} \ {EOS}) PROVE Stream'
  <2>1. In(out') = In(out) /\ In(written') = In(written) /\ In(Queue') = In(Queue)
    BY <1>1, <1>6 DEF In, Queue
  <2>2. Sorted(out') /\ Sorted(Queue')
    BY <1>1, <1>2, <1>6 DEF Stream, Sorted, Queue
  <2>3. All(In(written'), In(out')) /\ All(In(written'), In(Queue')) /\ All(In(out'), In(Queue'))
    BY <1>2, <2>1 DEF Stream
  <2>4. /\ In(written') \cup In(out') \cup In(Queue') \subseteq {EOS} \cup Items(position')
        /\ Items(position') \subseteq In(written') \cup In(out') \cup In(Queue') \cup lost'
    BY <1>2, <1>4, <1>6, <2>1 DEF Stream
  <2>5. /\ EOS \in In(out') => ended'
        /\ ended' \/ EOS \in In(Queue') => position' = frames'
        /\ ended' => In(Queue') \subseteq {EOS}
    BY <1>1, <1>2, <1>4, <2>1 DEF Stream
  <2>6. QED
    BY <2>1, <2>2, <2>3, <2>4, <2>5 DEF Stream
<1>7. Stream' /\ lost \subseteq lost'
  BY <1>5, <1>6 DEF Feed
<1>8. File' /\ (gStopRequested' /\ caught' = <<>> => Items(frames') \subseteq In(written') \cup lost')
  <2>1. \A f \in In(written) : Items(f) \subseteq In(written) \cup lost'
    BY <1>2, <1>7 DEF File
  <2>2. File'
    BY <1>1, <1>2, <2>1 DEF File
  <2>3. gStopRequested' /\ caught' = <<>> => Items(frames) \subseteq In(written) \cup lost
    BY <1>1 DEF StreamInv
  <2>4. QED
    BY <1>1, <1>7, <2>2, <2>3
<1>9. QED
  BY <1>1, <1>7, <1>8 DEF StreamInv

\* Encode moves the first item of the input behind the output.
LEMMA EncodeStream == ASSUME TypeOK, Resources, StreamInv, Encode PROVE StreamInv'
<1>1. /\ UNCHANGED <<pc, err, written, lost, frames, position, gStopRequested, caught, codec>>
      /\ work # <<>> /\ work' = Tail(work)
  BY DEF Encode, signal, files, output
<1>2. ASSUME Stream PROVE Stream'
  <2> DEFINE x == Head(Queue)
  <2>1. Queue \in Seq(Int) /\ Queue # <<>> /\ x = Head(work)[2] /\ Queue' = Tail(Queue)
    BY <1>1, QueueType, QueueTaken
  <2>2. /\ x \in Int /\ Sorted(Queue') /\ In(Queue) = {x} \cup In(Queue')
        /\ All({x}, In(Queue'))
    BY <1>2, <2>1, TakenSorted DEF Stream
  <2>3. IF ended THEN out' = out /\ ended'
        ELSE out' = Append(out, x) /\ (ended' <=> x = EOS)
    BY <2>1 DEF Encode
  <2> HIDE DEF x
  <2>4. CASE ended
    <3>1. x = EOS /\ out' = out /\ ended'
      BY <1>2, <2>2, <2>3, <2>4 DEF Stream
    <3>2. All(In(written), In(Queue')) /\ All(In(out), In(Queue'))
      BY <1>2, <2>2 DEF Stream, All
    <3>3. Items(position) \subseteq In(written) \cup In(out) \cup In(Queue') \cup lost
      BY <1>2, <2>2, <3>1, Numbers DEF Stream
    <3>4. In(written) \cup In(out) \cup In(Queue') \subseteq {EOS} \cup Items(position)
      BY <1>2, <2>2 DEF Stream
    <3>5. In(Queue') \subseteq {EOS} /\ position = frames
      BY <1>2, <2>2, <2>4 DEF Stream
    <3>6. QED
      BY <1>1, <1>2, <2>2, <3>1, <3>2, <3>3, <3>4, <3>5 DEF Stream
  <2>5. CASE ~ended
    <3>1. out' = Append(out, x) /\ (ended' <=> x = EOS)
      BY <2>3, <2>5
    <3>2. All(In(out), {x})
      BY <1>2, <2>2 DEF Stream, All
    <3>3. Sorted(out') /\ In(out') = In(out) \cup {x}
      BY <1>2, <2>2, <3>1, <3>2, AddedSorted DEF Stream, TypeOK
    <3>4. All(In(written), In(out')) /\ All(In(written), In(Queue'))
      BY <1>2, <2>2, <3>3 DEF Stream, All
    <3>5. All(In(out'), In(Queue'))
      BY <1>2, <2>2, <3>3 DEF Stream, All
    <3>6. In(written) \cup In(out') \cup In(Queue') = In(written) \cup In(out) \cup In(Queue)
      BY <2>2, <3>3
    <3>7. EOS \in In(out') => ended'
      BY <1>2, <2>5, <3>1, <3>3 DEF Stream
    <3>8. ended' \/ EOS \in In(Queue') => position = frames
      BY <1>2, <2>2, <3>1 DEF Stream
    <3>9. ended' => In(Queue') \subseteq {EOS}
      BY <2>2, <3>1 DEF All, Precedes
    <3>10. /\ In(written) \cup In(out') \cup In(Queue') \subseteq {EOS} \cup Items(position)
           /\ Items(position) \subseteq In(written) \cup In(out') \cup In(Queue') \cup lost
      BY <1>2, <3>6 DEF Stream
    <3>11. QED
      BY <1>1, <2>2, <3>3, <3>4, <3>5, <3>7, <3>8, <3>9, <3>10 DEF Stream
  <2>6. QED
    BY <2>4, <2>5
<1>3. File'
  BY <1>1 DEF StreamInv, File
<1>4. QED
  BY <1>1, <1>2, <1>3 DEF StreamInv

\* Drain takes the first item of the output: the end of the stream is dropped, any
\* other item is written or lost.
LEMMA FirstItem ==
    ASSUME TypeOK, Stream, out # <<>>
    PROVE  /\ Head(out) \in Int /\ Tail(out) \in Seq(Int) /\ Sorted(Tail(out))
           /\ In(out) = {Head(out)} \cup In(Tail(out))
           /\ All({Head(out)}, In(Tail(out))) /\ All({Head(out)}, In(Queue))
           /\ All(In(written), {Head(out)})
           /\ Head(out) \in {EOS} \cup Items(position)
<1>1. /\ Head(out) \in Int /\ Tail(out) \in Seq(Int) /\ Sorted(Tail(out))
      /\ In(out) = {Head(out)} \cup In(Tail(out))
      /\ All({Head(out)}, In(Tail(out)))
  BY TakenSorted DEF TypeOK, Stream
<1>2. All({Head(out)}, In(Queue)) /\ All(In(written), {Head(out)})
  BY <1>1 DEF Stream, All
<1>3. QED
  BY <1>1, <1>2 DEF Stream

\* What comes before it has been written or lost.
LEMMA BeforeFirst ==
    ASSUME TypeOK, Stream, out # <<>>, NEW y \in Items(position),
           Head(out) = EOS \/ y \in Items(Head(out))
    PROVE  y \in In(written) \cup lost \cup {Head(out)}
<1>1. /\ Head(out) \in Int /\ In(out) = {Head(out)} \cup In(Tail(out))
      /\ All({Head(out)}, In(Tail(out))) /\ All({Head(out)}, In(Queue))
      /\ Head(out) \in {EOS} \cup Items(position)
  BY FirstItem
<1>2. y \in Int /\ y # EOS
  BY Numbers
<1>3. ~Precedes(Head(out), y) \/ y = Head(out)
  <2>1. CASE Head(out) = EOS
    BY <1>2, <2>1 DEF Precedes
  <2>2. CASE Head(out) # EOS
    <3>1. y \in Items(Head(out)) /\ Head(out) >= CSD
      BY <1>1, <2>2, Numbers DEF Items, CSD
    <3>2. y <= Head(out)
      BY <1>1, <3>1 DEF Items, CSD
    <3>3. QED
      BY <1>1, <1>2, <3>2 DEF Precedes
  <2>3. QED
    BY <2>1, <2>2
<1>4. y \in In(written) \cup In(out) \cup In(Queue) \cup lost
  BY DEF Stream
<1>5. QED
  BY <1>1, <1>3, <1>4 DEF All

LEMMA WriteFile ==
    ASSUME TypeOK, Stream, File, out # <<>>, Write(Head(out)), frames' = frames
    PROVE  /\ File'
           /\ In(written) \subseteq In(written') /\ lost \subseteq lost'
           /\ In(written') \subseteq In(written) \cup {Head(out)}
           /\ Head(out) = EOS => In(written') = In(written)
           /\ Head(out) # EOS => Head(out) \in In(written') \cup lost'
<1> DEFINE x == Head(out)
<1>1. x \in Int /\ All(In(written), {x}) /\ x \in {EOS} \cup Items(position)
  BY FirstItem
<1>2. x # EOS => Items(x) \subseteq In(written) \cup lost \cup {x}
  <2>1. x # EOS => Items(x) \subseteq Items(position)
    BY <1>1, Numbers DEF Items, CSD
  <2>2. QED
    BY <2>1, BeforeFirst
<1>3. Items(position) \subseteq Items(frames)
  BY Numbers DEF Items
<1>4. Write(x)
  OBVIOUS
<1> HIDE DEF x
<1>5. CASE written' = written /\ lost' \in {lost, lost \cup {x}} /\ (x # EOS => x \in lost')
  <2>1. File'
    BY <1>5 DEF File
  <2>2. QED
    BY <1>5, <2>1 DEF x
<1>6. CASE written' = Append(written, x) /\ lost' = lost /\ x # EOS
  <2>1. Sorted(written') /\ In(written') = In(written) \cup {x}
    BY <1>1, <1>6, AddedSorted DEF File, TypeOK
  <2>2. \A f \in In(written') : Items(f) \subseteq In(written') \cup lost'
    BY <1>2, <1>6, <2>1 DEF File
  <2>3. In(written') \subseteq Items(frames')
    BY <1>1, <1>3, <1>6, <2>1 DEF File
  <2>4. File'
    BY <2>1, <2>2, <2>3 DEF File
  <2>5. QED
    BY <1>6, <2>1, <2>4 DEF x
<1>7. QED
  BY <1>4, <1>5, <1>6 DEF Write, output

LEMMA DrainStream == ASSUME TypeOK, Resources, StreamInv, Drain \/ FailRelease PROVE StreamInv'
<1> DEFINE x == Head(out)
<1>1. /\ out # <<>> /\ pc = "output" /\ Write(x)
      /\ UNCHANGED <<frames, position, ended, work, caught>>
  BY DEF Drain, FailRelease, At, coder, input, signal
<1>2. Stream /\ File
  BY <1>1 DEF StreamInv, Running
<1>3. /\ File'
      /\ In(written) \subseteq In(written') /\ lost \subseteq lost'
      /\ In(written') \subseteq In(written) \cup {x}
      /\ x = EOS => In(written') = In(written)
      /\ x # EOS => x \in In(written') \cup lost'
  BY <1>1, <1>2, WriteFile
<1>4. gStopRequested /\ caught' = <<>> => Items(frames') \subseteq In(written') \cup lost'
  BY <1>1, <1>3 DEF StreamInv
<1>5. /\ Sorted(Tail(out)) /\ In(out) = {x} \cup In(Tail(out))
      /\ All({x}, In(Tail(out))) /\ All({x}, In(Queue))
  BY <1>1, <1>2, FirstItem
<1>6. x = EOS => Items(frames) \subseteq In(written) \cup lost
  <2>1. ASSUME x = EOS, NEW y \in Items(frames) PROVE y \in In(written) \cup lost
    <3>1. position = frames
      BY <1>2, <1>5, <2>1 DEF Stream
    <3>2. y \in In(written) \cup lost \cup {EOS} /\ y # EOS
      BY <1>1, <1>2, <2>1, <3>1, BeforeFirst, Numbers
    <3>3. QED
      BY <3>2
  <2>2. QED
    BY <2>1
<1> HIDE DEF x
<1>7. CASE FailRelease
  <2>1. pc' = "cleanup" /\ err' /\ UNCHANGED gStopRequested
    BY <1>7 DEF FailRelease, At, signal
  <2>2. QED
    BY <1>3, <1>4, <2>1 DEF StreamInv, Running
<1>8. CASE Drain
  <2>1. pc' = "loop" /\ out' = Tail(out) /\ (gStopRequested' <=> gStopRequested \/ x = EOS)
    BY <1>8 DEF Drain, At, x
  <2>2. Queue' = Queue
    BY <1>1 DEF Queue
  <2>3. All(In(written'), In(out')) /\ All(In(written'), In(Queue')) /\ All(In(out'), In(Queue'))
    BY <1>2, <1>3, <1>5, <2>1, <2>2 DEF Stream, All
  <2>4. In(written') \cup In(out') \cup In(Queue') \subseteq {EOS} \cup Items(position')
    BY <1>1, <1>2, <1>3, <1>5, <2>1, <2>2 DEF Stream
  <2>5. Items(position') \subseteq In(written') \cup In(out') \cup In(Queue') \cup lost'
    BY <1>1, <1>2, <1>3, <1>5, <2>1, <2>2, Numbers DEF Stream
  <2>6. EOS \in In(out') => ended'
    BY <1>1, <1>2, <1>5, <2>1 DEF Stream
  <2>7. Stream'
    BY <1>1, <1>2, <1>5, <2>1, <2>2, <2>3, <2>4, <2>5, <2>6 DEF Stream
  <2>8. gStopRequested' /\ caught' = <<>> => Items(frames') \subseteq In(written') \cup lost'
    BY <1>1, <1>3, <1>4, <1>6, <2>1
  <2>9. QED
    BY <1>3, <2>1, <2>7, <2>8 DEF StreamInv
<1>9. QED
  BY <1>7, <1>8

LEMMA NextStream == ASSUME TypeOK, Resources, StreamInv, [Next]_vars PROVE StreamInv'
  BY Steps, AsideStream, PrepareStream, FeedStream, EncodeStream, DrainStream

-----------------------------------------------------------------------------
(***************************************************************************)
(* The command line.                                                       *)
(***************************************************************************)
LEMMA InitOptions == Init => OptionsInv
<1> SUFFICES ASSUME Init PROVE OptionsInv
  OBVIOUS
<1>1. argv \in Seq(Args) /\ Len(argv) \in Nat
  BY OptionsAssumption DEF Init, OptionsInit
<1>2. optind = 1 /\ NoneOf("bit-rate") /\ NoneOf("size")
  BY DEF Init, OptionsInit, NoneOf
<1>3. RateInv
  BY <1>2, OptionsAssumption DEF Init, OptionsInit, RateInv
<1>4. SizeInv
  BY <1>2 DEF Init, OptionsInit, SizeInv, DefaultSize
<1>5. QED
  BY <1>1, <1>2, <1>3, <1>4 DEF Init, OptionsInv, Before, Running

\* One more option: it is the last of its kind.
LEMMA TakeLast ==
    ASSUME argv \in Seq(Args), optind \in 1 .. Len(argv), argv' = argv, optind' = optind + 1,
           NEW opt, NEW n, n = optind, NEW a \in Args, a = argv[n]
    PROVE  /\ a.opt # opt => (NoneOf(opt) => NoneOf(opt)')
           /\ a.opt # opt => \A i \in 1 .. Len(argv) : LastOf(opt, i) => LastOf(opt, i)'
           /\ a.opt = opt => LastOf(opt, n)'
<1>1. Len(argv) \in Nat /\ n \in 1 .. optind' - 1 /\ \A j \in 1 .. optind' - 1 : j <= n
  OBVIOUS
<1>2. \A j \in 1 .. optind' - 1 : j \in 1 .. optind - 1 \/ j = n
  OBVIOUS
<1>3. CASE a.opt = opt
  BY <1>1, <1>2, <1>3 DEF LastOf
<1>4. CASE a.opt # opt
  <2>1. NoneOf(opt) => NoneOf(opt)'
    BY <1>1, <1>2, <1>4 DEF NoneOf
  <2>2. ASSUME NEW i \in 1 .. Len(argv), LastOf(opt, i) PROVE LastOf(opt, i)'
    BY <1>1, <1>2, <1>4, <2>2 DEF LastOf
  <2>3. QED
    BY <1>4, <2>1, <2>2
<1>5. QED
  BY <1>3, <1>4

LEMMA TakeOptions ==
    ASSUME TypeOK, Resources, OptionsInv, NextOption
    PROVE  OptionsInv'
<1> DEFINE a == argv[optind]
<1>1. /\ pc = "options" /\ optind \in 1 .. Len(argv) /\ argv \in Seq(Args) /\ Len(argv) \in Nat
      /\ codec = "none"
  BY DEF NextOption, OptionsInv, Resources, Before
<1>2. a \in Args /\ Take(a)
  BY <1>1 DEF NextOption
<1>3. UNCHANGED <<argv, pc, codec>> /\ optind' = optind + 1 /\ optind' \in 1 .. Len(argv) + 1
  BY <1>1, <1>2 DEF NextOption, Take, coder
<1>4. \A b \in Args :
        /\ b.opt = "size" => Width(b) \in Nat /\ Height(b) \in Nat
        /\ b.opt = "bit-rate" => Rate(b) \in Nat
  <2>1. ASSUME NEW b \in Args, b.opt = "size" PROVE Width(b) \in Nat /\ Height(b) \in Nat
    BY <2>1, Truncated, OptionsAssumption DEF Width, Height
  <2>2. ASSUME NEW b \in Args, b.opt = "bit-rate" PROVE Rate(b) \in Nat
    <3>1. b.value \in Int /\ Mega \in Nat /\ Word \in Nat
      BY <2>2, OptionsAssumption
    <3>2. Asked(b) \in Int
      BY <3>1 DEF Asked
    <3>3. QED
      BY <3>1, <3>2, Truncated DEF Rate
  <2>3. QED
    BY <2>1, <2>2
<1>5. PICK n : n = optind /\ a = argv[n]
  OBVIOUS
<1> HIDE DEF a
<1>6. RateInv'
  <2>1. CASE a.opt = "bit-rate"
    <3>1. gBitRate' = Rate(a) /\ InRange(Rate(a)) /\ Rate(a) \in Nat
      BY <1>2, <1>4, <2>1 DEF Take, Accepted
    <3>2. LastOf("bit-rate", n)'
      BY <1>1, <1>2, <1>3, <1>5, <2>1, TakeLast
    <3>3. gBitRate' \in kMinBitRate .. kMaxBitRate
      BY <3>1, OptionsAssumption DEF InRange
    <3>4. gBitRate' = Rate(argv'[n])
      BY <1>3, <1>5, <3>1
    <3>5. \E i \in 1 .. Len(argv') : LastOf("bit-rate", i)' /\ gBitRate' = Rate(argv'[i])
      BY <1>1, <1>3, <1>5, <3>2, <3>4
    <3>6. QED
      BY <3>3, <3>5 DEF RateInv, Rate, Asked, Truncate
  <2>2. CASE a.opt # "bit-rate"
    <3>1. gBitRate' = gBitRate
      BY <1>2, <2>2 DEF Take
    <3>2. /\ NoneOf("bit-rate") => NoneOf("bit-rate")'
          /\ \A i \in 1 .. Len(argv) : LastOf("bit-rate", i) => LastOf("bit-rate", i)'
      BY <1>1, <1>2, <1>3, <1>5, <2>2, TakeLast
    <3>3. RateInv
      BY DEF OptionsInv
    <3>4. QED
      BY <1>3, <3>1, <3>2, <3>3 DEF RateInv, Rate, Asked, Truncate
  <2>3. QED
    BY <2>1, <2>2
<1>7. SizeInv'
  <2>1. CASE a.opt = "size"
    <3>1. /\ gVideoWidth' = Width(a) /\ gVideoHeight' = Height(a)
          /\ Width(a) \in Nat \ {0} /\ Height(a) \in Nat \ {0}
      BY <1>2, <1>4, <2>1 DEF Take, Accepted
    <3>2. LastOf("size", n)'
      BY <1>1, <1>2, <1>3, <1>5, <2>1, TakeLast
    <3>3. gVideoWidth' = Width(argv'[n]) /\ gVideoHeight' = Height(argv'[n])
      BY <1>3, <1>5, <3>1
    <3>4. \E i \in 1 .. Len(argv') :
            /\ LastOf("size", i)' /\ gVideoWidth' = Width(argv'[i]) /\ gVideoWidth' # 0
            /\ gVideoHeight' = Height(argv'[i]) /\ gVideoHeight' # 0
      BY <1>1, <1>3, <1>5, <3>1, <3>2, <3>3
    <3>5. QED
      BY <3>1, <3>4 DEF SizeInv, SizeOf, Width, Height, Truncate
  <2>2. CASE a.opt # "size"
    <3>1. UNCHANGED <<gVideoWidth, gVideoHeight>>
      BY <1>2, <2>2 DEF Take
    <3>2. /\ NoneOf("size") => NoneOf("size")'
          /\ \A i \in 1 .. Len(argv) : LastOf("size", i) => LastOf("size", i)'
      BY <1>1, <1>2, <1>3, <1>5, <2>2, TakeLast
    <3>3. SizeInv
      BY DEF OptionsInv
    <3>4. QED
      BY <1>1, <1>3, <3>1, <3>2, <3>3 DEF SizeInv, SizeOf, DefaultSize, Width, Height, Truncate
  <2>3. QED
    BY <2>1, <2>2
<1>8. QED
  BY <1>1, <1>3, <1>6, <1>7 DEF OptionsInv, Before, Running

LEMMA SetSizeOptions ==
    ASSUME TypeOK, Resources, OptionsInv, SetSize
    PROVE  OptionsInv'
<1>1. /\ pc = "size" /\ pc' = "prepare" /\ codec = "none" /\ UNCHANGED <<codec, argv, optind, gBitRate>>
      /\ gVideoWidth' = IF gVideoWidth = 0 THEN DefaultWidth ELSE gVideoWidth
      /\ gVideoHeight' = IF gVideoHeight = 0 THEN DefaultHeight ELSE gVideoHeight
  BY DEF SetSize, UseDefaults, At, coder, Resources, Before
<1>2. RateInv'
  BY <1>1 DEF OptionsInv, RateInv, NoneOf, LastOf, Rate, Asked, Truncate
<1>3. DefaultWidth \in Nat /\ DefaultHeight \in Nat
  BY OptionsAssumption
<1>4. (NoneOf("size")' <=> NoneOf("size"))
      /\ \A i \in 1 .. Len(argv) : LastOf("size", i)' <=> LastOf("size", i)
  BY <1>1 DEF NoneOf, LastOf
<1>5. SizeInv'
  <2>1. SizeInv
    BY DEF OptionsInv
  <2>2. gVideoWidth' \in Nat /\ gVideoHeight' \in Nat
    BY <1>1, <1>3, <2>1 DEF SizeInv
  <2>3. CASE NoneOf("size") /\ (DefaultSize \/ (gVideoWidth = 0 /\ gVideoHeight = 0))
    <3>1. gVideoWidth' = DefaultWidth /\ gVideoHeight' = DefaultHeight
      BY <1>1, <2>3 DEF DefaultSize
    <3>2. QED
      BY <1>4, <2>2, <2>3, <3>1 DEF SizeInv, DefaultSize
  <2>4. ASSUME NEW i \in 1 .. Len(argv), LastOf("size", i), SizeOf(argv[i]),
               gVideoWidth # 0, gVideoHeight # 0
        PROVE  SizeInv'
    <3>1. UNCHANGED <<gVideoWidth, gVideoHeight, argv>>
      BY <1>1, <2>4
    <3>2. LastOf("size", i)' /\ SizeOf(argv[i])'
      BY <1>4, <2>4, <3>1 DEF SizeOf, Width, Height, Truncate
    <3>3. QED
      BY <2>2, <2>4, <3>1, <3>2 DEF SizeInv
  <2>5. QED
    BY <2>1, <2>3, <2>4 DEF SizeInv
<1>6. QED
  BY <1>1, <1>2, <1>5 DEF OptionsInv, Before, Running

\* Every other step leaves the options alone.
LEMMA SameOptions ==
    ASSUME TypeOK, Resources, OptionsInv, UNCHANGED options,
           /\ pc' \in (Before \ {"options"}) \cup Running \/ codec' # "none" => optind > Len(argv)
           /\ pc' = "prepare" \/ codec' # "none" => pc = "prepare" \/ codec # "none"
           /\ codec' = "started" => Supported
    PROVE  OptionsInv'
<1>1. UNCHANGED <<argv, optind, gVideoWidth, gVideoHeight, gBitRate>>
  BY DEF options
<1>2. RateInv'
  BY <1>1 DEF OptionsInv, RateInv, NoneOf, LastOf, Rate, Asked, Truncate
<1>3. (NoneOf("size")' <=> NoneOf("size"))
      /\ \A i \in 1 .. Len(argv) : LastOf("size", i)' <=> LastOf("size", i)
  BY <1>1 DEF NoneOf, LastOf
<1>4. SizeInv'
  BY <1>1, <1>3 DEF OptionsInv, SizeInv, SizeOf, DefaultSize, Width, Height, Truncate
<1>5. Supported' <=> Supported
  BY <1>1 DEF Supported
<1>6. QED
  BY <1>1, <1>2, <1>4, <1>5 DEF OptionsInv

LEMMA NextOptions == ASSUME TypeOK, Resources, OptionsInv, [Next]_vars PROVE OptionsInv'
<1> USE DEF At, ExitWith, signal, files, input, coder, Before, Running
<1>1. /\ pc \in (Before \ {"options"}) \cup Running \/ codec # "none" => optind > Len(argv)
      /\ codec = "started" => Supported
  BY DEF OptionsInv
<1>2. CASE NextOption
  BY <1>2, TakeOptions
<1>3. CASE SetSize
  BY <1>3, SetSizeOptions
<1>4. CASE LastOption \/ StopAtOption \/ ConfigureINT \/ ConfigureHUP
  BY <1>1, <1>4, SameOptions
     DEF LastOption, StopAtOption, ConfigureINT, ConfigureHUP, Configure, Resources
<1>5. CASE Prepare
  BY <1>1, <1>5, SameOptions DEF Prepare
<1>6. CASE OpenIn \/ OpenOut \/ GetBuffers \/ Continue \/ Leave \/ NoInput \/ Again
  BY <1>1, <1>6, SameOptions DEF OpenIn, OpenOut, GetBuffers, Continue, Leave, NoInput, Again
<1>7. CASE FailEarly \/ FailPrepare \/ FailOpen \/ FailBuffers \/ FailOutput \/ FailRelease \/ Cleanup
  BY <1>1, <1>7, SameOptions
     DEF FailEarly, FailPrepare, FailOpen, FailBuffers, FailOutput, FailRelease, Cleanup, Resources
<1>8. CASE Drain \/ Encode \/ \E b \in Buffer : Feed(b)
  BY <1>1, <1>8, SameOptions DEF Drain, Encode, Feed
<1>9. CASE UNCHANGED vars \/ (\E s \in Signals : Catch(s) \/ Kill(s)) \/ Handler
  BY <1>1, <1>9, HandlerStep, SameOptions DEF Catch, Kill, vars
<1>10. QED
  BY <1>2, <1>3, <1>4, <1>5, <1>6, <1>7, <1>8, <1>9 DEF Next, MainSteps, Over

-----------------------------------------------------------------------------
LEMMA EncoderInvariance == Spec => []EncoderInv
<1>1. Init => EncoderInv
  BY InitTypeOK, InitControl, InitStream, InitOptions DEF EncoderInv
<1>2. EncoderInv /\ [Next]_vars => EncoderInv'
  BY NextTypeOK, NextResources, NextSignals, NextOwned, NextStream, NextOptions DEF EncoderInv
<1>3. QED
  BY <1>1, <1>2, PTL DEF Spec

(***************************************************************************)
(* BuffersOwnedOnce: no input buffer is queued twice, or dequeued while it *)
(* is queued or after it was refused, with any number of buffers.          *)
(***************************************************************************)
THEOREM OwnedOnce == Spec => []BuffersOwnedOnce
<1>1. EncoderInv => BuffersOwnedOnce
  BY DEF EncoderInv
<1>2. QED
  BY <1>1, EncoderInvariance, PTL

(***************************************************************************)
(* WrittenInOrder: the output file has the configuration and the frames in *)
(* order, with no gap but what a failed call has lost, and so to the last  *)
(* when the program ends by itself, whatever the number of frames and the  *)
(* buffers of the codec.                                                   *)
(***************************************************************************)
THEOREM InOrder == Spec => []WrittenInOrder
<1>1. ASSUME EncoderInv PROVE WrittenInOrder
  <2>1. TypeOK /\ StreamInv
    BY <1>1 DEF EncoderInv
  <2>2. File /\ Written = In(written)
    BY <2>1 DEF StreamInv, Written, In
  <2>3. ASSUME NEW i \in 1 .. Len(written), NEW j \in 1 .. Len(written), i < j
        PROVE  written[i] < written[j]
    <3>1. written[j] # EOS
      BY <2>1, <2>2, Numbers DEF File, In
    <3>2. Precedes(written[i], written[j])
      BY <2>2, <2>3 DEF File, Sorted
    <3>3. QED
      BY <3>1, <3>2 DEF Precedes
  <2>4. \A f \in Written : f \in Items(frames) /\ Items(f) \subseteq Written \cup lost
    BY <2>2 DEF File
  <2>5. pc = "exited" /\ ~err /\ caught = <<>> /\ codec # "none" =>
            Items(frames) \subseteq Written \cup lost
    BY <2>1, <2>2 DEF StreamInv
  <2>6. QED
    BY <2>3, <2>4, <2>5 DEF WrittenInOrder
<1>2. QED
  BY <1>1, EncoderInvariance, PTL

(***************************************************************************)
(* ReleasedAtExit: the codec and the files on every way out.               *)
(***************************************************************************)
THEOREM Released == Spec => []ReleasedAtExit
<1>1. EncoderInv => ReleasedAtExit
  BY DEF EncoderInv, Resources
<1>2. QED
  BY <1>1, EncoderInvariance, PTL

(***************************************************************************)
(* KillsOnceCaught: however many signals come, and whenever, also between  *)
(* the steps of a handler.                                                 *)
(***************************************************************************)
THEOREM Killed == Spec => []KillsOnceCaught
<1>1. EncoderInv => KillsOnceCaught
  BY DEF EncoderInv, SignalInv, KillsOnceCaught
<1>2. QED
  BY <1>1, EncoderInvariance, PTL

(***************************************************************************)
(* EncoderParameters: an encoder that runs has the size and the rate that  *)
(* were asked last, and a frame that is not empty, with words of any       *)
(* width.                                                                  *)
(***************************************************************************)
LEMMA FrameNotEmpty == ASSUME gVideoWidth \in Nat, gVideoHeight \in Nat, Supported PROVE FrameSize > 0
<1>1. MaxSide \in Nat /\ MaxSide * MaxSide * 3 < Word /\ Word \in Nat
  BY EncoderAssumption, OptionsAssumption
<1>2. gVideoWidth \in 1 .. MaxSide /\ gVideoHeight \in 1 .. MaxSide
  BY DEF Supported
<1>3. gVideoWidth * gVideoHeight <= MaxSide * MaxSide
  <2>1. gVideoWidth * gVideoHeight <= MaxSide * gVideoHeight
    BY <1>1, <1>2
  <2>2. MaxSide * gVideoHeight <= MaxSide * MaxSide
    BY <1>1, <1>2
  <2>3. QED
    BY <1>1, <1>2, <2>1, <2>2
<1>4. 1 <= gVideoWidth * gVideoHeight
  BY <1>1, <1>2
<1>5. PICK area \in Nat : area = gVideoWidth * gVideoHeight /\ 1 <= area /\ area <= MaxSide * MaxSide
  BY <1>2, <1>3, <1>4
<1>6. area * 3 \in 0 .. Word - 1 /\ area * 3 >= 3
  <2>1. PICK most \in Nat : most = MaxSide * MaxSide /\ most * 3 < Word
    BY <1>1
  <2>2. QED
    BY <1>1, <1>5, <2>1
<1>7. FrameSize = (area * 3) \div 2
  BY <1>5, <1>6, Truncated DEF FrameSize
<1>8. (area * 3) \div 2 > 0
  BY <1>6
<1>9. QED
  BY <1>7, <1>8

\* What LastAsked() finds is what was found last.
LEMMA AskedLast ==
    ASSUME argv \in Seq(Args), optind \in 1 .. Len(argv) + 1, optind > Len(argv),
           NEW opt, NEW i \in 1 .. Len(argv), LastOf(opt, i)
    PROVE  LET given == {j \in DOMAIN argv : argv[j].opt = opt}
           IN  given # {} /\ (CHOOSE k \in given : \A j \in given : j <= k) = i
<1> DEFINE given == {j \in DOMAIN argv : argv[j].opt = opt}
<1>1. Len(argv) \in Nat /\ optind - 1 = Len(argv) /\ DOMAIN argv = 1 .. Len(argv)
  OBVIOUS
<1>2. i \in given /\ \A j \in given : j <= i
  BY <1>1 DEF LastOf
<1>3. \A k \in given : (\A j \in given : j <= k) => k = i
  BY <1>1, <1>2
<1> HIDE DEF given
<1>4. (CHOOSE k \in given : \A j \in given : j <= k) = i
  BY <1>2, <1>3
<1>5. QED
  BY <1>2, <1>4 DEF given

LEMMA AskedNever ==
    ASSUME argv \in Seq(Args), optind \in 1 .. Len(argv) + 1, optind > Len(argv), NEW opt, NoneOf(opt)
    PROVE  {j \in DOMAIN argv : argv[j].opt = opt} = {}
<1>1. Len(argv) \in Nat /\ optind - 1 = Len(argv) /\ DOMAIN argv = 1 .. Len(argv)
  OBVIOUS
<1>2. QED
  BY <1>1 DEF NoneOf

THEOREM Parameters == Spec => []EncoderParameters
<1>1. ASSUME EncoderInv, codec = "started"
      PROVE  /\ gBitRate \in kMinBitRate .. kMaxBitRate /\ FrameSize > 0
             /\ LET rate == LastAsked("bit-rate", 4 * Mega, Asked)
                IN  rate \in 0 .. Word - 1 => gBitRate = rate
             /\ LET width == LastAsked("size", DefaultWidth, LAMBDA a : a.width)
                IN  width \in 0 .. Word - 1 => gVideoWidth = width
             /\ LET height == LastAsked("size", DefaultHeight, LAMBDA a : a.height)
                IN  height \in 0 .. Word - 1 => gVideoHeight = height
  <2>1. /\ argv \in Seq(Args) /\ optind \in 1 .. Len(argv) + 1 /\ optind > Len(argv)
        /\ RateInv /\ SizeInv /\ Supported
    BY <1>1 DEF EncoderInv, OptionsInv
  <2>2. FrameSize > 0
    BY <2>1, FrameNotEmpty DEF SizeInv
  <2>3. LastAsked("bit-rate", 4 * Mega, Asked) \in 0 .. Word - 1
            => gBitRate = LastAsked("bit-rate", 4 * Mega, Asked)
    <3>1. CASE NoneOf("bit-rate") /\ gBitRate = 4 * Mega
      BY <2>1, <3>1, AskedNever DEF LastAsked
    <3>2. ASSUME NEW i \in 1 .. Len(argv), LastOf("bit-rate", i), gBitRate = Rate(argv[i])
          PROVE  Asked(argv[i]) \in 0 .. Word - 1 => gBitRate = Asked(argv[i])
      BY <3>2, Truncated DEF Rate
    <3>3. ASSUME NEW i \in 1 .. Len(argv), LastOf("bit-rate", i)
          PROVE  LastAsked("bit-rate", 4 * Mega, Asked) = Asked(argv[i])
      BY <2>1, <3>3, AskedLast DEF LastAsked
    <3>4. QED
      BY <2>1, <3>1, <3>2, <3>3 DEF RateInv
  <2>4. \/ NoneOf("size") /\ DefaultSize
        \/ \E i \in 1 .. Len(argv) : LastOf("size", i) /\ SizeOf(argv[i])
    BY <1>1, <2>1 DEF SizeInv
  <2>5. LastAsked("size", DefaultWidth, LAMBDA a : a.width) \in 0 .. Word - 1
            => gVideoWidth = LastAsked("size", DefaultWidth, LAMBDA a : a.width)
    <3>1. CASE NoneOf("size") /\ DefaultSize
      BY <2>1, <3>1, AskedNever DEF LastAsked, DefaultSize
    <3>2. ASSUME NEW i \in 1 .. Len(argv), LastOf("size", i), SizeOf(argv[i])
          PROVE  argv[i].width \in 0 .. Word - 1 => gVideoWidth = argv[i].width
      BY <3>2, Truncated DEF Width, SizeOf
    <3>3. ASSUME NEW i \in 1 .. Len(argv), LastOf("size", i)
          PROVE  LastAsked("size", DefaultWidth, LAMBDA a : a.width) = argv[i].width
      BY <2>1, <3>3, AskedLast DEF LastAsked
    <3>4. QED
      BY <2>4, <3>1, <3>2, <3>3
  <2>6. LastAsked("size", DefaultHeight, LAMBDA a : a.height) \in 0 .. Word - 1
            => gVideoHeight = LastAsked("size", DefaultHeight, LAMBDA a : a.height)
    <3>1. CASE NoneOf("size") /\ DefaultSize
      BY <2>1, <3>1, AskedNever DEF LastAsked, DefaultSize
    <3>2. ASSUME NEW i \in 1 .. Len(argv), LastOf("size", i), SizeOf(argv[i])
          PROVE  argv[i].height \in 0 .. Word - 1 => gVideoHeight = argv[i].height
      BY <3>2, Truncated DEF Height, SizeOf
    <3>3. ASSUME NEW i \in 1 .. Len(argv), LastOf("size", i)
          PROVE  LastAsked("size", DefaultHeight, LAMBDA a : a.height) = argv[i].height
      BY <2>1, <3>3, AskedLast DEF LastAsked
    <3>4. QED
      BY <2>4, <3>1, <3>2, <3>3
  <2>7. QED
    BY <2>1, <2>2, <2>3, <2>5, <2>6 DEF RateInv
<1>2. EncoderInv => EncoderParameters
  BY <1>1 DEF EncoderParameters
<1>3. QED
  BY <1>2, EncoderInvariance, PTL
=============================================================================

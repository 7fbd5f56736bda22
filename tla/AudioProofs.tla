---------------------------- MODULE AudioProofs ----------------------------
(***************************************************************************)
(* The recorder and the player with files, buffers and recordings of any   *)
(* length: what the file holds, what the track is given, and no callback   *)
(* without its file.                                                       *)
(***************************************************************************)
EXTENDS Audio, SequenceTheorems, TLAPS

\* capture_thread() between the file's creation and its end.
Recording == {"create", "start", "fail", "sleep", "read", "close", "clear"}

\* play_thread() while it has the file.
Playing == {"format", "share", "create", "start", "loop", "sleep", "stop", "clear", "close"}

TypeOK ==
    /\ device \in {"none", "failed", "ready", "active", "stopped"}
    /\ callback \in BOOLEAN /\ fault \in BOOLEAN /\ file \in {"none", "open", "closed"}
    /\ wav \in [there : BOOLEAN, valid : BOOLEAN, header : Nat, data : Seq(Int)]
    /\ rec \in Recording \cup {"open", "end", "crashed", "elsewhere"}
    /\ build \in {"callback", "loop"} /\ dura \in Nat
    /\ captured \in Nat /\ lost \subseteq Int
    /\ play \in Playing \cup {"idle", "open", "end", "crashed"} /\ mode \in Modes
    /\ result \in {"none", "file_err", "fmt_err", "param_err", "play_err", "play_ok"}
    /\ position \in Nat /\ played \in Seq(Int)

\* Where a device can call back, and which of its file and itself is there.
DeviceInv ==
    /\ play = "idle" =>
        /\ device = "active" => rec \in {"sleep", "read"}
        /\ callback => build = "callback" /\ rec \in {"sleep", "close", "clear"}
        /\ rec \notin Recording \ {"create"} => device = "none" /\ ~callback
        /\ rec \in Recording \ {"clear"} => file = "open"
    /\ play # "idle" =>
        /\ rec \in {"end", "crashed", "elsewhere"}
        /\ device = "active" => play \in {"loop", "sleep", "stop"}
        /\ callback => mode = "callback" /\ play \in {"sleep", "clear"}
        /\ play \notin {"start", "loop", "sleep", "stop", "clear"} => device = "none" /\ ~callback
        /\ play \in Playing => file = "open"

\* A file that holds some of the first c blocks, in order ...
Ordered(data, c) ==
    /\ \A i, j \in 1 .. Len(data) :
          i < j /\ Stale \notin {data[i], data[j]} => data[i] < data[j]
    /\ \A i \in 1 .. Len(data) : data[i] \in 0 .. c

\* ... and none is missing but those in l.
Accounted(data, c, l) ==
    \A n \in 1 .. c : n \in l \/ \E i \in 1 .. Len(data) : data[i] = n

\* Unless a call failed, the file holds all that was captured while it is open;
\* the header was written before.
RecordInv ==
    /\ rec = "open" => captured = 0 /\ wav.data = <<>> /\ lost = {}
    /\ rec \in Recording => wav.header = dura
    /\ play = "idle" /\ ~fault /\ (rec \in Recording \ {"clear"} \/ callback) =>
          Len(wav.data) = captured /\ lost = {}
    /\ rec = "sleep" => build = "callback"
    /\ rec = "read" => build = "loop"
    /\ RecordedInOrder

\* All that the program means to hand over.
AllGiven ==
    /\ mode \in {"sync", "obtain"} => Len(played) >= Len(wav.data)
    /\ mode = "shared" => Len(played) = wav.header

\* How far the file is read, and how much of it the track has.
PlayInv ==
    /\ position <= Len(wav.data)
    /\ \A i \in 1 .. Len(played) :
          played[i] = (IF i <= Len(wav.data) THEN wav.data[i] ELSE Stale)
    /\ play \in {"idle", "open", "format", "share"}
         \/ (play \in {"create", "start"} /\ mode # "shared") => position = 0 /\ played = <<>>
    /\ play \in {"create", "start"} => mode # "unknown"
    /\ play \in {"loop", "stop"} => mode \in {"sync", "obtain"}
    /\ play = "sleep" => mode \in {"callback", "shared"}
    /\ play = "share" => mode = "shared"
    /\ mode = "callback" => position = Smaller(Len(played), Len(wav.data))
    /\ mode = "obtain" =>
        /\ Len(played) <= Len(wav.data) + Chunk
        /\ play = "loop" => Len(played) = position
    /\ mode = "sync" =>
        /\ Len(played) <= position
        /\ play = "loop" /\ device = "active" => Len(played) = position
        /\ play = "loop" /\ ~fault => device = "active"
    /\ mode = "shared" /\ play \in {"create", "start", "sleep"} => Len(played) = wav.header
    /\ play \in {"stop", "clear", "close", "end"} /\ result = "play_ok" /\ ~fault => AllGiven

AudioInv == TypeOK /\ DeviceInv /\ RecordInv /\ PlayInv
-----------------------------------------------------------------------------
(***************************************************************************)
(* The blocks in a buffer.                                                 *)
(***************************************************************************)
LEMMA DataTypes ==
    ASSUME TypeOK
    PROVE  /\ Len(wav.data) \in Nat /\ wav.data \in Seq(Int)
           /\ \A i \in 1 .. Len(wav.data) : wav.data[i] \in Int
           /\ wav.header \in Nat /\ wav.there \in BOOLEAN /\ wav.valid \in BOOLEAN
           /\ Len(played) \in Nat /\ position \in Nat
           /\ \A i \in 1 .. Len(played) : played[i] \in Int
<1>1. /\ wav.data \in Seq(Int) /\ played \in Seq(Int) /\ position \in Nat
      /\ wav.header \in Nat /\ wav.there \in BOOLEAN /\ wav.valid \in BOOLEAN
  BY DEF TypeOK
<1>2. QED
  BY <1>1, LenProperties, ElementOfSeq

\* Filled: a whole buffer, the rest of the file and then what it held before.
LEMMA FilledProperties ==
    ASSUME TypeOK, position <= Len(wav.data), NEW n \in Nat
    PROVE  /\ Filled(n) \in Seq(Int) /\ Len(Filled(n)) = n
           /\ \A i \in 1 .. n :
                 Filled(n)[i] = IF position + i <= Len(wav.data)
                                THEN wav.data[position + i] ELSE Stale
<1>1. \A i \in 1 .. n : i <= Rest => position + i \in 1 .. Len(wav.data)
  BY DataTypes DEF Rest
<1>2. Filled(n) \in [1 .. n -> Int]
  BY <1>1, DataTypes DEF Filled, Stale
<1>3. Filled(n) \in Seq(Int)
  BY <1>2, SeqDef
<1>4. \A i \in 1 .. n : i <= Rest <=> position + i <= Len(wav.data)
  BY DataTypes DEF Rest
<1>5. QED
  BY <1>2, <1>3, <1>4 DEF Filled

\* BlocksRead: as much of the file as is left and as the buffer holds.
LEMMA BlocksReadProperties ==
    ASSUME TypeOK, position <= Len(wav.data), NEW n \in Nat
    PROVE  /\ BlocksRead(n) \in Seq(Int) /\ Len(BlocksRead(n)) = Smaller(n, Rest)
           /\ \A i \in 1 .. Smaller(n, Rest) : BlocksRead(n)[i] = wav.data[position + i]
           /\ Smaller(n, Rest) \in Nat /\ position + Smaller(n, Rest) <= Len(wav.data)
<1> DEFINE k == Smaller(n, Rest)
<1>1. k \in Nat /\ position + k <= Len(wav.data)
  BY DataTypes DEF Smaller, Rest
<1> HIDE DEF k
<1> DEFINE first == position + 1
           last  == position + k
<1>2. /\ first \in Int /\ last \in Int /\ last - first + 1 = k /\ (first <= last <=> 1 <= k)
      /\ \A i \in first .. last : wav.data[i] \in Int
      /\ \A i \in 1 .. k : first + i - 1 = position + i
  BY SMTT(30), <1>1, DataTypes
<1>3. BlocksRead(n) = SubSeq(wav.data, first, last)
  BY DEF BlocksRead, k
<1> HIDE DEF first, last
<1>4. /\ SubSeq(wav.data, first, last) \in Seq(Int)
      /\ Len(SubSeq(wav.data, first, last)) = IF first <= last THEN last - first + 1 ELSE 0
      /\ \A i \in 1 .. last - first + 1 : SubSeq(wav.data, first, last)[i] = wav.data[first + i - 1]
  BY <1>2, SubSeqProperties
<1>7. BlocksRead(n) \in Seq(Int) /\ Len(BlocksRead(n)) = k
  BY <1>1, <1>2, <1>3, <1>4
<1>8. \A i \in 1 .. k : BlocksRead(n)[i] = wav.data[position + i]
  BY <1>2, <1>3, <1>4
<1>9. QED
  BY <1>1, <1>7, <1>8 DEF k

LEMMA AdvanceProperties ==
    ASSUME TypeOK, position <= Len(wav.data), NEW n \in Nat, Advance(n)
    PROVE  /\ position' \in Nat /\ position' <= Len(wav.data)
           /\ position' = Smaller(position + n, Len(wav.data))
           /\ position' = position + Smaller(n, Rest)
  BY SMTT(30), DataTypes DEF Advance, Smaller, Rest

-----------------------------------------------------------------------------
(***************************************************************************)
(* Types.                                                                  *)
(***************************************************************************)
LEMMA InitAudioInv == Init => AudioInv
<1> SUFFICES ASSUME Init PROVE AudioInv
  OBVIOUS
<1>1. wav = NoWav \/ wav \in Wavs
  BY DEF Init
<1>2. \A n \in Nat : [i \in 1 .. n |-> i] \in Seq(Int)
  <2> TAKE n \in Nat
  <2>1. [i \in 1 .. n |-> i] \in [1 .. n -> Int]
    OBVIOUS
  <2>2. QED
    BY <2>1, SeqDef
<1>3. /\ <<>> \in Seq(Int) /\ Len(<<>>) = 0
      /\ \A n \in 0 .. MaxBlocks : n \in Nat
  BY EmptySeq, AudioAssumption
<1>4. wav \in [there : BOOLEAN, valid : BOOLEAN, header : Nat, data : Seq(Int)]
  <2>1. CASE wav = NoWav
    BY <1>3, <2>1 DEF NoWav
  <2>2. CASE wav \in Wavs
    <3>1. PICK n \in 0 .. MaxBlocks : wav.data = [i \in 1 .. n |-> i]
      BY <2>2 DEF Wavs
    <3>2. wav.data \in Seq(Int)
      BY <1>2, <1>3, <3>1
    <3>3. 0 .. MaxBlocks \subseteq Nat
      BY <1>3
    <3>4. QED
      BY <2>2, <3>2, <3>3 DEF Wavs
  <2>3. QED
    BY <1>1, <2>1, <2>2
<1>5. dura \in Nat
  BY <1>3 DEF Init
<1>6. build \in {"callback", "loop"} /\ played \in Seq(Int) /\ position \in Nat
  BY <1>3, AudioRecordAssumption DEF Init
<1>7. TypeOK
  BY <1>4, <1>5, <1>6 DEF Init, TypeOK, Recording, Playing
<1>8. DeviceInv
  BY DEF Init, DeviceInv, Recording, Playing
<1>9. RecordInv
  BY <1>3 DEF Init, RecordInv, RecordedInOrder, Recording, NoWav
<1>10. PlayInv
  <2>1. Len(wav.data) \in Nat /\ position = 0 /\ played = <<>> /\ Len(played) = 0
        /\ play = "idle" /\ Chunk \in Nat
    BY <1>3, <1>7, DataTypes, AudioAssumption DEF Init
  <2>2. 0 = Smaller(0, Len(wav.data)) /\ 0 <= Len(wav.data) + Chunk
    BY <2>1 DEF Smaller
  <2>3. QED
    BY <2>1, <2>2 DEF PlayInv
<1>11. QED
  BY <1>7, <1>8, <1>9, <1>10 DEF AudioInv

(***************************************************************************)
(* What is written to the file, and what does not get there.               *)
(***************************************************************************)
Wav == [there : BOOLEAN, valid : BOOLEAN, header : Nat, data : Seq(Int)]

LEMMA AppendOne ==
    ASSUME NEW data \in Seq(Int), NEW b \in Int
    PROVE  /\ Append(data, b) \in Seq(Int) /\ Len(data) \in Nat
           /\ Len(Append(data, b)) = Len(data) + 1
           /\ \A i \in 1 .. Len(data) : data[i] \in Int /\ Append(data, b)[i] = data[i]
           /\ Append(data, b)[Len(data) + 1] = b
           /\ \A i \in 1 .. Len(data) + 1 : i \in 1 .. Len(data) \/ i = Len(data) + 1
<1>1. /\ Append(data, b) \in Seq(Int)
      /\ Len(Append(data, b)) = Len(data) + 1
      /\ \A i \in 1 .. Len(data) : Append(data, b)[i] = data[i]
      /\ Append(data, b)[Len(data) + 1] = b
  BY AppendProperties
<1>2. Len(data) \in Nat /\ \A i \in 1 .. Len(data) : data[i] \in Int
  BY LenProperties, ElementOfSeq
<1>3. \A i \in 1 .. Len(data) + 1 : i \in 1 .. Len(data) \/ i = Len(data) + 1
  BY <1>2
<1>4. QED
  BY <1>1, <1>2, <1>3

\* The next block, or one of memory that nothing was read into, at the end.
LEMMA AppendOrdered ==
    ASSUME NEW data \in Seq(Int), NEW c \in Nat, NEW b \in {c + 1, Stale}, Ordered(data, c)
    PROVE  Ordered(Append(data, b), c + 1)
<1> DEFINE longer == Append(data, b)
<1>1. b \in Int /\ Stale = 0 /\ b \in 0 .. c + 1
  BY DEF Stale
<1>2. /\ Len(data) \in Nat /\ Len(longer) = Len(data) + 1
      /\ \A i \in 1 .. Len(data) : data[i] \in Int /\ longer[i] = data[i]
      /\ longer[Len(data) + 1] = b
      /\ \A i \in 1 .. Len(data) + 1 : i \in 1 .. Len(data) \/ i = Len(data) + 1
  BY <1>1, AppendOne
<1> HIDE DEF longer
<1>3. \A i \in 1 .. Len(data) : data[i] \in 0 .. c
  BY DEF Ordered
<1>4. \A i \in 1 .. Len(longer) : longer[i] \in 0 .. c + 1
  BY <1>1, <1>2, <1>3
<1>5. ASSUME NEW i \in 1 .. Len(longer), NEW j \in 1 .. Len(longer), i < j,
             Stale \notin {longer[i], longer[j]}
      PROVE  longer[i] < longer[j]
  <2>1. i \in 1 .. Len(data)
    BY <1>2, <1>5
  <2>2. CASE j \in 1 .. Len(data)
    BY <1>2, <1>5, <2>1, <2>2 DEF Ordered
  <2>3. CASE j = Len(data) + 1
    BY <1>2, <1>3, <1>5, <2>1, <2>3
  <2>4. QED
    BY <1>2, <2>2, <2>3
<1>6. QED
  BY <1>4, <1>5 DEF Ordered, longer

LEMMA WriteProperties ==
    ASSUME TypeOK, Write
    PROVE  /\ captured' = captured + 1 /\ captured' \in Nat /\ UNCHANGED <<fault, lost>>
           /\ wav' \in Wav /\ wav'.header = wav.header /\ Len(wav'.data) = Len(wav.data) + 1
           /\ Ordered(wav.data, captured) => Ordered(wav'.data, captured')
           /\ Accounted(wav.data, captured, lost) => Accounted(wav'.data, captured', lost')
           /\ \A i \in 1 .. Len(wav'.data) : wav'.data[i] = Stale =>
                 i \in 1 .. Len(wav.data) /\ wav.data[i] = Stale
<1>1. captured \in Nat /\ captured + 1 \in Int /\ wav.data \in Seq(Int) /\ wav \in Wav
  BY DEF TypeOK, Wav
<1>2. /\ wav' = [wav EXCEPT !.data = Append(@, captured + 1)]
      /\ captured' = captured + 1 /\ fault' = fault /\ lost' = lost
  BY DEF Write
<1>3. wav'.data = Append(wav.data, captured + 1) /\ wav'.header = wav.header
      /\ wav'.there = wav.there /\ wav'.valid = wav.valid
  BY <1>1, <1>2 DEF Wav
<1>4. /\ Append(wav.data, captured + 1) \in Seq(Int) /\ Len(wav.data) \in Nat
      /\ Len(wav'.data) = Len(wav.data) + 1
      /\ \A i \in 1 .. Len(wav.data) : wav'.data[i] = wav.data[i]
      /\ wav'.data[Len(wav.data) + 1] = captured + 1
      /\ \A i \in 1 .. Len(wav.data) + 1 : i \in 1 .. Len(wav.data) \/ i = Len(wav.data) + 1
  BY <1>1, <1>3, AppendOne
<1>5. wav' \in Wav
  BY <1>1, <1>2, <1>4 DEF Wav
<1>6. Ordered(wav.data, captured) => Ordered(wav'.data, captured')
  BY <1>1, <1>2, <1>3, AppendOrdered
<1>7. ASSUME Accounted(wav.data, captured, lost), NEW n \in 1 .. captured'
      PROVE  n \in lost' \/ \E i \in 1 .. Len(wav'.data) : wav'.data[i] = n
  <2>1. CASE n = captured + 1
    <3>1. Len(wav.data) + 1 \in 1 .. Len(wav'.data)
      BY <1>4
    <3>2. QED
      BY <1>4, <2>1, <3>1
  <2>2. CASE n \in 1 .. captured
    <3>1. n \in lost \/ \E i \in 1 .. Len(wav.data) : wav.data[i] = n
      BY <1>7, <2>2 DEF Accounted
    <3>2. \A i \in 1 .. Len(wav.data) : i \in 1 .. Len(wav'.data)
      BY <1>4
    <3>3. QED
      BY <1>2, <1>4, <3>1, <3>2
  <2>3. QED
    BY <1>1, <1>2, <2>1, <2>2
<1>8. \A i \in 1 .. Len(wav'.data) : wav'.data[i] = Stale =>
         i \in 1 .. Len(wav.data) /\ wav.data[i] = Stale
  BY <1>1, <1>4 DEF Stale
<1>9. Accounted(wav.data, captured, lost) => Accounted(wav'.data, captured', lost')
  BY <1>7 DEF Accounted
<1>10. captured' \in Nat
  BY <1>1, <1>2
<1>11. QED
  BY <1>2, <1>3, <1>4, <1>5, <1>6, <1>8, <1>9, <1>10

LEMMA LoseProperties ==
    ASSUME TypeOK, Lose
    PROVE  /\ captured' = captured + 1 /\ captured' \in Nat /\ wav' = wav
           /\ lost' = lost \cup {captured'} /\ lost' \subseteq Int
           /\ Ordered(wav.data, captured) => Ordered(wav'.data, captured')
           /\ Accounted(wav.data, captured, lost) => Accounted(wav'.data, captured', lost')
<1>1. captured \in Nat /\ lost \subseteq Int /\ captured' = captured + 1 /\ wav' = wav
      /\ lost' = lost \cup {captured + 1}
  BY DEF TypeOK, Lose
<1>2. Ordered(wav.data, captured) => Ordered(wav.data, captured + 1)
  BY <1>1, DataTypes DEF Ordered
<1>3. Accounted(wav.data, captured, lost) => Accounted(wav.data, captured + 1, lost \cup {captured + 1})
  BY <1>1 DEF Accounted
<1>4. QED
  BY <1>1, <1>2, <1>3

\* A read() that failed counts as a block of whatever the buffer held.
LEMMA GarbageProperties ==
    ASSUME TypeOK, RecReadGarbage
    PROVE  /\ captured' = captured + 1 /\ captured' \in Nat
           /\ wav' \in Wav /\ wav'.header = wav.header /\ lost' \subseteq Int
           /\ Ordered(wav.data, captured) => Ordered(wav'.data, captured')
           /\ Accounted(wav.data, captured, lost) => Accounted(wav'.data, captured', lost')
<1>1. captured \in Nat /\ Stale \in Int /\ wav.data \in Seq(Int) /\ wav \in Wav /\ lost \subseteq Int
  BY DEF TypeOK, Wav, Stale
<1>2. /\ wav' = [wav EXCEPT !.data = Append(@, Stale)]
      /\ captured' = captured + 1 /\ lost' = lost \cup {captured + 1}
  BY DEF RecReadGarbage
<1>3. wav'.data = Append(wav.data, Stale) /\ wav'.header = wav.header
  BY <1>1, <1>2 DEF Wav
<1>4. /\ Append(wav.data, Stale) \in Seq(Int) /\ Len(wav.data) \in Nat
      /\ Len(wav'.data) = Len(wav.data) + 1
      /\ \A i \in 1 .. Len(wav.data) : wav'.data[i] = wav.data[i]
  BY <1>1, <1>3, AppendOne
<1>5. wav' \in Wav
  BY <1>1, <1>2, <1>4 DEF Wav
<1>6. Ordered(wav.data, captured) => Ordered(wav'.data, captured')
  BY <1>1, <1>2, <1>3, AppendOrdered
<1>7. ASSUME Accounted(wav.data, captured, lost), NEW n \in 1 .. captured'
      PROVE  n \in lost' \/ \E i \in 1 .. Len(wav'.data) : wav'.data[i] = n
  <2>1. CASE n \in 1 .. captured
    BY <1>2, <1>4, <1>7, <2>1 DEF Accounted
  <2>2. QED
    BY <1>1, <1>2, <2>1
<1>8. Accounted(wav.data, captured, lost) => Accounted(wav'.data, captured', lost')
  BY <1>7 DEF Accounted
<1>9. captured' \in Nat /\ lost' \subseteq Int
  BY <1>1, <1>2
<1>10. QED
  BY <1>2, <1>3, <1>5, <1>6, <1>8, <1>9

\* What is cut off at the end of the file is lost.
LEMMA LoseUnflushedProperties ==
    ASSUME TypeOK, LoseUnflushed
    PROVE  /\ fault' = TRUE /\ wav' \in Wav /\ wav'.header = wav.header /\ lost' \subseteq Int
           /\ Ordered(wav.data, captured) => Ordered(wav'.data, captured)
           /\ Accounted(wav.data, captured, lost) => Accounted(wav'.data, captured, lost')
           /\ \A i \in 1 .. Len(wav'.data) : wav'.data[i] = Stale =>
                 i \in 1 .. Len(wav.data) /\ wav.data[i] = Stale
<1>1. PICK n \in 0 .. Len(wav.data), flushed \in BOOLEAN :
         /\ wav' = [wav EXCEPT !.valid = @ /\ flushed, !.data = SubSeq(@, 1, n)]
         /\ lost' = lost \cup ({wav.data[i] : i \in n + 1 .. Len(wav.data)} \ {Stale})
  BY DEF LoseUnflushed
<1>2. /\ wav.data \in Seq(Int) /\ wav \in Wav /\ Len(wav.data) \in Nat /\ n \in Nat
      /\ captured \in Nat /\ lost \subseteq Int
      /\ \A i \in 1 .. Len(wav.data) : wav.data[i] \in Int
  BY DataTypes DEF TypeOK, Wav
<1>3. /\ SubSeq(wav.data, 1, n) \in Seq(Int) /\ Len(SubSeq(wav.data, 1, n)) = n
      /\ \A i \in 1 .. n : i \in 1 .. Len(wav.data) /\ SubSeq(wav.data, 1, n)[i] = wav.data[i]
  <2>1. \A i \in 1 .. n : i \in 1 .. Len(wav.data) /\ wav.data[i] \in Int
    BY <1>2
  <2>2. /\ SubSeq(wav.data, 1, n) \in Seq(Int)
        /\ Len(SubSeq(wav.data, 1, n)) = IF 1 <= n THEN n - 1 + 1 ELSE 0
        /\ \A i \in 1 .. n - 1 + 1 : SubSeq(wav.data, 1, n)[i] = wav.data[1 + i - 1]
    BY <1>2, <2>1, SubSeqProperties
  <2>3. QED
    BY <1>2, <2>1, <2>2
<1>4. wav' \in Wav /\ wav'.header = wav.header /\ wav'.data = SubSeq(wav.data, 1, n)
  BY <1>1, <1>2, <1>3 DEF Wav
<1>5. lost' \subseteq Int
  BY <1>1, <1>2
<1>6. Ordered(wav.data, captured) => Ordered(wav'.data, captured)
  BY <1>2, <1>3, <1>4 DEF Ordered
<1>7. ASSUME Accounted(wav.data, captured, lost), NEW k \in 1 .. captured
      PROVE  k \in lost' \/ \E i \in 1 .. Len(wav'.data) : wav'.data[i] = k
  <2>1. CASE k \in lost
    BY <1>1, <2>1
  <2>2. CASE k \notin lost
    <3>1. PICK i \in 1 .. Len(wav.data) : wav.data[i] = k
      BY <1>7, <2>2 DEF Accounted
    <3>2. CASE i \in 1 .. n
      BY <1>3, <1>4, <3>1, <3>2
    <3>3. CASE i \in n + 1 .. Len(wav.data)
      BY <1>1, <1>2, <3>1, <3>3 DEF Stale
    <3>4. QED
      BY <1>2, <3>2, <3>3
  <2>3. QED
    BY <2>1, <2>2
<1>8. fault' = TRUE
  BY DEF LoseUnflushed
<1>9. QED
  BY <1>3, <1>4, <1>5, <1>6, <1>7, <1>8 DEF Accounted

LEMMA RecordTypeOK == ASSUME AudioInv, RecordSteps PROVE TypeOK'
<1> USE DEF AudioInv
<1>1. UNCHANGED player
  BY DEF RecordSteps
<1>2. CASE RecOpen
  <2>1. NewWav(dura) \in Wav /\ [NewWav(dura) EXCEPT !.valid = FALSE] \in Wav
    BY EmptySeq DEF NewWav, TypeOK, Wav
  <2>2. wav' \in Wav /\ fault' \in BOOLEAN
    BY <1>2, <2>1 DEF RecOpen, TypeOK
  <2>3. UNCHANGED <<device, callback, build, dura, captured, lost>> /\ file' = "open" /\ rec' = "create"
    BY <1>2 DEF RecOpen, RecAt
  <2>4. QED
    BY <1>1, <2>2, <2>3 DEF TypeOK, Wav, player, Recording
<1>3. CASE RecNoFile \/ RecCreate \/ RecStart \/ RecFail \/ RecStop \/ RecClear
  <2>1. UNCHANGED <<callback, wav, build, dura, captured, lost>>
    BY <1>3 DEF RecNoFile, RecCreate, RecStart, RecFail, RecStop, RecClear, audio
  <2>2. device' \in {"none", "failed", "ready", "active", "stopped"}
    BY <1>3 DEF RecNoFile, RecCreate, RecStart, RecFail, RecStop, RecClear, audio,
                Create, Start, Release, Stop, TypeOK
  <2>3. fault' \in BOOLEAN /\ file' \in {"none", "open", "closed"}
    BY <1>3 DEF RecNoFile, RecCreate, RecStart, RecFail, RecStop, RecClear, audio,
                Start, TypeOK
  <2>4. rec' \in Recording \cup {"end"}
    BY <1>3 DEF RecNoFile, RecCreate, RecStart, RecFail, RecStop, RecClear,
                RecAt, Recording
  <2>5. QED
    BY <1>1, <2>1, <2>2, <2>3, <2>4 DEF TypeOK, player
<1>4. CASE RecRead \/ PcmCallback \/ PcmDies
  <2>1. /\ UNCHANGED <<file, build, dura>> /\ (rec' = rec \/ rec' = "crashed")
        /\ callback' \in BOOLEAN /\ (device' = device \/ device' = "none")
    BY <1>4 DEF RecRead, PcmCallback, PcmDies, TypeOK
  <2>2. Write \/ (Lose /\ fault' \in BOOLEAN)
    BY <1>4 DEF RecRead, PcmCallback, PcmDies, WriteFails, TypeOK
  <2>3. wav' \in Wav /\ captured' \in Nat /\ lost' \subseteq Int /\ fault' \in BOOLEAN
    BY <2>2, WriteProperties, LoseProperties DEF TypeOK, Wav
  <2>4. QED
    BY <1>1, <2>1, <2>3 DEF TypeOK, Wav, player
<1>5. CASE RecReadGarbage
  <2>1. wav' \in Wav /\ captured' \in Nat /\ lost' \subseteq Int
    BY <1>5, GarbageProperties
  <2>2. UNCHANGED <<device, callback, file, build, dura>> /\ fault' = TRUE /\ rec' = "read"
    BY <1>5 DEF RecReadGarbage, RecAt
  <2>3. QED
    BY <1>1, <2>1, <2>2 DEF TypeOK, Wav, player, Recording
<1>6. CASE RecReadDies
  <2>1. wav' \in Wav /\ lost' \subseteq Int /\ fault' = TRUE
    BY <1>6, LoseUnflushedProperties DEF RecReadDies
  <2>2. UNCHANGED <<callback, file, build, dura, captured>> /\ device' = "none" /\ rec' = "crashed"
    BY <1>6 DEF RecReadDies, RecAt
  <2>3. QED
    BY <1>1, <2>1, <2>2 DEF TypeOK, Wav, player
<1>7. CASE RecClose
  <2>1. wav' \in Wav /\ lost' \subseteq Int /\ fault' \in BOOLEAN
    BY <1>7, LoseUnflushedProperties DEF RecClose, TypeOK, Wav
  <2>2. UNCHANGED <<device, callback, build, dura, captured>> /\ file' = "closed" /\ rec' = "clear"
    BY <1>7 DEF RecClose, RecAt
  <2>3. QED
    BY <1>1, <2>1, <2>2 DEF TypeOK, Wav, player, Recording
<1>8. CASE RecCalled
  BY <1>1, <1>8 DEF RecCalled, CallBack, TypeOK, player, recorder
<1>9. QED
  BY <1>2, <1>3, <1>4, <1>5, <1>6, <1>7, <1>8 DEF RecordSteps, RecThread

-----------------------------------------------------------------------------
(***************************************************************************)
(* The recorder.                                                           *)
(***************************************************************************)
LEMMA RecordDevice == ASSUME AudioInv, RecordSteps PROVE DeviceInv'
<1> USE DEF AudioInv
<1>1. play = "idle" /\ play' = "idle"
  BY DEF RecordSteps, player
<1> SUFFICES /\ device' = "active" => rec' \in {"sleep", "read"}
             /\ callback' => build' = "callback" /\ rec' \in {"sleep", "close", "clear"}
             /\ rec' \notin Recording \ {"create"} => device' = "none" /\ ~callback'
             /\ rec' \in Recording \ {"clear"} => file' = "open"
  BY <1>1 DEF DeviceInv
<1>2. /\ device = "active" => rec \in {"sleep", "read"}
      /\ callback => build = "callback" /\ rec \in {"sleep", "close", "clear"}
      /\ rec \notin Recording \ {"create"} => device = "none" /\ ~callback
      /\ rec \in Recording \ {"clear"} => file = "open"
  BY <1>1 DEF DeviceInv
<1>3. CASE RecOpen \/ RecNoFile \/ RecCreate \/ RecFail
  BY <1>2, <1>3 DEF RecOpen, RecNoFile, RecCreate, RecFail, RecAt, Create, Release, Recording, audio
<1>4. CASE RecStart
  BY <1>2, <1>4 DEF RecStart, Start, Recording
<1>5. CASE RecRead \/ RecReadGarbage \/ PcmCallback
  BY <1>2, <1>5 DEF RecRead, RecReadGarbage, PcmCallback, RecAt, Recording
<1>6. CASE RecReadDies
  <2>1. ~callback
    BY <1>2, <1>6 DEF RecReadDies, RecAt
  <2>2. QED
    BY <1>6, <2>1 DEF RecReadDies, RecAt, Recording
<1>7. CASE RecStop \/ RecClose \/ RecClear
  BY <1>2, <1>7 DEF RecStop, RecClose, RecClear, RecAt, Stop, Release, Recording
<1>8. CASE RecCalled
  <2>1. build = "callback" /\ device = "active" /\ rec' = rec /\ build' = build
        /\ device' = device /\ file' = file
    BY <1>8 DEF RecCalled, CallBack, recorder
  <2>2. rec = "sleep"
    BY <1>2, <2>1 DEF RecordInv
  <2>3. QED
    BY <1>2, <2>1, <2>2 DEF Recording
<1>9. CASE PcmDies
  BY <1>9 DEF PcmDies, Recording
<1>10. QED
  BY <1>3, <1>4, <1>5, <1>6, <1>7, <1>8, <1>9 DEF RecordSteps, RecThread

\* RecordedInOrder, said with Ordered and Accounted.
LEMMA RecordedParts ==
    ASSUME play = "idle", rec # "elsewhere"
    PROVE  RecordedInOrder <=>
              /\ Ordered(wav.data, captured) /\ Accounted(wav.data, captured, lost)
              /\ \A i \in 1 .. Len(wav.data) : wav.data[i] = Stale => build = "loop" /\ fault
              /\ ~fault =>
                    /\ lost \subseteq {captured}
                    /\ build = "loop" /\ rec \in {"close", "clear"} => Len(wav.data) = wav.header
  BY DEF RecordedInOrder, Ordered, Accounted

LEMMA RecordRecord == ASSUME AudioInv, RecordSteps PROVE RecordInv'
<1> USE DEF AudioInv
<1>1. play = "idle" /\ play' = "idle" /\ TypeOK'
  BY RecordTypeOK DEF RecordSteps, player
<1>2. /\ callback => build = "callback" /\ rec \in {"sleep", "close", "clear"}
      /\ rec \in Recording \ {"clear"} => file = "open"
      /\ rec \notin Recording => ~callback
  BY <1>1 DEF DeviceInv
<1>3. captured \in Nat /\ Len(wav.data) \in Nat /\ dura \in Nat
  BY DataTypes DEF TypeOK
<1>4. rec # "elsewhere" /\ rec' # "elsewhere"
  BY <1>2 DEF RecordSteps, RecThread, RecOpen, RecNoFile, RecCreate, RecStart, RecFail, RecRead,
              RecReadDies, RecReadGarbage, RecStop, RecClose, RecClear, RecCalled, PcmCallback,
              PcmDies, RecAt, CallBack, DeviceInv, recorder, Recording
<1>5. /\ Ordered(wav.data, captured) /\ Accounted(wav.data, captured, lost)
      /\ \A i \in 1 .. Len(wav.data) : wav.data[i] = Stale => build = "loop" /\ fault
      /\ ~fault =>
            /\ lost \subseteq {captured}
            /\ build = "loop" /\ rec \in {"close", "clear"} => Len(wav.data) = wav.header
  BY <1>1, <1>4, RecordedParts DEF RecordInv
<1>6. /\ rec = "open" => captured = 0 /\ wav.data = <<>> /\ lost = {}
      /\ rec \in Recording => wav.header = dura
      /\ ~fault /\ (rec \in Recording \ {"clear"} \/ callback) => Len(wav.data) = captured /\ lost = {}
      /\ rec = "sleep" => build = "callback"
      /\ rec = "read" => build = "loop"
  BY <1>1 DEF RecordInv
<1> SUFFICES /\ rec' = "open" => captured' = 0 /\ wav'.data = <<>> /\ lost' = {}
             /\ rec' \in Recording => wav'.header = dura'
             /\ ~fault' /\ (rec' \in Recording \ {"clear"} \/ callback') =>
                   Len(wav'.data) = captured' /\ lost' = {}
             /\ rec' = "sleep" => build' = "callback"
             /\ rec' = "read" => build' = "loop"
             /\ Ordered(wav'.data, captured') /\ Accounted(wav'.data, captured', lost')
             /\ \A i \in 1 .. Len(wav'.data) : wav'.data[i] = Stale => build' = "loop" /\ fault'
             /\ ~fault' =>
                   /\ lost' \subseteq {captured'}
                   /\ build' = "loop" /\ rec' \in {"close", "clear"} => Len(wav'.data) = wav'.header
  <2>1. RecordedInOrder' <=>
              /\ Ordered(wav'.data, captured') /\ Accounted(wav'.data, captured', lost')
              /\ \A i \in 1 .. Len(wav'.data) : wav'.data[i] = Stale => build' = "loop" /\ fault'
              /\ ~fault' =>
                    /\ lost' \subseteq {captured'}
                    /\ build' = "loop" /\ rec' \in {"close", "clear"} => Len(wav'.data) = wav'.header
    BY <1>1, <1>4 DEF RecordedInOrder, Ordered, Accounted
  <2>2. QED
    BY <1>1, <2>1 DEF RecordInv
<1>7. CASE RecOpen
  <2>1. /\ wav'.data = <<>> /\ wav'.header = dura /\ captured' = 0 /\ lost' = {} /\ dura' = dura
        /\ rec' = "create" /\ Len(wav'.data) = 0
    BY <1>6, <1>7, EmptySeq DEF RecOpen, RecAt, NewWav
  <2>2. QED
    BY <2>1 DEF Ordered, Accounted
<1>8. CASE RecNoFile \/ RecCreate \/ RecFail \/ RecClear
  <2>1. UNCHANGED <<wav, build, dura, captured, lost, callback, fault>>
    BY <1>8 DEF RecNoFile, RecCreate, RecFail, RecClear, audio
  <2>2. \/ rec' = "end" /\ ~callback
        \/ rec = "create" /\ rec' \in {"fail", "start"}
    BY <1>2, <1>8 DEF RecNoFile, RecCreate, RecFail, RecClear, RecAt, Release, Recording
  <2>3. QED
    BY <1>5, <1>6, <2>1, <2>2 DEF Recording
<1>9. CASE RecStart
  <2>1. UNCHANGED <<wav, build, dura, captured, lost, callback>> /\ (fault' = fault \/ fault')
    BY <1>9 DEF RecStart, Start
  <2>2. /\ rec = "start" /\ rec' \in {"sleep", "read", "fail"}
        /\ rec' = "sleep" => build = "callback"
        /\ rec' = "read" => build # "callback"
    BY <1>9 DEF RecStart
  <2>3. build \in {"callback", "loop"}
    BY DEF TypeOK
  <2>4. QED
    BY <1>5, <1>6, <2>1, <2>2, <2>3 DEF Recording
<1>10. CASE RecStop
  <2>1. /\ UNCHANGED <<wav, build, dura, captured, lost, callback, fault>> /\ rec' = "close"
        /\ rec = "sleep" \/ (rec = "read" /\ captured = dura)
    BY <1>10 DEF RecStop
  <2>2. QED
    BY <1>5, <1>6, <2>1 DEF Recording
<1>11. CASE RecClose
  <2>1. UNCHANGED <<build, dura, captured, callback>> /\ rec = "close" /\ rec' = "clear"
    BY <1>11 DEF RecClose, RecAt
  <2>2. CASE LoseUnflushed
    BY <1>5, <1>6, <2>1, <2>2, LoseUnflushedProperties DEF Recording
  <2>3. CASE UNCHANGED <<wav, fault, lost>>
    BY <1>5, <1>6, <2>1, <2>3 DEF Recording
  <2>4. QED
    BY <1>11, <2>2, <2>3 DEF RecClose
<1>12. CASE RecReadDies
  <2>1. UNCHANGED <<build, dura, captured, callback>> /\ rec' = "crashed" /\ LoseUnflushed
    BY <1>12 DEF RecReadDies, RecAt
  <2>2. /\ fault' /\ Ordered(wav'.data, captured') /\ Accounted(wav'.data, captured', lost')
        /\ \A i \in 1 .. Len(wav'.data) : wav'.data[i] = Stale => build' = "loop"
    BY <1>5, <2>1, LoseUnflushedProperties
  <2>3. QED
    BY <2>1, <2>2 DEF Recording
<1>13. CASE RecReadGarbage
  <2>1. /\ rec = "read" /\ rec' = "read" /\ build' = build /\ dura' = dura /\ fault'
    BY <1>13 DEF RecReadGarbage, RecAt
  <2>2. QED
    BY <1>5, <1>6, <1>13, <2>1, GarbageProperties DEF Recording
<1>14. CASE RecRead \/ PcmCallback \/ PcmDies
  <2>1. /\ UNCHANGED <<build, dura>> /\ (rec' = rec \/ (PcmDies /\ rec' = "crashed"))
        /\ rec = "read" \/ callback
    BY <1>14 DEF RecRead, PcmCallback, PcmDies
  <2>2. callback' = FALSE
    BY <1>2, <1>14, <2>1 DEF RecRead, PcmCallback, PcmDies, TypeOK
  <2>3. rec \in {"read", "sleep", "close", "clear"} /\ (build = "loop" => rec = "read")
    BY <1>2, <2>1
  <2>4. CASE Write
    <3>1. /\ Len(wav'.data) = Len(wav.data) + 1 /\ captured' = captured + 1 /\ UNCHANGED <<fault, lost>>
          /\ wav'.header = wav.header
          /\ Ordered(wav'.data, captured') /\ Accounted(wav'.data, captured', lost')
          /\ \A i \in 1 .. Len(wav'.data) : wav'.data[i] = Stale =>
                i \in 1 .. Len(wav.data) /\ wav.data[i] = Stale
      BY <1>5, <2>4, WriteProperties
    <3>2. ~fault => Len(wav.data) = captured /\ lost = {}
      BY <1>6, <2>1, <2>3 DEF Recording
    <3>3. \A i \in 1 .. Len(wav'.data) : wav'.data[i] = Stale => build' = "loop" /\ fault'
      BY <1>5, <2>1, <3>1
    <3>4. QED
      BY <1>6, <2>1, <2>2, <2>3, <3>1, <3>2, <3>3 DEF Recording
  <2>5. CASE Lose /\ fault'
    <3>1. /\ captured' = captured + 1 /\ wav' = wav
          /\ Ordered(wav'.data, captured') /\ Accounted(wav'.data, captured', lost')
      BY <1>5, <2>5, LoseProperties
    <3>2. \A i \in 1 .. Len(wav'.data) : wav'.data[i] = Stale => build' = "loop" /\ fault'
      BY <1>5, <2>1, <2>5, <3>1
    <3>3. QED
      BY <1>6, <2>1, <2>3, <2>5, <3>1, <3>2 DEF Recording
  <2>6. CASE Lose /\ callback /\ file # "open" /\ fault' = fault
    <3>1. /\ captured' = captured + 1 /\ wav' = wav /\ lost' = lost \cup {captured'}
          /\ Ordered(wav'.data, captured') /\ Accounted(wav'.data, captured', lost')
      BY <1>5, <2>6, LoseProperties
    <3>2. rec = "clear" /\ build = "callback"
      BY <1>2, <2>6 DEF Recording
    <3>3. ~fault => lost = {}
      BY <1>6, <2>6
    <3>4. \A i \in 1 .. Len(wav'.data) : wav'.data[i] = Stale => build' = "loop" /\ fault'
      BY <1>5, <2>1, <2>6, <3>1
    <3>5. QED
      BY <1>6, <2>1, <2>2, <2>6, <3>1, <3>2, <3>3, <3>4 DEF Recording
  <2>7. QED
    BY <1>2, <1>14, <2>4, <2>5, <2>6 DEF RecRead, PcmCallback, PcmDies, WriteFails
<1>15. CASE RecCalled
  <2>1. UNCHANGED <<rec, build, dura, captured, lost, wav, fault>> /\ device = "active"
    BY <1>15 DEF RecCalled, CallBack, recorder
  <2>2. rec \in {"sleep", "read"}
    BY <1>1, <2>1 DEF DeviceInv
  <2>3. QED
    BY <1>5, <1>6, <2>1, <2>2 DEF Recording
<1>16. QED
  BY <1>7, <1>8, <1>9, <1>10, <1>11, <1>12, <1>13, <1>14, <1>15 DEF RecordSteps, RecThread

\* Nothing is played yet.
LEMMA RecordPlay == ASSUME AudioInv, RecordSteps PROVE PlayInv'
<1>1. /\ play = "idle" /\ play' = "idle" /\ mode' = mode /\ position' = position
      /\ played' = played /\ TypeOK'
  BY RecordTypeOK DEF RecordSteps, player
<1>2. position = 0 /\ played = <<>> /\ Len(played) = 0
  BY <1>1, EmptySeq DEF AudioInv, PlayInv
<1>3. Len(wav'.data) \in Nat /\ Chunk \in Nat
  BY <1>1, DataTypes, AudioAssumption DEF TypeOK
<1>4. 0 = Smaller(0, Len(wav'.data)) /\ 0 <= Len(wav'.data) + Chunk
  BY <1>3 DEF Smaller
<1>5. QED
  BY <1>1, <1>2, <1>3, <1>4 DEF PlayInv, Smaller

-----------------------------------------------------------------------------
(***************************************************************************)
(* The player.                                                             *)
(***************************************************************************)
LEMMA PlayerTypeOK == ASSUME AudioInv, PlaySteps PROVE TypeOK'
<1> USE DEF AudioInv
<1>1. UNCHANGED recorder /\ position <= Len(wav.data) /\ Chunk \in Nat
  BY AudioAssumption DEF PlaySteps, PlayInv
<1>2. CASE OpenFile \/ NoFile \/ CheckFormat \/ NoMemory \/ CreateTrack \/ StartTrack
  <2>1. UNCHANGED <<callback, wav, mode, position, played>>
    BY <1>2 DEF OpenFile, NoFile, CheckFormat, NoMemory, CreateTrack, StartTrack, audio
  <2>2. device' \in {"none", "failed", "ready", "active", "stopped"} /\ fault' \in BOOLEAN
    BY <1>2 DEF OpenFile, NoFile, CheckFormat, NoMemory, CreateTrack, StartTrack, audio,
                Create, Start, TypeOK
  <2>3. file' \in {"none", "open", "closed"}
    BY <1>2 DEF OpenFile, NoFile, CheckFormat, NoMemory, CreateTrack, StartTrack, audio, TypeOK
  <2>4. play' \in Playing \cup {"end", "crashed"}
    BY <1>2 DEF OpenFile, NoFile, CheckFormat, NoMemory, CreateTrack, StartTrack, PlayAt, Playing
  <2>5. result' \in {"none", "file_err", "fmt_err", "param_err", "play_err", "play_ok"}
    BY <1>2 DEF OpenFile, NoFile, CheckFormat, NoMemory, CreateTrack, StartTrack, TypeOK
  <2>6. QED
    BY <1>1, <2>1, <2>2, <2>3, <2>4, <2>5 DEF TypeOK, recorder
<1>3. CASE SyncEnd \/ ObtainAgain \/ ObtainError \/ TrackDies \/ StopTrack \/ ClearTrack \/ CloseFile \/ PlayCalled
  <2>1. UNCHANGED <<wav, mode, result, position, played>>
    BY <1>3 DEF SyncEnd, ObtainAgain, ObtainError, TrackDies, StopTrack, ClearTrack, CloseFile, PlayCalled,
                audio, player
  <2>2. device' \in {"none", "failed", "ready", "active", "stopped"}
        /\ fault' \in BOOLEAN /\ callback' \in BOOLEAN
    BY <1>3 DEF SyncEnd, ObtainAgain, ObtainError, TrackDies, StopTrack, ClearTrack, CloseFile, PlayCalled,
                audio, Stop, Release, CallBack, TypeOK
  <2>3. file' \in {"none", "open", "closed"}
    BY <1>3 DEF SyncEnd, ObtainAgain, ObtainError, TrackDies, StopTrack, ClearTrack, CloseFile, PlayCalled,
                audio, TypeOK
  <2>4. play' \in Playing \cup {"end"} \/ play' = play
    BY <1>3 DEF SyncEnd, ObtainAgain, ObtainError, TrackDies, StopTrack, ClearTrack, CloseFile, PlayCalled,
                PlayAt, Playing, player
  <2>5. QED
    BY <1>1, <2>1, <2>2, <2>3, <2>4 DEF TypeOK, recorder
<1>4. CASE ShareMemory
  <2>1. wav.header \in Nat /\ Filled(wav.header) \in Seq(Int) /\ position' \in Nat
    BY <1>1, <1>4, DataTypes, FilledProperties, AdvanceProperties DEF ShareMemory
  <2>2. QED
    BY <1>1, <1>4, <2>1 DEF ShareMemory, PlayAt, TypeOK, recorder, audio, Playing
<1>5. CASE SyncWrite
  <2>1. played \in Seq(Int) /\ BlocksRead(Chunk) \in Seq(Int) /\ position' \in Nat
    BY <1>1, <1>5, BlocksReadProperties, AdvanceProperties DEF SyncWrite, TypeOK
  <2>2. played \o BlocksRead(Chunk) \in Seq(Int)
    BY <2>1, ConcatProperties
  <2>3. QED
    BY <1>1, <1>5, <2>1, <2>2 DEF SyncWrite, TypeOK, recorder, audio
<1>6. CASE Obtain \/ PlayCallback
  <2>1. played \in Seq(Int) /\ Filled(Chunk) \in Seq(Int) /\ position' \in Nat
    BY <1>1, <1>6, FilledProperties, AdvanceProperties DEF Obtain, PlayCallback, TypeOK
  <2>2. played \o Filled(Chunk) \in Seq(Int)
    BY <2>1, ConcatProperties
  <2>3. QED
    <3>1. CASE Obtain
      BY <1>1, <2>1, <2>2, <3>1 DEF Obtain, TypeOK, recorder, audio, Playing
    <3>2. CASE PlayCallback
      <4>1. callback' \in BOOLEAN
        BY <3>2 DEF PlayCallback
      <4>2. UNCHANGED <<device, file, wav, fault, play, mode, result>>
            /\ played' = played \o Filled(Chunk)
        BY <3>2 DEF PlayCallback
      <4>3. QED
        BY <1>1, <2>1, <2>2, <4>1, <4>2 DEF TypeOK, recorder
    <3>3. QED
      BY <1>6, <3>1, <3>2
<1>7. QED
  BY <1>2, <1>3, <1>4, <1>5, <1>6 DEF PlaySteps, PlayThread

LEMMA PlayerDevice == ASSUME AudioInv, PlaySteps PROVE DeviceInv'
<1> USE DEF AudioInv
<1>1. play # "idle" /\ rec' = rec /\ rec \in {"end", "crashed", "elsewhere"}
  BY DEF PlaySteps, recorder, DeviceInv
<1>2. /\ device = "active" => play \in {"loop", "sleep", "stop"}
      /\ callback => mode = "callback" /\ play \in {"sleep", "clear"}
      /\ play \notin {"start", "loop", "sleep", "stop", "clear"} => device = "none" /\ ~callback
      /\ play \in Playing => file = "open"
  BY <1>1 DEF DeviceInv
<1> SUFFICES /\ play' # "idle"
             /\ device' = "active" => play' \in {"loop", "sleep", "stop"}
             /\ callback' => mode' = "callback" /\ play' \in {"sleep", "clear"}
             /\ play' \notin {"start", "loop", "sleep", "stop", "clear"} =>
                   device' = "none" /\ ~callback'
             /\ play' \in Playing => file' = "open"
  BY <1>1 DEF DeviceInv
<1>3. CASE OpenFile \/ NoFile \/ ShareMemory \/ NoMemory
  BY <1>2, <1>3 DEF OpenFile, NoFile, ShareMemory, NoMemory, PlayAt, audio, Playing
<1>format. CASE CheckFormat
  <2>1. device' = "none" /\ ~callback' /\ file = "open" /\ mode' = mode
    BY <1>2, <1>format DEF CheckFormat, Playing
  <2>2. CASE ~wav.valid
    BY <1>format, <2>1, <2>2 DEF CheckFormat, Playing
  <2>3. CASE wav.valid
    BY <1>format, <2>1, <2>3 DEF CheckFormat, Playing
  <2>4. QED
    BY <2>2, <2>3
<1>4. CASE CreateTrack \/ StartTrack
  BY <1>2, <1>4 DEF CreateTrack, StartTrack, Create, Start, Playing
<1>5. CASE SyncWrite \/ SyncEnd \/ Obtain \/ ObtainAgain \/ ObtainError
  BY <1>2, <1>5 DEF SyncWrite, SyncEnd, Obtain, ObtainAgain, ObtainError, PlayAt, audio, Playing
<1>6. CASE StopTrack \/ ClearTrack \/ CloseFile
  BY <1>2, <1>6 DEF StopTrack, ClearTrack, CloseFile, PlayAt, Stop, Release, Playing
<1>7. CASE TrackDies
  BY <1>2, <1>7 DEF TrackDies, player, Playing
<1>8. CASE PlayCalled
  <2>1. play = "sleep"
    BY <1>2, <1>8 DEF PlayCalled, CallBack, PlayInv
  <2>2. QED
    BY <1>2, <1>8, <2>1 DEF PlayCalled, CallBack, player, Playing
<1>9. CASE PlayCallback
  BY <1>1, <1>2, <1>9 DEF PlayCallback, Playing
<1>10. QED
  BY <1>3, <1>format, <1>4, <1>5, <1>6, <1>7, <1>8, <1>9 DEF PlaySteps, PlayThread

\* The recorder's file stays as it is.
LEMMA PlayerRecord == ASSUME AudioInv, PlaySteps PROVE RecordInv'
<1>1. /\ rec' = rec /\ build' = build /\ captured' = captured /\ wav' = wav /\ dura' = dura
      /\ rec \in {"end", "crashed", "elsewhere"} /\ play' # "idle"
  <2>1. UNCHANGED recorder /\ rec \in {"end", "crashed", "elsewhere"}
    BY DEF PlaySteps, AudioInv, DeviceInv
  <2>2. wav' = wav
    BY DEF PlaySteps, PlayThread, OpenFile, NoFile, CheckFormat, ShareMemory, NoMemory, CreateTrack,
           StartTrack, SyncWrite, SyncEnd, Obtain, ObtainAgain, ObtainError, StopTrack, ClearTrack, CloseFile,
           TrackDies, PlayCalled, PlayCallback, audio
  <2>3. play' # "idle"
    BY DEF PlaySteps, PlayThread, OpenFile, NoFile, CheckFormat, ShareMemory, NoMemory, CreateTrack,
           StartTrack, SyncWrite, SyncEnd, Obtain, ObtainAgain, ObtainError, StopTrack, ClearTrack, CloseFile,
           TrackDies, PlayCalled, PlayCallback, player, PlayAt
  <2>4. QED
    BY <2>1, <2>2, <2>3 DEF recorder
<1>2. QED
  BY <1>1 DEF AudioInv, RecordInv, RecordedInOrder, Recording

\* The track gets the buffer that was filled from where it is in the file.
LEMMA GiveFilled ==
    ASSUME AudioInv, position = Smaller(Len(played), Len(wav.data)), Advance(Chunk),
           played' = played \o Filled(Chunk), wav' = wav
    PROVE  /\ Len(played') = Len(played) + Chunk
           /\ position' \in Nat /\ position' <= Len(wav.data)
           /\ position' = Smaller(Len(played'), Len(wav.data))
           /\ \A i \in 1 .. Len(played') :
                 played'[i] = IF i <= Len(wav.data) THEN wav.data[i] ELSE Stale
<1> USE DEF AudioInv
<1>1. /\ position <= Len(wav.data) /\ Chunk \in Nat /\ position \in Nat
      /\ Len(played) \in Nat /\ Len(wav.data) \in Nat /\ played \in Seq(Int)
  BY AudioAssumption, DataTypes DEF PlayInv, TypeOK
<1>2. /\ Filled(Chunk) \in Seq(Int) /\ Len(Filled(Chunk)) = Chunk
      /\ \A i \in 1 .. Chunk : Filled(Chunk)[i] = IF position + i <= Len(wav.data)
                                                 THEN wav.data[position + i] ELSE Stale
  BY <1>1, FilledProperties
<1>3. /\ Len(played') = Len(played) + Chunk
      /\ \A i \in 1 .. Len(played) + Chunk :
            played'[i] = IF i <= Len(played) THEN played[i] ELSE Filled(Chunk)[i - Len(played)]
  <2> DEFINE buffer == Filled(Chunk)
  <2>1. buffer \in Seq(Int) /\ Len(buffer) = Chunk /\ played' = played \o buffer
    BY <1>2
  <2> HIDE DEF buffer
  <2>2. /\ Len(played \o buffer) = Len(played) + Len(buffer)
        /\ \A i \in 1 .. Len(played) + Len(buffer) :
              (played \o buffer)[i] = IF i <= Len(played) THEN played[i] ELSE buffer[i - Len(played)]
    BY <1>1, <2>1, ConcatProperties
  <2>3. /\ Len(played') = Len(played) + Chunk
        /\ \A i \in 1 .. Len(played) + Chunk :
              played'[i] = IF i <= Len(played) THEN played[i] ELSE buffer[i - Len(played)]
    BY <2>1, <2>2
  <2>4. QED
    BY <2>3 DEF buffer
<1>4. position' \in Nat /\ position' <= Len(wav.data)
      /\ position' = Smaller(position + Chunk, Len(wav.data))
  BY <1>1, AdvanceProperties
<1>5. position' = Smaller(Len(played'), Len(wav.data))
  BY <1>1, <1>3, <1>4 DEF Smaller
<1>6. ASSUME NEW i \in 1 .. Len(played')
      PROVE  played'[i] = IF i <= Len(wav.data) THEN wav.data[i] ELSE Stale
  <2>1. CASE i <= Len(played)
    BY <1>1, <1>3, <2>1 DEF PlayInv
  <2>2. CASE ~(i <= Len(played))
    <3> DEFINE j == i - Len(played)
    <3>1. j \in 1 .. Chunk /\ played'[i] = Filled(Chunk)[j]
      BY <1>1, <1>3, <2>2
    <3>2. /\ position + j <= Len(wav.data) <=> i <= Len(wav.data)
          /\ i <= Len(wav.data) => position + j = i
      BY <1>1, <1>3, <2>2 DEF Smaller
    <3> HIDE DEF j
    <3>3. QED
      BY <1>2, <3>1, <3>2
  <2>3. QED
    BY <2>1, <2>2
<1>7. QED
  BY <1>3, <1>4, <1>5, <1>6

LEMMA ShareMemoryPlay == ASSUME AudioInv, ShareMemory PROVE PlayInv'
<1> USE DEF AudioInv
<1>1. /\ position = 0 /\ played = <<>> /\ mode = "shared" /\ play = "share"
  BY DEF ShareMemory, PlayAt, PlayInv
<1>2. wav.header \in Nat /\ position <= Len(wav.data) /\ Len(wav.data) \in Nat
  BY DataTypes DEF PlayInv
<1>3. /\ Len(Filled(wav.header)) = wav.header
      /\ \A i \in 1 .. wav.header :
            Filled(wav.header)[i] = IF position + i <= Len(wav.data)
                                    THEN wav.data[position + i] ELSE Stale
  BY <1>2, FilledProperties
<1>4. \A i \in 1 .. wav.header : position + i = i
  BY <1>1, <1>2
<1>5. /\ played' = Filled(wav.header) /\ wav' = wav /\ mode' = mode /\ play' = "create"
      /\ Advance(wav.header)
  BY DEF ShareMemory, PlayAt, audio
<1>6. position' <= Len(wav.data)
  BY <1>2, <1>5, AdvanceProperties
<1>7. QED
  BY <1>1, <1>3, <1>4, <1>5, <1>6 DEF PlayInv

LEMMA SyncWritePlay == ASSUME AudioInv, SyncWrite PROVE PlayInv'
<1> USE DEF AudioInv
<1>1. /\ position <= Len(wav.data) /\ Chunk \in Nat /\ position \in Nat
      /\ Len(played) \in Nat /\ Len(wav.data) \in Nat /\ played \in Seq(Int)
  BY AudioAssumption, DataTypes DEF PlayInv, TypeOK
<1>2. /\ play = "loop" /\ mode = "sync" /\ play' = play /\ mode' = mode /\ wav' = wav
      /\ device' = device /\ fault' = fault /\ Advance(Chunk)
  BY DEF SyncWrite, audio
<1>3. /\ Len(played) <= position
      /\ device = "active" => Len(played) = position
      /\ ~fault => device = "active"
  BY <1>2 DEF PlayInv
<1>4. /\ position' = position + Smaller(Chunk, Rest) /\ position' <= Len(wav.data)
      /\ Smaller(Chunk, Rest) \in Nat
  BY <1>1, <1>2, AdvanceProperties, BlocksReadProperties
<1>5. CASE device # "active"
  <2>1. played' = played
    BY <1>5 DEF SyncWrite
  <2>2. Len(played) <= position'
    BY <1>1, <1>3, <1>4
  <2>3. QED
    BY <1>2, <1>3, <1>4, <1>5, <2>1, <2>2 DEF PlayInv
<1>6. CASE device = "active"
  <2> DEFINE read == BlocksRead(Chunk)
             k    == Smaller(Chunk, Rest)
  <2>1. played' = played \o read
    BY <1>6 DEF SyncWrite
  <2>2. /\ read \in Seq(Int) /\ Len(read) = k
        /\ \A i \in 1 .. k : read[i] = wav.data[position + i]
    BY <1>1, BlocksReadProperties
  <2>3. k \in Nat /\ position' = position + k
    BY <1>4
  <2> HIDE DEF read, k
  <2>4. /\ Len(played') = Len(played) + k
        /\ \A i \in 1 .. Len(played) + k :
              played'[i] = IF i <= Len(played) THEN played[i] ELSE read[i - Len(played)]
    BY <1>1, <2>1, <2>2, ConcatProperties
  <2>5. Len(played') = position'
    BY <1>3, <1>6, <2>3, <2>4
  <2>6. ASSUME NEW i \in 1 .. Len(played')
        PROVE  played'[i] = IF i <= Len(wav.data) THEN wav.data[i] ELSE Stale
    <3>1. CASE i <= Len(played)
      BY <1>1, <2>3, <2>4, <3>1 DEF PlayInv
    <3>2. CASE ~(i <= Len(played))
      <4> DEFINE j == i - Len(played)
      <4>1. j \in 1 .. k /\ played'[i] = read[j] /\ position + j = i /\ i <= Len(wav.data)
        <5>1. i \in Nat /\ i > Len(played) /\ i <= Len(played) + k
          BY <1>1, <2>3, <2>4, <3>2
        <5>2. Len(played) = position
          BY <1>3, <1>6
        <5>3. i <= Len(wav.data)
          BY <1>1, <1>4, <2>3, <5>1, <5>2
        <5>4. played'[i] = read[j]
          BY <1>1, <2>3, <2>4, <5>1
        <5>5. QED
          BY <1>1, <2>3, <5>1, <5>2, <5>3, <5>4
      <4> HIDE DEF j
      <4>2. QED
        BY <2>2, <4>1
    <3>3. QED
      BY <3>1, <3>2
  <2>7. QED
    BY <1>2, <1>4, <1>6, <2>5, <2>6 DEF PlayInv
<1>7. QED
  BY <1>5, <1>6

LEMMA ObtainPlay == ASSUME AudioInv, Obtain PROVE PlayInv'
<1> USE DEF AudioInv
<1>1. /\ position <= Len(wav.data) /\ Chunk \in Nat \ {0} /\ position \in Nat
      /\ Len(played) \in Nat /\ Len(wav.data) \in Nat
  BY AudioAssumption, DataTypes DEF PlayInv, TypeOK
<1>2. /\ play = "loop" /\ mode = "obtain" /\ mode' = mode /\ wav' = wav /\ Advance(Chunk)
      /\ play' = IF Rest < Chunk THEN "stop" ELSE "loop"
      /\ played' = played \o Filled(Chunk)
  BY DEF Obtain, audio
<1>3. Len(played) = position /\ position = Smaller(Len(played), Len(wav.data))
  BY <1>1, <1>2 DEF PlayInv, Smaller
<1>4. /\ Len(played') = Len(played) + Chunk
      /\ position' \in Nat /\ position' <= Len(wav.data)
      /\ position' = Smaller(Len(played'), Len(wav.data))
      /\ \A i \in 1 .. Len(played') :
            played'[i] = IF i <= Len(wav.data) THEN wav.data[i] ELSE Stale
  BY <1>2, <1>3, GiveFilled
<1>5. /\ Len(played') <= Len(wav.data) + Chunk
      /\ play' = "loop" => Len(played') = position'
      /\ play' = "stop" => Len(played') >= Len(wav.data)
  <2>1. Len(played') = position + Chunk
    BY <1>3, <1>4
  <2>2. CASE Len(wav.data) - position < Chunk
    BY <1>1, <1>2, <2>1, <2>2 DEF Rest
  <2>3. CASE ~(Len(wav.data) - position < Chunk)
    <3>1. position' = position + Chunk
      BY <1>1, <1>4, <2>1, <2>3 DEF Smaller
    <3>2. play' = "loop"
      BY <1>2, <2>3 DEF Rest
    <3>3. QED
      BY <1>1, <2>1, <3>1, <3>2
  <2>4. QED
    BY <2>2, <2>3
<1>6. play' \in {"loop", "stop"}
  BY <1>2
<1>7. QED
  BY <1>2, <1>4, <1>5, <1>6 DEF PlayInv, AllGiven

LEMMA PlayCallbackPlay == ASSUME AudioInv, play # "idle", PlayCallback PROVE PlayInv'
<1> USE DEF AudioInv
<1>1. mode = "callback" /\ play \in {"sleep", "clear"} /\ play' = play /\ mode' = mode
      /\ wav' = wav /\ Advance(Chunk) /\ played' = played \o Filled(Chunk)
  BY DEF PlayCallback, DeviceInv
<1>2. position = Smaller(Len(played), Len(wav.data))
  BY <1>1 DEF PlayInv
<1>3. /\ position' \in Nat /\ position' <= Len(wav.data)
      /\ position' = Smaller(Len(played'), Len(wav.data))
      /\ \A i \in 1 .. Len(played') :
            played'[i] = IF i <= Len(wav.data) THEN wav.data[i] ELSE Stale
  BY <1>1, <1>2, GiveFilled
<1>4. QED
  BY <1>1, <1>3 DEF PlayInv, AllGiven

LEMMA PlayerPlay == ASSUME AudioInv, PlaySteps PROVE PlayInv'
<1> USE DEF AudioInv
<1>1. /\ Len(wav.data) \in Nat /\ Len(played) \in Nat /\ position \in Nat
      /\ play # "idle" /\ mode \in Modes
  BY DataTypes DEF PlaySteps, TypeOK
<1>2. CASE OpenFile \/ NoFile
  BY <1>2 DEF OpenFile, NoFile, PlayAt, PlayInv, audio
<1>3. CASE CheckFormat
  <2>1. /\ wav' = wav /\ mode' = mode /\ position' = position /\ played' = played
        /\ position = 0 /\ played = <<>> /\ fault' = fault
    BY <1>3 DEF CheckFormat, PlayInv
  <2>2. \/ play' = "end" /\ result' = "fmt_err"
        \/ play' = "close" /\ result' = "param_err"
        \/ play' = "share" /\ mode = "shared"
        \/ play' = "create" /\ mode \notin {"shared", "unknown"}
    BY <1>3 DEF CheckFormat
  <2>3. QED
    BY <2>1, <2>2 DEF PlayInv
<1>4. CASE NoMemory
  BY <1>4 DEF NoMemory, PlayAt, PlayInv, audio
<1>5. CASE CreateTrack
  <2>1. /\ wav' = wav /\ mode' = mode /\ position' = position /\ played' = played
        /\ play = "create" /\ fault' = fault
        /\ \/ play' = "clear" /\ result' = "play_err"
           \/ play' = "start"
    BY <1>5 DEF CreateTrack
  <2>2. QED
    BY <2>1 DEF PlayInv
<1>6. CASE StartTrack
  <2>1. /\ wav' = wav /\ mode' = mode /\ position' = position /\ played' = played
        /\ play = "start" /\ (device' = "active" \/ fault')
    BY <1>6 DEF StartTrack, Start
  <2>2. CASE mode \in {"callback", "shared"}
    BY <1>6, <2>1, <2>2 DEF StartTrack, PlayInv
  <2>3. CASE mode \notin {"callback", "shared"}
    <3>1. play' = "loop"
      BY <1>6, <2>3 DEF StartTrack
    <3>2. position = 0 /\ played = <<>> /\ Len(played) = 0
      BY <2>1, <2>3, EmptySeq DEF PlayInv
    <3>3. mode \in {"sync", "obtain"}
      BY <1>1, <2>1, <2>3 DEF PlayInv, Modes
    <3>4. QED
      BY <1>1, <2>1, <2>3, <3>1, <3>2, <3>3 DEF PlayInv
  <2>4. QED
    BY <2>2, <2>3
<1>7. CASE SyncEnd
  <2>1. /\ wav' = wav /\ mode' = mode /\ position' = position /\ played' = played
        /\ play = "loop" /\ play' = "stop" /\ mode = "sync" /\ Rest = 0 /\ fault' = fault
    BY <1>7 DEF SyncEnd, PlayAt, audio
  <2>2. ~fault => Len(played) >= Len(wav.data)
    BY <1>1, <2>1 DEF PlayInv, Rest
  <2>3. QED
    BY <2>1, <2>2 DEF PlayInv, AllGiven
<1>8. CASE ObtainError
  BY <1>8 DEF ObtainError, PlayAt, PlayInv
<1>again. CASE ObtainAgain
  BY <1>again DEF ObtainAgain, PlayAt, PlayInv, audio, AllGiven
<1>9. CASE TrackDies
  BY <1>9 DEF TrackDies, PlayInv, player
<1>10. CASE StopTrack
  <2>1. /\ wav' = wav /\ mode' = mode /\ position' = position /\ played' = played
        /\ play \in {"sleep", "stop"} /\ play' = "clear" /\ result' = result /\ fault' = fault
    BY <1>10 DEF StopTrack
  <2>2. play = "sleep" => AllGiven
    BY DEF PlayInv, AllGiven
  <2>3. AllGiven' <=> AllGiven
    BY <2>1 DEF AllGiven
  <2>4. QED
    BY <2>1, <2>2, <2>3 DEF PlayInv
<1>11. CASE ClearTrack \/ CloseFile
  <2>1. /\ wav' = wav /\ mode' = mode /\ position' = position /\ played' = played
        /\ result' = result /\ fault' = fault
        /\ \/ play = "clear" /\ play' = "close"
           \/ play = "close" /\ play' = "end"
    BY <1>11 DEF ClearTrack, CloseFile, PlayAt
  <2>2. AllGiven' <=> AllGiven
    BY <2>1 DEF AllGiven
  <2>3. QED
    BY <2>1, <2>2 DEF PlayInv
<1>12. CASE PlayCalled
  <2>1. /\ wav' = wav /\ mode' = mode /\ position' = position /\ played' = played
        /\ play' = play /\ result' = result /\ fault' = fault /\ mode = "callback"
        /\ device' = device
    BY <1>12 DEF PlayCalled, player
  <2>2. QED
    BY <2>1 DEF PlayInv, AllGiven
<1>13. QED
  BY <1>1, <1>2, <1>3, <1>4, <1>5, <1>6, <1>7, <1>8, <1>again, <1>9, <1>10, <1>11,
     <1>12, ShareMemoryPlay, SyncWritePlay, ObtainPlay, PlayCallbackPlay DEF PlaySteps, PlayThread

-----------------------------------------------------------------------------
LEMMA PlayBegins == ASSUME AudioInv, Play PROVE AudioInv'
<1> USE DEF AudioInv
<1>1. /\ play = "idle" /\ play' = "open" /\ rec \in {"end", "crashed", "elsewhere"}
      /\ file' = "none" /\ fault' = FALSE
      /\ UNCHANGED <<device, callback, wav, recorder, mode, result, position, played>>
  BY DEF Play, PlayAt, RecOver
<1>2. device = "none" /\ ~callback
  BY <1>1 DEF DeviceInv, Recording
<1>3. TypeOK'
  <2>1. /\ UNCHANGED <<device, callback, wav, rec, build, dura, captured, lost>>
        /\ UNCHANGED <<mode, result, position, played>>
    BY <1>1 DEF recorder
  <2>2. play' \in {"idle", "open", "end", "crashed"} /\ file' \in {"none", "open", "closed"}
        /\ fault' \in BOOLEAN
    BY <1>1
  <2>3. QED
    BY <2>1, <2>2 DEF TypeOK
<1>4. DeviceInv'
  BY <1>1, <1>2 DEF DeviceInv, Playing, recorder
<1>5. RecordInv'
  BY <1>1, <1>2 DEF RecordInv, RecordedInOrder, Recording, recorder
<1>6. PlayInv'
  BY <1>1 DEF PlayInv
<1>7. QED
  BY <1>3, <1>4, <1>5, <1>6

LEMMA NextAudioInv == AudioInv /\ [Next]_vars => AudioInv'
<1> SUFFICES ASSUME AudioInv, [Next]_vars PROVE AudioInv'
  OBVIOUS
<1>1. CASE RecordSteps
  BY <1>1, RecordTypeOK, RecordDevice, RecordRecord, RecordPlay DEF AudioInv
<1>2. CASE PlaySteps
  BY <1>2, PlayerTypeOK, PlayerDevice, PlayerRecord, PlayerPlay DEF AudioInv
<1>3. CASE UNCHANGED vars
  <2>1. UNCHANGED <<device, callback, file, wav, fault, rec, build, dura, captured, lost,
                    play, mode, result, position, played>>
    BY <1>3 DEF vars, audio, recorder, player
  <2>2. TypeOK' /\ DeviceInv'
    BY <2>1 DEF AudioInv, TypeOK, DeviceInv
  <2>3. RecordInv'
    BY <2>1 DEF AudioInv, RecordInv, RecordedInOrder
  <2>4. PlayInv'
    BY <2>1 DEF AudioInv, PlayInv, AllGiven
  <2>5. QED
    BY <2>2, <2>3, <2>4 DEF AudioInv
<1>4. QED
  BY <1>1, <1>2, <1>3, PlayBegins DEF Next, Over

LEMMA AudioInvariance == Spec => []AudioInv
  BY InitAudioInv, NextAudioInv, PTL DEF Spec

(***************************************************************************)
(* CallbackHasFile: no callback of recorder or player begins without its   *)
(* FILE, and none of the player goes on when play_thread() has closed it.  *)
(***************************************************************************)
THEOREM FileThere == Spec => []CallbackHasFile
<1>1. AudioInv => CallbackHasFile
  BY DEF AudioInv, DeviceInv, CallbackHasFile, Recording, Playing, TypeOK
<1>2. QED
  BY <1>1, AudioInvariance, PTL

(***************************************************************************)
(* RecordedInOrder: whatever the length of the recording and whatever      *)
(* fails, the file holds blocks that were captured, in order; a call has   *)
(* lost the others.  If no call failed, the only one missing can be that   *)
(* of a callback that stop() left in progress.                             *)
(***************************************************************************)
THEOREM Recorded == Spec => []RecordedInOrder
<1>1. AudioInv => RecordedInOrder
  BY DEF AudioInv, RecordInv
<1>2. QED
  BY <1>1, AudioInvariance, PTL

(***************************************************************************)
(* PlayedInOrder: whatever the file, the header and the size of a buffer,  *)
(* the track is given the file in order and no more than each way of       *)
(* giving allows; and all of it, when play_thread() says so and nothing    *)
(* failed behind its back.                                                 *)
(***************************************************************************)
THEOREM Played == Spec => []PlayedInOrder
<1>1. ASSUME AudioInv PROVE PlayedInOrder
  <2>1. Len(wav.data) \in Nat /\ Len(played) \in Nat /\ position \in Nat
    BY <1>1, DataTypes DEF AudioInv
  <2>2. mode = "sync" => Len(played) <= Len(wav.data)
    BY <1>1, <2>1 DEF AudioInv, PlayInv
  <2>3. QED
    BY <1>1, <2>2 DEF AudioInv, PlayInv, PlayedInOrder, AllGiven
<1>2. QED
  BY <1>1, AudioInvariance, PTL
=============================================================================

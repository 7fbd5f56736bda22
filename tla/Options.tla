------------------------------ MODULE Options ------------------------------
(***************************************************************************)
(* The command line of MediaCodecDemo.cpp: numbers are read as long and    *)
(* kept in 32 bits, multiplied by a unit on the way.                       *)
(***************************************************************************)
EXTENDS Integers, Sequences

CONSTANTS Args,                       \* the options there are
          CommandLines,               \* the sequences of them that are tried
          Word,                       \* 2^32
          Mega,                       \* 1000000
          kMinBitRate, kMaxBitRate,
          DefaultWidth, DefaultHeight \* 1280 and 720

ASSUME OptionsAssumption ==
    /\ CommandLines \subseteq Seq(Args) /\ Word \in Nat /\ Mega \in Nat
    /\ {kMinBitRate, kMaxBitRate, 4 * Mega, DefaultWidth, DefaultHeight} \subseteq 1 .. Word - 1
    /\ 4 * Mega \in kMinBitRate .. kMaxBitRate
    /\ \A a \in Args :
        /\ a.opt = "size" => a.width \in Int /\ a.height \in Int
        /\ a.opt = "bit-rate" => a.value \in Int

VARIABLES argv,         \* the options of the command line
          optind,       \* the next one
          gVideoWidth, gVideoHeight, gBitRate

options == <<argv, optind, gVideoWidth, gVideoHeight, gBitRate>>

OptionsInit ==
    /\ argv \in CommandLines /\ optind = 1
    /\ gVideoWidth = 0 /\ gVideoHeight = 0 /\ gBitRate = 4 * Mega

Truncate(n) == n % Word

\* "--size" with two numbers, "--bit-rate" with a number and a unit; anything
\* else that they are given is malformed.
Width(a)  == Truncate(a.width)
Height(a) == Truncate(a.height)
Asked(a)  == IF a.unit = "M" THEN a.value * Mega ELSE a.value
Rate(a)   == Truncate(Asked(a))

InRange(rate) == kMinBitRate <= rate /\ rate <= kMaxBitRate

Accepted(a) ==
    \/ a.opt = "other"
    \/ a.opt = "size" /\ Width(a) # 0 /\ Height(a) # 0
    \/ a.opt = "bit-rate" /\ InRange(Rate(a))

\* Mutation of Take: a second size leaves the height as it is.
TakeFirstHeight(a) ==
    /\ Accepted(a)
    /\ optind' = optind + 1
    /\ IF a.opt = "size"
       THEN /\ gVideoWidth' = Width(a)
            /\ gVideoHeight' = IF gVideoHeight = 0 THEN Height(a) ELSE gVideoHeight
       ELSE UNCHANGED <<gVideoWidth, gVideoHeight>>
    /\ gBitRate' = IF a.opt = "bit-rate" THEN Rate(a) ELSE gBitRate
    /\ UNCHANGED argv

\* An option that main() takes.
Take(a) ==
    /\ Accepted(a)
    /\ optind' = optind + 1
    /\ IF a.opt = "size"
       THEN gVideoWidth' = Width(a) /\ gVideoHeight' = Height(a)
       ELSE UNCHANGED <<gVideoWidth, gVideoHeight>>
    /\ gBitRate' = IF a.opt = "bit-rate" THEN Rate(a) ELSE gBitRate
    /\ UNCHANGED argv

\* videoEncode(): a size that was not given
UseDefaults ==
    /\ gVideoWidth' = IF gVideoWidth = 0 THEN DefaultWidth ELSE gVideoWidth
    /\ gVideoHeight' = IF gVideoHeight = 0 THEN DefaultHeight ELSE gVideoHeight
    /\ UNCHANGED <<argv, optind, gBitRate>>

\* gVideoWidth * gVideoHeight * 3 >> 1, which divides the size of the file
FrameSize == Truncate(gVideoWidth * gVideoHeight * 3) \div 2

\* What was asked last, or else the default.
LastAsked(opt, default, get(_)) ==
    LET given == {i \in DOMAIN argv : argv[i].opt = opt}
    IN  IF given = {} THEN default
        ELSE get(argv[CHOOSE i \in given : \A j \in given : j <= i])
=============================================================================

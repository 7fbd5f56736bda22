----------------------------- MODULE MCEncoder -----------------------------
(***************************************************************************)
(* Encoder for TLC.  A word has 64 values and a mega is 4.                 *)
(***************************************************************************)
EXTENDS Encoder

SizeOption(w, h) == [opt |-> "size", width |-> w, height |-> h]
RateOption(n, u) == [opt |-> "bit-rate", value |-> n, unit |-> u]

\* Command lines that an encoder runs with: the defaults; a size and a rate that are
\* given twice, the first size right only in 32 bits, the last rate right because
\* its unit overflows.
Encoding ==
    {<<>>,
     <<SizeOption(Word + 2, Word + 3), RateOption(9, ""), [opt |-> "other"],
       SizeOption(4, 1), RateOption(17, "M")>>}

\* Options that end the program, at once or at configure().  Sizes: zero, zero in
\* 32 bits, negative, with a frame that is empty in 32 bits.  Rates: too small, too
\* large, negative.
Ending ==
    {SizeOption(0, 2), SizeOption(2, Word), SizeOption(-1, 2), SizeOption(8, 8),
     RateOption(1, ""), RateOption(11, "M"), RateOption(-1, ""),
     [opt |-> "help"], [opt |-> "malformed"]}

\* Each of these by itself and behind an option that was taken.
MCCommandLines ==
    Encoding \cup UNION {{<<a>>, <<SizeOption(2, 3), a>>, <<RateOption(3, "M"), a>>} : a \in Ending}

MCArgs == UNION {{line[i] : i \in DOMAIN line} : line \in MCCommandLines}
=============================================================================

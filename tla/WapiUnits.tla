----------------------------- MODULE WapiUnits -----------------------------
(***************************************************************************)
(* Frequencies in wireless.c.  A program has them in Hz, as a double; the  *)
(* kernel has them as a struct iw_freq, m * 10^e, and lists those of a     *)
(* device, with the numbers of their channels, in its range.               *)
(***************************************************************************)
EXTENDS Integers

CONSTANTS
  Pow,     \* Pow[e] is pow(10, e)
  MaxExp,  \* bound: the largest exponent
  Plain,   \* 8: up to this exponent a frequency is stored as it is
  Digits   \* 6: beyond, so many digits after the first are

ASSUME ExpAssumption ==
  MaxExp \in Nat /\ Plain \in 0..MaxExp /\ Digits \in 0..Plain
ASSUME PowAssumption ==
  /\ Pow \in [0..MaxExp -> Nat \ {0}] /\ Pow[0] = 1
  /\ \A a, b \in 0..MaxExp : a + b <= MaxExp => Pow[a + b] = Pow[a] * Pow[b]
  /\ \A a, b \in 0..MaxExp : a < b => Pow[a] < Pow[b]

Freqs  == 0..(Pow[MaxExp] - 1)
IwFreq == [m : Nat, e : 0..MaxExp]

Freq2Float(q) == q.m * Pow[q.e]

\* floor(log10(f)).  Of 0 it is -infinity, and any conversion of that to short
\* takes the second branch below.
Log10(f) ==
  IF f = 0 THEN 0 ELSE CHOOSE e \in 0..(MaxExp - 1) : Pow[e] <= f /\ f < Pow[e + 1]

Float2Freq(f) ==
  IF Log10(f) > Plain
    THEN [m |-> (f \div Pow[Log10(f) - Digits]) * Pow[Plain - Digits],
          e |-> Log10(f) - Plain]
    ELSE [m |-> f, e |-> 0]

\* What is left of a frequency that is written as an iw_freq and read again.
Rounded(f) == Freq2Float(Float2Freq(f))

(***************************************************************************)
(* range is a sequence of [freq : IwFreq, i : Nat], i the number of the    *)
(* channel.  Frequencies are compared as numbers, not as encodings.        *)
(***************************************************************************)
NotFound == -2

First(S) == CHOOSE k \in S : \A j \in S : k <= j

\* Mutant: encodings are compared, rounded as wapi_float2freq() does.
Freq2Chan_Encoded(range, f) ==
  LET hits == { k \in DOMAIN range : Float2Freq(Freq2Float(range[k].freq)) = Float2Freq(f) } IN
  IF hits = {} THEN NotFound ELSE range[First(hits)].i

Freq2Chan(range, f) ==
  LET hits == { k \in DOMAIN range : Freq2Float(range[k].freq) = f } IN
  IF hits = {} THEN NotFound ELSE range[First(hits)].i

Chan2Freq(range, c) ==
  LET hits == { k \in DOMAIN range : range[k].i = c } IN
  IF hits = {} THEN NotFound ELSE Freq2Float(range[First(hits)].freq)
=============================================================================

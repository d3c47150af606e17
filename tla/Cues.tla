-------------------------------- MODULE Cues --------------------------------
(* What the node does to the timing of a list of cues, and how it compares two
   lists: ClampCues on machine-made tracks (subtitle/clamp.go), shiftSRT when a
   track is served with an offset (api/offset.go), and Divergence between a
   track and the revision proposed for it (subtitle/divergence.go).  Times are
   integers of any unit; a cue's words stand for its text. *)
EXTENDS Integers, Sequences, FiniteSets

CONSTANTS MaxCueDuration, MinCueDuration, CueGap, MinCueSliver,
          RetimeShift     \* pureRetimeShift

ASSUME CueTimes ==
  /\ {MaxCueDuration, MinCueDuration, CueGap, MinCueSliver, RetimeShift} \subseteq Nat \ {0}
  /\ MinCueSliver <= MinCueDuration /\ CueGap <= MinCueDuration
  /\ MinCueDuration <= MaxCueDuration

Cue(Texts) == [start : Nat, end : Int, text : Texts]

-----------------------------------------------------------------------------
(* ClampCues: a cue's end depends on itself and on the start of the next one. *)

\* Long enough to be read, and no longer than a cue may stay.
Bounded(c) ==
  IF c.end > c.start + MaxCueDuration THEN c.start + MaxCueDuration
  ELSE IF c.end < c.start + MinCueDuration THEN c.start + MinCueDuration
  ELSE c.end

\* A mutant of the next: the gap is insisted on.
Yielding_gap(c, next) ==
  IF Bounded(c) <= next - CueGap THEN Bounded(c) ELSE next - CueGap

\* It makes way for the next: with a gap; else without; and two that start
\* together stay on top of each other.
Yielding(c, next) ==
  IF Bounded(c) <= next - CueGap THEN Bounded(c)
  ELSE IF next - CueGap > c.start THEN next - CueGap
  ELSE IF next > c.start THEN next
  ELSE c.start + MinCueSliver

ClampedEnd(cues, i) ==
  IF i = Len(cues) THEN Bounded(cues[i]) ELSE Yielding(cues[i], cues[i + 1].start)

ClampCues(cues) ==
  [i \in 1..Len(cues) |->
     [start |-> cues[i].start, end |-> ClampedEnd(cues, i), text |-> cues[i].text]]

\* Cues come in the order they start, no two together.
InTime(cues) == \A i \in 1..(Len(cues) - 1) : cues[i].start < cues[i + 1].start

\* What ClampCues is for: each cue is on screen for a moment and not for too
\* long, and is gone when the next one comes.
Readable(cues) ==
  \A i \in 1..Len(cues) :
    /\ cues[i].end > cues[i].start
    /\ cues[i].end <= cues[i].start + MaxCueDuration
    /\ InTime(cues) /\ i < Len(cues) => cues[i].end <= cues[i + 1].start

-----------------------------------------------------------------------------
(* shiftSRT. *)

AtLeast(t, low) == IF t < low THEN low ELSE t

Shifted(cues, by) ==
  [i \in 1..Len(cues) |->
     [start |-> AtLeast(cues[i].start + by, 0),
      end   |-> AtLeast(cues[i].end + by, AtLeast(cues[i].start + by, 0)),
      text  |-> cues[i].text]]

-----------------------------------------------------------------------------
(* Divergence, of two lists of cues whose words are given. *)

HowOften(words, w) == Cardinality({i \in DOMAIN words : words[i] = w})

\* |A n B| of the two multisets of words.
InBoth(a, b) ==
  Cardinality({i \in DOMAIN a : Cardinality({j \in 1..i : a[j] = a[i]}) <= HowOften(b, a[i])})

\* 1 - 2|A n B| / (|A| + |B|), in whole hundredths.
DiceDivergence(a, b) ==
  IF a = << >> /\ b = << >> THEN 0
  ELSE IF a = << >> \/ b = << >> THEN 100
  ELSE (100 * (Len(a) + Len(b)) - 200 * InBoth(a, b)) \div (Len(a) + Len(b))

\* The k-th smallest of the values of d.
Smallest(d, k) ==
  CHOOSE v \in {d[i] : i \in DOMAIN d} :
    /\ Cardinality({i \in DOMAIN d : d[i] < v}) < k
    /\ Cardinality({i \in DOMAIN d : d[i] <= v}) >= k

Distance(t) == IF t < 0 THEN -t ELSE t

\* How far the starts moved: the middle one, and how much they differ.  The
\* middle of an even number is rounded towards zero.
ShiftStats(a, b) ==
  LET n == IF Len(b) < Len(a) THEN Len(b) ELSE Len(a)
      d == [i \in 1..n |-> b[i].start - a[i].start]
      pair == Smallest(d, n \div 2) + Smallest(d, n \div 2 + 1)
  IN IF n = 0 THEN [median |-> 0, spread |-> 0]
     ELSE [median |-> IF n % 2 = 1 THEN Smallest(d, n \div 2 + 1)
                      ELSE IF pair < 0 THEN -((-pair) \div 2) ELSE pair \div 2,
           spread |-> Smallest(d, n) - Smallest(d, 1)]

Divergence(a, b, WordsOf(_)) ==
  LET text  == DiceDivergence(WordsOf(a), WordsOf(b))
      shift == ShiftStats(a, b)
  IN [text |-> text, cues |-> Len(b) - Len(a), median |-> shift.median, spread |-> shift.spread,
      retime |-> /\ text < 2 /\ Len(a) = Len(b)
                 /\ Distance(shift.median) > RetimeShift /\ shift.spread < RetimeShift]
=============================================================================

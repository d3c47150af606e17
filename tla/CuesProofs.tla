----------------------------- MODULE CuesProofs -----------------------------
(***************************************************************************)
(* Theorems of Cues, for lists of any length, any times and any bounds:    *)
(* what the node does to the timing of a subtitle settles at once, can be  *)
(* read, commutes with serving the subtitle at an offset, and a subtitle   *)
(* that comes back shifted is known for what it is.                        *)
(***************************************************************************)
EXTENDS Cues, FiniteSetTheorems, TLAPS

LEMMA Times ==
  /\ MaxCueDuration \in Nat \ {0} /\ MinCueDuration \in Nat \ {0} /\ CueGap \in Nat \ {0}
  /\ MinCueSliver \in Nat \ {0} /\ RetimeShift \in Nat \ {0}
  /\ MinCueSliver <= MinCueDuration /\ CueGap <= MinCueDuration
  /\ MinCueDuration <= MaxCueDuration
  BY CueTimes

-----------------------------------------------------------------------------
(* One cue, and the start of the next. *)

LEMMA BoundedEnds ==
  ASSUME NEW c, c.start \in Int, c.end \in Int
  PROVE  /\ Bounded(c) \in Int
         /\ c.start < Bounded(c) /\ Bounded(c) <= c.start + MaxCueDuration
         /\ c.start + MinCueDuration <= Bounded(c)
  BY Times DEF Bounded

LEMMA YieldingEnds ==
  ASSUME NEW c, c.start \in Int, c.end \in Int, NEW next \in Int
  PROVE  /\ Yielding(c, next) \in Int
         /\ c.start < Yielding(c, next) /\ Yielding(c, next) <= c.start + MaxCueDuration
         /\ c.start < next => Yielding(c, next) <= next
  BY Times, BoundedEnds DEF Yielding

\* What was bounded, or made way, has no further to go.
LEMMA BoundedOnce ==
  ASSUME NEW c, c.start \in Int, c.end \in Int, NEW d, d.start = c.start, d.end = Bounded(c)
  PROVE  Bounded(d) = d.end
  BY Times DEF Bounded

LEMMA YieldingOnce ==
  ASSUME NEW c, c.start \in Int, c.end \in Int, NEW next \in Int,
         NEW d, d.start = c.start, d.end = Yielding(c, next)
  PROVE  Yielding(d, next) = d.end
  BY Times DEF Bounded, Yielding

\* Both move with the cue.
LEMMA BoundedMoves ==
  ASSUME NEW c, c.start \in Int, c.end \in Int, NEW by \in Int,
         NEW d, d.start = c.start + by,
         d.end = IF c.end + by < c.start + by THEN c.start + by ELSE c.end + by
  PROVE  Bounded(d) = Bounded(c) + by
  BY Times DEF Bounded

LEMMA YieldingMoves ==
  ASSUME NEW c, c.start \in Int, c.end \in Int, NEW by \in Int, NEW next \in Int,
         NEW d, d.start = c.start + by,
         d.end = IF c.end + by < c.start + by THEN c.start + by ELSE c.end + by
  PROVE  Yielding(d, next + by) = Yielding(c, next) + by
  <1>1. Bounded(d) = Bounded(c) + by
    BY BoundedMoves
  <1>2. Bounded(c) \in Int
    BY BoundedEnds
  <1> QED
    BY <1>1, <1>2, Times DEF Yielding

-----------------------------------------------------------------------------
(* ClampCues. *)

\* A list is left with as many cues, each with its start and its text.
LEMMA ClampedList ==
  ASSUME NEW Texts, NEW cues \in Seq(Cue(Texts))
  PROVE  /\ ClampCues(cues) \in Seq(Cue(Texts)) /\ Len(ClampCues(cues)) = Len(cues)
         /\ \A i \in 1..Len(cues) :
              ClampCues(cues)[i] = [start |-> cues[i].start, end |-> ClampedEnd(cues, i), text |-> cues[i].text]
  <1>1. Len(cues) \in Nat /\ \A i \in 1..Len(cues) : cues[i] \in Cue(Texts)
    OBVIOUS
  <1>2. ASSUME NEW i \in 1..Len(cues)
        PROVE  ClampedEnd(cues, i) \in Int /\ cues[i].start \in Nat /\ cues[i].text \in Texts
    <2>1. cues[i].start \in Nat /\ cues[i].end \in Int /\ cues[i].text \in Texts
      BY <1>1 DEF Cue
    <2>2. CASE i = Len(cues)
      <3>1. Bounded(cues[i]) \in Int
        BY <2>1, BoundedEnds
      <3> QED
        BY <2>1, <2>2, <3>1 DEF ClampedEnd
    <2>3. CASE i # Len(cues)
      <3>1. cues[i + 1] \in Cue(Texts)
        BY <1>1, <2>3
      <3>2. cues[i + 1].start \in Int
        BY <3>1 DEF Cue
      <3>3. ASSUME NEW c, c = cues[i], NEW next, next = cues[i + 1].start
            PROVE  Yielding(c, next) \in Int
        <4>1. c.start \in Int /\ c.end \in Int /\ next \in Int
          BY <2>1, <3>2, <3>3
        <4> QED
          BY <4>1, YieldingEnds
      <3> QED
        BY <2>1, <2>3, <3>3 DEF ClampedEnd
    <2> QED
      BY <2>2, <2>3
  <1>3. \A i \in 1..Len(cues) :
          [start |-> cues[i].start, end |-> ClampedEnd(cues, i), text |-> cues[i].text] \in Cue(Texts)
    BY <1>2 DEF Cue
  <1> DEFINE put(i) == [start |-> cues[i].start, end |-> ClampedEnd(cues, i), text |-> cues[i].text]
  <1>4. ClampCues(cues) = [i \in 1..Len(cues) |-> put(i)]
    BY DEF ClampCues
  <1>5. \A i \in 1..Len(cues) : put(i) \in Cue(Texts)
    BY <1>3
  <1> HIDE DEF put
  <1>6. /\ ClampCues(cues) \in Seq(Cue(Texts)) /\ Len(ClampCues(cues)) = Len(cues)
        /\ \A i \in 1..Len(cues) : ClampCues(cues)[i] = put(i)
    BY <1>1, <1>4, <1>5
  <1> QED
    BY <1>6 DEF put

LEMMA CueParts ==
  ASSUME NEW Texts, NEW cues \in Seq(Cue(Texts)), NEW i \in 1..Len(cues)
  PROVE  cues[i].start \in Nat /\ cues[i].end \in Int /\ cues[i].text \in Texts
  <1>1. cues[i] \in Cue(Texts)
    OBVIOUS
  <1> QED
    BY <1>1 DEF Cue

\* ClampCues is there for machine-made tracks whose cues stay on screen for
\* minutes, or no time at all: afterwards, whatever the cues were, each is on
\* screen for a moment, for no longer than one may stay, and has gone when the
\* next one comes if the cues come in order.
THEOREM ClampedCuesAreReadable ==
  ASSUME NEW Texts, NEW cues \in Seq(Cue(Texts))
  PROVE  Readable(ClampCues(cues))
  <1> DEFINE out == ClampCues(cues)
  <1>1. /\ Len(out) = Len(cues) /\ Len(cues) \in Nat
        /\ \A i \in 1..Len(cues) :
             /\ out[i].start = cues[i].start
             /\ out[i].end = ClampedEnd(cues, i)
    <2>1. Len(out) = Len(cues) /\ Len(cues) \in Nat
      BY ClampedList
    <2>2. ASSUME NEW i \in 1..Len(cues)
          PROVE  out[i].start = cues[i].start /\ out[i].end = ClampedEnd(cues, i)
      <3>1. out[i] = [start |-> cues[i].start, end |-> ClampedEnd(cues, i), text |-> cues[i].text]
        BY ClampedList
      <3> QED
        BY <3>1
    <2> QED
      BY <2>1, <2>2
  <1> HIDE DEF out
  <1>2. ASSUME NEW i \in 1..Len(out)
        PROVE  /\ out[i].end > out[i].start
               /\ out[i].end <= out[i].start + MaxCueDuration
               /\ InTime(out) /\ i < Len(out) => out[i].end <= out[i + 1].start
    <2>1. i \in 1..Len(cues) /\ out[i].start = cues[i].start /\ out[i].end = ClampedEnd(cues, i)
      BY <1>1
    <2>2. cues[i].start \in Nat /\ cues[i].end \in Int
      BY <2>1, CueParts
    <2>3. CASE i = Len(cues)
      BY <1>1, <2>1, <2>2, <2>3, BoundedEnds DEF ClampedEnd
    <2>4. CASE i # Len(cues)
      <3>1. i + 1 \in 1..Len(cues) /\ i \in 1..(Len(out) - 1)
        BY <1>1, <2>4
      <3>2. cues[i + 1].start \in Nat /\ out[i + 1].start = cues[i + 1].start
        <4>1. cues[i + 1].start \in Nat
          BY <3>1, CueParts
        <4> QED
          BY <1>1, <3>1, <4>1
      <3>3. out[i].end = Yielding(cues[i], cues[i + 1].start)
        BY <2>1, <2>4 DEF ClampedEnd
      <3>4. ASSUME NEW c, c = cues[i], NEW next, next = cues[i + 1].start
            PROVE  /\ Yielding(c, next) \in Int
                   /\ c.start < Yielding(c, next) /\ Yielding(c, next) <= c.start + MaxCueDuration
                   /\ c.start < next => Yielding(c, next) <= next
        <4>1. c.start \in Int /\ c.end \in Int /\ next \in Int
          BY <2>2, <3>2, <3>4
        <4> QED
          BY <4>1, YieldingEnds
      <3>5. InTime(out) => out[i].start < out[i + 1].start
        BY <3>1 DEF InTime
      <3> QED
        BY <2>1, <2>2, <3>2, <3>3, <3>4, <3>5
    <2> QED
      BY <2>3, <2>4
  <1>3. Readable(out)
    BY <1>2 DEF Readable
  <1> QED
    BY <1>3 DEF out

LEMMA SameList ==
  ASSUME NEW S, NEW a \in Seq(S), NEW b \in Seq(S), Len(a) = Len(b),
         \A i \in 1..Len(a) : a[i] = b[i]
  PROVE  a = b
  OBVIOUS

\* moansubs track resanitize may run over a body any number of times, and what
\* ingest stored of an upload is what a backfill makes of it ("Idempotent", "a
\* backfill can never disagree with what a fresh upload would produce"): the
\* timing of a list that was clamped is not changed by clamping it again,
\* whatever cues overlapped, went backwards or started together.
THEOREM ClampCuesSettles ==
  ASSUME NEW Texts, NEW cues \in Seq(Cue(Texts))
  PROVE  ClampCues(ClampCues(cues)) = ClampCues(cues)
  <1> DEFINE once == ClampCues(cues)
             twice == ClampCues(once)
  <1>1. once \in Seq(Cue(Texts)) /\ Len(once) = Len(cues) /\ Len(cues) \in Nat
    BY ClampedList
  <1>2. ASSUME NEW i \in 1..Len(cues)
        PROVE  once[i] = [start |-> cues[i].start, end |-> ClampedEnd(cues, i), text |-> cues[i].text]
    BY ClampedList
  <1> HIDE DEF once
  <1>3. twice \in Seq(Cue(Texts)) /\ Len(twice) = Len(once)
    BY <1>1, ClampedList
  <1>4. ASSUME NEW i \in 1..Len(once)
        PROVE  twice[i] = [start |-> once[i].start, end |-> ClampedEnd(once, i), text |-> once[i].text]
    BY <1>1, ClampedList
  <1> HIDE DEF twice
  <1>5. ASSUME NEW i \in 1..Len(once)
        PROVE  twice[i] = once[i]
    <2>1. i \in 1..Len(cues)
      BY <1>1
    <2>2. cues[i].start \in Int /\ cues[i].end \in Int
      BY <2>1, CueParts
    <2>3. once[i] = [start |-> cues[i].start, end |-> ClampedEnd(cues, i), text |-> cues[i].text]
      BY <1>2, <2>1
    <2>4. once[i].start = cues[i].start /\ once[i].end = ClampedEnd(cues, i)
      BY <2>3
    <2>5. ClampedEnd(once, i) = once[i].end
      <3>1. CASE i = Len(cues)
        <4>1. once[i].end = Bounded(cues[i])
          BY <2>4, <3>1 DEF ClampedEnd
        <4>2. Bounded(once[i]) = once[i].end
          BY <2>2, <2>4, <4>1, BoundedOnce
        <4> QED
          BY <1>1, <3>1, <4>2 DEF ClampedEnd
      <3>2. CASE i # Len(cues)
        <4>1. i + 1 \in 1..Len(cues)
          BY <1>1, <2>1, <3>2
        <4>2. cues[i + 1].start \in Int
          BY <4>1, CueParts
        <4>3. once[i + 1].start = cues[i + 1].start
          <5>1. once[i + 1] = [start |-> cues[i + 1].start, end |-> ClampedEnd(cues, i + 1),
                               text |-> cues[i + 1].text]
            BY <1>2, <4>1
          <5> QED
            BY <5>1
        <4>4. once[i].end = Yielding(cues[i], cues[i + 1].start)
          BY <2>4, <3>2 DEF ClampedEnd
        <4>5. ASSUME NEW c, c = cues[i], NEW next, next = cues[i + 1].start, NEW d, d = once[i]
              PROVE  Yielding(d, next) = d.end
          <5>1. c.start \in Int /\ c.end \in Int /\ next \in Int
            BY <2>2, <4>2, <4>5
          <5>2. d.start = c.start /\ d.end = Yielding(c, next)
            BY <2>4, <4>4, <4>5
          <5> QED
            BY <5>1, <5>2, YieldingOnce
        <4> QED
          BY <1>1, <3>2, <4>3, <4>5 DEF ClampedEnd
      <3> QED
        BY <3>1, <3>2
    <2>6. once[i] = [start |-> once[i].start, end |-> once[i].end, text |-> once[i].text]
      BY <2>3
    <2> QED
      BY <1>4, <2>5, <2>6
  <1>6. twice = once
    BY <1>1, <1>3, <1>5, SameList
  <1> QED
    BY <1>6 DEF once, twice

-----------------------------------------------------------------------------
(* shiftSRT. *)

\* Nothing is held at zero.
Unheld(cues, by) == \A i \in 1..Len(cues) : cues[i].start + by >= 0

\* Served with any offset, a subtitle keeps every cue with its text and its
\* order; none starts before the film or ends before it starts ("clamped rather
\* than dropped").
LEMMA ShiftedList ==
  ASSUME NEW Texts, NEW cues \in Seq(Cue(Texts)), NEW by \in Int
  PROVE  /\ Shifted(cues, by) \in Seq(Cue(Texts)) /\ Len(Shifted(cues, by)) = Len(cues)
         /\ \A i \in 1..Len(cues) :
              Shifted(cues, by)[i] =
                [start |-> AtLeast(cues[i].start + by, 0),
                 end   |-> AtLeast(cues[i].end + by, AtLeast(cues[i].start + by, 0)),
                 text  |-> cues[i].text]
  <1> DEFINE put(i) == [start |-> AtLeast(cues[i].start + by, 0),
                        end   |-> AtLeast(cues[i].end + by, AtLeast(cues[i].start + by, 0)),
                        text  |-> cues[i].text]
  <1>1. Shifted(cues, by) = [i \in 1..Len(cues) |-> put(i)]
    BY DEF Shifted
  <1>2. ASSUME NEW i \in 1..Len(cues)
        PROVE  put(i) \in Cue(Texts)
    <2>1. cues[i].start \in Nat /\ cues[i].end \in Int /\ cues[i].text \in Texts
      BY CueParts
    <2>2. /\ AtLeast(cues[i].start + by, 0) \in Nat
          /\ AtLeast(cues[i].end + by, AtLeast(cues[i].start + by, 0)) \in Int
      BY <2>1 DEF AtLeast
    <2> QED
      BY <2>1, <2>2 DEF Cue
  <1>3. Len(cues) \in Nat
    OBVIOUS
  <1> HIDE DEF put
  <1>4. /\ Shifted(cues, by) \in Seq(Cue(Texts)) /\ Len(Shifted(cues, by)) = Len(cues)
        /\ \A i \in 1..Len(cues) : Shifted(cues, by)[i] = put(i)
    BY <1>1, <1>2, <1>3
  <1> QED
    BY <1>4 DEF put

LEMMA ShiftedCue ==
  ASSUME NEW Texts, NEW cues \in Seq(Cue(Texts)), NEW by \in Int, Unheld(cues, by),
         NEW i \in 1..Len(cues)
  PROVE  /\ Shifted(cues, by)[i].start = cues[i].start + by
         /\ Shifted(cues, by)[i].end =
              IF cues[i].end + by < cues[i].start + by THEN cues[i].start + by ELSE cues[i].end + by
         /\ Shifted(cues, by)[i].text = cues[i].text
  <1>1. cues[i].start \in Nat /\ cues[i].end \in Int
    BY CueParts
  <1>2. AtLeast(cues[i].start + by, 0) = cues[i].start + by
    BY <1>1 DEF AtLeast, Unheld
  <1>3. Shifted(cues, by)[i] =
          [start |-> AtLeast(cues[i].start + by, 0),
           end   |-> AtLeast(cues[i].end + by, AtLeast(cues[i].start + by, 0)),
           text  |-> cues[i].text]
    BY ShiftedList
  <1>4. /\ Shifted(cues, by)[i].start = AtLeast(cues[i].start + by, 0)
        /\ Shifted(cues, by)[i].end = AtLeast(cues[i].end + by, AtLeast(cues[i].start + by, 0))
        /\ Shifted(cues, by)[i].text = cues[i].text
    BY <1>3
  <1>5. Shifted(cues, by)[i].end = AtLeast(cues[i].end + by, cues[i].start + by)
    BY <1>2, <1>4
  <1> QED
    BY <1>2, <1>4, <1>5 DEF AtLeast

\* Clamping and serving with an offset may come in either order, as long as no
\* start is held at zero: what a fresh upload of a served body stores is what
\* serving the stored body would give.
THEOREM ClampingCommutesWithShifting ==
  ASSUME NEW Texts, NEW cues \in Seq(Cue(Texts)), NEW by \in Int, Unheld(cues, by)
  PROVE  ClampCues(Shifted(cues, by)) = Shifted(ClampCues(cues), by)
  <1> DEFINE moved == Shifted(cues, by)
             out == ClampCues(cues)
             first == ClampCues(moved)
             last == Shifted(out, by)
             n == Len(cues)
  <1>1. moved \in Seq(Cue(Texts)) /\ Len(moved) = n /\ n \in Nat
    BY ShiftedList
  <1>2. out \in Seq(Cue(Texts)) /\ Len(out) = n
    BY ClampedList
  <1>3. ASSUME NEW i \in 1..n
        PROVE  /\ cues[i].start \in Nat /\ cues[i].end \in Int
               /\ moved[i].start = cues[i].start + by
               /\ moved[i].end =
                    IF cues[i].end + by < cues[i].start + by THEN cues[i].start + by ELSE cues[i].end + by
               /\ moved[i].text = cues[i].text
    BY ShiftedCue, CueParts
  <1>4. ASSUME NEW i \in 1..n
        PROVE  out[i].start = cues[i].start /\ out[i].end = ClampedEnd(cues, i) /\ out[i].text = cues[i].text
    <2>1. out[i] = [start |-> cues[i].start, end |-> ClampedEnd(cues, i), text |-> cues[i].text]
      BY ClampedList
    <2> QED
      BY <2>1
  <1> HIDE DEF moved, out
  <1>5. Unheld(out, by)
    BY <1>2, <1>4 DEF Unheld
  <1>6. first \in Seq(Cue(Texts)) /\ Len(first) = n
    BY <1>1, ClampedList
  <1>7. last \in Seq(Cue(Texts)) /\ Len(last) = n
    BY <1>2, ShiftedList
  <1>8. ASSUME NEW i \in 1..n
        PROVE  first[i] = [start |-> moved[i].start, end |-> ClampedEnd(moved, i), text |-> moved[i].text]
    BY <1>1, ClampedList
  <1>9. ASSUME NEW i \in 1..n
        PROVE  last[i] = [start |-> AtLeast(out[i].start + by, 0),
                          end   |-> AtLeast(out[i].end + by, AtLeast(out[i].start + by, 0)),
                          text  |-> out[i].text]
    BY <1>2, ShiftedList
  <1> HIDE DEF first, last
  <1>10. ASSUME NEW i \in 1..n
         PROVE  first[i] = last[i]
    <2>1. /\ cues[i].start \in Int /\ cues[i].end \in Int
          /\ moved[i].start = cues[i].start + by
          /\ moved[i].end =
               IF cues[i].end + by < cues[i].start + by THEN cues[i].start + by ELSE cues[i].end + by
          /\ moved[i].text = cues[i].text
      BY <1>3
    <2>2. out[i].start = cues[i].start /\ out[i].end = ClampedEnd(cues, i) /\ out[i].text = cues[i].text
      BY <1>4
    <2>3. /\ ClampedEnd(moved, i) = ClampedEnd(cues, i) + by
          /\ ClampedEnd(cues, i) \in Int /\ cues[i].start < ClampedEnd(cues, i)
      <3>1. CASE i = n
        <4>1. Bounded(moved[i]) = Bounded(cues[i]) + by
          BY <2>1, BoundedMoves
        <4>2. Bounded(cues[i]) \in Int /\ cues[i].start < Bounded(cues[i])
          BY <2>1, BoundedEnds
        <4> QED
          BY <1>1, <3>1, <4>1, <4>2 DEF ClampedEnd
      <3>2. CASE i # n
        <4>1. i + 1 \in 1..n
          BY <1>1, <3>2
        <4>2. cues[i + 1].start \in Int /\ moved[i + 1].start = cues[i + 1].start + by
          BY <1>3, <4>1
        <4>3. ASSUME NEW c, c = cues[i], NEW next, next = cues[i + 1].start, NEW d, d = moved[i]
              PROVE  /\ Yielding(d, next + by) = Yielding(c, next) + by
                     /\ Yielding(c, next) \in Int /\ c.start < Yielding(c, next)
          <5>1. c.start \in Int /\ c.end \in Int /\ next \in Int
            BY <2>1, <4>2, <4>3
          <5>2. /\ d.start = c.start + by
                /\ d.end = IF c.end + by < c.start + by THEN c.start + by ELSE c.end + by
            BY <2>1, <4>3
          <5>3. Yielding(d, next + by) = Yielding(c, next) + by
            BY <5>1, <5>2, YieldingMoves
          <5> QED
            BY <5>1, <5>3, YieldingEnds
        <4>4. /\ Yielding(moved[i], cues[i + 1].start + by) = Yielding(cues[i], cues[i + 1].start) + by
              /\ Yielding(cues[i], cues[i + 1].start) \in Int
              /\ cues[i].start < Yielding(cues[i], cues[i + 1].start)
          BY <4>3
        <4> QED
          BY <1>1, <3>2, <4>2, <4>4 DEF ClampedEnd
      <3> QED
        BY <3>1, <3>2
    <2>4. cues[i].start + by >= 0
      BY DEF Unheld
    <2>5. /\ AtLeast(out[i].start + by, 0) = moved[i].start
          /\ AtLeast(out[i].end + by, moved[i].start) = ClampedEnd(moved, i)
      BY <2>1, <2>2, <2>3, <2>4 DEF AtLeast
    <2> QED
      BY <1>8, <1>9, <2>1, <2>2, <2>5
  <1>11. first = last
    BY <1>6, <1>7, <1>10, SameList
  <1> QED
    BY <1>11 DEF first, last, moved, out

\* So a machine's transcript whose cues have settled is settled still, and can be
\* read, when it comes back as it was served with an offset: the revision that
\* ingest stores of it is what was served, and Divergence compares that.
THEOREM ShiftedTranscriptStaysSettled ==
  ASSUME NEW Texts, NEW cues \in Seq(Cue(Texts)), NEW by \in Int, Unheld(cues, by),
         ClampCues(cues) = cues
  PROVE  /\ ClampCues(Shifted(cues, by)) = Shifted(cues, by)
         /\ Readable(Shifted(cues, by))
  <1>1. ClampCues(Shifted(cues, by)) = Shifted(cues, by)
    BY ClampingCommutesWithShifting
  <1>2. Shifted(cues, by) \in Seq(Cue(Texts))
    BY ShiftedList
  <1> QED
    BY <1>1, <1>2, ClampedCuesAreReadable

-----------------------------------------------------------------------------
(* Divergence. *)

\* Every word of a list is in both, when both are that list.
LEMMA InBothOfOne ==
  ASSUME NEW Words, NEW w \in Seq(Words)
  PROVE  InBoth(w, w) = Len(w)
  <1>1. Len(w) \in Nat /\ DOMAIN w = 1..Len(w)
    OBVIOUS
  <1>2. IsFiniteSet(1..Len(w)) /\ Cardinality(1..Len(w)) = Len(w)
    BY <1>1, FS_Interval
  <1>3. ASSUME NEW i \in 1..Len(w)
        PROVE  Cardinality({j \in 1..i : w[j] = w[i]}) <= HowOften(w, w[i])
    <2>1. {j \in 1..i : w[j] = w[i]} \subseteq {j \in 1..Len(w) : w[j] = w[i]}
      BY <1>1
    <2>2. IsFiniteSet({j \in 1..Len(w) : w[j] = w[i]})
      BY <1>2, FS_Subset
    <2> QED
      BY <1>1, <2>1, <2>2, FS_Subset DEF HowOften
  <1>4. {i \in DOMAIN w : Cardinality({j \in 1..i : w[j] = w[i]}) <= HowOften(w, w[i])} = 1..Len(w)
    BY <1>1, <1>3
  <1> QED
    BY <1>2, <1>4 DEF InBoth

LEMMA NoDivergenceOfOne ==
  ASSUME NEW Words, NEW w \in Seq(Words)
  PROVE  DiceDivergence(w, w) = 0
  <1>1. CASE w = << >>
    BY <1>1 DEF DiceDivergence
  <1>2. CASE w # << >>
    <2>1. Len(w) \in Nat \ {0}
      BY <1>2
    <2>2. DiceDivergence(w, w) = (100 * (Len(w) + Len(w)) - 200 * Len(w)) \div (Len(w) + Len(w))
      BY <1>2, InBothOfOne DEF DiceDivergence
    <2>3. 100 * (Len(w) + Len(w)) - 200 * Len(w) = 0
      BY <2>1
    <2>4. \A n \in Nat \ {0} : 0 \div n = 0
      OBVIOUS
    <2>5. Len(w) + Len(w) \in Nat \ {0}
      BY <2>1
    <2> QED
      BY <2>2, <2>3, <2>4, <2>5
  <1> QED
    BY <1>1, <1>2

\* Of numbers that are all the same, each is the k-th smallest.
LEMMA SmallestOfOne ==
  ASSUME NEW n \in Nat \ {0}, NEW by \in Int, NEW d, d = [i \in 1..n |-> by], NEW k \in 1..n
  PROVE  Smallest(d, k) = by
  <1>1. {d[i] : i \in DOMAIN d} = {by}
    <2>1. 1 \in 1..n
      OBVIOUS
    <2> QED
      BY <2>1
  <1>2. Cardinality({i \in DOMAIN d : d[i] < by}) = 0
    <2>1. {i \in DOMAIN d : d[i] < by} = {}
      OBVIOUS
    <2> QED
      BY <2>1, FS_EmptySet
  <1>3. Cardinality({i \in DOMAIN d : d[i] <= by}) = n
    <2>1. {i \in DOMAIN d : d[i] <= by} = 1..n
      OBVIOUS
    <2>2. Cardinality(1..n) = n
      BY FS_Interval
    <2> QED
      BY <2>1, <2>2
  <1>4. /\ Cardinality({i \in DOMAIN d : d[i] < by}) < k
        /\ Cardinality({i \in DOMAIN d : d[i] <= by}) >= k
    BY <1>2, <1>3
  <1> QED
    BY <1>1, <1>4 DEF Smallest

LEMMA ShiftStatsOfOne ==
  ASSUME NEW a, NEW b, NEW n \in Nat \ {0}, Len(a) = n, Len(b) = n, NEW by \in Int,
         \A i \in 1..n : b[i].start - a[i].start = by
  PROVE  ShiftStats(a, b) = [median |-> by, spread |-> 0]
  <1> DEFINE m == IF Len(b) < Len(a) THEN Len(b) ELSE Len(a)
             d == [i \in 1..m |-> b[i].start - a[i].start]
             pair == Smallest(d, m \div 2) + Smallest(d, m \div 2 + 1)
  <1>1. m = n
    OBVIOUS
  <1>2. ShiftStats(a, b) =
          [median |-> IF m % 2 = 1 THEN Smallest(d, m \div 2 + 1)
                      ELSE IF pair < 0 THEN -((-pair) \div 2) ELSE pair \div 2,
           spread |-> Smallest(d, m) - Smallest(d, 1)]
    BY <1>1 DEF ShiftStats
  <1>3. d = [i \in 1..n |-> by]
    BY <1>1
  <1> HIDE DEF m, d
  <1>4. \A k \in 1..n : Smallest(d, k) = by
    BY <1>3, SmallestOfOne
  <1>5. Smallest(d, n) - Smallest(d, 1) = 0
    BY <1>4
  <1>6. CASE n % 2 = 1
    <2>1. n \div 2 + 1 \in 1..n
      BY <1>6
    <2> QED
      BY <1>1, <1>2, <1>4, <1>5, <1>6, <2>1
  <1>7. CASE n % 2 # 1
    <2>1. n \div 2 \in 1..n /\ n \div 2 + 1 \in 1..n
      BY <1>7
    <2>2. pair = by + by
      BY <1>1, <1>4, <2>1
    <2> HIDE DEF pair
    <2>3. (IF pair < 0 THEN -((-pair) \div 2) ELSE pair \div 2) = by
      BY <2>2
    <2> QED
      BY <1>1, <1>2, <1>5, <1>7, <2>3
  <1> QED
    BY <1>6, <1>7

\* When a subtitle comes back as it was served with an offset, as a revision of
\* itself, nothing of it was lost ("clamped rather than dropped") and Divergence
\* says so: the same number of cues, no word that differs, every start moved by
\* just the offset; so it is known for a retime exactly when the offset is more
\* than counts as one, however long it is.  A start held at zero changes what is
\* said of the timing only.  A machine's transcript is clamped again before it is
\* compared, which changes nothing (ShiftedTranscriptStaysSettled).
THEOREM ShiftIsKnownForARetime ==
  ASSUME NEW Texts, NEW Words, NEW WordsOf(_), NEW cues \in Seq(Cue(Texts)), cues # << >>, NEW by \in Int,
         WordsOf(cues) \in Seq(Words), WordsOf(Shifted(cues, by)) = WordsOf(cues)
  PROVE  LET seen == Divergence(cues, Shifted(cues, by), WordsOf) IN
         /\ seen.text = 0 /\ seen.cues = 0
         /\ Unheld(cues, by) =>
              /\ seen.median = by /\ seen.spread = 0
              /\ seen.retime <=> Distance(by) > RetimeShift
  <1> DEFINE moved == Shifted(cues, by)
             seen == Divergence(cues, moved, WordsOf)
             shift == ShiftStats(cues, moved)
  <1>1. Len(moved) = Len(cues) /\ Len(cues) \in Nat \ {0}
    BY ShiftedList
  <1>2. DiceDivergence(WordsOf(cues), WordsOf(moved)) = 0
    BY NoDivergenceOfOne
  <1>3. seen = [text |-> 0, cues |-> Len(moved) - Len(cues), median |-> shift.median, spread |-> shift.spread,
                retime |-> /\ 0 < 2 /\ Len(cues) = Len(moved)
                           /\ Distance(shift.median) > RetimeShift /\ shift.spread < RetimeShift]
    BY <1>2 DEF Divergence
  <1>4. seen.text = 0 /\ seen.cues = 0
    BY <1>1, <1>3
  <1>5. ASSUME Unheld(cues, by)
        PROVE  /\ seen.median = by /\ seen.spread = 0
               /\ seen.retime <=> Distance(by) > RetimeShift
    <2>1. ASSUME NEW i \in 1..Len(cues)
          PROVE  moved[i].start - cues[i].start = by
      <3>1. moved[i].start = cues[i].start + by /\ cues[i].start \in Nat
        BY <1>5, ShiftedCue, CueParts
      <3> QED
        BY <3>1
    <2> HIDE DEF moved
    <2>2. shift = [median |-> by, spread |-> 0]
      BY <1>1, <2>1, ShiftStatsOfOne
    <2> QED
      BY <1>1, <1>3, <2>2, Times
  <1> QED
    BY <1>4, <1>5
=============================================================================

-------------------------------- MODULE Text --------------------------------
(* A subtitle's text on its way through the node: parsed and sanitised when it
   is uploaded, stored as it is rendered, rendered again by the resanitize
   command, dumped and imported by another node, served with an offset and
   proposed again as a revision (subtitle/subtitle.go, api/subtitles.go ingest,
   api/authorship.go, provenance/strip.go, cmd/track.go, cmd/import.go).

   A file is a sequence of characters, of which these matter: "<" ">" "/" "-",
   " ", "nl" a line's end, "c" a control character, "i" and "s" the letters of
   a kept and of a stripped tag, "x" a digit, "m" the marker a machine leaves,
   and the members of Stamps, each a whole timestamp.  Every other character is
   like "m" to what is modelled here. *)
EXTENDS Cues
LOCAL INSTANCE SequencesExt

CONSTANTS Files,     \* the files uploaded
          Stamps,    \* the timestamps 0, 1, ... of a sequence, the last is 999:59:59,999
          Offsets,   \* offsets a track is served with
          MaxCues,   \* subtitle.MaxCues
          MaxBytes,  \* subtitle.MaxBytes, in characters
          MaxPasses  \* bound: resanitize runs

ASSUME TextConstants ==
  Offsets \subseteq Int \ {0} /\ {MaxCues, MaxBytes, MaxPasses} \subseteq Nat /\ Len(Stamps) > 0

VARIABLES
  stage,    \* of the upload: "file", "refused" or "stored"
  file,     \* what is uploaded
  made,     \* by a machine, as detected or declared
  body,     \* subtitle_tracks.body
  copy,     \* the body of the copy on a node that imported it
  shift,    \* the offset of the last revision proposed, 0 before one
  report,   \* what Divergence said of it
  passes

textVars == <<stage, file, made, body, copy, shift, report, passes>>

-----------------------------------------------------------------------------
(* Sanitising. *)

IsStamp(ch) == \E k \in DOMAIN Stamps : Stamps[k] = ch
Letters == {"i", "s"}
InWord(ch) == ch \in Letters \cup {"x"} \/ IsStamp(ch)
Spaces == {" ", "nl"}

\* The first position from k on that Test does not hold for.
Skip(s, k, Test(_)) ==
  CHOOSE j \in k..(Len(s) + 1) :
    /\ j = Len(s) + 1 \/ ~Test(s[j])
    /\ \A l \in k..(j - 1) : Test(s[l])

TrimSpace(s) ==
  LET there == {k \in DOMAIN s : s[k] \notin Spaces}
  IN IF there = {} THEN << >>
     ELSE SubSeq(s, CHOOSE k \in there : \A l \in there : k <= l,
                    CHOOSE k \in there : \A l \in there : l <= k)

Lines(s) ==
  FoldLeft(LAMBDA lines, ch : IF ch = "nl" THEN Append(lines, << >>)
                              ELSE ReplaceAt(lines, Len(lines), Append(lines[Len(lines)], ch)),
           << << >> >>, s)

JoinLines(lines) ==
  IF lines = << >> THEN << >>
  ELSE FoldLeft(LAMBDA s, line : s \o <<"nl">> \o line, Head(lines), Tail(lines))

DropBlankLines(s) == JoinLines(SelectSeq(Lines(s), LAMBDA line : TrimSpace(line) # << >>))

CollapseControlChars(s) == SelectSeq(s, LAMBDA ch : ch # "c")

\* Where the name of a tag that opens at k starts, and the next character after it.
NameAt(s, k) ==
  Skip(s, IF k < Len(s) /\ s[k + 1] = "/" THEN k + 2 ELSE k + 1, LAMBDA ch : ch \in Spaces)
NameEnd(s, k) == Skip(s, NameAt(s, k), InWord)

\* tagRe: where a tag that opens at k ends, 0 if none does.
TagEnd(s, k) ==
  LET close == Skip(s, NameEnd(s, k), LAMBDA ch : ch # ">")
  IN IF s[k] = "<" /\ NameAt(s, k) <= Len(s) /\ s[NameAt(s, k)] \in Letters /\ close <= Len(s)
     THEN close ELSE 0

\* Tags are replaced by what With makes of their name, the rest stays.
ReplaceTags(s, With(_, _)) ==
  LET from[k \in 1..(Len(s) + 1)] ==
        IF k > Len(s) THEN << >>
        ELSE IF TagEnd(s, k) = 0 THEN <<s[k]>> \o from[k + 1]
        ELSE With(s[k + 1] = "/", SubSeq(s, NameAt(s, k), NameEnd(s, k) - 1)) \o from[TagEnd(s, k) + 1]
  IN from[1]

\* A kept tag is parked between characters nothing else can be.
Parked(closing, name) ==
  IF name # <<"i">> THEN << >>
  ELSE IF closing THEN <<"{", "/", "i", "}">> ELSE <<"{", "i", "}">>

Unparked(s) == [k \in DOMAIN s |-> IF s[k] = "{" THEN "<" ELSE IF s[k] = "}" THEN ">" ELSE s[k]]

\* arrowRe: a run of dashes before ">" is one.
ShortArrows(s) ==
  LET from[k \in 1..(Len(s) + 1)] ==
        IF k > Len(s) THEN << >>
        ELSE LET e == Skip(s, k, LAMBDA ch : ch = "-")
             IN IF e > k + 1 /\ e <= Len(s) /\ s[e] = ">" THEN <<"-", ">">> \o from[e + 1]
                ELSE <<s[k]>> \o from[k + 1]
  IN from[1]

\* A mutant of the next: control characters are dropped when all is done.
SanitizeText_late(s) ==
  LET bare  == ReplaceTags(s, Parked)
      text  == Unparked(SelectSeq(bare, LAMBDA ch : ch # "<"))
  IN CollapseControlChars(TrimSpace(DropBlankLines(ShortArrows(text))))

SanitizeText(s) ==
  LET clean == CollapseControlChars(s)
      bare  == ReplaceTags(clean, Parked)
      text  == Unparked(SelectSeq(bare, LAMBDA ch : ch # "<"))
  IN TrimSpace(DropBlankLines(ShortArrows(text)))

-----------------------------------------------------------------------------
(* Parsing and rendering. *)

\* cueTimeRe, anywhere in a line: the two timestamps around an arrow.
Timings(line) ==
  {<<k, j>> \in (DOMAIN line) \X (DOMAIN line) :
     /\ k < j /\ IsStamp(line[k]) /\ IsStamp(line[j])
     /\ TrimSpace(SubSeq(line, k + 1, j - 1)) = <<"-", "-", ">">>}

Timing(line) == CHOOSE t \in Timings(line) : \A u \in Timings(line) : t[1] <= u[1]

\* seconds: the time of a timestamp.
Seconds(stamp) == (CHOOSE k \in DOMAIN Stamps : Stamps[k] = stamp) - 1

\* The text below the timing line i, to a blank line or the next timing line.
Said(lines, i) ==
  LET next == Skip(lines, i + 1, LAMBDA line : TrimSpace(line) # << >> /\ Timings(line) = {})
  IN SanitizeText(TrimSpace(JoinLines(SubSeq(lines, i + 1, next - 1))))

CueOf(line, text) ==
  LET at == Timing(line)
  IN [start |-> Seconds(line[at[1]]), end |-> Seconds(line[at[2]]), text |-> text]

\* Parse: the timing lines with their texts; what has no text left is dropped.
\* Too long a file, no cues, or too many: an error, here no cues.
CuesOf(lines) ==
  FlattenSeq([i \in DOMAIN lines |->
    IF Timings(lines[i]) = {} THEN << >> ELSE <<CueOf(lines[i], Said(lines, i))>>])
Accepted(cues) == IF Len(cues) > MaxCues THEN << >> ELSE cues
Parse(s) ==
  IF Len(s) > MaxBytes THEN << >> ELSE Accepted(SelectSeq(CuesOf(Lines(s)), LAMBDA c : c.text # << >>))

\* formatTimestamp: past the last one its hours have a fourth digit.
FormatTimestamp(t) ==
  IF t < Len(Stamps) THEN <<Stamps[t + 1]>> ELSE <<"x", Stamps[(t % Len(Stamps)) + 1]>>

RenderSRT(cues) ==
  FlattenSeq([i \in DOMAIN cues |->
    <<"x", "nl">> \o FormatTimestamp(cues[i].start) \o <<" ", "-", "-", ">", " ">>
      \o FormatTimestamp(cues[i].end) \o <<"nl">> \o cues[i].text \o <<"nl", "nl">>])

\* StripMarkerCues: the first and the last cue, if they hold the marker.
IsMarkerCue(c) == Contains(c.text, "m")

StripMarkerCues(cues) ==
  LET kept == {i \in DOMAIN cues : ~(i \in {1, Len(cues)} /\ IsMarkerCue(cues[i]))}
  IN [k \in 1..Cardinality(kept) |-> cues[CHOOSE i \in kept : Cardinality({j \in kept : j < i}) = k - 1]]

MachineTranscriptCues(cues) == IF made THEN ClampCues(StripMarkerCues(cues)) ELSE cues

\* normalizedTokens: what the cues say, word by word.
NormalizedTokens(cues) ==
  LET text == FlattenSeq([i \in DOMAIN cues |-> cues[i].text \o <<" ">>])
      bare == ReplaceTags(text, LAMBDA closing, name : <<" ">>)
      line == [k \in DOMAIN bare |-> IF bare[k] = " " THEN "nl" ELSE bare[k]]
  IN SelectSeq(Lines(line), LAMBDA w : \E k \in DOMAIN w : InWord(w[k]) \/ w[k] = "m")

-----------------------------------------------------------------------------
TextInit ==
  /\ stage = "file" /\ file \in Files /\ made \in BOOLEAN
  /\ body = << >> /\ copy = << >> /\ shift = 0 /\ report = << >> /\ passes = 0

\* ingest: the rendered cues are what is stored.
StoreText ==
  /\ stage = "file"
  /\ IF Parse(file) = << >> THEN stage' = "refused" /\ UNCHANGED body
     ELSE stage' = "stored" /\ body' = RenderSRT(MachineTranscriptCues(Parse(file)))
  /\ UNCHANGED <<file, made, copy, shift, report, passes>>

\* track resanitize: a body that does not parse is left alone.
ResanitizeTrack ==
  /\ stage = "stored" /\ passes < MaxPasses
  /\ body' = IF Parse(body) = << >> THEN body ELSE RenderSRT(MachineTranscriptCues(Parse(body)))
  /\ passes' = passes + 1
  /\ UNCHANGED <<stage, file, made, copy, shift, report>>

\* importTrack: it is parsed and rendered again, and nothing else.
ImportText ==
  /\ stage = "stored" /\ Parse(body) # << >>
  /\ copy' = RenderSRT(Parse(body))
  /\ UNCHANGED <<stage, file, made, body, shift, report, passes>>

\* ingestSupersede: what was served with an offset comes back as a revision.
ProposeShifted(by) ==
  LET served == RenderSRT(Shifted(Parse(body), by)) IN
  /\ stage = "stored" /\ shift = 0
  /\ Parse(body) # << >> /\ Parse(served) # << >>
  /\ shift' = by
  /\ report' = <<Divergence(Parse(body), MachineTranscriptCues(Parse(served)), NormalizedTokens)>>
  /\ UNCHANGED <<stage, file, made, body, copy, passes>>

TextNext ==
  \/ StoreText \/ ResanitizeTrack \/ ImportText
  \/ \E by \in Offsets : ProposeShifted(by)

TextSpec == TextInit /\ [][TextNext]_textVars

(* ---- properties ---- *)

TextTypeOK ==
  /\ stage \in {"file", "refused", "stored"} /\ made \in BOOLEAN
  /\ shift \in Offsets \cup {0} /\ Len(report) \in 0..1 /\ passes \in 0..MaxPasses

\* An end pushed past the last timestamp is not read back.
Overlong == \E k \in 2..Len(body) : IsStamp(body[k]) /\ body[k - 1] = "x"

\* Numbered and spaced out, the text outgrew what Parse accepts.
Outgrown == Len(body) > MaxBytes

\* A marker was stacked on another, or alone.
Stacked == made /\ LET cues == Parse(body) IN
  cues = << >> \/ IsMarkerCue(cues[1]) \/ IsMarkerCue(cues[Len(cues)])

\* What is stored reads back as it was rendered, so that a further pass, an
\* import on another node or the same file uploaded once more gives the same
\* bytes (trackResanitizeCmd: "Idempotent", and "a backfill can never disagree
\* with what a fresh upload would produce"); markup, control characters and
\* timing lines hidden in a text are gone for good, whatever was spliced
\* together when something else was taken out (sanitizeText).  Not so when a
\* marker lay under the one that was stripped, an end was pushed past the last
\* timestamp, or the text outgrew the cap.
StoredTextSettles ==
  stage = "stored" /\ ~Overlong /\ ~Outgrown =>
    LET cues == Parse(body) IN
    /\ RenderSRT(cues) = body
    /\ \A i \in DOMAIN cues : SanitizeText(cues[i].text) = cues[i].text
    /\ ~Stacked => MachineTranscriptCues(cues) = cues
    /\ copy # << >> /\ passes = 0 => copy = body
    /\ made => Readable(cues)

\* Nothing of a subtitle is lost by serving it with an offset, and when it comes
\* back as a revision it is known for a retime, unless it was moved by no more
\* than counts as one or a start was held at zero (shiftSRT: "clamped rather
\* than dropped").
ShiftsLoseNothing ==
  report # << >> /\ passes = 0 /\ ~Overlong /\ ~Stacked =>
    LET cues == Parse(body) IN
      (\A i \in DOMAIN cues : cues[i].start + shift < Len(Stamps) /\ cues[i].end + shift < Len(Stamps)) =>
        /\ report[1].cues = 0 /\ report[1].text = 0
        /\ Distance(shift) > RetimeShift /\ (\A i \in DOMAIN cues : cues[i].start + shift >= 0) =>
             report[1].retime

TextsSettle == StoredTextSettles /\ ShiftsLoseNothing
=============================================================================

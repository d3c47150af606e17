------------------------------- MODULE Lookup -------------------------------
(***************************************************************************)
(* Finding and fetching a subtitle: the buckets of hash/phash.go and the   *)
(* lookups of api/lookup.go over store/release.go and                      *)
(* store/subtitle_track.go, the batching of client/client.go, the search   *)
(* and the ranking of plugin/app.go and plugin/match.go, and the download  *)
(* of api/subtitles.go.                                                    *)
(*                                                                         *)
(* A lookup runs one statement for the releases of a bucket, one for their *)
(* tracks and one for each release's siblings, and moderators work in      *)
(* between.  A perceptual hash is the set of its one bits.  Each release   *)
(* has one track here, named by its release.                               *)
(***************************************************************************)
EXTENDS Naturals, FiniteSets, Sequences

CONSTANTS
  Films,       \* the releases of the catalogue
  Bits,        \* the bits of a perceptual hash
  BlockOf,     \* the block, 0..4, a bit belongs to
  Prints,      \* what a release may look like
  Scene,       \* the local file's print
  MaxEdits     \* bound: moderators' actions

\* The prefix is one of the whole file's hash.
ASSUME LookupAssumption ==
  /\ IsFiniteSet(Bits) /\ BlockOf \in [Bits -> 0..4]
  /\ Scene \in Prints
  /\ \A p \in Prints : p.phash \subseteq Bits /\ (p.file = Scene.file => p.prefix = Scene.prefix)
  /\ MaxEdits \in Nat

VARIABLES
  print,       \* releases: the print of each
  out,         \* the withdrawn releases
  dark,        \* the releases whose track is withdrawn
  grouped,     \* whether the releases are one work
  synced,      \* track_release_offsets: <<track, release>> with a correction
  edits,
  asking,      \* the plugin's request
  steady,      \* ghost: releases visible all through the request
  shown        \* ghost: releases and tracks visible at some moment of it

lookupVars == <<print, out, dark, grouped, synced, edits, asking, steady, shown>>
catalogueVars == <<print, out, dark, grouped, synced, edits>>

-----------------------------------------------------------------------------
(* Fingerprints.  apart: 0 within a second, 1 within five, 2 further.      *)

Hamming(a, b) == Cardinality((a \ b) \cup (b \ a))

\* A mutant of the next: the last block is forgotten, its bits fall to the first.
Blocks_four(h) ==
  [k \in 0..4 |-> {i \in h : BlockOf[i] = k \/ (k = 0 /\ BlockOf[i] = 4)}]

\* The five values two hashes are compared by.
Blocks(h) == [k \in 0..4 |-> {i \in h : BlockOf[i] = k}]

-----------------------------------------------------------------------------
(* The statements of the store.                                            *)

Visible(f) == f \notin out

LookupByOshashPrefix == {f \in Films : Visible(f) /\ print[f].prefix = Scene.prefix}

LookupByBlock(k) ==
  {f \in Films : Visible(f) /\ print[f].hashed
                 /\ Blocks(print[f].phash)[k] = Blocks(Scene.phash)[k]}

ReleasesByStashID == {f \in Films : Visible(f) /\ print[f].identity /\ Scene.identity}

GetReleaseByOshash == {f \in Films : Visible(f) /\ print[f].file = Scene.file}

LookupByPHashFuzzy(distance) ==
  {f \in Films : Visible(f) /\ print[f].hashed /\ Scene.hashed
                 /\ Hamming(print[f].phash, Scene.phash) <= distance}

\* The plugin asks for the widest distance there is.
LookupExact == GetReleaseByOshash \cup LookupByPHashFuzzy(8)

LookupByNameCandidates == {f \in Films : Visible(f) /\ print[f].named /\ Scene.named}

\* The other releases of the work that are visible, with their track.
SiblingTracks(f) ==
  IF grouped THEN {g \in Films \ {f} : Visible(g) /\ g \notin dark} ELSE {}

\* A correction that was recorded: none is not the same as one of zero.
Offset(f, g) == <<f, g>> \in synced

-----------------------------------------------------------------------------
(* The request.  An entry is one bucket of a batch.                        *)

Entry(kind) == [kind |-> kind, block |-> 0]

PhashBlocks == [kind : {"phash"}, block : 0..4]

Entries == {Entry(kind) : kind \in {"stash", "oshash", "exact", "name"}} \cup PhashBlocks

Bucket(e) ==
  CASE e.kind = "stash"  -> ReleasesByStashID
    [] e.kind = "oshash" -> LookupByOshashPrefix
    [] e.kind = "exact"  -> LookupExact
    [] e.kind = "name"   -> LookupByNameCandidates
    [] e.kind = "phash"  -> LookupByBlock(e.block)

\* In the order the client names them and the server answers them.
BucketKeys == <<Entry("oshash")>> \o
              IF Scene.hashed THEN [i \in 1..5 |-> [kind |-> "phash", block |-> i - 1]]
                              ELSE << >>

NoSearch == [at |-> "idle", stage |-> "names", left |-> << >>, now |-> {}, tracks |-> {},
             found |-> {}, offers |-> {}]

\* One release of a reply, whether it has a track and which siblings it names.
Listing == [film : Films, track : BOOLEAN, siblings : SUBSET Films]

Candidate == [film : Films, track : BOOLEAN, rank : 0..3, of : Films, synced : BOOLEAN]

LookupTypeOK ==
  /\ print \in [Films -> Prints]
  /\ out \subseteq Films /\ dark \subseteq Films
  /\ grouped \in BOOLEAN /\ synced \subseteq Films \X Films
  /\ edits \in 0..MaxEdits
  /\ asking \in [at : {"idle", "releases", "tracks", "siblings", "answered",
                      "track", "release", "offset", "served"},
                 stage : {"identity", "hashes", "exact", "names", "bucket"},
                 left : Seq(Entries), now : SUBSET Films, tracks : SUBSET Films,
                 found : SUBSET Listing, offers : SUBSET Candidate]
  /\ steady \subseteq Films
  /\ shown.films \subseteq Films /\ shown.tracks \subseteq Films

\* Ghosts: what was visible since the request began.
Watch(films, tracks) ==
  /\ steady' = steady \cap films
  /\ shown' = [films |-> shown.films \cup films,
               tracks   |-> shown.tracks \cup tracks]

StartWatching ==
  /\ steady' = Films \ out
  /\ shown' = [films |-> Films \ out, tracks |-> Films \ dark]

-----------------------------------------------------------------------------
(* The plugin's ranking.                                                   *)

Offer(l, r) == [film |-> l.film, track |-> l.track, rank |-> r, of |-> l.film,
                synced |-> FALSE]

SiblingCandidates(l) ==
  {[film |-> l.film, track |-> TRUE, rank |-> 2, of |-> g,
    synced |-> <<g, l.film>> \in synced] : g \in l.siblings}

\* Byte-identical, near with the same runtime, or, in exact mode only, not so
\* near: everything else a bucket held is dropped.
RankCandidates(listings, exactMode) ==
  LET same(l) == print[l.film].file = Scene.file
      near(l, d) == /\ ~ same(l) /\ Scene.hashed /\ print[l.film].hashed
                    /\ Hamming(print[l.film].phash, Scene.phash) <= d
      high(l) == near(l, 4) /\ print[l.film].apart = 0 IN
  {Offer(l, 0) : l \in {l \in listings : same(l)}}
  \cup (UNION {SiblingCandidates(l) : l \in {l \in listings : same(l)}})
  \cup {Offer(l, 1) : l \in {l \in listings : high(l)}}
  \cup {Offer(l, 2) : l \in {l \in listings : exactMode /\ near(l, 8) /\ ~ high(l)
                                              /\ print[l.film].apart <= 1}}

\* What a stage adds to the offers: an identity stands before a hash, and a
\* release it names is not offered twice.
Ranked(stage, listings, offers) ==
  CASE stage \in {"identity", "bucket"} -> {Offer(l, 0) : l \in listings}
    [] stage = "names"    -> {Offer(l, 3) : l \in listings}
    [] OTHER -> offers \cup {c \in RankCandidates(listings, stage = "exact") :
                               c.film \notin {o.film : o \in offers}}

\* The next stage: by name only when nothing was found.
Stage(s, keys, offers) ==
  [NoSearch EXCEPT !.at = "releases", !.stage = s, !.left = keys, !.offers = offers]

After(stage, offers, exactMode) ==
  CASE stage = "identity" ->
         IF exactMode THEN Stage("exact", <<Entry("exact")>>, offers)
                      ELSE Stage("hashes", BucketKeys, offers)
    [] stage \in {"hashes", "exact"} /\ offers = {} -> Stage("names", <<Entry("name")>>, {})
    [] OTHER -> [NoSearch EXCEPT !.at = "answered", !.stage = stage, !.offers = offers]

-----------------------------------------------------------------------------
(* Searching.                                                              *)

Search(exactMode) ==
  /\ asking.at = "idle"
  /\ asking' = IF Scene.identity THEN Stage("identity", <<Entry("stash")>>, {})
               ELSE After("identity", {}, exactMode)
  /\ StartWatching /\ UNCHANGED catalogueVars

\* One bucket for whoever asks, nothing ranked.
AskBucket(e) ==
  /\ asking.at = "idle"
  /\ asking' = Stage("bucket", <<e>>, {})
  /\ StartWatching /\ UNCHANGED catalogueVars

HandleLookupOshashPrefix == AskBucket(Entry("oshash"))

HandleLookupPhashBlock(k) == Scene.hashed /\ AskBucket([kind |-> "phash", block |-> k])

HandleLookupStash == Scene.identity /\ AskBucket(Entry("stash"))

HandleMatch == Scene.named /\ AskBucket(Entry("name"))

\* The releases of the next entry's bucket.
ReadReleases ==
  /\ asking.at = "releases" /\ asking.left # << >>
  /\ asking' = [asking EXCEPT !.at = "tracks", !.left = Tail(@),
                              !.now = Bucket(Head(asking.left))]
  /\ UNCHANGED <<catalogueVars, steady, shown>>

\* TrackSummariesByReleaseIDs looks at the tracks only.
TrackSummariesByReleaseIDs ==
  /\ asking.at = "tracks"
  /\ asking' = [asking EXCEPT !.at = "siblings", !.tracks = asking.now \ dark]
  /\ UNCHANGED <<catalogueVars, steady, shown>>

\* The siblings, and the entry's listings into the reply; the client keeps the
\* first of two listings of a release.
LookupReleases ==
  LET new == {[film |-> f, track |-> f \in asking.tracks, siblings |-> SiblingTracks(f)] :
                f \in asking.now \ {l.film : l \in asking.found}} IN
  /\ asking.at = "siblings"
  /\ asking' = [asking EXCEPT !.at = "releases", !.now = {}, !.tracks = {},
                              !.found = @ \cup new]
  /\ UNCHANGED <<catalogueVars, steady, shown>>

\* The reply of a stage is in.
Answered(exactMode) ==
  /\ asking.at = "releases" /\ asking.left = << >>
  /\ asking' = After(asking.stage, Ranked(asking.stage, asking.found, asking.offers), exactMode)
  /\ UNCHANGED <<catalogueVars, steady, shown>>

\* A failed lookup fails the search; failed identities or names are no offers.
LookupFails(exactMode) ==
  /\ asking.at \in {"releases", "tracks", "siblings"}
  /\ asking' = IF asking.stage \in {"identity", "names"}
               THEN [After(asking.stage, {}, exactMode) EXCEPT !.found = {}]
               ELSE NoSearch
  /\ UNCHANGED <<catalogueVars, steady, shown>>

-----------------------------------------------------------------------------
(* Fetching an offered track: GET /api/v1/subtitles/{id}.                  *)

GetSubtitle(c) ==
  /\ asking.at = "answered" /\ c \in asking.offers /\ c.track
  /\ asking' = [NoSearch EXCEPT !.at = "track", !.now = {c.of},
                                !.tracks = {c.film}]
  /\ StartWatching /\ UNCHANGED catalogueVars

Gone(f) == asking.now = {f} /\ asking' = NoSearch

GetSubtitleTrack(f) ==
  /\ asking.at = "track" /\ f \in asking.now
  /\ IF f \in dark THEN Gone(f) ELSE asking' = [asking EXCEPT !.at = "release"]
  /\ UNCHANGED <<catalogueVars, steady, shown>>

GetReleaseByID(f) ==
  /\ asking.at = "release" /\ f \in asking.now
  /\ IF f \in out THEN Gone(f) ELSE asking' = [asking EXCEPT !.at = "offset"]
  /\ UNCHANGED <<catalogueVars, steady, shown>>

\* The body is shifted for another release when a correction is recorded; the
\* request keeps the release it was shifted for.
ShiftFor(f) ==
  /\ asking.at = "offset" /\ f \in asking.now
  /\ asking' = [asking EXCEPT !.at = "served",
                              !.tracks = {g \in @ : g # f /\ Offset(f, g)}]
  /\ UNCHANGED <<catalogueVars, steady, shown>>

SearchDone ==
  /\ asking.at \in {"answered", "served"}
  /\ asking' = NoSearch /\ UNCHANGED <<catalogueVars, steady, shown>>

-----------------------------------------------------------------------------
(* Moderators.                                                             *)

Moderated == edits < MaxEdits /\ edits' = edits + 1 /\ UNCHANGED <<print, asking>>

WithdrawRelease(f) ==
  /\ Moderated /\ out' = out \cup {f} /\ dark' = dark \cup {f}
  /\ Watch(Films \ out', Films \ dark') /\ UNCHANGED <<grouped, synced>>

RestoreRelease(f) ==
  /\ Moderated /\ f \in out /\ out' = out \ {f} /\ dark' \in {dark, dark \ {f}}
  /\ Watch(Films \ out', Films \ dark') /\ UNCHANGED <<grouped, synced>>

WithdrawTrack(f) ==
  /\ Moderated /\ f \notin dark /\ dark' = dark \cup {f}
  /\ Watch(Films \ out, Films \ dark') /\ UNCHANGED <<out, grouped, synced>>

RestoreTrack(f) ==
  /\ Moderated /\ f \in dark /\ dark' = dark \ {f}
  /\ Watch(Films \ out, Films \ dark') /\ UNCHANGED <<out, grouped, synced>>

LinkOrUnlink ==
  /\ Moderated /\ grouped' = ~ grouped
  /\ UNCHANGED <<out, dark, synced, steady, shown>>

SetOffset(f, g) ==
  /\ Moderated /\ f # g /\ synced' = synced \cup {<<f, g>>}
  /\ UNCHANGED <<out, dark, grouped, steady, shown>>

ClearOffset(f, g) ==
  /\ Moderated /\ Offset(f, g) /\ synced' = synced \ {<<f, g>>}
  /\ UNCHANGED <<out, dark, grouped, steady, shown>>

\* The form with a number, at most ten minutes, or with none.
HandleModReleaseOffset(f, g, typed) == IF typed THEN SetOffset(f, g) ELSE ClearOffset(f, g)

\* moansubs work offset, any number.
WorkOffsetCmd(f, g) == SetOffset(f, g)

-----------------------------------------------------------------------------
LookupInit ==
  /\ print \in [Films -> Prints]
  /\ dark \in SUBSET Films /\ out \in SUBSET dark
  /\ grouped \in BOOLEAN
  /\ synced \in SUBSET {x \in Films \X Films : x[1] # x[2]}
  /\ edits = 0 /\ asking = NoSearch
  /\ steady = Films \ out
  /\ shown = [films |-> Films \ out, tracks |-> Films \ dark]

LookupNext ==
  \/ \E x \in BOOLEAN : Search(x) \/ Answered(x) \/ LookupFails(x)
  \/ HandleLookupOshashPrefix \/ HandleLookupStash \/ HandleMatch
  \/ \E k \in 0..4 : HandleLookupPhashBlock(k)
  \/ ReadReleases \/ TrackSummariesByReleaseIDs \/ LookupReleases
  \/ \E c \in asking.offers : GetSubtitle(c)
  \/ \E f \in Films : GetSubtitleTrack(f) \/ GetReleaseByID(f) \/ ShiftFor(f)
  \/ SearchDone
  \/ \E f \in Films : WithdrawRelease(f) \/ RestoreRelease(f)
                      \/ WithdrawTrack(f) \/ RestoreTrack(f)
  \/ LinkOrUnlink
  \/ \E f, g \in Films :
       WorkOffsetCmd(f, g) \/ \E typed \in BOOLEAN : HandleModReleaseOffset(f, g, typed)

LookupSpec == LookupInit /\ [][LookupNext]_lookupVars

-----------------------------------------------------------------------------
(* Properties.                                                             *)

\* Bucketed lookup is exact: a release visible all through a search that has
\* the file's bytes, or a hash within 4 bits and the same runtime, is among
\* the offers although the server was only sent buckets (hash/phash.go: by
\* pigeonhole five blocks cannot all differ).  Exact mode finds them too.
NearMatchesAreFound ==
  asking.at = "answered" /\ asking.stage \in {"hashes", "exact"} =>
    \A f \in steady :
      (\/ print[f].file = Scene.file
       \/ /\ Scene.hashed /\ print[f].hashed /\ print[f].apart = 0
          /\ Hamming(print[f].phash, Scene.phash) <= 4)
      => \E c \in asking.offers : c.film = f

\* A takedown is a takedown: a track that was withdrawn, or whose release was,
\* all through a search or a download is not offered and not served.
TakedownsAreObeyed ==
  /\ asking.at = "answered" =>
       \A c \in asking.offers :
         c.track => c.of \in shown.films /\ c.of \in shown.tracks
  /\ asking.at = "served" =>
       asking.now \subseteq shown.films \cap shown.tracks
=============================================================================

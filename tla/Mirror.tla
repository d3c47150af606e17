------------------------------- MODULE Mirror -------------------------------
(* Mirroring: `moansubs dump` pages through a node that goes on changing, and
   `moansubs import` replays the file into another node, whose own users revise
   and whose moderators take down what it brought
   (cmd/moansubs/dump.go, cmd/moansubs/import.go, internal/store/dump.go,
   internal/store/subtitle_track.go).  Releases are the same on both nodes
   (oshash); one language.  A text is named by the first row of the origin that
   has it, or is the mirror's own; the lookup for a text is within a release,
   and so are the texts that two rows share. *)
EXTENDS Naturals, FiniteSets

CONSTANTS MaxReleases,    \* bound: releases of the origin, ids 1..
          MaxSources,     \* bound: tracks of the origin, ids 1..
          MaxCopies,      \* bound: tracks of the mirror
          Unparseable,    \* texts the mirror cannot parse
          DumpBatch,      \* dumpBatchSize
          MaxImports      \* bound: dumps taken and imported

ASSUME MirrorConstants == /\ {MaxReleases, MaxSources, MaxCopies, MaxImports} \subseteq Nat
                          /\ Unparseable \subseteq 1..MaxSources /\ DumpBatch \in Nat \ {0}

VARIABLES
  releases,    \* the origin's releases: id -> live
  sources,     \* the origin's tracks: id -> [release, text, parent, root, live]
  hidden,      \* releases withdrawn on the mirror
  copies,      \* the mirror's tracks: id -> [release, text, parent, root, live]
  dump,        \* the dump being written, or written
  import,      \* the running import
  imports

mirrorVars == <<releases, sources, hidden, copies, dump, import, imports>>

Nowhere == 0
Own == 0                   \* the text of the mirror's own users
NoDump == [at |-> "none", after |-> 0, releases |-> {}, tracks |-> {}]
NoImport == [at |-> "off", releases |-> {}, dropped |-> {}, done |-> 0, same |-> Nowhere,
             ids |-> <<>>, roots |-> <<>>]

MirrorInit ==
  /\ releases = <<>> /\ sources = <<>> /\ copies = <<>> /\ hidden = {}
  /\ dump = NoDump /\ import = NoImport /\ imports = 0

Count(f) == Cardinality(DOMAIN f)
With(f, x, v) == [y \in DOMAIN f \cup {x} |-> IF y = x THEN v ELSE f[y]]

(* ---- the origin: an import reads its file and nothing of the origin, so
   the origin's steps are placed between imports ---- *)

\* What is uploaded is new to the release, unless another request stored the
\* same between this one's look for it and its insert (the run stored_twice).
TextOf(r, after) ==
  {Count(sources) + 1} \cup {sources[s].text : s \in {u \in DOMAIN sources : sources[u].release = r /\ u > after}}

\* An upload, of a release already there or of a new one.
SourceUpload(r) ==
  /\ import.at = "off"
  /\ Count(sources) < MaxSources
  /\ r \in 1..MaxReleases /\ r <= Count(releases) + 1
  /\ r \in DOMAIN releases => releases[r]
  /\ releases' = With(releases, r, TRUE)
  /\ \E text \in TextOf(r, 0) :
       sources' = With(sources, Count(sources) + 1,
                       [release |-> r, text |-> text, parent |-> Nowhere, root |-> Count(sources) + 1,
                        live |-> TRUE])
  /\ UNCHANGED <<hidden, copies, dump, import, imports>>

\* A revision of a chain's live head, which was there when it looked.
SourceRevise(t) ==
  /\ import.at = "off"
  /\ Count(sources) < MaxSources
  /\ sources[t].live /\ releases[sources[t].release]
  /\ \A u \in DOMAIN sources : sources[u].root = sources[t].root /\ sources[u].live => u <= t
  /\ \E text \in TextOf(sources[t].release, t) :
       sources' = With(sources, Count(sources) + 1,
                       [release |-> sources[t].release, text |-> text, parent |-> t, root |-> sources[t].root,
                        live |-> TRUE])
  /\ UNCHANGED <<releases, hidden, copies, dump, import, imports>>

SourceWithdraw(t) ==
  /\ import.at = "off"
  /\ sources[t].live
  /\ sources' = [sources EXCEPT ![t].live = FALSE]
  /\ UNCHANGED <<releases, hidden, copies, dump, import, imports>>

SourceReleaseLive(r, live) ==
  /\ import.at = "off"
  /\ releases[r] # live
  /\ releases' = [releases EXCEPT ![r] = live]
  /\ UNCHANGED <<sources, hidden, copies, dump, import, imports>>

(* ---- dump ---- *)

StartDump ==
  /\ import.at = "off" /\ dump.at \in {"none", "written"} /\ imports < MaxImports
  /\ dump' = [NoDump EXCEPT !.at = "releases"]
  /\ UNCHANGED <<releases, sources, hidden, copies, import, imports>>

Batch(S) == {x \in S : Cardinality({y \in S : y < x}) < DumpBatch}
Last(S) == CHOOSE x \in S : \A y \in S : y <= x

\* DumpReleasesAfter: one statement per batch.
DumpReleasesAfter ==
  /\ dump.at = "releases"
  /\ LET batch == Batch({r \in DOMAIN releases : r > dump.after /\ releases[r]})
     IN dump' = IF batch = {} THEN [dump EXCEPT !.at = "tracks", !.after = 0]
                ELSE [dump EXCEPT !.releases = @ \cup batch, !.after = Last(batch)]
  /\ UNCHANGED <<releases, sources, hidden, copies, import, imports>>

\* DumpTracksAfter: every live revision under a live release, not only heads.
DumpTracksAfter ==
  /\ dump.at = "tracks"
  /\ LET batch == Batch({t \in DOMAIN sources : t > dump.after /\ sources[t].live /\ releases[sources[t].release]})
     IN dump' = IF batch = {} THEN [dump EXCEPT !.at = "written", !.after = 0]
                ELSE [dump EXCEPT !.tracks = @ \cup batch, !.after = Last(batch)]
  /\ UNCHANGED <<releases, sources, hidden, copies, import, imports>>

(* ---- import ---- *)

StartImport ==
  /\ dump.at = "written" /\ import.at = "off" /\ imports < MaxImports
  /\ imports' = imports + 1
  /\ import' = [NoImport EXCEPT !.at = "releases"]
  /\ UNCHANGED <<releases, sources, hidden, copies, dump>>

NextLine(S, done) == CHOOSE x \in S : x > done /\ \A y \in S : y > done => x <= y
LinesLeft(S, done) == \E x \in S : x > done

\* A mutant of the next: a release that is dropped is not noted as seen.
ImportRelease_unseen ==
  /\ import.at = "releases"
  /\ import' = IF ~LinesLeft(dump.releases, import.done) THEN [import EXCEPT !.at = "track", !.done = 0]
               ELSE LET r == NextLine(dump.releases, import.done)
                    IN IF r \in hidden THEN [import EXCEPT !.done = r, !.dropped = @ \cup {r}]
                       ELSE [import EXCEPT !.done = r, !.releases = @ \cup {r}]
  /\ UNCHANGED <<releases, sources, hidden, copies, dump, imports>>

\* importRelease: what the mirror has withdrawn is marked, its tracks dropped.
ImportRelease ==
  /\ import.at = "releases"
  /\ import' = IF ~LinesLeft(dump.releases, import.done) THEN [import EXCEPT !.at = "track", !.done = 0]
               ELSE LET r == NextLine(dump.releases, import.done)
                    IN [import EXCEPT !.done = r, !.releases = @ \cup {r},
                                      !.dropped = IF r \in hidden THEN @ \cup {r} ELSE @]
  /\ UNCHANGED <<releases, sources, hidden, copies, dump, imports>>

Line == NextLine(dump.tracks, import.done)

\* FindIdenticalTrack: the first row of the text, withdrawn or not.
FindIdenticalTrack(text) ==
  LET same == {c \in DOMAIN copies : copies[c].text = text}
  IN IF same = {} THEN Nowhere ELSE CHOOSE c \in same : \A d \in same : c <= d

\* The next track line: the end, a track whose release the file did not name,
\* one that is dropped or cannot be parsed, or a look for its text.
ReadTrackLine ==
  /\ import.at = "track"
  /\ import' = IF ~LinesLeft(dump.tracks, import.done) \/ sources[Line].release \notin import.releases
                 THEN NoImport
               ELSE IF sources[Line].release \in import.dropped \/ sources[Line].text \in Unparseable
                 THEN [import EXCEPT !.done = Line]
               ELSE [import EXCEPT !.at = "store", !.same = FindIdenticalTrack(sources[Line].text)]
  /\ UNCHANGED <<releases, sources, hidden, copies, dump, imports>>

\* The parent this run assigned; without it the root the chain has here; and
\* without that none, which starts a chain.
ParentHere == IF sources[Line].parent \in DOMAIN import.ids THEN import.ids[sources[Line].parent] ELSE Nowhere

\* A mutant of the next: a chain rejoins by release and not by root.
RootHere_release ==
  LET seen == {t \in DOMAIN import.roots : sources[t].release = sources[Line].release}
  IN IF seen = {} THEN Nowhere ELSE import.roots[CHOOSE t \in seen : TRUE]

RootHere ==
  IF sources[Line].parent = Nowhere THEN Nowhere
  ELSE IF sources[Line].parent \in DOMAIN import.ids THEN import.roots[sources[Line].parent]
  ELSE IF sources[Line].root \in DOMAIN import.roots THEN import.roots[sources[Line].root]
  ELSE Nowhere

\* subtitle_tracks_supersedes_id_uidx: one live successor.
Admits(parent) ==
  parent = Nowhere \/ \A c \in DOMAIN copies : copies[c].live => copies[c].parent # parent

Imported(id, root) ==
  [import EXCEPT !.at = "track", !.done = Line, !.same = Nowhere,
                 !.ids = With(@, Line, id), !.roots = With(@, Line, root)]

\* importTrack, the text already there: its row stands for the line, though it be
\* in another chain.
KeepIdentical ==
  /\ import.at = "store" /\ import.same # Nowhere
  /\ import' = Imported(import.same, copies[import.same].root)
  /\ UNCHANGED <<releases, sources, hidden, copies, dump, imports>>

\* importTrack, a new row; an insert the index refuses ends the import.
CreateCopy ==
  /\ import.at = "store" /\ import.same = Nowhere
  /\ Count(copies) < MaxCopies
  /\ LET id == Count(copies) + 1
         root == IF RootHere = Nowhere THEN id ELSE RootHere
     IN IF Admits(ParentHere)
        THEN /\ copies' = With(copies, id, [release |-> sources[Line].release, text |-> sources[Line].text,
                                            parent |-> ParentHere, root |-> root, live |-> TRUE])
             /\ import' = Imported(id, root)
        ELSE copies' = copies /\ import' = NoImport
  /\ UNCHANGED <<releases, sources, hidden, dump, imports>>

\* The import fails or is stopped between two statements.
StopImport ==
  /\ import.at # "off"
  /\ import' = NoImport
  /\ UNCHANGED <<releases, sources, hidden, copies, dump, imports>>

(* ---- the mirror's own people ---- *)

\* SupersedeTrack: a revision of a live head.
ReviseCopy(c) ==
  /\ Count(copies) < MaxCopies
  /\ copies[c].live /\ copies[c].release \notin hidden
  /\ \A d \in DOMAIN copies : copies[d].root = copies[c].root /\ copies[d].live => d <= c
  /\ copies' = With(copies, Count(copies) + 1,
                    [release |-> copies[c].release, text |-> Own, parent |-> c, root |-> copies[c].root, live |-> TRUE])
  /\ UNCHANGED <<releases, sources, hidden, dump, import, imports>>

\* A takedown of one track, and its restore.
WithdrawCopy(c) ==
  /\ copies[c].live
  /\ copies' = [copies EXCEPT ![c].live = FALSE]
  /\ UNCHANGED <<releases, sources, hidden, dump, import, imports>>

RestoreCopy(c) ==
  /\ ~copies[c].live /\ Admits(copies[c].parent)
  /\ copies' = [copies EXCEPT ![c].live = TRUE]
  /\ UNCHANGED <<releases, sources, hidden, dump, import, imports>>

\* A takedown of a release, or its restore.
HideRelease(r) ==
  /\ hidden' = IF r \in hidden THEN hidden \ {r} ELSE hidden \cup {r}
  /\ UNCHANGED <<releases, sources, copies, dump, import, imports>>

MirrorNext ==
  \/ \E r \in 1..MaxReleases : SourceUpload(r)
  \/ \E t \in DOMAIN sources : SourceRevise(t) \/ SourceWithdraw(t)
  \/ \E r \in DOMAIN releases, live \in BOOLEAN : SourceReleaseLive(r, live)
  \/ StartDump \/ DumpReleasesAfter \/ DumpTracksAfter
  \/ StartImport \/ ImportRelease \/ ReadTrackLine \/ KeepIdentical \/ CreateCopy \/ StopImport
  \/ \E c \in DOMAIN copies : ReviseCopy(c) \/ WithdrawCopy(c) \/ RestoreCopy(c)
  \/ \E r \in DOMAIN releases : HideRelease(r)

MirrorSpec == MirrorInit /\ [][MirrorNext]_mirrorVars

(* ---- properties ---- *)

MirrorTypeOK ==
  /\ DOMAIN releases \subseteq 1..MaxReleases /\ hidden \subseteq DOMAIN releases
  /\ \A t \in DOMAIN sources : /\ sources[t].release \in DOMAIN releases
                               /\ sources[t].root \in 1..t /\ sources[t].text \in 1..t
  /\ \A c \in DOMAIN copies : /\ copies[c].root \in 1..c /\ copies[c].parent \in 0..(c - 1)
                              /\ copies[c].text \in 0..MaxSources
  /\ dump.tracks \subseteq DOMAIN sources /\ dump.releases \subseteq DOMAIN releases
  /\ import.at \in {"off", "releases", "track", "store"} /\ import.dropped \subseteq import.releases
  /\ \A t \in DOMAIN import.ids : import.ids[t] \in DOMAIN copies /\ import.roots[t] \in DOMAIN copies

\* A track taken down on the mirror stays down, however often the upstream is
\* imported again: no import puts its text back beside it (import.go
\* importTrack, subtitle_track.go FindIdenticalTrack).
TakedownsSurviveImports ==
  \A c, d \in DOMAIN copies :
    ~copies[c].live /\ copies[c].text # Own /\ copies[d].text = copies[c].text => ~copies[d].live

\* Texts that with one text of an upstream chain have all of it.
Closed(S) ==
  \A s, t \in DOMAIN sources :
    sources[s].root = sources[t].root => (sources[s].text \in S <=> sources[t].text \in S)

\* Rejoining by parent or by root, over withdrawn, unparseable and already
\* present revisions, mixes no two upstream chains but those that share a text,
\* directly or through others that do (import.go runImport, importTrack).
ChainsStayApart ==
  \A S \in SUBSET (1..MaxSources) : Closed(S) =>
    \A c, d \in DOMAIN copies :
      copies[c].root = copies[d].root /\ copies[c].text # Own /\ copies[d].text # Own
        => (copies[c].text \in S <=> copies[d].text \in S)
=============================================================================

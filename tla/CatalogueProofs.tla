--------------------------- MODULE CatalogueProofs ---------------------------
(* Proofs about the catalogue: first each part by itself, from an inductive   *)
(* invariant of its own, then their interleaving, which changes one part's    *)
(* state at a time.                                                           *)
EXTENDS Catalogue, FiniteSetTheorems, WellFoundedInduction, TLAPS

\* Every set of numbers has a least one.
LEMMA LeastIs ==
  ASSUME NEW S \in SUBSET Nat, S # {}
  PROVE  \E r \in S : \A q \in S : r <= q
  <1>1. PICK R : R = {ss \in Nat \X Nat : ss[1] < ss[2]}
    OBVIOUS
  <1>2. IsWellFoundedOn(R, Nat)
    BY <1>1, NatLessThanWellFounded DEF OpToRel
  <1>3. PICK x \in S : \A y \in S : ~ (<<y, x>> \in R)
    BY <1>2, WFMin
  <1>4. \A y \in S : ~ (y < x)
    BY <1>1, <1>3
  <1> QED
    BY <1>4

-----------------------------------------------------------------------------
(* Mirroring: Mirror. *)

-----------------------------------------------------------------------------
(* Mirroring. *)

SourceRecord == [release : Nat, text : Nat, parent : Nat, root : Nat, live : BOOLEAN]
CopyRecord == [release : Nat, text : Nat, parent : Nat, root : Nat, live : BOOLEAN]
DumpShape(k) == k = [at |-> k.at, after |-> k.after, releases |-> k.releases, tracks |-> k.tracks]
ImportShape(k) ==
  k = [at |-> k.at, releases |-> k.releases, dropped |-> k.dropped, done |-> k.done,
       same |-> k.same, ids |-> k.ids, roots |-> k.roots]

\* The rows of a table have the ids 1, 2, ...
Numbered(f) == \E n \in Nat : DOMAIN f = 1..n

\* The origin's chains: a root is its own, and a revision has its parent's.  A
\* text is named by a row that has it.
SourcesSound ==
  /\ Numbered(releases) /\ Numbered(sources) /\ sources \in [DOMAIN sources -> SourceRecord]
  /\ \A t \in DOMAIN sources :
       /\ sources[t].release \in DOMAIN releases /\ sources[t].text \in 1..t
       /\ sources[t].root \in 1..t /\ sources[sources[t].root].root = sources[t].root
       /\ sources[t].parent # Nowhere =>
            /\ sources[t].parent \in DOMAIN sources
            /\ sources[sources[t].parent].root = sources[t].root
  /\ Count(sources) <= MaxSources /\ DOMAIN releases \subseteq 1..MaxReleases
  /\ hidden \subseteq DOMAIN releases

\* The mirror's rows: an upstream text has one, and a chain is of one chain.
CopiesSound ==
  /\ Numbered(copies) /\ copies \in [DOMAIN copies -> CopyRecord]
  /\ \A c \in DOMAIN copies :
       /\ copies[c].root \in 1..c /\ copies[c].parent \in 0..(c - 1)
       /\ copies[c].text # Own => \E s \in DOMAIN sources : sources[s].text = copies[c].text
  /\ \A c, d \in DOMAIN copies : copies[c].text # Own /\ copies[c].text = copies[d].text => c = d
  /\ ChainsStayApart

\* The dump names rows of the origin.
DumpSound(k) ==
  /\ DumpShape(k)
  /\ k.tracks \subseteq DOMAIN sources /\ k.releases \subseteq DOMAIN releases

\* The import under way: what it noted of a line is the row of that line's
\* text, in the chain it is in; and about to store a line, it knows whether a
\* row has the text.
ImportSound(k) ==
  /\ ImportShape(k)
  /\ k.at \in {"off", "releases", "track", "store"} /\ k.dropped \subseteq k.releases
  /\ k.done \in Nat
  /\ k.at # "off" => dump.at = "written"
  /\ DOMAIN k.roots = DOMAIN k.ids
  /\ \A t \in DOMAIN k.ids :
       /\ t \in DOMAIN sources /\ k.ids[t] \in DOMAIN copies
       /\ copies[k.ids[t]].text = sources[t].text /\ copies[k.ids[t]].root = k.roots[t]
  /\ k.at = "store" =>
       /\ LinesLeft(dump.tracks, k.done)
       /\ k.same = Nowhere =>
            \A c \in DOMAIN copies : copies[c].text # sources[NextLine(dump.tracks, k.done)].text
       /\ k.same # Nowhere =>
            /\ k.same \in DOMAIN copies
            /\ copies[k.same].text = sources[NextLine(dump.tracks, k.done)].text

MirrorInv == SourcesSound /\ CopiesSound /\ DumpSound(dump) /\ ImportSound(import)

-----------------------------------------------------------------------------
LEMMA CountIs ==
  ASSUME NEW f, Numbered(f)
  PROVE  Count(f) \in Nat /\ DOMAIN f = 1..Count(f)
  <1>1. PICK n \in Nat : DOMAIN f = 1..n
    BY DEF Numbered
  <1>2. Cardinality(1..n) = n
    BY FS_Interval
  <1> QED
    BY <1>1, <1>2 DEF Count

\* A row inserted after the last.
LEMMA WithNext ==
  ASSUME NEW f, Numbered(f), NEW v
  PROVE  /\ Count(f) + 1 \notin DOMAIN f /\ Count(f) + 1 \in Nat
         /\ DOMAIN With(f, Count(f) + 1, v) = DOMAIN f \cup {Count(f) + 1}
         /\ Numbered(With(f, Count(f) + 1, v))
         /\ Count(With(f, Count(f) + 1, v)) = Count(f) + 1
         /\ With(f, Count(f) + 1, v)[Count(f) + 1] = v
         /\ \A x \in DOMAIN f : With(f, Count(f) + 1, v)[x] = f[x]
  <1> DEFINE n == Count(f)
             g == With(f, n + 1, v)
  <1>1. n \in Nat /\ DOMAIN f = 1..n
    BY CountIs
  <1>2. n + 1 \notin DOMAIN f /\ n + 1 \in Nat
    BY <1>1
  <1>3. DOMAIN g = DOMAIN f \cup {n + 1}
    BY DEF With
  <1>4. DOMAIN g = 1..(n + 1)
    <2> HIDE DEF n, g
    <2> QED
      BY <1>1, <1>3
  <1>5. Numbered(g)
    BY <1>2, <1>4 DEF Numbered
  <1>6. Count(g) = n + 1
    BY <1>2, <1>4, FS_Interval DEF Count
  <1>7. g[n + 1] = v /\ \A x \in DOMAIN f : g[x] = f[x]
    BY <1>2 DEF With
  <1> QED
    BY <1>2, <1>3, <1>5, <1>6, <1>7

LEMMA NextLineIs ==
  ASSUME NEW S \in SUBSET Nat, NEW done \in Nat, LinesLeft(S, done)
  PROVE  NextLine(S, done) \in S /\ NextLine(S, done) > done
  <1>1. {x \in S : x > done} \in SUBSET Nat /\ {x \in S : x > done} # {}
    BY DEF LinesLeft
  <1>2. PICK x \in {y \in S : y > done} : \A y \in {y \in S : y > done} : x <= y
    BY <1>1, LeastIs
  <1> QED
    BY <1>2 DEF NextLine

LEMMA MirrorTyped == MirrorInv => MirrorTypeOK
  <1> SUFFICES ASSUME MirrorInv PROVE MirrorTypeOK
    OBVIOUS
  <1>1. DOMAIN sources \subseteq 1..MaxSources /\ MaxSources \in Nat
    BY CountIs, MirrorConstants DEF MirrorInv, SourcesSound
  <1>2. \A c \in DOMAIN copies : copies[c].text \in 0..MaxSources
    <2> SUFFICES ASSUME NEW c \in DOMAIN copies, copies[c].text # Own PROVE copies[c].text \in 0..MaxSources
      BY <1>1 DEF Own
    <2>1. PICK s \in DOMAIN sources : sources[s].text = copies[c].text
      BY DEF MirrorInv, CopiesSound
    <2>2. sources[s].text \in 1..s
      BY DEF MirrorInv, SourcesSound
    <2> QED
      BY <1>1, <2>1, <2>2
  <1>3. \A t \in DOMAIN import.ids : import.ids[t] \in DOMAIN copies /\ import.roots[t] \in DOMAIN copies
    <2> SUFFICES ASSUME NEW t \in DOMAIN import.ids
                 PROVE  import.ids[t] \in DOMAIN copies /\ import.roots[t] \in DOMAIN copies
      OBVIOUS
    <2>1. import.ids[t] \in DOMAIN copies /\ import.roots[t] = copies[import.ids[t]].root
      BY DEF MirrorInv, ImportSound
    <2>2. copies[import.ids[t]].root \in 1..import.ids[t]
      BY <2>1 DEF MirrorInv, CopiesSound
    <2>3. PICK n \in Nat : DOMAIN copies = 1..n
      BY DEF MirrorInv, CopiesSound, Numbered
    <2> QED
      BY <2>1, <2>2, <2>3
  <1> QED
    BY <1>2, <1>3 DEF MirrorInv, MirrorTypeOK, SourcesSound, CopiesSound, DumpSound, ImportSound

\* The steps that leave the tables and the dump alone.
LEMMA ImportMoves ==
  ASSUME MirrorInv, UNCHANGED <<releases, sources, hidden, copies, dump, imports>>,
         ImportSound(import')
  PROVE  MirrorInv'
  <1>1. (SourcesSound /\ CopiesSound /\ DumpSound(dump))'
    BY DEF MirrorInv, SourcesSound, CopiesSound, DumpSound, Numbered, ChainsStayApart, Closed, Count,
           DumpShape, SourceRecord, CopyRecord
  <1>2. ImportSound(import)'
    BY DEF ImportSound, ImportShape, LinesLeft, NextLine
  <1> QED
    BY <1>1, <1>2 DEF MirrorInv

LEMMA NoImportSound == ImportSound(NoImport)
  <1>1. DOMAIN <<>> = {}
    OBVIOUS
  <1> QED
    BY <1>1 DEF ImportSound, ImportShape, NoImport

LEMMA SourceIs ==
  ASSUME MirrorInv
  PROVE  /\ Numbered(releases) /\ Numbered(sources) /\ DOMAIN sources = 1..Count(sources)
         /\ DOMAIN releases = 1..Count(releases) /\ Count(sources) \in Nat /\ Count(releases) \in Nat
         /\ sources \in [DOMAIN sources -> SourceRecord]
         /\ Nowhere \notin DOMAIN sources
         /\ \A t \in DOMAIN sources : sources[t].text \in DOMAIN sources
  <1>1. /\ Numbered(releases) /\ Numbered(sources) /\ DOMAIN sources = 1..Count(sources)
        /\ DOMAIN releases = 1..Count(releases) /\ Count(sources) \in Nat /\ Count(releases) \in Nat
        /\ sources \in [DOMAIN sources -> SourceRecord]
    BY CountIs DEF MirrorInv, SourcesSound
  <1>2. \A t \in DOMAIN sources : t \in 1..Count(sources) /\ sources[t].text \in 1..t
    BY <1>1 DEF MirrorInv, SourcesSound
  <1> QED
    BY <1>1, <1>2 DEF Nowhere

LEMMA ImportHas ==
  ASSUME MirrorInv
  PROVE  /\ ImportShape(import) /\ import.done \in Nat /\ import.dropped \subseteq import.releases
         /\ dump.tracks \in SUBSET Nat /\ dump.releases \in SUBSET Nat
         /\ DOMAIN import.roots = DOMAIN import.ids
  BY SourceIs DEF MirrorInv, ImportSound, DumpSound

\* A step of the origin, while it goes on as a database: rows are kept, with
\* their chains.
LEMMA OriginMoves ==
  ASSUME MirrorInv, SourcesSound', UNCHANGED <<hidden, copies, dump, import, imports>>,
         DOMAIN releases \subseteq DOMAIN releases', DOMAIN sources \subseteq DOMAIN sources',
         \A t \in DOMAIN sources : sources'[t].root = sources[t].root /\ sources'[t].text = sources[t].text
  PROVE  MirrorInv'
  <1>1. (ChainsStayApart)'
    <2>1. ASSUME NEW S, Closed(S)'
          PROVE  Closed(S)
      BY <2>1 DEF Closed
    <2>2. ASSUME NEW S \in SUBSET (1..MaxSources), Closed(S)'
          PROVE  \A c, d \in DOMAIN copies :
                   copies[c].root = copies[d].root /\ copies[c].text # Own /\ copies[d].text # Own
                     => (copies[c].text \in S <=> copies[d].text \in S)
      BY <2>1, <2>2 DEF MirrorInv, CopiesSound, ChainsStayApart
    <2> QED
      BY <2>2 DEF ChainsStayApart
  <1>2. CopiesSound'
    BY <1>1 DEF MirrorInv, CopiesSound, Numbered, CopyRecord
  <1>3. DumpSound(dump)'
    BY DEF MirrorInv, DumpSound, DumpShape
  <1>4. ImportSound(import)'
    <2>1. PICK line : line = NextLine(dump.tracks, import.done)
      OBVIOUS
    <2>2. import.at = "store" => line \in DOMAIN sources
      BY <2>1, ImportHas, NextLineIs DEF MirrorInv, ImportSound, DumpSound
    <2>3. line = NextLine(dump.tracks, import.done)'
      BY <2>1 DEF NextLine
    <2>4. UNCHANGED LinesLeft(dump.tracks, import.done)
      BY DEF LinesLeft
    <2>5. import'.at = "store" =>
            /\ LinesLeft(dump.tracks, import.done)'
            /\ import'.same = Nowhere => \A c \in DOMAIN copies' : copies'[c].text # sources'[line].text
            /\ import'.same # Nowhere => import'.same \in DOMAIN copies' /\ copies'[import'.same].text = sources'[line].text
      BY <2>1, <2>2, <2>4 DEF MirrorInv, ImportSound
    <2>6. /\ DOMAIN import'.roots = DOMAIN import'.ids
          /\ \A t \in DOMAIN import'.ids :
               /\ t \in DOMAIN sources' /\ import'.ids[t] \in DOMAIN copies'
               /\ copies'[import'.ids[t]].text = sources'[t].text /\ copies'[import'.ids[t]].root = import'.roots[t]
      BY DEF MirrorInv, ImportSound
    <2>7. /\ ImportShape(import') /\ import'.at \in {"off", "releases", "track", "store"}
          /\ import'.dropped \subseteq import'.releases /\ import'.done \in Nat
          /\ import'.at # "off" => dump'.at = "written"
      BY DEF MirrorInv, ImportSound
    <2> QED
      BY <2>3, <2>5, <2>6, <2>7 DEF ImportSound
  <1> QED
    BY <1>2, <1>3, <1>4 DEF MirrorInv

\* A row appended to the origin, in a chain of its own or in its parent's.
LEMMA SourceAppended ==
  ASSUME MirrorInv, NEW r \in Nat, NEW text, NEW parent \in Nat, NEW root \in Nat,
         Count(sources) < MaxSources, text \in DOMAIN sources \/ text = Count(sources) + 1,
         sources' = With(sources, Count(sources) + 1,
                         [release |-> r, text |-> text, parent |-> parent, root |-> root, live |-> TRUE]),
         \/ parent = Nowhere /\ root = Count(sources) + 1
         \/ parent \in DOMAIN sources /\ root = sources[parent].root,
         Numbered(releases)', DOMAIN releases \subseteq DOMAIN releases', r \in DOMAIN releases',
         (DOMAIN releases \subseteq 1..MaxReleases)',
         UNCHANGED <<hidden, copies, dump, import, imports>>
  PROVE  MirrorInv'
  <1> DEFINE id == Count(sources) + 1
             row == [release |-> r, text |-> text, parent |-> parent, root |-> root, live |-> TRUE]
  <1>0. PICK g : g = With(sources, id, row) /\ sources' = g
    OBVIOUS
  <1>1. /\ id \notin DOMAIN sources /\ id \in Nat /\ DOMAIN sources' = DOMAIN sources \cup {id}
        /\ Numbered(sources') /\ Count(sources') = id /\ sources'[id] = row
        /\ \A t \in DOMAIN sources : sources'[t] = sources[t]
    <2>1. /\ id \notin DOMAIN sources /\ id \in Nat /\ DOMAIN g = DOMAIN sources \cup {id}
          /\ Numbered(g) /\ Count(g) = id /\ g[id] = row
          /\ \A t \in DOMAIN sources : g[t] = sources[t]
      <3>1. /\ id \notin DOMAIN sources /\ id \in Nat
            /\ DOMAIN With(sources, id, row) = DOMAIN sources \cup {id}
            /\ Numbered(With(sources, id, row)) /\ Count(With(sources, id, row)) = id
            /\ With(sources, id, row)[id] = row
            /\ \A t \in DOMAIN sources : With(sources, id, row)[t] = sources[t]
        <4> HIDE DEF row
        <4> QED
          BY SourceIs, WithNext DEF id
      <3> HIDE DEF row, id
      <3> QED
        BY <1>0, <3>1
    <2>2. g = sources'
      BY <1>0
    <2> QED
      BY <2>1, <2>2
  <1>2. row \in SourceRecord /\ text \in 1..id
    <2>1. text \in 1..(Count(sources) + 1) /\ text \in Nat
      BY SourceIs
    <2> QED
      BY <2>1 DEF SourceRecord
  <1>3. \A t \in DOMAIN sources :
          /\ sources[t].release \in DOMAIN releases /\ sources[t].text \in 1..t
          /\ sources[t].root \in 1..t /\ sources[t].root \in DOMAIN sources
          /\ sources[sources[t].root].root = sources[t].root
          /\ sources[t].parent # Nowhere =>
               sources[t].parent \in DOMAIN sources /\ sources[sources[t].parent].root = sources[t].root
    <2>1. \A t \in DOMAIN sources : t \in 1..Count(sources) /\ sources[t].root \in 1..t
      BY SourceIs DEF MirrorInv, SourcesSound
    <2>2. \A t \in DOMAIN sources : sources[t].root \in DOMAIN sources
      BY <2>1, SourceIs
    <2> QED
      BY <2>2 DEF MirrorInv, SourcesSound
  <1>4. \A t \in DOMAIN sources' :
          /\ sources'[t].release \in DOMAIN releases' /\ sources'[t].text \in 1..t
          /\ sources'[t].root \in 1..t /\ sources'[sources'[t].root].root = sources'[t].root
          /\ sources'[t].parent # Nowhere =>
               sources'[t].parent \in DOMAIN sources' /\ sources'[sources'[t].parent].root = sources'[t].root
    <2> HIDE DEF id, row
    <2> SUFFICES ASSUME NEW t \in DOMAIN sources'
                 PROVE  /\ sources'[t].release \in DOMAIN releases' /\ sources'[t].text \in 1..t
                        /\ sources'[t].root \in 1..t /\ sources'[sources'[t].root].root = sources'[t].root
                        /\ sources'[t].parent # Nowhere =>
                             sources'[t].parent \in DOMAIN sources' /\ sources'[sources'[t].parent].root = sources'[t].root
      OBVIOUS
    <2>1. CASE t \in DOMAIN sources
      <3>1. sources'[t] = sources[t] /\ sources'[sources[t].root] = sources[sources[t].root]
        BY <1>1, <1>3, <2>1
      <3>2. sources[t].parent # Nowhere => sources'[sources[t].parent] = sources[sources[t].parent]
        BY <1>1, <1>3, <2>1
      <3> QED
        BY <1>1, <1>3, <2>1, <3>1, <3>2
    <2>2. CASE t = id
      <3>1. /\ sources'[t] = row /\ row.release = r /\ row.parent = parent /\ row.root = root
            /\ row.text \in 1..t
        BY <1>1, <1>2, <2>2 DEF row
      <3>2. CASE parent = Nowhere /\ root = id
        <4>1. root \in 1..t /\ sources'[root] = row
          <5>1. root = t /\ t \in Nat /\ t >= 1
            BY <1>1, <2>2, <3>2, SourceIs DEF id
          <5> QED
            BY <1>1, <5>1, <2>2
        <4> QED
          BY <3>1, <3>2, <4>1
      <3>3. CASE parent \in DOMAIN sources /\ root = sources[parent].root
        <4>1. root \in DOMAIN sources /\ sources[root].root = root
          BY <1>3, <3>3
        <4>2. root \in 1..t
          BY <2>2, <4>1, SourceIs DEF id
        <4>3. sources'[root] = sources[root] /\ sources'[parent] = sources[parent] /\ parent \in DOMAIN sources'
          BY <1>1, <3>3, <4>1
        <4> QED
          BY <3>1, <3>3, <4>1, <4>2, <4>3
      <3> QED
        BY <3>2, <3>3 DEF id
    <2> QED
      BY <1>1, <2>1, <2>2
  <1>5. sources' \in [DOMAIN sources' -> SourceRecord]
    <2> HIDE DEF id, row
    <2>1. \A t \in DOMAIN sources' : sources'[t] \in SourceRecord
      BY <1>1, <1>2, SourceIs
    <2>2. sources' = [t \in DOMAIN sources' |-> sources'[t]]
      BY SourceIs DEF With
    <2> QED
      BY <2>1, <2>2
  <1>6. (sources \in [DOMAIN sources -> SourceRecord])'
    BY <1>5 DEF SourceRecord
  <1>7. (\A t \in DOMAIN sources :
          /\ sources[t].release \in DOMAIN releases /\ sources[t].text \in 1..t
          /\ sources[t].root \in 1..t /\ sources[sources[t].root].root = sources[t].root
          /\ sources[t].parent # Nowhere =>
               /\ sources[t].parent \in DOMAIN sources
               /\ sources[sources[t].parent].root = sources[t].root)'
    BY <1>4 DEF Nowhere
  <1>8. (Numbered(sources) /\ Count(sources) <= MaxSources /\ hidden \subseteq DOMAIN releases)'
    <2>1. hidden' \subseteq DOMAIN releases'
      BY DEF MirrorInv, SourcesSound
    <2>2. Numbered(sources)' /\ Count(sources)' = Count(sources) + 1
      BY <1>1 DEF Numbered, Count
    <2>3. Count(sources) \in Nat /\ MaxSources \in Nat
      BY SourceIs, MirrorConstants
    <2>4. (Count(sources) <= MaxSources)'
      BY <2>2, <2>3
    <2> QED
      BY <2>1, <2>2, <2>4
  <1>9. SourcesSound'
    BY <1>6, <1>7, <1>8 DEF SourcesSound
  <1>10. \A t \in DOMAIN sources : sources'[t].root = sources[t].root /\ sources'[t].text = sources[t].text
    BY <1>1
  <1> QED
    BY <1>1, <1>9, <1>10, OriginMoves

\* A text stored is a new one, or some row's.
LEMMA TextIsOf ==
  ASSUME MirrorInv, NEW r, NEW after, NEW text \in TextOf(r, after)
  PROVE  text \in DOMAIN sources \/ text = Count(sources) + 1
  BY SourceIs DEF TextOf

LEMMA SourceUploadStep ==
  ASSUME MirrorInv, NEW r \in 1..MaxReleases, SourceUpload(r)
  PROVE  MirrorInv'
  <1>1. r <= Count(releases) + 1 /\ releases' = With(releases, r, TRUE) /\ r \in Nat /\ Count(sources) + 1 \in Nat
    BY SourceIs DEF SourceUpload
  <1>2. DOMAIN releases' = DOMAIN releases \cup {r}
    BY <1>1 DEF With
  <1>3. DOMAIN releases' = DOMAIN releases \/ DOMAIN releases' = 1..(Count(releases) + 1)
    <2>1. PICK n \in Nat : n = Count(releases) /\ DOMAIN releases = 1..n
      BY SourceIs
    <2>2. r \in 1..n \/ r = n + 1
      BY <1>1, <2>1
    <2>3. 1..n \cup {n + 1} = 1..(n + 1)
      BY <2>1
    <2> QED
      BY <1>2, <2>1, <2>2, <2>3
  <1>4. Numbered(releases')
    BY <1>3, SourceIs DEF Numbered
  <1>5. Numbered(releases)'
    BY <1>4 DEF Numbered
  <1>6. DOMAIN releases \subseteq 1..MaxReleases
    BY DEF MirrorInv, SourcesSound
  <1>7. Nowhere \in Nat
    BY DEF Nowhere
  <1>8. PICK text \in TextOf(r, 0) :
          sources' = With(sources, Count(sources) + 1,
                          [release |-> r, text |-> text, parent |-> Nowhere, root |-> Count(sources) + 1,
                           live |-> TRUE])
    BY DEF SourceUpload
  <1> QED
    BY <1>1, <1>2, <1>5, <1>6, <1>7, <1>8, TextIsOf, SourceAppended DEF SourceUpload

LEMMA SourceReviseStep ==
  ASSUME MirrorInv, NEW t \in DOMAIN sources, SourceRevise(t)
  PROVE  MirrorInv'
  <1>1. sources[t] \in SourceRecord /\ sources[t].release \in DOMAIN releases /\ t \in Nat
    BY SourceIs DEF MirrorInv, SourcesSound
  <1>2. sources[t].release \in Nat /\ sources[t].root \in Nat
    BY <1>1 DEF SourceRecord
  <1>3. Numbered(releases)' /\ DOMAIN releases \subseteq 1..MaxReleases
    BY DEF SourceRevise, Numbered, MirrorInv, SourcesSound
  <1>4. PICK text \in TextOf(sources[t].release, t) :
          sources' = With(sources, Count(sources) + 1,
                          [release |-> sources[t].release, text |-> text, parent |-> t, root |-> sources[t].root,
                           live |-> TRUE])
    BY DEF SourceRevise
  <1> QED
    BY <1>1, <1>2, <1>3, <1>4, TextIsOf, SourceAppended DEF SourceRevise

\* Only whether rows are live changes.
LEMMA SourceKept ==
  ASSUME MirrorInv, NEW t \in DOMAIN sources, NEW k, k = [sources[t] EXCEPT !.live = FALSE],
         sources' = [sources EXCEPT ![t] = k], UNCHANGED <<releases, hidden, copies, dump, import, imports>>
  PROVE  MirrorInv'
  <1>1. /\ k \in SourceRecord /\ k.release = sources[t].release /\ k.parent = sources[t].parent
        /\ k.root = sources[t].root /\ k.text = sources[t].text
    BY SourceIs DEF SourceRecord
  <1>2. /\ DOMAIN sources' = DOMAIN sources /\ sources' \in [DOMAIN sources -> SourceRecord]
        /\ \A u \in DOMAIN sources : /\ sources'[u].root = sources[u].root
                                     /\ sources'[u].release = sources[u].release
                                     /\ sources'[u].parent = sources[u].parent
                                     /\ sources'[u].text = sources[u].text
    BY <1>1, SourceIs
  <1>3. \A u \in DOMAIN sources : sources[u].root \in DOMAIN sources
    <2>1. \A u \in DOMAIN sources : u \in 1..Count(sources) /\ sources[u].root \in 1..u
      BY SourceIs DEF MirrorInv, SourcesSound
    <2> QED
      BY <2>1, SourceIs
  <1>4. (\A u \in DOMAIN sources :
          /\ sources[u].release \in DOMAIN releases /\ sources[u].text \in 1..u
          /\ sources[u].root \in 1..u /\ sources[sources[u].root].root = sources[u].root
          /\ sources[u].parent # Nowhere =>
               /\ sources[u].parent \in DOMAIN sources
               /\ sources[sources[u].parent].root = sources[u].root)'
    BY <1>2, <1>3 DEF MirrorInv, SourcesSound, Nowhere
  <1>5. (sources \in [DOMAIN sources -> SourceRecord])'
    BY <1>2 DEF SourceRecord
  <1>6. (Numbered(releases) /\ Numbered(sources) /\ Count(sources) <= MaxSources
         /\ DOMAIN releases \subseteq 1..MaxReleases /\ hidden \subseteq DOMAIN releases)'
    BY <1>2 DEF Numbered, Count, MirrorInv, SourcesSound
  <1>7. SourcesSound'
    BY <1>4, <1>5, <1>6 DEF SourcesSound
  <1> QED
    BY <1>2, <1>7, OriginMoves

LEMMA SourceWithdrawStep ==
  ASSUME MirrorInv, NEW t \in DOMAIN sources, SourceWithdraw(t)
  PROVE  MirrorInv'
  <1>1. PICK k : k = [sources[t] EXCEPT !.live = FALSE] /\ sources' = [sources EXCEPT ![t] = k]
    BY DEF SourceWithdraw
  <1> QED
    BY <1>1, SourceKept DEF SourceWithdraw

LEMMA SourceReleaseStep ==
  ASSUME MirrorInv, NEW r \in DOMAIN releases, NEW live \in BOOLEAN, SourceReleaseLive(r, live)
  PROVE  MirrorInv'
  <1>1. DOMAIN releases' = DOMAIN releases /\ UNCHANGED <<sources, hidden, copies, dump, import, imports>>
    BY DEF SourceReleaseLive
  <1>2. SourcesSound'
    BY <1>1 DEF MirrorInv, SourcesSound, Numbered, Count, SourceRecord
  <1> QED
    BY <1>1, <1>2, OriginMoves

-----------------------------------------------------------------------------
\* The steps of the dump.
LEMMA DumpMoves ==
  ASSUME MirrorInv, NEW k, dump' = k, DumpShape(k), k.tracks \subseteq DOMAIN sources,
         k.releases \subseteq DOMAIN releases, import.at = "off",
         UNCHANGED <<releases, sources, hidden, copies, import, imports>>
  PROVE  MirrorInv'
  <1>1. (SourcesSound /\ CopiesSound)'
    BY DEF MirrorInv, SourcesSound, CopiesSound, Numbered, ChainsStayApart, Closed, Count, SourceRecord, CopyRecord
  <1>2. DumpSound(dump)'
    BY DEF MirrorInv, DumpSound, DumpShape
  <1>3. ImportSound(import)'
    BY DEF MirrorInv, ImportSound, ImportShape
  <1> QED
    BY <1>1, <1>2, <1>3 DEF MirrorInv


LEMMA StartDumpStep ==
  ASSUME MirrorInv, StartDump
  PROVE  MirrorInv'
  <1>1. PICK k : k = [NoDump EXCEPT !.at = "releases"] /\ dump' = k
    BY DEF StartDump
  <1>2. DumpShape(k) /\ k.tracks = {} /\ k.releases = {}
    BY <1>1 DEF NoDump, DumpShape
  <1> QED
    BY <1>1, <1>2, DumpMoves DEF StartDump

LEMMA DumpReleasesStep ==
  ASSUME MirrorInv, DumpReleasesAfter
  PROVE  MirrorInv'
  <1>1. PICK batch : batch = Batch({r \in DOMAIN releases : r > dump.after /\ releases[r]})
    OBVIOUS
  <1>2. batch \subseteq DOMAIN releases
    BY <1>1 DEF Batch
  <1>3. DumpShape(dump) /\ dump.tracks \subseteq DOMAIN sources /\ dump.releases \subseteq DOMAIN releases
    BY DEF MirrorInv, DumpSound
  <1>4. import.at = "off"
    BY DEF MirrorInv, ImportSound, DumpReleasesAfter
  <1>5. CASE batch = {}
    <2>1. PICK k : k = [dump EXCEPT !.at = "tracks", !.after = 0] /\ dump' = k
      BY <1>1, <1>5 DEF DumpReleasesAfter
    <2>2. DumpShape(k) /\ k.tracks = dump.tracks /\ k.releases = dump.releases
      BY <1>3, <2>1 DEF DumpShape
    <2> QED
      BY <1>3, <1>4, <2>1, <2>2, DumpMoves DEF DumpReleasesAfter
  <1>6. CASE batch # {}
    <2>1. PICK last : last = Last(batch)
      OBVIOUS
    <2>2. PICK k : k = [dump EXCEPT !.releases = dump.releases \cup batch, !.after = last] /\ dump' = k
      BY <1>1, <1>6, <2>1 DEF DumpReleasesAfter
    <2>3. DumpShape(k) /\ k.tracks = dump.tracks /\ k.releases = dump.releases \cup batch
      BY <1>3, <2>2 DEF DumpShape
    <2> QED
      BY <1>2, <1>3, <1>4, <2>2, <2>3, DumpMoves DEF DumpReleasesAfter
  <1> QED
    BY <1>5, <1>6

LEMMA DumpTracksStep ==
  ASSUME MirrorInv, DumpTracksAfter
  PROVE  MirrorInv'
  <1>1. PICK batch : batch = Batch({t \in DOMAIN sources : t > dump.after /\ sources[t].live /\ releases[sources[t].release]})
    OBVIOUS
  <1>2. batch \subseteq DOMAIN sources
    BY <1>1 DEF Batch
  <1>3. DumpShape(dump) /\ dump.tracks \subseteq DOMAIN sources /\ dump.releases \subseteq DOMAIN releases
    BY DEF MirrorInv, DumpSound
  <1>4. import.at = "off"
    BY DEF MirrorInv, ImportSound, DumpTracksAfter
  <1>5. CASE batch = {}
    <2>1. PICK k : k = [dump EXCEPT !.at = "written", !.after = 0] /\ dump' = k
      BY <1>1, <1>5 DEF DumpTracksAfter
    <2>2. DumpShape(k) /\ k.tracks = dump.tracks /\ k.releases = dump.releases
      BY <1>3, <2>1 DEF DumpShape
    <2> QED
      BY <1>3, <1>4, <2>1, <2>2, DumpMoves DEF DumpTracksAfter
  <1>6. CASE batch # {}
    <2>1. PICK last : last = Last(batch)
      OBVIOUS
    <2>2. PICK k : k = [dump EXCEPT !.tracks = dump.tracks \cup batch, !.after = last] /\ dump' = k
      BY <1>1, <1>6, <2>1 DEF DumpTracksAfter
    <2>3. DumpShape(k) /\ k.releases = dump.releases /\ k.tracks = dump.tracks \cup batch
      BY <1>3, <2>2 DEF DumpShape
    <2> QED
      BY <1>2, <1>3, <1>4, <2>2, <2>3, DumpMoves DEF DumpTracksAfter
  <1> QED
    BY <1>5, <1>6

-----------------------------------------------------------------------------
\* The steps of the import.
LEMMA StopImportStep ==
  ASSUME MirrorInv, StopImport
  PROVE  MirrorInv'
  BY NoImportSound, ImportMoves DEF StopImport

LEMMA StartImportStep ==
  ASSUME MirrorInv, StartImport
  PROVE  MirrorInv'
  <1>1. PICK k : k = [NoImport EXCEPT !.at = "releases"] /\ import' = k
    BY DEF StartImport
  <1>2. ImportShape(k) /\ k.at = "releases" /\ k.dropped = {} /\ k.releases = {} /\ k.done = 0
        /\ k.ids = <<>> /\ k.roots = <<>>
    BY <1>1 DEF NoImport, ImportShape
  <1>3. DOMAIN <<>> = {}
    OBVIOUS
  <1>4. ImportSound(k)
    BY <1>2, <1>3 DEF ImportSound, StartImport
  <1>5. (SourcesSound /\ CopiesSound /\ DumpSound(dump))'
    BY DEF MirrorInv, SourcesSound, CopiesSound, DumpSound, Numbered, ChainsStayApart, Closed, Count,
           DumpShape, SourceRecord, CopyRecord, StartImport
  <1>6. ImportSound(import)'
    BY <1>1, <1>4 DEF ImportSound, ImportShape, LinesLeft, NextLine, StartImport
  <1> QED
    BY <1>5, <1>6 DEF MirrorInv

\* Between two lines nothing is known of a next one.
LEMMA ImportNoted ==
  ASSUME MirrorInv, NEW k, ImportShape(k), k.at \in {"releases", "track"}, import.at # "off",
         k.dropped \subseteq k.releases, k.done \in Nat, k.ids = import.ids, k.roots = import.roots
  PROVE  ImportSound(k)
  BY DEF MirrorInv, ImportSound

LEMMA ImportReleaseStep ==
  ASSUME MirrorInv, ImportRelease
  PROVE  MirrorInv'
  <1>1. import.at = "releases"
    BY DEF ImportRelease
  <1>2. CASE ~ LinesLeft(dump.releases, import.done)
    <2>1. PICK k : k = [import EXCEPT !.at = "track", !.done = 0] /\ import' = k
      BY <1>2 DEF ImportRelease
    <2>2. /\ ImportShape(k) /\ k.at = "track" /\ k.done = 0 /\ k.ids = import.ids /\ k.roots = import.roots
          /\ k.dropped = import.dropped /\ k.releases = import.releases
      BY <2>1, ImportHas DEF ImportShape
    <2>3. ImportSound(k)
      BY <1>1, <2>2, ImportHas, ImportNoted
    <2> QED
      BY <2>1, <2>3, ImportMoves DEF ImportRelease
  <1>3. CASE LinesLeft(dump.releases, import.done)
    <2>1. PICK r : r = NextLine(dump.releases, import.done)
      OBVIOUS
    <2>2. r \in Nat
      BY <1>3, <2>1, ImportHas, NextLineIs
    <2>3. PICK dropped : dropped = IF r \in hidden THEN import.dropped \cup {r} ELSE import.dropped
      OBVIOUS
    <2>4. PICK k : k = [import EXCEPT !.done = r, !.releases = import.releases \cup {r}, !.dropped = dropped]
                   /\ import' = k
      BY <1>3, <2>1, <2>3 DEF ImportRelease
    <2>5. /\ ImportShape(k) /\ k.at = import.at /\ k.done = r /\ k.ids = import.ids /\ k.roots = import.roots
          /\ k.dropped = dropped /\ k.releases = import.releases \cup {r}
      BY <2>4, ImportHas DEF ImportShape
    <2>6. ImportSound(k)
      BY <1>1, <2>2, <2>3, <2>5, ImportHas, ImportNoted
    <2> QED
      BY <2>4, <2>6, ImportMoves DEF ImportRelease
  <1> QED
    BY <1>2, <1>3

\* A look for a text finds its row, or says that there is none.
LEMMA FindIdenticalTrackIs ==
  ASSUME MirrorInv, NEW text
  PROVE  \/ FindIdenticalTrack(text) = Nowhere /\ \A c \in DOMAIN copies : copies[c].text # text
         \/ /\ FindIdenticalTrack(text) \in DOMAIN copies
            /\ copies[FindIdenticalTrack(text)].text = text
  <1>1. PICK same : same = {c \in DOMAIN copies : copies[c].text = text}
    OBVIOUS
  <1>2. CASE same = {}
    BY <1>1, <1>2 DEF FindIdenticalTrack
  <1>3. CASE same # {}
    <2>1. PICK n \in Nat : DOMAIN copies = 1..n
      BY DEF MirrorInv, CopiesSound, Numbered
    <2>2. same \in SUBSET Nat
      BY <1>1, <2>1
    <2>3. PICK c \in same : \A d \in same : c <= d
      BY <1>3, <2>2, LeastIs
    <2>4. FindIdenticalTrack(text) = CHOOSE x \in same : \A d \in same : x <= d
      BY <1>1, <1>3 DEF FindIdenticalTrack
    <2>5. FindIdenticalTrack(text) \in same
      BY <2>3, <2>4
    <2> QED
      BY <1>1, <2>5
  <1> QED
    BY <1>2, <1>3

LEMMA ReadTrackLineStep ==
  ASSUME MirrorInv, ReadTrackLine
  PROVE  MirrorInv'
  <1>1. import.at = "track" /\ Nowhere \notin DOMAIN copies
    <2>1. PICK n \in Nat : DOMAIN copies = 1..n
      BY DEF MirrorInv, CopiesSound, Numbered
    <2> QED
      BY <2>1 DEF ReadTrackLine, Nowhere
  <1>2. CASE import' = NoImport
    BY <1>2, NoImportSound, ImportMoves DEF ReadTrackLine
  <1>3. CASE import' # NoImport
    <2>1. LinesLeft(dump.tracks, import.done)
      BY <1>3 DEF ReadTrackLine
    <2>2. PICK line : line = Line
      OBVIOUS
    <2>3. line \in Nat /\ line = NextLine(dump.tracks, import.done)
      BY <2>1, <2>2, ImportHas, NextLineIs DEF Line
    <2>4. CASE sources[line].release \in import.dropped \/ sources[line].text \in Unparseable
      <3>1. PICK k : k = [import EXCEPT !.done = line] /\ import' = k
        BY <1>3, <2>1, <2>2, <2>4 DEF ReadTrackLine
      <3>2. /\ ImportShape(k) /\ k.at = import.at /\ k.done = line /\ k.ids = import.ids /\ k.roots = import.roots
            /\ k.dropped = import.dropped /\ k.releases = import.releases
        BY <3>1, ImportHas DEF ImportShape
      <3>3. ImportSound(k)
        BY <1>1, <2>3, <3>2, ImportHas, ImportNoted
      <3> QED
        BY <3>1, <3>3, ImportMoves DEF ReadTrackLine
    <2>5. CASE ~ (sources[line].release \in import.dropped \/ sources[line].text \in Unparseable)
      <3>1. PICK same : same = FindIdenticalTrack(sources[line].text)
        OBVIOUS
      <3>2. PICK k : k = [import EXCEPT !.at = "store", !.same = same] /\ import' = k
        BY <1>3, <2>1, <2>2, <2>5, <3>1 DEF ReadTrackLine
      <3>3. /\ ImportShape(k) /\ k.at = "store" /\ k.same = same /\ k.done = import.done
            /\ k.ids = import.ids /\ k.roots = import.roots
            /\ k.dropped = import.dropped /\ k.releases = import.releases
        BY <3>2, ImportHas DEF ImportShape
      <3>4. \/ same = Nowhere /\ \A c \in DOMAIN copies : copies[c].text # sources[line].text
            \/ same \in DOMAIN copies /\ copies[same].text = sources[line].text
        BY <3>1, FindIdenticalTrackIs
      <3>5. ImportSound(k)
        BY <1>1, <2>1, <2>3, <3>3, <3>4 DEF ImportSound, MirrorInv
      <3> QED
        BY <3>2, <3>5, ImportMoves DEF ReadTrackLine
    <2> QED
      BY <2>4, <2>5
  <1> QED
    BY <1>2, <1>3

\* A line's row is noted, and the chain it is in.
LEMMA LineNoted ==
  ASSUME MirrorInv, import.at = "store", NEW id, NEW root, NEW k, k = Imported(id, root)
  PROVE  /\ ImportShape(k) /\ k.at = "track" /\ k.done = Line /\ k.dropped = import.dropped
         /\ k.releases = import.releases /\ Line \in DOMAIN sources /\ Line \in Nat
         /\ DOMAIN k.ids = DOMAIN import.ids \cup {Line} /\ DOMAIN k.roots = DOMAIN k.ids
         /\ k.ids[Line] = id /\ k.roots[Line] = root
         /\ \A t \in DOMAIN import.ids \ {Line} : k.ids[t] = import.ids[t] /\ k.roots[t] = import.roots[t]
  <1>1. PICK line : line = Line
    OBVIOUS
  <1>2. LinesLeft(dump.tracks, import.done)
    BY DEF MirrorInv, ImportSound
  <1>3. line \in dump.tracks
    BY <1>1, <1>2, ImportHas, NextLineIs DEF Line
  <1>4. line \in DOMAIN sources /\ line \in Nat
    BY <1>3, ImportHas DEF MirrorInv, DumpSound
  <1>5. PICK ids, roots : ids = With(import.ids, line, id) /\ roots = With(import.roots, line, root)
    OBVIOUS
  <1>6. k = [import EXCEPT !.at = "track", !.done = line, !.same = Nowhere, !.ids = ids, !.roots = roots]
    BY <1>1, <1>5 DEF Imported
  <1>7. /\ ImportShape(k) /\ k.at = "track" /\ k.done = line /\ k.dropped = import.dropped
        /\ k.releases = import.releases /\ k.ids = ids /\ k.roots = roots
    BY <1>6, ImportHas DEF ImportShape
  <1>8. /\ DOMAIN ids = DOMAIN import.ids \cup {line} /\ DOMAIN roots = DOMAIN ids
        /\ ids[line] = id /\ roots[line] = root
        /\ \A t \in DOMAIN import.ids \ {line} : ids[t] = import.ids[t] /\ roots[t] = import.roots[t]
    BY <1>5, ImportHas DEF With
  <1> QED
    BY <1>1, <1>4, <1>7, <1>8

LEMMA KeepIdenticalStep ==
  ASSUME MirrorInv, KeepIdentical
  PROVE  MirrorInv'
  <1>1. PICK k : k = Imported(import.same, copies[import.same].root) /\ import' = k
    BY DEF KeepIdentical
  <1>2. import.at = "store" /\ import.same \in DOMAIN copies /\ copies[import.same].text = sources[Line].text
    BY DEF KeepIdentical, MirrorInv, ImportSound, Line
  <1>3. ImportSound(k)
    <2>1. \A t \in DOMAIN k.ids :
            /\ t \in DOMAIN sources /\ k.ids[t] \in DOMAIN copies
            /\ copies[k.ids[t]].text = sources[t].text /\ copies[k.ids[t]].root = k.roots[t]
      BY <1>1, <1>2, LineNoted DEF MirrorInv, ImportSound
    <2> QED
      BY <1>1, <1>2, <2>1, LineNoted DEF MirrorInv, ImportSound
  <1> QED
    BY <1>1, <1>3, ImportMoves DEF KeepIdentical

-----------------------------------------------------------------------------
\* The mirror's rows.
LEMMA CopyIs ==
  ASSUME MirrorInv
  PROVE  /\ Numbered(copies) /\ DOMAIN copies = 1..Count(copies) /\ Count(copies) \in Nat
         /\ copies \in [DOMAIN copies -> CopyRecord] /\ Nowhere \notin DOMAIN copies
         /\ \A c \in DOMAIN copies : copies[c].root \in DOMAIN copies
  <1>1. Numbered(copies) /\ DOMAIN copies = 1..Count(copies) /\ Count(copies) \in Nat
    BY CountIs DEF MirrorInv, CopiesSound
  <1>2. \A c \in DOMAIN copies : copies[c].root \in 1..c
    BY DEF MirrorInv, CopiesSound
  <1> QED
    BY <1>1, <1>2 DEF MirrorInv, CopiesSound, Nowhere

LEMMA CopiesGrow ==
  ASSUME MirrorInv, CopiesSound', DOMAIN copies \subseteq DOMAIN copies',
         \A c \in DOMAIN copies : copies'[c].text = copies[c].text /\ copies'[c].root = copies[c].root,
         \A c \in DOMAIN copies' : c \notin DOMAIN copies => copies'[c].text = Own,
         UNCHANGED <<releases, sources, hidden, dump, import, imports>>
  PROVE  MirrorInv'
  <1>1. (SourcesSound /\ DumpSound(dump))'
    BY DEF MirrorInv, SourcesSound, DumpSound, Numbered, Count, DumpShape, SourceRecord
  <1>2. import.at = "store" => sources[NextLine(dump.tracks, import.done)].text # Own
    <2>1. import.at = "store" => NextLine(dump.tracks, import.done) \in DOMAIN sources
      BY ImportHas, NextLineIs DEF MirrorInv, ImportSound, DumpSound
    <2> QED
      BY <2>1, SourceIs DEF Own, Nowhere
  <1>3. ImportSound(import)'
    BY <1>2 DEF MirrorInv, ImportSound, ImportShape, LinesLeft, NextLine
  <1> QED
    BY <1>1, <1>3 DEF MirrorInv

LEMMA CopiesWith ==
  ASSUME MirrorInv, NEW row, copies' = With(copies, Count(copies) + 1, row)
  PROVE  /\ Count(copies) + 1 \notin DOMAIN copies /\ Count(copies) + 1 \in Nat
         /\ DOMAIN copies' = DOMAIN copies \cup {Count(copies) + 1}
         /\ Numbered(copies') /\ copies'[Count(copies) + 1] = row
         /\ \A c \in DOMAIN copies : copies'[c] = copies[c]
  <1> DEFINE id == Count(copies) + 1
  <1>1. PICK g : g = With(copies, id, row) /\ copies' = g
    OBVIOUS
  <1>2. /\ id \notin DOMAIN copies /\ id \in Nat
        /\ DOMAIN With(copies, id, row) = DOMAIN copies \cup {id}
        /\ Numbered(With(copies, id, row))
        /\ With(copies, id, row)[id] = row
        /\ \A c \in DOMAIN copies : With(copies, id, row)[c] = copies[c]
    BY CopyIs, WithNext DEF id
  <1>3. /\ id \notin DOMAIN copies /\ id \in Nat /\ DOMAIN copies' = DOMAIN copies \cup {id}
        /\ Numbered(copies') /\ copies'[id] = row
        /\ \A c \in DOMAIN copies : copies'[c] = copies[c]
    <2> HIDE DEF id
    <2> QED
      BY <1>1, <1>2
  <1> QED
    BY <1>3

\* A row appended, whose text is new here and whose chain is the text's.
LEMMA CopyAppended ==
  ASSUME MirrorInv, NEW row \in CopyRecord,
         copies' = With(copies, Count(copies) + 1, row), UNCHANGED sources,
         row.root \in 1..(Count(copies) + 1), row.parent \in 0..Count(copies),
         row.text # Own => /\ \E s \in DOMAIN sources : sources[s].text = row.text
                           /\ \A c \in DOMAIN copies : copies[c].text # row.text,
         \A S \in SUBSET (1..MaxSources) : Closed(S) =>
           \A c \in DOMAIN copies : copies[c].root = row.root /\ copies[c].text # Own /\ row.text # Own =>
              (copies[c].text \in S <=> row.text \in S)
  PROVE  CopiesSound'
  <1> DEFINE id == Count(copies) + 1
  <1>1. /\ id \notin DOMAIN copies /\ id \in Nat /\ DOMAIN copies' = DOMAIN copies \cup {id}
        /\ Numbered(copies') /\ copies'[id] = row
        /\ \A c \in DOMAIN copies : copies'[c] = copies[c]
    BY CopiesWith
  <1> HIDE DEF id
  <1>2. (copies \in [DOMAIN copies -> CopyRecord])'
    <2>1. \A c \in DOMAIN copies' : copies'[c] \in CopyRecord
      BY <1>1, CopyIs
    <2>2. copies' = [c \in DOMAIN copies' |-> copies'[c]]
      BY DEF With
    <2>3. copies' \in [DOMAIN copies' -> CopyRecord]
      BY <2>1, <2>2
    <2> QED
      BY <2>3 DEF CopyRecord
  <1>3. (\A c \in DOMAIN copies :
           /\ copies[c].root \in 1..c /\ copies[c].parent \in 0..(c - 1)
           /\ copies[c].text # Own => \E s \in DOMAIN sources : sources[s].text = copies[c].text)'
    <2>1. ASSUME NEW c \in DOMAIN copies
          PROVE  /\ copies'[c].root \in 1..c /\ copies'[c].parent \in 0..(c - 1)
                 /\ copies'[c].text # Own => \E s \in DOMAIN sources : sources[s].text = copies'[c].text
      BY <1>1 DEF MirrorInv, CopiesSound
    <2>2. row.root \in 1..id /\ row.parent \in 0..(id - 1)
      BY CopyIs DEF id
    <2> QED
      BY <1>1, <2>1, <2>2 DEF Own
  <1>4. (\A c, d \in DOMAIN copies : copies[c].text # Own /\ copies[c].text = copies[d].text => c = d)'
    BY <1>1 DEF MirrorInv, CopiesSound, Own
  <1>5. ASSUME NEW S \in SUBSET (1..MaxSources), Closed(S),
               NEW c \in DOMAIN copies', NEW d \in DOMAIN copies', copies'[c].root = copies'[d].root,
               copies'[c].text # Own, copies'[d].text # Own
        PROVE  copies'[c].text \in S <=> copies'[d].text \in S
    BY <1>1, <1>5 DEF MirrorInv, CopiesSound, ChainsStayApart
  <1>6. (ChainsStayApart)'
    BY <1>5 DEF ChainsStayApart, Closed, Own
  <1>7. Numbered(copies)'
    BY <1>1 DEF Numbered
  <1> QED
    BY <1>2, <1>3, <1>4, <1>6, <1>7 DEF CopiesSound

LEMMA ReviseCopyStep ==
  ASSUME MirrorInv, NEW c \in DOMAIN copies, ReviseCopy(c)
  PROVE  MirrorInv'
  <1>1. PICK row : /\ row = [release |-> copies[c].release, text |-> Own, parent |-> c, root |-> copies[c].root,
                             live |-> TRUE]
                   /\ copies' = With(copies, Count(copies) + 1, row)
    BY DEF ReviseCopy
  <1>2. copies[c] \in CopyRecord /\ copies[c].root \in 1..Count(copies) /\ c \in 1..Count(copies)
    BY CopyIs
  <1>3. row \in CopyRecord /\ row.text = Own /\ row.parent = c /\ row.root = copies[c].root
    BY <1>1, <1>2 DEF CopyRecord, Own
  <1>4. row.root \in 1..(Count(copies) + 1) /\ row.parent \in 0..Count(copies)
    BY <1>2, <1>3, CopyIs
  <1>5. CopiesSound'
    BY <1>1, <1>3, <1>4, CopyAppended DEF ReviseCopy
  <1>6. /\ DOMAIN copies' = DOMAIN copies \cup {Count(copies) + 1} /\ copies'[Count(copies) + 1] = row
        /\ \A d \in DOMAIN copies : copies'[d] = copies[d]
    BY <1>1, CopiesWith
  <1>7. UNCHANGED <<releases, sources, hidden, dump, import, imports>>
    BY DEF ReviseCopy
  <1>8. /\ DOMAIN copies \subseteq DOMAIN copies'
        /\ \A d \in DOMAIN copies : copies'[d].text = copies[d].text /\ copies'[d].root = copies[d].root
        /\ \A d \in DOMAIN copies' : d \notin DOMAIN copies => copies'[d].text = Own
    BY <1>3, <1>6
  <1> QED
    BY <1>5, <1>7, <1>8, CopiesGrow

\* A row is taken down or restored.
LEMMA FlagStep ==
  ASSUME MirrorInv, NEW c \in DOMAIN copies, NEW live \in BOOLEAN, NEW k,
         k = [copies[c] EXCEPT !.live = live], copies' = [copies EXCEPT ![c] = k],
         UNCHANGED <<releases, sources, hidden, dump, import, imports>>
  PROVE  MirrorInv'
  <1>1. /\ k \in CopyRecord /\ k.release = copies[c].release /\ k.text = copies[c].text
        /\ k.parent = copies[c].parent /\ k.root = copies[c].root
    BY CopyIs DEF CopyRecord
  <1>2. /\ DOMAIN copies' = DOMAIN copies /\ copies' \in [DOMAIN copies -> CopyRecord]
        /\ \A d \in DOMAIN copies : /\ copies'[d].root = copies[d].root /\ copies'[d].text = copies[d].text
                                    /\ copies'[d].parent = copies[d].parent
    BY <1>1, CopyIs
  <1>3. (ChainsStayApart)'
    <2> SUFFICES ASSUME NEW S \in SUBSET (1..MaxSources), Closed(S),
                        NEW d \in DOMAIN copies, NEW e \in DOMAIN copies, copies[d].root = copies[e].root,
                        copies[d].text # Own, copies[e].text # Own
                 PROVE  copies[d].text \in S <=> copies[e].text \in S
      BY <1>2 DEF ChainsStayApart, Closed
    <2> QED
      BY DEF MirrorInv, CopiesSound, ChainsStayApart
  <1>4. (copies \in [DOMAIN copies -> CopyRecord] /\ Numbered(copies))'
    BY <1>2, CopyIs DEF CopyRecord, Numbered
  <1>5. CopiesSound'
    BY <1>2, <1>3, <1>4 DEF MirrorInv, CopiesSound
  <1> QED
    BY <1>2, <1>5, CopiesGrow

LEMMA TakedownStep ==
  ASSUME MirrorInv, NEW c \in DOMAIN copies, WithdrawCopy(c) \/ RestoreCopy(c)
  PROVE  MirrorInv'
  <1>1. PICK live \in BOOLEAN : copies' = [copies EXCEPT ![c].live = live]
    BY DEF WithdrawCopy, RestoreCopy
  <1>2. PICK k : k = [copies[c] EXCEPT !.live = live] /\ copies' = [copies EXCEPT ![c] = k]
    BY <1>1
  <1>3. UNCHANGED <<releases, sources, hidden, dump, import, imports>>
    BY DEF WithdrawCopy, RestoreCopy
  <1> QED
    BY <1>2, <1>3, FlagStep

LEMMA HideReleaseStep ==
  ASSUME MirrorInv, NEW r \in DOMAIN releases, HideRelease(r)
  PROVE  MirrorInv'
  <1>1. hidden' \subseteq DOMAIN releases
    BY DEF HideRelease, MirrorInv, SourcesSound
  <1>2. (SourcesSound /\ DumpSound(dump))'
    BY <1>1 DEF HideRelease, MirrorInv, SourcesSound, DumpSound, DumpShape, Numbered, Count, SourceRecord
  <1>3. (CopiesSound)'
    BY DEF HideRelease, MirrorInv, CopiesSound, Numbered, ChainsStayApart, Closed, CopyRecord
  <1>4. (ImportSound(import))'
    BY DEF HideRelease, MirrorInv, ImportSound, ImportShape, LinesLeft, NextLine
  <1> QED
    BY <1>2, <1>3, <1>4 DEF MirrorInv

\* Where a line's chain goes on, a row of that chain is.
LEMMA RootHereIs ==
  ASSUME MirrorInv, import.at = "store"
  PROVE  /\ Line \in DOMAIN sources
         /\ RootHere # Nowhere =>
              \E c \in DOMAIN copies, t \in DOMAIN sources :
                /\ copies[c].root = RootHere /\ copies[c].text = sources[t].text
                /\ sources[t].root = sources[Line].root
         /\ ParentHere = Nowhere \/ ParentHere \in DOMAIN copies
  <1>1. PICK line : line = Line
    OBVIOUS
  <1>2. LinesLeft(dump.tracks, import.done)
    BY DEF MirrorInv, ImportSound
  <1>3. line \in DOMAIN sources
    BY <1>1, <1>2, ImportHas, NextLineIs DEF Line, MirrorInv, DumpSound
  <1>4. \A t \in DOMAIN import.ids :
          /\ t \in DOMAIN sources /\ import.ids[t] \in DOMAIN copies
          /\ copies[import.ids[t]].text = sources[t].text /\ copies[import.ids[t]].root = import.roots[t]
    BY DEF MirrorInv, ImportSound
  <1>5. ParentHere = Nowhere \/ ParentHere \in DOMAIN copies
    BY <1>4 DEF ParentHere
  <1>6. ASSUME RootHere # Nowhere
        PROVE  \E t \in DOMAIN import.ids : RootHere = import.roots[t] /\ sources[t].root = sources[line].root
    <2>1. CASE sources[line].parent # Nowhere /\ sources[line].parent \in DOMAIN import.ids
      <3>1. RootHere = import.roots[sources[line].parent]
        BY <1>1, <2>1 DEF RootHere
      <3>2. sources[sources[line].parent].root = sources[line].root
        BY <1>3, <2>1 DEF MirrorInv, SourcesSound
      <3> QED
        BY <2>1, <3>1, <3>2
    <2>2. CASE sources[line].parent # Nowhere /\ sources[line].parent \notin DOMAIN import.ids
      <3>1. sources[line].root \in DOMAIN import.roots /\ RootHere = import.roots[sources[line].root]
        BY <1>1, <1>6, <2>2 DEF RootHere
      <3>2. sources[sources[line].root].root = sources[line].root
        BY <1>3 DEF MirrorInv, SourcesSound
      <3> QED
        BY <3>1, <3>2, ImportHas
    <2> QED
      BY <1>1, <1>6, <2>1, <2>2 DEF RootHere
  <1>7. RootHere # Nowhere =>
          \E c \in DOMAIN copies, t \in DOMAIN sources :
            /\ copies[c].root = RootHere /\ copies[c].text = sources[t].text
            /\ sources[t].root = sources[line].root
    BY <1>4, <1>6
  <1> QED
    BY <1>1, <1>3, <1>5, <1>7

LEMMA CreateCopyStep ==
  ASSUME MirrorInv, CreateCopy
  PROVE  MirrorInv'
  <1> DEFINE id == Count(copies) + 1
  <1>1. PICK root : root = IF RootHere = Nowhere THEN id ELSE RootHere
    OBVIOUS
  <1>2. import.at = "store" /\ import.same = Nowhere /\ UNCHANGED <<releases, sources, hidden, dump, imports>>
    BY DEF CreateCopy
  <1>3. CASE ~ Admits(ParentHere)
    BY <1>2, <1>3, NoImportSound, ImportMoves DEF CreateCopy
  <1>4. CASE Admits(ParentHere)
    <2>1. PICK row : /\ row = [release |-> sources[Line].release, text |-> sources[Line].text,
                               parent |-> ParentHere, root |-> root, live |-> TRUE]
                     /\ copies' = With(copies, id, row) /\ import' = Imported(id, root)
      BY <1>1, <1>4 DEF CreateCopy
    <2>2. PICK line : line = Line
      OBVIOUS
    <2>3. /\ line \in DOMAIN sources /\ line \in Nat /\ sources[line] \in SourceRecord
          /\ sources[line].text \in DOMAIN sources
      BY <1>2, <2>2, RootHereIs, SourceIs
    <2>4. root \in 1..id /\ ParentHere \in 0..Count(copies)
      <3>1. RootHere # Nowhere => RootHere \in DOMAIN copies
        BY <1>2, RootHereIs, CopyIs
      <3> QED
        BY <1>1, <1>2, <3>1, RootHereIs, CopyIs DEF Nowhere
    <2>5. row \in CopyRecord /\ row.text = sources[line].text /\ row.parent = ParentHere /\ row.root = root
      BY <2>1, <2>2, <2>3, <2>4 DEF CopyRecord, SourceRecord
    <2>6. \A c \in DOMAIN copies : copies[c].text # sources[line].text
      BY <1>2, <2>2 DEF MirrorInv, ImportSound, Line
    <2>7. ASSUME NEW S \in SUBSET (1..MaxSources), Closed(S),
                 NEW c \in DOMAIN copies, copies[c].root = root, copies[c].text # Own
          PROVE  copies[c].text \in S <=> sources[line].text \in S
      <3>1. root = RootHere /\ RootHere # Nowhere
        BY <1>1, <2>7, CopyIs
      <3>2. PICK d \in DOMAIN copies, t \in DOMAIN sources :
              /\ copies[d].root = RootHere /\ copies[d].text = sources[t].text
              /\ sources[t].root = sources[line].root
        BY <1>2, <2>2, <3>1, RootHereIs
      <3>3. copies[d].text # Own
        BY <3>2, SourceIs DEF Own, Nowhere
      <3>4. copies[c].text \in S <=> copies[d].text \in S
        BY <2>7, <3>1, <3>2, <3>3 DEF MirrorInv, CopiesSound, ChainsStayApart
      <3>5. sources[t].text \in S <=> sources[line].text \in S
        BY <2>3, <2>7, <3>2 DEF Closed
      <3> QED
        BY <3>2, <3>4, <3>5
    <2>8. CopiesSound'
      BY <1>2, <2>1, <2>3, <2>4, <2>5, <2>6, <2>7, CopyAppended
    <2>9. /\ id \notin DOMAIN copies /\ DOMAIN copies' = DOMAIN copies \cup {id} /\ copies'[id] = row
          /\ \A d \in DOMAIN copies : copies'[d] = copies[d]
      BY <2>1, CopiesWith
    <2>10. (SourcesSound /\ DumpSound(dump))'
      BY <1>2 DEF MirrorInv, SourcesSound, DumpSound, Numbered, Count, DumpShape, SourceRecord
    <2>11. PICK k : k = Imported(id, root) /\ import' = k
      BY <2>1
    <2>12. \A t \in DOMAIN k.ids :
             /\ t \in DOMAIN sources /\ k.ids[t] \in DOMAIN copies'
             /\ copies'[k.ids[t]].text = sources[t].text /\ copies'[k.ids[t]].root = k.roots[t]
      <3> HIDE DEF id
      <3> SUFFICES ASSUME NEW t \in DOMAIN k.ids
                   PROVE  /\ t \in DOMAIN sources /\ k.ids[t] \in DOMAIN copies'
                          /\ copies'[k.ids[t]].text = sources[t].text /\ copies'[k.ids[t]].root = k.roots[t]
        OBVIOUS
      <3>1. CASE t = line
        BY <1>2, <2>2, <2>3, <2>5, <2>9, <2>11, <3>1, LineNoted
      <3>2. CASE t # line
        <4>1. t \in DOMAIN import.ids /\ k.ids[t] = import.ids[t] /\ k.roots[t] = import.roots[t]
          BY <1>2, <2>2, <2>11, <3>2, LineNoted
        <4> QED
          BY <2>9, <4>1 DEF MirrorInv, ImportSound
      <3> QED
        BY <3>1, <3>2
    <2>13. ImportSound(import)'
      <3>1. /\ ImportShape(k) /\ k.at = "track" /\ k.done \in Nat /\ k.dropped = import.dropped
            /\ k.releases = import.releases /\ DOMAIN k.roots = DOMAIN k.ids
        BY <1>2, <2>11, LineNoted
      <3>2. dump'.at = "written" /\ import.dropped \subseteq import.releases
        BY <1>2 DEF MirrorInv, ImportSound
      <3> QED
        BY <1>2, <2>11, <2>12, <3>1, <3>2 DEF ImportSound, ImportShape
    <2> QED
      BY <2>8, <2>10, <2>13 DEF MirrorInv
  <1> QED
    BY <1>3, <1>4

-----------------------------------------------------------------------------
LEMMA MirrorStart == MirrorInit => MirrorInv
  <1> SUFFICES ASSUME MirrorInit PROVE MirrorInv
    OBVIOUS
  <1>1. DOMAIN <<>> = {} /\ 1..0 = {} /\ 0 \in Nat
    OBVIOUS
  <1>2. Numbered(<<>>) /\ Count(<<>>) = 0
    BY <1>1, FS_EmptySet DEF Numbered, Count
  <1>3. SourcesSound
    BY <1>1, <1>2, MirrorConstants DEF MirrorInit, SourcesSound
  <1>4. CopiesSound
    BY <1>1, <1>2 DEF MirrorInit, CopiesSound, ChainsStayApart, Closed
  <1>5. DumpSound(dump)
    BY DEF MirrorInit, DumpSound, DumpShape, NoDump
  <1>6. ImportSound(import)
    BY NoImportSound DEF MirrorInit
  <1> QED
    BY <1>3, <1>4, <1>5, <1>6 DEF MirrorInv

LEMMA MirrorIdle ==
  ASSUME MirrorInv, UNCHANGED mirrorVars
  PROVE  MirrorInv'
  <1>1. ImportSound(import')
    BY DEF MirrorInv, mirrorVars
  <1> QED
    BY <1>1, ImportMoves DEF mirrorVars

LEMMA MirrorStep == MirrorInv /\ [MirrorNext]_mirrorVars => MirrorInv'
  BY MirrorIdle, SourceUploadStep, SourceReviseStep, SourceWithdrawStep, SourceReleaseStep, StartDumpStep,
     DumpReleasesStep, DumpTracksStep, StartImportStep, ImportReleaseStep, ReadTrackLineStep,
     KeepIdenticalStep, CreateCopyStep, StopImportStep, ReviseCopyStep, TakedownStep, HideReleaseStep
     DEF MirrorNext

LEMMA MirrorHolds == MirrorInv => TakedownsSurviveImports /\ ChainsStayApart
  <1> SUFFICES ASSUME MirrorInv PROVE TakedownsSurviveImports /\ ChainsStayApart
    OBVIOUS
  <1>1. TakedownsSurviveImports
    BY DEF MirrorInv, CopiesSound, TakedownsSurviveImports
  <1>2. ChainsStayApart
    BY DEF MirrorInv, CopiesSound
  <1> QED
    BY <1>1, <1>2

\* However often the upstream is dumped and imported, and wherever an import
\* stops: what the mirror took down stays down, and no chain of its holds
\* texts of two upstream chains but those that share a text.
THEOREM MirrorsKeepFaith ==
  MirrorSpec => [](MirrorTypeOK /\ TakedownsSurviveImports /\ ChainsStayApart)
  BY MirrorStart, MirrorStep, MirrorTyped, MirrorHolds, PTL DEF MirrorSpec

-----------------------------------------------------------------------------
(* Reading: Pages. *)

-----------------------------------------------------------------------------
(* Pages. *)

ViewRecord ==
  [of : Kinds, at : {"idle", "rows", "tracks", "pins", "store", "done"}, after : Nat, more : BOOLEAN,
   rows : SUBSET Ids, named : SUBSET Offers, tracks : SUBSET Ids, links : SUBSET Offers,
   seen : [Ids -> Nat], list : 0..3, whole : BOOLEAN, host : Origins, steady : SUBSET Ids,
   listed : SUBSET Ids, blessed : SUBSET Offers, torn : SUBSET Ids]

\* The walk has gone past the release.
Passed(x, r) == x.after # 0 /\ r >= x.after
Scope(x) == IF x.of = "browse" THEN Ids ELSE Credited

\* What was steadily there and passed has been seen once; between the page that
\* was read and what is left of the walk nothing is skipped.
Walking(x) ==
  /\ \A r \in Ids : x.seen[r] <= 1
  /\ x.at \in {"rows", "tracks", "pins"} =>
       /\ \A r \in Ids : x.seen[r] = 1 => Passed(x, r)
       /\ \A r \in x.steady \cap Scope(x) : Passed(x, r) => x.seen[r] = 1
  /\ x.at \in {"tracks", "pins", "done"} => (x.more => x.rows # {})
  /\ x.at \in {"tracks", "pins"} =>
       /\ \A r \in x.rows : ~ Passed(x, r)
       /\ \A r \in x.steady \cap Scope(x) :
            ~ Passed(x, r) /\ r \notin x.rows => x.more /\ \A q \in x.rows : r < q
  /\ x.at = "done" =>
       /\ \A r \in Ids : x.seen[r] = 1 => (x.more => \E q \in x.rows : q <= r)
       /\ \A r \in x.steady \cap Scope(x) :
            x.seen[r] = 1 \/ (x.more /\ \A q \in x.rows : r < q)

\* A request that is not over goes on learning what is listed and confirmed.
Active(x) == ~ (x.at \in {"idle", "done"} /\ ~ x.more)

\* Between its rows and its pins, a request knows of every release whose pin is
\* not the title it read that something moved, or that they were apart.
Sure(x) ==
  x.at \in {"tracks", "pins"} /\ x.of # "search" =>
    \A n \in x.named : n[1] \in x.torn \/ n[1] \notin pinned \/ n \in Pins

Informed(x) ==
  /\ Active(x) => x.steady \subseteq Catalogue /\ heads \subseteq x.listed /\ Pins \subseteq x.blessed
  /\ Sure(x)

Offering(x) == \A l \in x.links : Offerable(x, l)

Honest(x) ==
  /\ x.rows \subseteq x.listed /\ x.tracks \subseteq x.listed
  /\ \A n \in x.named : n[1] \in x.listed
  /\ Offering(x)
  /\ x.of = "front" /\ x.at \in {"rows", "tracks", "pins"} => x.list \in 1..3
  /\ x.of \in {"browse", "uploader"} => Walking(x)

EntrySound(e) ==
  e \in Entries /\ \A l \in e.links : Offerable(e, l)

ShelfSound ==
  /\ up \subseteq Ids /\ heads \subseteq up /\ loose \subseteq Ids
  /\ heading \in [Ids -> Headings] /\ pinName \in [Ids -> Headings \cup {NoPin}]
  /\ had \in [Ids -> SUBSET Headings]
  /\ now \in 0..MaxNow /\ moves \in 0..MaxMoves

MapsSound ==
  /\ DOMAIN maps \subseteq Origins /\ \A o \in DOMAIN maps : EntrySound(maps[o])
  /\ IsFiniteSet(DOMAIN maps) /\ Cardinality(DOMAIN maps) <= MaxMaps

PagesInv ==
  /\ ShelfSound /\ EntrySound(front) /\ MapsSound
  /\ view \in [Visitors -> ViewRecord]
  /\ \A v \in Visitors : Informed(view[v]) /\ Honest(view[v])

-----------------------------------------------------------------------------
LEMMA PagesTyped == PagesInv => PagesTypeOK
  <1> SUFFICES ASSUME PagesInv PROVE PagesTypeOK
    OBVIOUS
  <1>1. ASSUME NEW v \in Visitors
        PROVE  /\ view[v].of \in Kinds
               /\ view[v].at \in {"idle", "rows", "tracks", "pins", "store", "done"}
               /\ {view[v].rows, view[v].tracks, view[v].torn} \subseteq SUBSET Ids
               /\ {view[v].named, view[v].links, view[v].blessed} \subseteq SUBSET Offers
               /\ view[v].seen \in [Ids -> Nat] /\ view[v].list \in 0..3
               /\ view[v].host \in Origins
    <2>1. view[v] \in ViewRecord
      BY DEF PagesInv
    <2> QED
      BY <2>1 DEF ViewRecord
  <1>2. /\ {up, heads, loose} \subseteq SUBSET Ids
        /\ heading \in [Ids -> Headings] /\ pinName \in [Ids -> Headings \cup {NoPin}]
        /\ had \in [Ids -> SUBSET Headings]
    BY DEF PagesInv, ShelfSound
  <1> QED
    BY <1>1, <1>2 DEF PagesInv, PagesTypeOK, ShelfSound, MapsSound, EntrySound

LEMMA PagesHold == PagesInv => WalksAreWhole /\ OffersAreCurrent
  <1> SUFFICES ASSUME PagesInv PROVE WalksAreWhole /\ OffersAreCurrent
    OBVIOUS
  <1>1. ASSUME NEW v \in Visitors
        PROVE  view[v] \in ViewRecord /\ Honest(view[v])
    BY DEF PagesInv
  <1>2. WalksAreWhole
    <2> SUFFICES ASSUME NEW v \in Visitors, NEW x, x = view[v], x.at = "done", x.of \in {"browse", "uploader"}
                 PROVE  /\ \A r \in Ids : x.seen[r] <= 1
                        /\ ~ x.more => x.steady \cap (IF x.of = "browse" THEN Ids ELSE Credited) \subseteq
                                         {r \in Ids : x.seen[r] = 1}
      BY DEF WalksAreWhole
    <2>1. Walking(x) /\ x \in ViewRecord
      BY <1>1 DEF Honest
    <2> QED
      BY <2>1 DEF Walking, Scope, ViewRecord
  <1>3. OffersAreCurrent
    BY <1>1 DEF OffersAreCurrent, Honest, Offering, PagesInv, MapsSound
  <1> QED
    BY <1>2, <1>3

Over(S, r) == {q \in S : q > r}
IsTop(S, n, T) == \A r : r \in T <=> r \in S /\ Cardinality(Over(S, r)) < n
Stretch(S, n, T) == T \subseteq S /\ \A r \in S \ T : Cardinality(T) = n /\ \A q \in T : r < q

\* The n newest are a stretch: what is left out is older than all of them, and
\* is left out because there are n.
LEMMA TopIs ==
  ASSUME NEW S, S \in SUBSET Nat, IsFiniteSet(S), NEW n, n \in Nat \ {0}, NEW T, IsTop(S, n, T)
  PROVE  Stretch(S, n, T)
  <1>0. \A r \in S : r \in Nat
    OBVIOUS
  <1>o. PICK over : over = [r \in S |-> {u \in S : u > r}]
    OBVIOUS
  <1>u. \A r \in S : \A u : u \in over[r] <=> u \in S /\ u > r
    BY <1>o
  <1>v. \A r \in S : over[r] = {u \in S : u > r}
    BY <1>o
  <1>w. \A r : r \in T <=> r \in S /\ Cardinality(Over(S, r)) < n
    BY DEF IsTop
  <1>x. ASSUME NEW r \in S
        PROVE  Cardinality(Over(S, r)) = Cardinality(over[r])
    BY <1>v DEF Over
  <1>1. \A r : r \in T <=> r \in S /\ Cardinality(over[r]) < n
    BY <1>w, <1>x, Zenon
  <1>2. ASSUME NEW r \in S
        PROVE  over[r] \subseteq S /\ IsFiniteSet(over[r]) /\ Cardinality(over[r]) \in Nat
    BY <1>u, FS_Subset, FS_CardinalityType
  <1>3. ASSUME NEW r \in S, NEW q \in S, r <= q
        PROVE  Cardinality(over[q]) <= Cardinality(over[r])
    <2>1. over[q] \subseteq over[r]
      <3> SUFFICES ASSUME NEW u, u \in over[q] PROVE u \in over[r]
        OBVIOUS
      <3>1. u \in S /\ u > q
        BY <1>u
      <3>2. u \in Nat /\ q \in Nat /\ r \in Nat
        BY <1>0, <3>1
      <3>3. u > r
        BY <1>3, <3>1, <3>2
      <3> QED
        BY <1>u, <3>1, <3>3
    <2> QED
      BY <1>2, <2>1, FS_Subset
  <1>4. ASSUME NEW r \in S \ T, NEW q \in T
        PROVE  r < q
    <2>1. r \in S /\ q \in S /\ r \in Nat /\ q \in Nat
      BY <1>0, <1>1
    <2>2. Cardinality(over[q]) < n /\ ~ (Cardinality(over[r]) < n)
      BY <1>1
    <2>3. CASE q <= r
      <3>1. Cardinality(over[r]) <= Cardinality(over[q])
        BY <1>3, <2>1, <2>3
      <3> QED
        BY <1>2, <2>1, <2>2, <3>1
    <2> QED
      BY <2>1, <2>3
  <1>5. ASSUME NEW r \in S \ T
        PROVE  Cardinality(T) = n
    <2>1. IsFiniteSet(T) /\ T \subseteq S /\ Cardinality(T) \in Nat
      BY <1>1, FS_Subset, FS_CardinalityType
    <2>2. Cardinality(T) >= n
      <3>1. PICK counts : counts = {Cardinality(over[q]) : q \in S \ T}
        OBVIOUS
      <3>2. counts \in SUBSET Nat /\ counts # {}
        BY <1>2, <3>1
      <3>3. PICK c \in counts : \A d \in counts : c <= d
        BY <3>2, LeastIs
      <3>4. PICK x \in S \ T : c = Cardinality(over[x])
        BY <3>1, <3>3
      <3>5. ASSUME NEW q \in S \ T, q > x
            PROVE  FALSE
        <4>0. x \in S /\ q \in S /\ x \in Nat /\ q \in Nat
          BY <1>0, <3>4, <3>5
        <4>1. q \in over[x] /\ over[q] \subseteq over[x] \ {q}
          <5>1. q \in over[x]
            BY <1>u, <3>5, <4>0
          <5>2. ASSUME NEW u, u \in over[q]
                PROVE  u \in over[x] /\ u # q
            <6>1. u \in S /\ u > q
              BY <1>u, <4>0, <5>2
            <6>2. u \in Nat /\ u > x
              BY <1>0, <3>5, <4>0, <6>1
            <6> QED
              BY <1>u, <4>0, <6>1, <6>2
          <5> QED
            BY <5>1, <5>2
        <4>2. IsFiniteSet(over[x] \ {q}) /\ Cardinality(over[x] \ {q}) = Cardinality(over[x]) - 1
          BY <1>2, <4>1, FS_RemoveElement
        <4>3. Cardinality(over[q]) <= Cardinality(over[x]) - 1
          BY <4>1, <4>2, FS_Subset
        <4>4. Cardinality(over[q]) \in counts
          BY <3>1
        <4> QED
          BY <1>2, <3>3, <3>4, <4>3, <4>4
      <3>6. over[x] \subseteq T
        BY <1>u, <3>5
      <3>7. Cardinality(over[x]) <= Cardinality(T)
        BY <2>1, <3>6, FS_Subset
      <3>8. Cardinality(over[x]) >= n
        BY <1>1, <1>2, <3>4
      <3> QED
        BY <1>2, <2>1, <3>7, <3>8
    <2>3. Cardinality(T) <= n
      <3>1. CASE T = {}
        <4>1. Cardinality({}) = 0
          BY FS_EmptySet
        <4>2. Cardinality(T) = 0
          BY <3>1, <4>1, Zenon
        <4> QED
          BY <4>2
      <3>2. CASE T # {}
        <4>1. T \in SUBSET Nat
          BY <2>1
        <4>2. PICK m \in T : \A q \in T : m <= q
          BY <3>2, <4>1, LeastIs
        <4>3. T \ {m} \subseteq over[m]
          <5> SUFFICES ASSUME NEW q \in T, q # m PROVE q \in over[m]
            OBVIOUS
          <5>1. m \in S /\ q \in S /\ m \in Nat /\ q \in Nat /\ m <= q
            BY <1>0, <2>1, <4>2
          <5>2. q > m
            BY <5>1
          <5> QED
            BY <1>u, <5>1, <5>2
        <4>4. Cardinality(T \ {m}) = Cardinality(T) - 1
          BY <2>1, <4>2, FS_RemoveElement
        <4>5. Cardinality(T \ {m}) <= Cardinality(over[m])
          BY <1>2, <2>1, <4>2, <4>3, FS_Subset
        <4>6. Cardinality(over[m]) < n /\ Cardinality(over[m]) \in Nat
          BY <1>1, <1>2, <2>1, <4>2
        <4> QED
          BY <2>1, <4>4, <4>5, <4>6
      <3> QED
        BY <3>1, <3>2
    <2> QED
      BY <2>1, <2>2, <2>3
  <1> QED
    BY <1>1, <1>4, <1>5 DEF Stretch

-----------------------------------------------------------------------------
LEMMA ViewHas ==
  ASSUME PagesInv, NEW v \in Visitors
  PROVE  view[v] \in ViewRecord /\ Informed(view[v]) /\ Honest(view[v])
  BY DEF PagesInv

LEMMA ShelfIs ==
  ASSUME PagesInv
  PROVE  /\ up \subseteq Ids /\ heads \subseteq up
         /\ now \in Nat /\ Ids \in SUBSET Nat /\ IsFiniteSet(Ids) /\ 0 \notin Ids
         /\ Catalogue \subseteq Ids /\ Catalogue \subseteq heads
  <1>0. IsFiniteSet(Ids) /\ Ids \subseteq Nat \ {0} /\ MaxNow \in Nat
    BY PagesAssumption
  <1>1. now \in Nat /\ Ids \in SUBSET Nat /\ 0 \notin Ids
    BY <1>0 DEF PagesInv, ShelfSound
  <1> QED
    BY <1>0, <1>1 DEF PagesInv, ShelfSound, Catalogue, Catalogued, HasVisibleTrack

\* A pin is an offer, and so is a title that is read; the two are the same unless
\* they are apart.
LEMMA PinsAre ==
  ASSUME PagesInv
  PROVE  Pins \in SUBSET Offers /\ AtOdds \in SUBSET Ids /\ \A r \in pinned : \E b \in Pins : b[1] = r
  <1>1. pinName \in [Ids -> Headings \cup {NoPin}]
    BY DEF PagesInv, ShelfSound
  <1>2. \A r \in pinned : r \in Ids /\ pinName[r] \in Headings
    BY <1>1 DEF pinned
  <1>3. Pins \subseteq Offers
    BY <1>2 DEF Pins, Offers
  <1>4. ASSUME NEW r \in pinned
        PROVE  \E b \in Pins : b[1] = r
    <2>1. <<r, pinName[r]>> \in Pins /\ <<r, pinName[r]>>[1] = r
      BY DEF Pins
    <2> QED
      BY <2>1
  <1> QED
    BY <1>2, <1>3, <1>4 DEF AtOdds

LEMMA NamedIs ==
  ASSUME PagesInv, NEW S \in SUBSET Ids
  PROVE  /\ Named(S) \in SUBSET Offers
         /\ \A n \in Named(S) : n[1] \in S /\ (n[1] \in AtOdds \/ n[1] \notin pinned \/ n \in Pins)
  <1>1. heading \in [Ids -> Headings]
    BY DEF PagesInv, ShelfSound
  <1>2. ASSUME NEW n, n \in Named(S)
        PROVE  /\ n \in Offers /\ n[1] \in S
               /\ n[1] \in AtOdds \/ n[1] \notin pinned \/ n \in Pins
    <2>1. PICK r \in S \cap titled : n = <<r, heading[r]>>
      BY <1>2 DEF Named
    <2>2. n[1] = r /\ r \in Ids /\ heading[r] \in Headings
      BY <1>1, <2>1
    <2>3. n \in Offers
      BY <2>1, <2>2 DEF Offers
    <2>4. CASE r \in pinned /\ pinName[r] = heading[r]
      <3>1. n \in Pins
        BY <2>1, <2>4 DEF Pins
      <3> QED
        BY <2>1, <2>2, <2>3, <3>1
    <2>5. CASE r \in pinned /\ pinName[r] # heading[r]
      BY <2>1, <2>2, <2>3, <2>5 DEF AtOdds
    <2>6. CASE r \notin pinned
      BY <2>1, <2>2, <2>3, <2>6
    <2> QED
      BY <2>4, <2>5, <2>6
  <1> QED
    BY <1>2

\* What is offered goes on being so as a request learns more.
LEMMA LinksKept ==
  ASSUME NEW x, NEW k, Offering(x), k.links = x.links, x.listed \subseteq k.listed,
         x.blessed \subseteq k.blessed, x.torn \subseteq k.torn
  PROVE  Offering(k)
  BY DEF Offering, Offerable

LEMMA NoViewIs == NoView \in ViewRecord /\ Honest(NoView) /\ ~ Active(NoView) /\ Sure(NoView)
  <1>1. (CHOOSE o \in Origins : TRUE) \in Origins
    BY PagesAssumption
  <1>2. [r \in Ids |-> 0] \in [Ids -> Nat]
    OBVIOUS
  <1>3. NoView \in ViewRecord
    BY <1>1, <1>2 DEF NoView, ViewRecord, Kinds
  <1>4. /\ NoView.of = "none" /\ NoView.at = "idle" /\ NoView.more = FALSE /\ NoView.rows = {}
        /\ NoView.named = {} /\ NoView.tracks = {} /\ NoView.links = {}
    BY DEF NoView
  <1> QED
    BY <1>3, <1>4 DEF Honest, Offering, Active, Sure

\* A step of one request, to what is shown as k; the shelf being left alone.
LEMMA ViewMoves ==
  ASSUME PagesInv, NEW v \in Visitors, NEW k \in ViewRecord, Informed(k), Honest(k),
         view' = [view EXCEPT ![v] = k], UNCHANGED <<shelfVars, now>>,
         EntrySound(front'), MapsSound'
  PROVE  PagesInv'
  <1>1. ShelfSound'
    BY DEF PagesInv, ShelfSound, shelfVars
  <1>2. view' \in [Visitors -> ViewRecord] /\ \A w \in Visitors : Informed(view'[w]) /\ Honest(view'[w])
    BY DEF PagesInv
  <1>3. (view \in [Visitors -> ViewRecord])'
    BY <1>2 DEF ViewRecord, Kinds
  <1>a. UNCHANGED <<up, heads, heading, pinName>>
    BY DEF shelfVars
  <1>b. Catalogue' = Catalogue /\ Pins' = Pins /\ pinned' = pinned
    BY <1>a DEF Catalogue, Catalogued, HasVisibleTrack, titled, pinned, Pins
  <1>4. (\A w \in Visitors : Informed(view[w]) /\ Honest(view[w]))'
    BY <1>2, <1>a, <1>b DEF Informed, Sure, Honest, Offering, Offerable, Walking, Passed, Scope, Active
  <1>5. EntrySound(front)'
    BY DEF EntrySound, Offerable, Entries
  <1> QED
    BY <1>1, <1>3, <1>4, <1>5 DEF PagesInv

LEMMA DocumentsKept ==
  ASSUME PagesInv, UNCHANGED <<front, maps>>
  PROVE  EntrySound(front') /\ MapsSound'
  BY DEF PagesInv, MapsSound, EntrySound, Offerable, Entries

-----------------------------------------------------------------------------
LEMMA GoesOver ==
  ASSUME PagesInv, NEW v \in Visitors, NEW k \in ViewRecord, Informed(k), Honest(k), Go(v, k)
  PROVE  PagesInv'
  <1>1. /\ view' = [view EXCEPT ![v] = k] /\ UNCHANGED <<shelfVars, now>> /\ UNCHANGED <<front, maps>>
    BY DEF Go
  <1>2. EntrySound(front') /\ MapsSound'
    BY <1>1, DocumentsKept
  <1> QED
    BY <1>1, <1>2, ViewMoves

AskedOf(n, of, s, l, b) ==
  [n EXCEPT !.of = of, !.at = "rows", !.steady = s, !.listed = l, !.blessed = b]

LEMMA AskedIs ==
  ASSUME NEW n \in ViewRecord, NEW of \in Kinds, NEW s \in SUBSET Ids,
         NEW l \in SUBSET Ids, NEW b \in SUBSET Offers
  PROVE  AskedOf(n, of, s, l, b) \in ViewRecord
  <1>1. PICK k : k = [n EXCEPT !.of = of, !.at = "rows", !.steady = s, !.listed = l, !.blessed = b]
    OBVIOUS
  <1>2. k \in ViewRecord
    BY <1>1 DEF ViewRecord
  <1> QED
    BY <1>1, <1>2 DEF AskedOf

\* A request begins and knows nothing yet.
LEMMA AskingIs ==
  ASSUME PagesInv, NEW of \in Kinds, NEW k, k = Asking(of)
  PROVE  /\ k \in ViewRecord /\ Informed(k) /\ (of # "front" => Honest(k))
         /\ k.of = of /\ k.at = "rows" /\ k.more = FALSE /\ k.rows = {} /\ k.named = {}
         /\ k.tracks = {} /\ k.links = {} /\ k.list = 0
         /\ k.steady = Catalogue /\ k.listed = up \cap heads /\ k.blessed = Pins /\ k.torn = {}
  <1>1. NoView \in ViewRecord
    BY NoViewIs
  <1>2. k = [NoView EXCEPT !.of = of, !.at = "rows",
                           !.steady = Catalogue, !.listed = up \cap heads, !.blessed = Pins]
    BY DEF Asking
  <1>3. /\ k.of = of /\ k.at = "rows" /\ k.more = FALSE /\ k.rows = {} /\ k.named = {}
        /\ k.tracks = {} /\ k.links = {} /\ k.list = 0 /\ k.after = 0 /\ k.seen = [r \in Ids |-> 0]
        /\ k.steady = Catalogue /\ k.listed = up \cap heads /\ k.blessed = Pins /\ k.torn = {}
    BY <1>2 DEF NoView
  <1>s. Catalogue \in SUBSET Ids /\ up \cap heads \in SUBSET Ids /\ Pins \in SUBSET Offers
    BY ShelfIs, PinsAre
  <1>4. k \in ViewRecord
    <2>1. k = AskedOf(NoView, of, Catalogue, up \cap heads, Pins)
      BY <1>2 DEF AskedOf
    <2>2. AskedOf(NoView, of, Catalogue, up \cap heads, Pins) \in ViewRecord
      BY <1>1, <1>s, AskedIs
    <2> QED
      BY <2>1, <2>2
  <1>5. Informed(k)
    BY <1>3, ShelfIs DEF Informed, Sure
  <1>6. ASSUME of # "front"
        PROVE  Honest(k)
    <2>1. \A r \in Ids : k.seen[r] = 0
      BY <1>3
    <2>2. Walking(k)
      BY <1>3, <2>1 DEF Walking, Passed
    <2> QED
      BY <1>3, <1>6, <2>2 DEF Honest, Offering
  <1> QED
    BY <1>3, <1>4, <1>5, <1>6

LEMMA AsksStep ==
  ASSUME PagesInv, NEW v \in Visitors, HandleBrowse(v) \/ HandleUploaderPage(v) \/ HandleSearch(v)
  PROVE  PagesInv'
  <1>1. PICK of \in {"browse", "uploader", "search"} : Ask(v, Asking(of))
    BY DEF HandleBrowse, HandleUploaderPage, HandleSearch
  <1>2. PICK k : k = Asking(of)
    OBVIOUS
  <1>3. of \in Kinds /\ of # "front"
    BY DEF Kinds
  <1>4. k \in ViewRecord /\ Informed(k) /\ Honest(k)
    BY <1>2, <1>3, AskingIs
  <1>5. Go(v, k)
    BY <1>1, <1>2 DEF Ask, Go
  <1> QED
    BY <1>4, <1>5, GoesOver

LEMMA ReleasePageStep ==
  ASSUME PagesInv, NEW v \in Visitors, NEW r \in Ids, RenderReleasePage(v, r)
  PROVE  PagesInv'
  <1>1. PICK a : a = Asking("release")
    OBVIOUS
  <1>2. /\ a \in ViewRecord /\ Informed(a)
        /\ a.of = "release" /\ a.more = FALSE /\ a.tracks = {} /\ a.links = {}
        /\ a.steady = Catalogue /\ a.listed = up \cap heads /\ a.blessed = Pins
    <2>1. "release" \in Kinds
      BY DEF Kinds
    <2> QED
      BY <1>1, <2>1, AskingIs
  <1>3. PICK k : k = [a EXCEPT !.at = "pins", !.rows = {r}, !.named = Named({r}), !.torn = AtOdds]
    OBVIOUS
  <1>n. /\ Named({r}) \in SUBSET Offers /\ AtOdds \in SUBSET Ids
        /\ \A n \in Named({r}) : n[1] \in {r} /\ (n[1] \in AtOdds \/ n[1] \notin pinned \/ n \in Pins)
    BY NamedIs, PinsAre
  <1>4. Go(v, k) /\ r \in up \cap heads
    BY <1>1, <1>3 DEF RenderReleasePage, Ask, Go, Catalogued, HasVisibleTrack
  <1>5. k \in ViewRecord
    <2>1. PICK named \in SUBSET Offers, torn \in SUBSET Ids : named = Named({r}) /\ torn = AtOdds
      BY <1>n
    <2>2. k = [a EXCEPT !.at = "pins", !.rows = {r}, !.named = named, !.torn = torn]
      BY <1>3, <2>1
    <2> QED
      BY <1>2, <2>2 DEF ViewRecord
  <1>6. /\ k.of = "release" /\ k.at = "pins" /\ k.rows = {r} /\ k.named = Named({r})
        /\ k.tracks = {} /\ k.links = {} /\ k.torn = AtOdds
        /\ k.steady = Catalogue /\ k.listed = up \cap heads /\ k.blessed = Pins
    BY <1>2, <1>3 DEF ViewRecord
  <1>7. Informed(k)
    BY <1>6, <1>n, ShelfIs DEF Informed, Sure
  <1>8. Honest(k)
    BY <1>4, <1>6, <1>n DEF Honest, Offering
  <1> QED
    BY <1>4, <1>5, <1>7, <1>8, GoesOver

\* What a page of a walk holds.
LEMMA BrowseIs ==
  ASSUME PagesInv, NEW after \in Nat, NEW C \in SUBSET Ids, NEW rows,
         rows = {r \in Below(after, C) : Cardinality(Over(Below(after, C), r)) < PageSize}
  PROVE  /\ rows \subseteq C
         /\ \A r \in rows : after = 0 \/ r < after
         /\ \A r \in C \ rows : after = 0 \/ r < after => Cardinality(rows) = PageSize /\ \A q \in rows : r < q
         /\ Cardinality(rows) = PageSize => rows # {}
  <1>1. PICK S : S = Below(after, C)
    OBVIOUS
  <1>2. S \subseteq Ids /\ \A r : r \in S <=> r \in C /\ (after = 0 \/ r < after)
    BY <1>1 DEF Below
  <1>3. S \in SUBSET Nat /\ IsFiniteSet(S)
    BY <1>2, ShelfIs, FS_Subset
  <1>4. rows = {r \in S : Cardinality(Over(S, r)) < PageSize}
    BY <1>1
  <1>5. PageSize \in Nat \ {0}
    BY PagesAssumption
  <1>6. /\ rows \subseteq S
        /\ \A r \in S \ rows : Cardinality(rows) = PageSize /\ \A q \in rows : r < q
    <2>1. IsTop(S, PageSize, rows)
      BY <1>4 DEF IsTop
    <2>2. Stretch(S, PageSize, rows)
      BY <1>3, <1>5, <2>1, TopIs, Zenon
    <2> QED
      BY <2>2 DEF Stretch
  <1>7. Cardinality(rows) = PageSize => rows # {}
    BY <1>5, FS_EmptySet
  <1> QED
    BY <1>2, <1>6, <1>7

-----------------------------------------------------------------------------
\* A request that is under way goes on.
LEMMA GoesOn ==
  ASSUME PagesInv, NEW v \in Visitors, NEW k \in ViewRecord, Active(view[v]), Honest(k), Sure(k), Go(v, k),
         k.steady = view[v].steady, k.listed = view[v].listed, k.blessed = view[v].blessed
  PROVE  PagesInv'
  <1>1. Informed(view[v])
    BY ViewHas
  <1>2. Informed(k)
    BY <1>1 DEF Informed
  <1> QED
    BY <1>2, GoesOver

LEMMA UnderWay ==
  ASSUME NEW x, x.at \notin {"idle", "done"} \/ x.more
  PROVE  Active(x)
  BY DEF Active

LEMMA OlderStep ==
  ASSUME PagesInv, NEW v \in Visitors, Older(v)
  PROVE  PagesInv'
  <1>1. PICK x \in ViewRecord : x = view[v] /\ Informed(x) /\ Honest(x)
    BY ViewHas
  <1>2. x.of \in {"browse", "uploader"} /\ x.at = "done" /\ x.more
    BY <1>1 DEF Older, AtStep
  <1>3. Walking(x)
    BY <1>1, <1>2 DEF Honest
  <1>4. x.rows # {} /\ x.rows \in SUBSET Nat /\ x.rows \subseteq Ids
    BY <1>2, <1>3, ShelfIs DEF Walking, ViewRecord
  <1>5. PICK m : m = CHOOSE r \in x.rows : \A q \in x.rows : r <= q
    OBVIOUS
  <1>6. m \in x.rows /\ \A q \in x.rows : m <= q
    BY <1>4, <1>5, LeastIs
  <1>7. m \in Nat /\ m # 0
    BY <1>4, <1>6, ShelfIs
  <1>8. PICK k : k = [x EXCEPT !.at = "rows", !.rows = {}, !.more = FALSE, !.after = m]
    OBVIOUS
  <1>9. Go(v, k)
    BY <1>1, <1>5, <1>8 DEF Older
  <1>10. k \in ViewRecord
    BY <1>7, <1>8 DEF ViewRecord
  <1>11. /\ k.of = x.of /\ k.at = "rows" /\ k.rows = {} /\ k.more = FALSE /\ k.after = m /\ k.named = x.named
         /\ k.tracks = x.tracks /\ k.links = x.links /\ k.seen = x.seen
         /\ k.steady = x.steady /\ k.listed = x.listed /\ k.blessed = x.blessed /\ k.torn = x.torn
    BY <1>8 DEF ViewRecord
  <1>12. Walking(k)
    <2>1. Scope(k) = Scope(x)
      BY <1>11 DEF Scope
    <2>2. \A r \in Ids : r \in Nat /\ x.seen[r] \in Nat
      BY ShelfIs DEF ViewRecord
    <2>3. ASSUME NEW r \in Ids, x.seen[r] = 1
          PROVE  Passed(k, r)
      <3>1. PICK q \in x.rows : q <= r
        BY <1>2, <1>3, <2>3 DEF Walking
      <3>2. q \in Nat /\ m <= q
        BY <1>4, <1>6
      <3> QED
        BY <1>7, <1>11, <2>2, <3>1, <3>2 DEF Passed
    <2>4. ASSUME NEW r \in x.steady \cap Scope(x), Passed(k, r)
          PROVE  x.seen[r] = 1
      <3>1. r \in Ids /\ r >= m
        BY <1>11, <2>4 DEF Passed, ViewRecord
      <3>2. ~ (r < m)
        BY <1>7, <2>2, <3>1
      <3> QED
        BY <1>2, <1>3, <1>6, <3>2 DEF Walking
    <2> QED
      BY <1>3, <1>11, <2>1, <2>3, <2>4 DEF Walking
  <1>13. Honest(k)
    BY <1>1, <1>2, <1>11, <1>12, LinksKept DEF Honest
  <1>s. Sure(k)
    BY <1>11 DEF Sure
  <1>14. Active(view[v])
    BY <1>1, <1>2, UnderWay
  <1> QED
    BY <1>1, <1>9, <1>10, <1>11, <1>13, <1>14, <1>s, GoesOn

\* A page of a walk is read.
LEMMA WalkReads ==
  ASSUME PagesInv, NEW x \in ViewRecord, NEW k \in ViewRecord, NEW C \in SUBSET Ids, Walking(x),
         x.at = "rows", k.at \in {"tracks", "pins"}, k.of = x.of, k.after = x.after, k.seen = x.seen,
         k.steady = x.steady, x.steady \cap Scope(x) \subseteq C,
         k.rows = {r \in Below(x.after, C) : Cardinality(Over(Below(x.after, C), r)) < PageSize},
         k.more = (Cardinality(k.rows) = PageSize)
  PROVE  Walking(k)
  <1>1. x.after \in Nat
    BY DEF ViewRecord
  <1>2. PICK rows : rows = {r \in Below(x.after, C) : Cardinality(Over(Below(x.after, C), r)) < PageSize}
    OBVIOUS
  <1>3. /\ rows \subseteq C
        /\ \A r \in rows : x.after = 0 \/ r < x.after
        /\ \A r \in C \ rows : x.after = 0 \/ r < x.after =>
             Cardinality(rows) = PageSize /\ \A q \in rows : r < q
        /\ Cardinality(rows) = PageSize => rows # {}
    BY <1>1, <1>2, BrowseIs
  <1>4. k.rows = rows
    BY <1>2
  <1>5. \A r \in Ids : r \in Nat
    BY ShelfIs
  <1>6. Scope(k) = Scope(x)
    BY DEF Scope
  <1>7. \A r \in k.rows : ~ Passed(k, r)
    BY <1>1, <1>3, <1>4, <1>5 DEF Passed
  <1>8. ASSUME NEW r \in k.steady \cap Scope(k), ~ Passed(k, r), r \notin k.rows
        PROVE  k.more /\ \A q \in k.rows : r < q
    <2>1. r \in C \ rows /\ r \in Nat
      BY <1>4, <1>5, <1>6, <1>8
    <2>2. x.after = 0 \/ r < x.after
      BY <1>1, <1>8, <2>1 DEF Passed
    <2> QED
      BY <1>3, <1>4, <2>1, <2>2
  <1>9. k.more => k.rows # {}
    BY <1>3, <1>4
  <1>10. /\ \A r \in Ids : k.seen[r] <= 1
         /\ \A r \in Ids : k.seen[r] = 1 => Passed(k, r)
         /\ \A r \in k.steady \cap Scope(k) : Passed(k, r) => k.seen[r] = 1
    BY <1>6 DEF Walking, Passed
  <1> QED
    BY <1>7, <1>8, <1>9, <1>10 DEF Walking

\* Its rows are shown.
LEMMA WalkShows ==
  ASSUME PagesInv, NEW x \in ViewRecord, NEW k \in ViewRecord, Walking(x),
         x.at \in {"tracks", "pins"}, k.at = "done", k.of = x.of, k.after = x.after,
         k.steady = x.steady, k.rows = x.rows, k.more = x.more,
         k.seen = [r \in Ids |-> IF r \in x.rows THEN x.seen[r] + 1 ELSE x.seen[r]]
  PROVE  Walking(k)
  <1>1. \A r \in Ids : r \in Nat /\ x.seen[r] \in Nat
    BY ShelfIs DEF ViewRecord
  <1>2. x.after \in Nat /\ x.rows \subseteq Ids /\ x.steady \subseteq Ids
    BY DEF ViewRecord
  <1>3. Scope(k) = Scope(x)
    BY DEF Scope
  <1>4. ASSUME NEW r \in x.rows
        PROVE  x.seen[r] = 0 /\ k.seen[r] = 1
    <2>1. ~ Passed(x, r) /\ r \in Ids
      BY <1>2 DEF Walking
    <2>2. x.seen[r] # 1 /\ x.seen[r] <= 1 /\ x.seen[r] \in Nat
      BY <1>1, <2>1 DEF Walking
    <2> QED
      BY <2>1, <2>2
  <1>5. \A r \in Ids : r \notin x.rows => k.seen[r] = x.seen[r]
    OBVIOUS
  <1>6. \A r \in Ids : k.seen[r] <= 1
    BY <1>4, <1>5 DEF Walking
  <1>7. ASSUME NEW r \in Ids, k.seen[r] = 1, k.more
        PROVE  \E q \in k.rows : q <= r
    <2>1. CASE r \in x.rows
      BY <1>1, <2>1
    <2>2. CASE r \notin x.rows
      <3>1. Passed(x, r)
        BY <1>5, <1>7, <2>2 DEF Walking
      <3>2. PICK q \in x.rows : TRUE
        BY <1>7 DEF Walking
      <3>3. ~ Passed(x, q) /\ q \in Ids
        BY <1>2 DEF Walking
      <3>4. q <= r
        BY <1>1, <1>2, <3>1, <3>3 DEF Passed
      <3> QED
        BY <3>4
    <2> QED
      BY <2>1, <2>2
  <1>8. ASSUME NEW r \in k.steady \cap Scope(k)
        PROVE  k.seen[r] = 1 \/ (k.more /\ \A q \in k.rows : r < q)
    <2>1. r \in Ids /\ r \in x.steady \cap Scope(x)
      BY <1>2, <1>3
    <2> QED
      BY <1>4, <1>5, <2>1 DEF Walking
  <1>9. k.more => k.rows # {}
    BY DEF Walking
  <1> QED
    BY <1>6, <1>7, <1>8, <1>9 DEF Walking

-----------------------------------------------------------------------------
LEMMA RowsAre ==
  ASSUME PagesInv
  PROVE  /\ \A list \in {"newest", "trending", "popular"} : ListRows(list) \subseteq Catalogue
         /\ SearchReleases \subseteq Catalogue
  <1>1. BrowseReleases(0) \subseteq Catalogue
    BY DEF BrowseReleases, Top, Below
  <1>2. TrendingReleasesWithCounts(ListFetch) \subseteq Catalogue
    BY DEF TrendingReleasesWithCounts, Top, Catalogue
  <1>3. PopularReleases(ListFetch) \subseteq Catalogue
    BY DEF PopularReleases, Top, Catalogue
  <1>4. SearchReleases \subseteq Catalogue
    BY DEF SearchReleases, Top, Catalogue
  <1>5. \A list \in {"newest", "trending", "popular"} : ListRows(list) \subseteq Catalogue
    BY <1>1, <1>2, <1>3 DEF ListRows
  <1> QED
    BY <1>4, <1>5

\* The walks read what their SQL says.
LEMMA WalksRead ==
  ASSUME NEW after
  PROVE  /\ BrowseReleases(after) =
              {r \in Below(after, Catalogue) : Cardinality(Over(Below(after, Catalogue), r)) < PageSize}
         /\ VisibleTracksByAccount(after) =
              {r \in Below(after, {c \in Credited : c \in up /\ c \in heads}) :
                 Cardinality(Over(Below(after, {c \in Credited : c \in up /\ c \in heads}), r)) < PageSize}
  BY Zenon DEF BrowseReleases, VisibleTracksByAccount, Top, Newer, Over, HasVisibleTrack

\* What is on the catalogue now is known to a request that is under way.
LEMMA KnownListed ==
  ASSUME PagesInv, NEW v \in Visitors, Active(view[v])
  PROVE  heads \subseteq view[v].listed /\ Catalogue \subseteq view[v].listed /\ Pins \subseteq view[v].blessed
  BY ViewHas, ShelfIs DEF Informed

\* What a page offers once it has read the pins.
LEMMA IndexableIs ==
  ASSUME PagesInv, NEW v \in Visitors, view[v].at = "pins", view[v].of # "search",
         NEW n \in ReleaseIsIndexable(v)
  PROVE  n \in view[v].named /\ Offerable(view[v], n)
  <1>1. PICK x \in ViewRecord : x = view[v] /\ Informed(x) /\ Honest(x)
    BY ViewHas
  <1>2. n \in x.named /\ n[1] \in pinned
    BY <1>1 DEF ReleaseIsIndexable
  <1>3. n[1] \in x.listed
    BY <1>1, <1>2 DEF Honest
  <1>4. Pins \subseteq x.blessed
    BY <1>1, UnderWay, KnownListed
  <1>5. n[1] \in x.torn \/ n \in Pins
    BY <1>1, <1>2 DEF Informed, Sure
  <1>6. PICK b \in Pins : b[1] = n[1]
    BY <1>2, PinsAre
  <1> QED
    BY <1>1, <1>2, <1>3, <1>4, <1>5, <1>6 DEF Offerable

LEMMA BrowsePageStep ==
  ASSUME PagesInv, NEW v \in Visitors, BrowsePage(v)
  PROVE  PagesInv'
  <1>1. PICK x \in ViewRecord : x = view[v] /\ Informed(x) /\ Honest(x)
    BY ViewHas
  <1>2. x.of = "browse" /\ x.at = "rows" /\ Active(view[v])
    BY <1>1, UnderWay DEF BrowsePage, ReadPage, AtStep
  <1>3. PICK rows : rows = BrowseReleases(x.after)
    OBVIOUS
  <1>4. PICK k : k = [x EXCEPT !.at = "tracks", !.rows = rows, !.named = Named(rows),
                               !.torn = x.torn \cup AtOdds, !.more = Cardinality(rows) = PageSize]
    OBVIOUS
  <1>5. Go(v, k)
    BY <1>1, <1>3, <1>4 DEF BrowsePage, ReadPage
  <1>6. rows = {r \in Below(x.after, Catalogue) : Cardinality(Over(Below(x.after, Catalogue), r)) < PageSize}
    BY <1>3, WalksRead, Zenon
  <1>7. rows \subseteq Catalogue /\ Catalogue \in SUBSET Ids
    BY <1>6, ShelfIs DEF Below
  <1>n. /\ Named(rows) \in SUBSET Offers /\ x.torn \cup AtOdds \in SUBSET Ids
        /\ \A n \in Named(rows) : n[1] \in rows /\ (n[1] \in AtOdds \/ n[1] \notin pinned \/ n \in Pins)
    <2>1. rows \in SUBSET Ids
      BY <1>7
    <2> QED
      BY <2>1, NamedIs, PinsAre DEF ViewRecord
  <1>8. k \in ViewRecord
    <2>1. PICK more \in BOOLEAN : more = (Cardinality(rows) = PageSize)
      OBVIOUS
    <2>2. PICK named \in SUBSET Offers, rr \in SUBSET Ids, torn \in SUBSET Ids :
            named = Named(rows) /\ rr = rows /\ torn = x.torn \cup AtOdds
      BY <1>7, <1>n
    <2>3. k = [x EXCEPT !.at = "tracks", !.rows = rr, !.named = named, !.torn = torn, !.more = more]
      BY <1>4, <2>1, <2>2
    <2> QED
      BY <2>3 DEF ViewRecord
  <1>9. /\ k.of = x.of /\ k.at = "tracks" /\ k.rows = rows /\ k.more = (Cardinality(rows) = PageSize)
        /\ k.after = x.after /\ k.named = Named(rows)
        /\ k.tracks = x.tracks /\ k.links = x.links /\ k.seen = x.seen
        /\ k.steady = x.steady /\ k.listed = x.listed /\ k.blessed = x.blessed /\ k.torn = x.torn \cup AtOdds
    BY <1>4 DEF ViewRecord
  <1>10. x.steady \cap Scope(x) \subseteq Catalogue
    BY <1>1, <1>2 DEF Informed
  <1>11. Walking(x)
    BY <1>1, <1>2 DEF Honest
  <1>12. k.rows = {r \in Below(x.after, Catalogue) : Cardinality(Over(Below(x.after, Catalogue), r)) < PageSize}
    BY <1>6, <1>9
  <1>13. Walking(k)
    BY <1>2, <1>7, <1>8, <1>9, <1>10, <1>11, <1>12, WalkReads
  <1>14. rows \subseteq x.listed
    BY <1>1, <1>2, <1>7, KnownListed
  <1>15. Honest(k)
    <2>1. Offering(k)
      BY <1>1, <1>9, LinksKept DEF Honest
    <2> QED
      BY <1>1, <1>2, <1>9, <1>n, <1>13, <1>14, <2>1 DEF Honest
  <1>s. Sure(k)
    BY <1>9, <1>n DEF Sure
  <1> QED
    BY <1>1, <1>2, <1>5, <1>8, <1>9, <1>15, <1>s, GoesOn

LEMMA UploaderPageStep ==
  ASSUME PagesInv, NEW v \in Visitors, UploaderPage(v)
  PROVE  PagesInv'
  <1>1. PICK x \in ViewRecord : x = view[v] /\ Informed(x) /\ Honest(x)
    BY ViewHas
  <1>2. x.of = "uploader" /\ x.at = "rows" /\ Active(view[v])
    BY <1>1, UnderWay DEF UploaderPage, AtStep
  <1>3. PICK rows : rows = VisibleTracksByAccount(x.after)
    OBVIOUS
  <1>c. PICK C : C = {c \in Credited : c \in up /\ c \in heads}
    OBVIOUS
  <1>d. C \in SUBSET Ids /\ C \subseteq heads
    BY <1>c, PagesAssumption
  <1>4. rows = {r \in Below(x.after, C) : Cardinality(Over(Below(x.after, C), r)) < PageSize}
    BY <1>3, <1>c, WalksRead, Zenon
  <1>5. rows \subseteq C
    BY <1>4 DEF Below
  <1>6. PICK more \in BOOLEAN : more = (Cardinality(rows) = PageSize)
    OBVIOUS
  <1>7. PICK seen : seen = [r \in Ids |-> IF r \in rows THEN x.seen[r] + 1 ELSE x.seen[r]]
    OBVIOUS
  <1>8. seen \in [Ids -> Nat] /\ rows \in SUBSET Ids /\ x.tracks \cup rows \in SUBSET Ids
    BY <1>5, <1>7, <1>d DEF ViewRecord
  <1>9. PICK k : k = [x EXCEPT !.at = "done", !.rows = rows, !.tracks = x.tracks \cup rows,
                               !.more = more, !.seen = seen]
    OBVIOUS
  <1>10. Go(v, k)
    BY <1>1, <1>3, <1>6, <1>7, <1>9 DEF UploaderPage
  <1>11. k \in ViewRecord
    BY <1>8, <1>9 DEF ViewRecord
  <1>12. /\ k.of = x.of /\ k.at = "done" /\ k.rows = rows /\ k.more = more /\ k.after = x.after
         /\ k.named = x.named /\ k.tracks = x.tracks \cup rows /\ k.links = x.links /\ k.seen = seen
         /\ k.steady = x.steady /\ k.listed = x.listed /\ k.blessed = x.blessed /\ k.torn = x.torn
    BY <1>9 DEF ViewRecord
  <1>13. PICK y : y = [x EXCEPT !.at = "tracks", !.rows = rows, !.more = more]
    OBVIOUS
  <1>14. y \in ViewRecord
    BY <1>8, <1>13 DEF ViewRecord
  <1>15. /\ y.of = x.of /\ y.at = "tracks" /\ y.rows = rows /\ y.more = more /\ y.after = x.after
         /\ y.seen = x.seen /\ y.steady = x.steady
    BY <1>13 DEF ViewRecord
  <1>16. x.steady \cap Scope(x) \subseteq C
    BY <1>1, <1>2, <1>c DEF Informed, Scope, Catalogue, Catalogued, HasVisibleTrack
  <1>17. Walking(x)
    BY <1>1, <1>2 DEF Honest
  <1>18. /\ y.rows = {r \in Below(x.after, C) : Cardinality(Over(Below(x.after, C), r)) < PageSize}
         /\ y.more = (Cardinality(y.rows) = PageSize)
    BY <1>4, <1>6, <1>15
  <1>19. Walking(y)
    BY <1>2, <1>d, <1>14, <1>15, <1>16, <1>17, <1>18, WalkReads
  <1>20. k.seen = [r \in Ids |-> IF r \in y.rows THEN y.seen[r] + 1 ELSE y.seen[r]]
    BY <1>7, <1>12, <1>15
  <1>21. Walking(k)
    BY <1>11, <1>12, <1>14, <1>15, <1>19, <1>20, WalkShows
  <1>22. rows \subseteq x.listed
    BY <1>1, <1>2, <1>5, <1>d, KnownListed
  <1>23. Honest(k)
    <2>1. Offering(k)
      BY <1>1, <1>12, LinksKept DEF Honest
    <2> QED
      BY <1>1, <1>2, <1>12, <1>21, <1>22, <2>1 DEF Honest
  <1>s. Sure(k)
    BY <1>12 DEF Sure
  <1> QED
    BY <1>1, <1>2, <1>10, <1>11, <1>12, <1>23, <1>s, GoesOn

LEMMA SearchPageStep ==
  ASSUME PagesInv, NEW v \in Visitors, SearchPage(v)
  PROVE  PagesInv'
  <1>1. PICK x \in ViewRecord : x = view[v] /\ Informed(x) /\ Honest(x)
    BY ViewHas
  <1>2. x.of = "search" /\ x.at = "rows" /\ Active(view[v])
    BY <1>1, UnderWay DEF SearchPage, AtStep
  <1>a. Top(SearchReleases, PageSize, Closer) \subseteq SearchReleases
    BY DEF Top
  <1>b. PICK rows :
          /\ rows \subseteq SearchReleases
          /\ Go(v, [view[v] EXCEPT !.at = "tracks", !.rows = rows,
                                   !.more = Cardinality(SearchReleases) > PageSize])
    BY <1>a, Zenon DEF SearchPage
  <1>3. PICK more \in BOOLEAN : more = (Cardinality(SearchReleases) > PageSize)
    <2>1. (Cardinality(SearchReleases) > PageSize) = TRUE \/ (Cardinality(SearchReleases) > PageSize) = FALSE
      OBVIOUS
    <2>2. (Cardinality(SearchReleases) > PageSize) \in BOOLEAN
      BY <2>1, Zenon
    <2> QED
      BY <2>2, Zenon
  <1>4. PICK k : k = [x EXCEPT !.at = "tracks", !.rows = rows, !.more = more]
    OBVIOUS
  <1>5. Go(v, k)
    BY <1>1, <1>b, <1>3, <1>4
  <1>6. rows \in SUBSET Ids /\ rows \subseteq Catalogue
    BY <1>b, RowsAre, ShelfIs
  <1>7. k \in ViewRecord
    BY <1>4, <1>6 DEF ViewRecord
  <1>8. /\ k.of = x.of /\ k.at = "tracks" /\ k.rows = rows /\ k.named = x.named
        /\ k.tracks = x.tracks /\ k.links = x.links
        /\ k.steady = x.steady /\ k.listed = x.listed /\ k.blessed = x.blessed /\ k.torn = x.torn
    BY <1>4 DEF ViewRecord
  <1>9. rows \subseteq x.listed
    BY <1>1, <1>2, <1>6, KnownListed
  <1>10. Honest(k)
    <2>1. Offering(k)
      BY <1>1, <1>8, LinksKept DEF Honest
    <2> QED
      BY <1>1, <1>2, <1>8, <1>9, <2>1 DEF Honest
  <1>s. Sure(k)
    BY <1>2, <1>8 DEF Sure
  <1> QED
    BY <1>1, <1>2, <1>5, <1>7, <1>8, <1>10, <1>s, GoesOn

LEMMA ConfirmedStep ==
  ASSUME PagesInv, NEW v \in Visitors, Confirmed(v)
  PROVE  PagesInv'
  <1>1. PICK x \in ViewRecord : x = view[v] /\ Informed(x) /\ Honest(x)
    BY ViewHas
  <1>2. x.of = "release" /\ x.at = "pins" /\ Active(view[v])
    BY <1>1, UnderWay DEF Confirmed, AtStep
  <1>b. PICK best : best = ReleaseIsIndexable(v)
    OBVIOUS
  <1>i. \A n \in best : n \in x.named /\ Offerable(x, n)
    BY <1>1, <1>2, <1>b, IndexableIs
  <1>3. PICK k : k = [x EXCEPT !.at = "tracks", !.links = best]
    OBVIOUS
  <1>4. Go(v, k)
    BY <1>1, <1>b, <1>3 DEF Confirmed
  <1>5. best \in SUBSET Offers
    BY <1>i DEF ViewRecord
  <1>6. k \in ViewRecord
    BY <1>3, <1>5 DEF ViewRecord
  <1>7. /\ k.of = x.of /\ k.at = "tracks" /\ k.rows = x.rows /\ k.named = x.named
        /\ k.tracks = x.tracks /\ k.links = best
        /\ k.steady = x.steady /\ k.listed = x.listed /\ k.blessed = x.blessed /\ k.torn = x.torn
    BY <1>3 DEF ViewRecord
  <1>8. Offering(k)
    BY <1>i, <1>7 DEF Offering, Offerable
  <1>9. Honest(k)
    BY <1>1, <1>2, <1>7, <1>8 DEF Honest
  <1>s. Sure(k)
    BY <1>1, <1>2, <1>7 DEF Informed, Sure
  <1> QED
    BY <1>1, <1>2, <1>4, <1>6, <1>7, <1>9, <1>s, GoesOn

LEMMA TracksOfPageStep ==
  ASSUME PagesInv, NEW v \in Visitors, TracksOfPage(v)
  PROVE  PagesInv'
  <1>1. PICK x \in ViewRecord : x = view[v] /\ Informed(x) /\ Honest(x)
    BY ViewHas
  <1>2. x.of \in {"browse", "search", "release", "front"} /\ x.at = "tracks" /\ Active(view[v])
    BY <1>1, UnderWay DEF TracksOfPage, AtStep
  <1>3. PICK at \in {"pins", "done"} : at = IF x.of \in {"browse", "front"} THEN "pins" ELSE "done"
    OBVIOUS
  <1>4. PICK tracks : tracks = IF x.of = "front" THEN x.tracks ELSE x.tracks \cup (x.rows \cap heads)
    OBVIOUS
  <1>5. PICK k : k = [x EXCEPT !.at = at, !.tracks = tracks]
    OBVIOUS
  <1>6. Go(v, k)
    BY <1>1, <1>3, <1>4, <1>5 DEF TracksOfPage
  <1>7. heads \subseteq x.listed /\ x.listed \subseteq Ids
    BY <1>1, <1>2, KnownListed DEF ViewRecord
  <1>8. tracks \in SUBSET Ids /\ tracks \subseteq x.listed
    BY <1>1, <1>4, <1>7 DEF Honest
  <1>9. k \in ViewRecord
    BY <1>5, <1>8 DEF ViewRecord
  <1>10. /\ k.of = x.of /\ k.at = at /\ k.rows = x.rows /\ k.named = x.named /\ k.list = x.list
         /\ k.tracks = tracks /\ k.links = x.links /\ k.seen = x.seen /\ k.more = x.more /\ k.after = x.after
         /\ k.steady = x.steady /\ k.listed = x.listed /\ k.blessed = x.blessed /\ k.torn = x.torn
    BY <1>5 DEF ViewRecord
  <1>11. x.of \in {"browse", "uploader"} => Walking(k)
    BY <1>1, <1>2, <1>3, <1>10 DEF Honest, Walking, Passed, Scope
  <1>12. Honest(k)
    <2>1. Offering(k)
      BY <1>1, <1>10, LinksKept DEF Honest
    <2> QED
      BY <1>1, <1>2, <1>3, <1>8, <1>10, <1>11, <2>1 DEF Honest
  <1>s. Sure(k)
    BY <1>1, <1>2, <1>10 DEF Informed, Sure
  <1> QED
    BY <1>1, <1>2, <1>6, <1>9, <1>10, <1>12, <1>s, GoesOn

LEMMA BuildStep ==
  ASSUME PagesInv, NEW v \in Visitors, BuildCatalogueReleases(v)
  PROVE  PagesInv'
  <1>1. PICK x \in ViewRecord : x = view[v] /\ Informed(x) /\ Honest(x)
    BY ViewHas
  <1>2. x.of = "browse" /\ x.at = "pins" /\ Active(view[v])
    BY <1>1, UnderWay DEF BuildCatalogueReleases, AtStep
  <1>b. PICK best : best = ReleaseIsIndexable(v)
    OBVIOUS
  <1>i. \A n \in best : n \in x.named /\ Offerable(x, n)
    BY <1>1, <1>2, <1>b, IndexableIs
  <1>3. PICK links : links = x.links \cup best
    OBVIOUS
  <1>4. PICK seen : seen = [r \in Ids |-> IF r \in x.rows THEN x.seen[r] + 1 ELSE x.seen[r]]
    OBVIOUS
  <1>5. PICK k : k = [x EXCEPT !.at = "done", !.links = links, !.seen = seen]
    OBVIOUS
  <1>6. Go(v, k)
    BY <1>1, <1>b, <1>3, <1>4, <1>5 DEF BuildCatalogueReleases
  <1>8. links \in SUBSET Offers /\ seen \in [Ids -> Nat]
    BY <1>3, <1>4, <1>i DEF ViewRecord
  <1>9. k \in ViewRecord
    BY <1>5, <1>8 DEF ViewRecord
  <1>10. /\ k.of = x.of /\ k.at = "done" /\ k.rows = x.rows /\ k.named = x.named
         /\ k.tracks = x.tracks /\ k.links = links /\ k.seen = seen /\ k.more = x.more /\ k.after = x.after
         /\ k.steady = x.steady /\ k.listed = x.listed /\ k.blessed = x.blessed /\ k.torn = x.torn
    BY <1>5 DEF ViewRecord
  <1>11. Walking(x)
    BY <1>1, <1>2 DEF Honest
  <1>12. k.seen = [r \in Ids |-> IF r \in x.rows THEN x.seen[r] + 1 ELSE x.seen[r]]
    BY <1>4, <1>10
  <1>13. Walking(k)
    BY <1>2, <1>9, <1>10, <1>11, <1>12, WalkShows
  <1>14. Honest(k)
    <2>1. Offering(k)
      BY <1>1, <1>3, <1>i, <1>10 DEF Honest, Offering, Offerable
    <2> QED
      BY <1>1, <1>2, <1>8, <1>10, <1>13, <2>1 DEF Honest
  <1>s. Sure(k)
    BY <1>10 DEF Sure
  <1> QED
    BY <1>1, <1>2, <1>6, <1>9, <1>10, <1>14, <1>s, GoesOn

LEMMA PageFailsStep ==
  ASSUME PagesInv, NEW v \in Visitors, PageFails(v)
  PROVE  PagesInv'
  <1>1. Go(v, NoView)
    BY DEF PageFails
  <1>2. NoView \in ViewRecord /\ Honest(NoView) /\ Informed(NoView)
    BY NoViewIs DEF Informed
  <1> QED
    BY <1>1, <1>2, GoesOver

-----------------------------------------------------------------------------
(* The documents kept for everyone. *)

\* What is served of a kept document.
LEMMA ServedIs ==
  ASSUME PagesInv, NEW of \in {"front", "sitemap"}, NEW e, EntrySound(e), e.until # 0, now < e.until,
         NEW k, k = Served(e, of)
  PROVE  k \in ViewRecord /\ Informed(k) /\ Honest(k)
  <1>1. NoView \in ViewRecord
    BY NoViewIs
  <1>2. /\ e.until \in Nat /\ e.links \in SUBSET Offers /\ e.listed \in SUBSET Ids
        /\ e.blessed \in SUBSET Offers /\ e.torn \in SUBSET Ids /\ \A l \in e.links : Offerable(e, l)
    BY DEF EntrySound, Entries
  <1>3. of \in Kinds
    BY DEF Kinds
  <1>4. PICK n \in ViewRecord : n = NoView
    BY <1>1
  <1>5. /\ n.more = FALSE /\ n.rows = {} /\ n.named = {} /\ n.tracks = {}
    BY <1>4 DEF NoView
  <1>7. k = [n EXCEPT !.of = of, !.at = "done", !.links = e.links, !.listed = e.listed,
                      !.blessed = e.blessed, !.torn = e.torn]
    BY <1>4 DEF Served
  <1>8. k \in ViewRecord
    <2>1. \A l \in SUBSET Offers, s \in SUBSET Ids, t \in SUBSET Offers, u \in SUBSET Ids :
            [n EXCEPT !.of = of, !.at = "done", !.links = l, !.listed = s,
                      !.blessed = t, !.torn = u] \in ViewRecord
      <3> SUFFICES ASSUME NEW l \in SUBSET Offers, NEW s \in SUBSET Ids, NEW t \in SUBSET Offers, NEW u \in SUBSET Ids,
                          NEW j, j = [n EXCEPT !.of = of, !.at = "done", !.links = l, !.listed = s,
                                               !.blessed = t, !.torn = u]
                   PROVE  j \in ViewRecord
        OBVIOUS
      <3> QED
        BY <1>3 DEF ViewRecord
    <2>2. [n EXCEPT !.of = of, !.at = "done", !.links = e.links, !.listed = e.listed,
                    !.blessed = e.blessed, !.torn = e.torn] \in ViewRecord
      BY <1>2, <2>1, Zenon
    <2> QED
      BY <1>7, <2>2, Zenon
  <1>9. /\ k.of = of /\ k.at = "done" /\ k.more = FALSE /\ k.rows = {} /\ k.named = {} /\ k.tracks = {}
        /\ k.links = e.links /\ k.listed = e.listed /\ k.blessed = e.blessed /\ k.torn = e.torn
    BY <1>5, <1>7 DEF ViewRecord
  <1>10. Informed(k)
    BY <1>9 DEF Informed, Active, Sure
  <1>11. Honest(k)
    BY <1>2, <1>9 DEF Honest, Offering, Offerable
  <1> QED
    BY <1>8, <1>10, <1>11

LEMMA KeptIs ==
  ASSUME PagesInv, NEW x \in ViewRecord, Honest(x), NEW e, e = Kept(x)
  PROVE  EntrySound(e) /\ e.until # 0 /\ now < e.until
  <1>1. now \in Nat /\ TTL \in Nat \ {0}
    BY ShelfIs, PagesAssumption
  <1>2. /\ e.until = now + TTL /\ e.links = x.links /\ e.listed = x.listed
        /\ e.blessed = x.blessed /\ e.torn = x.torn
    BY DEF Kept
  <1>3. /\ x.links \in SUBSET Offers /\ x.listed \in SUBSET Ids /\ x.blessed \in SUBSET Offers
        /\ x.torn \in SUBSET Ids
    BY DEF ViewRecord
  <1>4. e \in Entries
    BY <1>1, <1>3 DEF Kept, Entries
  <1> QED
    BY <1>1, <1>2, <1>4 DEF EntrySound, Honest, Offering, Offerable

LEMMA HandleIndexStep ==
  ASSUME PagesInv, NEW v \in Visitors, HandleIndex(v)
  PROVE  PagesInv'
  <1>1. CASE now < front.until
    <2>1. PICK k : k = Served(front, "front")
      OBVIOUS
    <2>2. Go(v, k)
      BY <1>1, <2>1 DEF HandleIndex, Ask, Go
    <2>3. EntrySound(front) /\ front.until # 0
      BY <1>1, ShelfIs DEF PagesInv
    <2>4. k \in ViewRecord /\ Informed(k) /\ Honest(k)
      BY <1>1, <2>1, <2>3, ServedIs
    <2> QED
      BY <2>2, <2>4, GoesOver
  <1>2. CASE ~ (now < front.until)
    <2>1. PICK a : a = Asking("front")
      OBVIOUS
    <2>2. /\ a \in ViewRecord /\ Informed(a)
          /\ a.of = "front" /\ a.at = "rows" /\ a.more = FALSE /\ a.rows = {} /\ a.named = {}
          /\ a.tracks = {} /\ a.links = {}
      <3>1. "front" \in Kinds
        BY DEF Kinds
      <3> QED
        BY <2>1, <3>1, AskingIs
    <2>3. PICK k : k = [a EXCEPT !.list = 1]
      OBVIOUS
    <2>4. Go(v, k)
      BY <1>2, <2>1, <2>3 DEF HandleIndex, Ask, Go
    <2>5. k \in ViewRecord
      BY <2>2, <2>3 DEF ViewRecord
    <2>6. /\ k.of = "front" /\ k.at = "rows" /\ k.more = FALSE /\ k.rows = {} /\ k.named = {}
          /\ k.tracks = {} /\ k.links = {} /\ k.list = 1
          /\ k.steady = a.steady /\ k.listed = a.listed /\ k.blessed = a.blessed
      BY <2>2, <2>3 DEF ViewRecord
    <2>7. Informed(k)
      BY <2>2, <2>6 DEF Informed, Active, Sure
    <2>8. Honest(k)
      BY <2>6 DEF Honest, Offering
    <2> QED
      BY <2>4, <2>5, <2>7, <2>8, GoesOver
  <1> QED
    BY <1>1, <1>2

LEMMA FrontRowsStep ==
  ASSUME PagesInv, NEW v \in Visitors, FrontRows(v)
  PROVE  PagesInv'
  <1>1. PICK x \in ViewRecord : x = view[v] /\ Informed(x) /\ Honest(x)
    BY ViewHas
  <1>2. x.of = "front" /\ x.at = "rows" /\ Active(view[v]) /\ x.list \in 1..3
    BY <1>1, UnderWay DEF FrontRows, AtStep, Honest
  <1>3. PICK rows : rows = ListRows(Lists[x.list])
    OBVIOUS
  <1>4. PICK k : k = [x EXCEPT !.at = "tracks", !.rows = rows, !.named = Named(rows),
                               !.torn = x.torn \cup AtOdds]
    OBVIOUS
  <1>5. Go(v, k)
    BY <1>1, <1>3, <1>4 DEF FrontRows
  <1>6. Lists[x.list] \in {"newest", "trending", "popular"}
    BY <1>2 DEF Lists
  <1>7. rows \subseteq Catalogue
    BY <1>3, <1>6, RowsAre
  <1>8. rows \in SUBSET Ids /\ rows \subseteq x.listed
    BY <1>1, <1>2, <1>7, ShelfIs, KnownListed
  <1>n. /\ Named(rows) \in SUBSET Offers /\ x.torn \cup AtOdds \in SUBSET Ids
        /\ \A n \in Named(rows) : n[1] \in rows /\ (n[1] \in AtOdds \/ n[1] \notin pinned \/ n \in Pins)
    BY <1>8, NamedIs, PinsAre DEF ViewRecord
  <1>9. k \in ViewRecord
    <2>1. PICK named \in SUBSET Offers, torn \in SUBSET Ids : named = Named(rows) /\ torn = x.torn \cup AtOdds
      BY <1>n
    <2>2. k = [x EXCEPT !.at = "tracks", !.rows = rows, !.named = named, !.torn = torn]
      BY <1>4, <2>1
    <2> QED
      BY <1>8, <2>2 DEF ViewRecord
  <1>10. /\ k.of = x.of /\ k.at = "tracks" /\ k.rows = rows /\ k.named = Named(rows) /\ k.list = x.list
         /\ k.tracks = x.tracks /\ k.links = x.links
         /\ k.steady = x.steady /\ k.listed = x.listed /\ k.blessed = x.blessed /\ k.torn = x.torn \cup AtOdds
    BY <1>4 DEF ViewRecord
  <1>11. Honest(k)
    <2>1. Offering(k)
      BY <1>1, <1>10, LinksKept DEF Honest
    <2> QED
      BY <1>1, <1>2, <1>8, <1>10, <1>n, <2>1 DEF Honest
  <1>s. Sure(k)
    BY <1>10, <1>n DEF Sure
  <1> QED
    BY <1>1, <1>2, <1>5, <1>9, <1>10, <1>11, <1>s, GoesOn

\* The next list is begun, or there is none left.
LEMMA NextListIs ==
  ASSUME NEW x \in ViewRecord, Honest(x), x.of = "front", x.list \in 1..3, NEW k, k = NextList(x)
  PROVE  /\ k \in ViewRecord /\ Honest(k) /\ Sure(k)
         /\ k.steady = x.steady /\ k.listed = x.listed /\ k.blessed = x.blessed /\ k.torn = x.torn
  <1>1. PICK at \in {"store", "rows"} : at = IF x.list = 3 THEN "store" ELSE "rows"
    OBVIOUS
  <1>2. PICK list \in 0..3 : list = IF x.list = 3 THEN 0 ELSE x.list + 1
    OBVIOUS
  <1>3. k = [x EXCEPT !.at = at, !.list = list, !.rows = {}, !.named = {}]
    BY <1>1, <1>2 DEF NextList
  <1>4. k \in ViewRecord
    BY <1>3 DEF ViewRecord
  <1>5. /\ k.of = x.of /\ k.at = at /\ k.list = list /\ k.rows = {} /\ k.named = {}
        /\ k.tracks = x.tracks /\ k.links = x.links
        /\ k.steady = x.steady /\ k.listed = x.listed /\ k.blessed = x.blessed /\ k.torn = x.torn
    BY <1>3 DEF ViewRecord
  <1>6. at = "rows" => list \in 1..3
    BY <1>1, <1>2
  <1>7. Honest(k)
    <2>1. Offering(k)
      BY <1>5, LinksKept DEF Honest
    <2> QED
      BY <1>1, <1>5, <1>6, <2>1 DEF Honest
  <1>8. Sure(k)
    BY <1>5 DEF Sure
  <1> QED
    BY <1>4, <1>5, <1>7, <1>8

LEMMA ListFailsStep ==
  ASSUME PagesInv, NEW v \in Visitors, ListFails(v)
  PROVE  PagesInv'
  <1>1. PICK x \in ViewRecord : x = view[v] /\ Informed(x) /\ Honest(x)
    BY ViewHas
  <1>2. x.of = "front" /\ x.at \in {"rows", "tracks", "pins"} /\ Active(view[v]) /\ x.list \in 1..3
    BY <1>1, UnderWay DEF ListFails, Honest
  <1>3. PICK y : y = [x EXCEPT !.whole = FALSE]
    OBVIOUS
  <1>4. y \in ViewRecord
    BY <1>3 DEF ViewRecord
  <1>5. /\ y.of = x.of /\ y.at = x.at /\ y.list = x.list /\ y.rows = x.rows /\ y.named = x.named
        /\ y.tracks = x.tracks /\ y.links = x.links
        /\ y.steady = x.steady /\ y.listed = x.listed /\ y.blessed = x.blessed /\ y.torn = x.torn
    BY <1>3 DEF ViewRecord
  <1>6. Honest(y)
    BY <1>1, <1>2, <1>5, LinksKept DEF Honest
  <1>7. PICK k : k = NextList(y)
    OBVIOUS
  <1>8. Go(v, k)
    BY <1>1, <1>3, <1>7 DEF ListFails
  <1>9. /\ k \in ViewRecord /\ Honest(k) /\ Sure(k)
        /\ k.steady = x.steady /\ k.listed = x.listed /\ k.blessed = x.blessed /\ k.torn = x.torn
    BY <1>2, <1>4, <1>5, <1>6, <1>7, NextListIs
  <1> QED
    BY <1>1, <1>2, <1>8, <1>9, GoesOn

LEMMA HomepageListStep ==
  ASSUME PagesInv, NEW v \in Visitors, HomepageList(v)
  PROVE  PagesInv'
  <1>1. PICK x \in ViewRecord : x = view[v] /\ Informed(x) /\ Honest(x)
    BY ViewHas
  <1>2. x.of = "front" /\ x.at = "pins" /\ Active(view[v]) /\ x.list \in 1..3
    BY <1>1, UnderWay DEF HomepageList, AtStep, Honest
  <1>3. PICK best : /\ best \subseteq ReleaseIsIndexable(v)
                    /\ Go(v, NextList([x EXCEPT !.links = x.links \cup best]))
    BY <1>1 DEF HomepageList, Top
  <1>i. \A n \in best : n \in x.named /\ Offerable(x, n)
    BY <1>1, <1>2, <1>3, IndexableIs
  <1>4. PICK y : y = [x EXCEPT !.links = x.links \cup best]
    OBVIOUS
  <1>5. x.links \cup best \in SUBSET Offers
    BY <1>i DEF ViewRecord
  <1>6. y \in ViewRecord
    BY <1>4, <1>5 DEF ViewRecord
  <1>7. /\ y.of = x.of /\ y.at = x.at /\ y.list = x.list /\ y.rows = x.rows /\ y.named = x.named
        /\ y.tracks = x.tracks /\ y.links = x.links \cup best
        /\ y.steady = x.steady /\ y.listed = x.listed /\ y.blessed = x.blessed /\ y.torn = x.torn
    BY <1>4 DEF ViewRecord
  <1>8. Offering(y)
    BY <1>1, <1>i, <1>7 DEF Honest, Offering, Offerable
  <1>9. Honest(y)
    BY <1>1, <1>2, <1>7, <1>8 DEF Honest
  <1>10. PICK k : k = NextList(y)
    OBVIOUS
  <1>11. Go(v, k)
    BY <1>3, <1>4, <1>10
  <1>12. /\ k \in ViewRecord /\ Honest(k) /\ Sure(k)
         /\ k.steady = x.steady /\ k.listed = x.listed /\ k.blessed = x.blessed /\ k.torn = x.torn
    BY <1>2, <1>6, <1>7, <1>9, <1>10, NextListIs
  <1> QED
    BY <1>1, <1>2, <1>11, <1>12, GoesOn

LEMMA HomepageListsStep ==
  ASSUME PagesInv, NEW v \in Visitors, HomepageLists(v)
  PROVE  PagesInv'
  <1>1. PICK x \in ViewRecord : x = view[v] /\ Informed(x) /\ Honest(x)
    BY ViewHas
  <1>2. PICK e : e = Kept(x)
    OBVIOUS
  <1>3. EntrySound(e) /\ e.until # 0 /\ now < e.until
    BY <1>1, <1>2, KeptIs
  <1>4. PICK k : k = Served(e, "front")
    OBVIOUS
  <1>5. k \in ViewRecord /\ Informed(k) /\ Honest(k)
    BY <1>3, <1>4, ServedIs
  <1>6. /\ front' = IF x.whole THEN e ELSE front
        /\ view' = [view EXCEPT ![v] = k]
        /\ UNCHANGED <<shelfVars, now>> /\ maps' = maps
    BY <1>1, <1>2, <1>4 DEF HomepageLists
  <1>7. EntrySound(front')
    <2>1. EntrySound(front)
      BY DEF PagesInv
    <2> QED
      BY <1>3, <1>6, <2>1
  <1>8. MapsSound'
    BY <1>6 DEF PagesInv, MapsSound, EntrySound, Offerable, Entries
  <1> QED
    BY <1>5, <1>6, <1>7, <1>8, ViewMoves

LEMMA HandleSitemapStep ==
  ASSUME PagesInv, NEW v \in Visitors, NEW o \in Origins, HandleSitemap(v, o)
  PROVE  PagesInv'
  <1>1. CASE Fresh(o)
    <2>1. PICK e : e = maps[o]
      OBVIOUS
    <2>2. EntrySound(e) /\ now < e.until /\ e.until # 0
      <3>1. o \in DOMAIN maps /\ now < e.until
        BY <1>1, <2>1 DEF Fresh
      <3> QED
        BY <2>1, <3>1, ShelfIs DEF PagesInv, MapsSound
    <2>3. PICK k : k = Served(e, "sitemap")
      OBVIOUS
    <2>4. Go(v, k)
      BY <1>1, <2>1, <2>3 DEF HandleSitemap, Ask, Go
    <2>5. k \in ViewRecord /\ Informed(k) /\ Honest(k)
      BY <2>2, <2>3, ServedIs
    <2> QED
      BY <2>4, <2>5, GoesOver
  <1>2. CASE ~ Fresh(o)
    <2>1. PICK a : a = Asking("sitemap")
      OBVIOUS
    <2>2. /\ a \in ViewRecord /\ Informed(a) /\ Honest(a)
          /\ a.of = "sitemap" /\ a.at = "rows" /\ a.more = FALSE /\ a.rows = {} /\ a.named = {}
          /\ a.tracks = {} /\ a.links = {}
      <3>1. "sitemap" \in Kinds /\ "sitemap" # "front"
        BY DEF Kinds
      <3> QED
        BY <2>1, <3>1, AskingIs
    <2>3. PICK k : k = [a EXCEPT !.host = o]
      OBVIOUS
    <2>4. Go(v, k)
      BY <1>2, <2>1, <2>3 DEF HandleSitemap, Ask, Go
    <2>5. k \in ViewRecord
      BY <2>2, <2>3 DEF ViewRecord
    <2>6. /\ k.of = "sitemap" /\ k.at = "rows" /\ k.more = FALSE /\ k.rows = {} /\ k.named = {}
          /\ k.tracks = {} /\ k.links = {}
          /\ k.steady = a.steady /\ k.listed = a.listed /\ k.blessed = a.blessed
      BY <2>2, <2>3 DEF ViewRecord
    <2>7. Informed(k)
      BY <2>2, <2>6 DEF Informed, Active, Sure
    <2>8. Honest(k)
      BY <2>6 DEF Honest, Offering
    <2> QED
      BY <2>4, <2>5, <2>7, <2>8, GoesOver
  <1> QED
    BY <1>1, <1>2

LEMMA ReadIndexableStep ==
  ASSUME PagesInv, NEW v \in Visitors, ReadIndexable(v)
  PROVE  PagesInv'
  <1>1. PICK x \in ViewRecord : x = view[v] /\ Informed(x) /\ Honest(x)
    BY ViewHas
  <1>2. x.of = "sitemap" /\ x.at = "rows" /\ Active(view[v])
    BY <1>1, UnderWay DEF ReadIndexable, AtStep
  <1>3. PICK links : links = IndexableReleases \X {Untitled}
    OBVIOUS
  <1>4. \A l \in links : l[1] \in heads /\ l[1] \in pinned /\ l[1] \in Ids /\ l[2] = Untitled /\ l = <<l[1], l[2]>>
    BY <1>3 DEF IndexableReleases, HasVisibleTrack, titled
  <1>5. links \in SUBSET Offers
    BY <1>4 DEF Offers, Headings
  <1>l. \A l \in links : Offerable(x, l)
    BY <1>1, <1>2, <1>4, PinsAre, KnownListed DEF Offerable
  <1>6. PICK k : k = [x EXCEPT !.at = "store", !.links = links]
    OBVIOUS
  <1>7. Go(v, k)
    BY <1>1, <1>3, <1>6 DEF ReadIndexable
  <1>8. k \in ViewRecord
    BY <1>5, <1>6 DEF ViewRecord
  <1>9. /\ k.of = x.of /\ k.at = "store" /\ k.rows = x.rows /\ k.named = x.named
        /\ k.tracks = x.tracks /\ k.links = links
        /\ k.steady = x.steady /\ k.listed = x.listed /\ k.blessed = x.blessed /\ k.torn = x.torn
    BY <1>6 DEF ViewRecord
  <1>10. Honest(k)
    <2>1. Offering(k)
      BY <1>l, <1>9 DEF Offering, Offerable
    <2> QED
      BY <1>1, <1>2, <1>9, <2>1 DEF Honest
  <1>s. Sure(k)
    BY <1>9 DEF Sure
  <1> QED
    BY <1>1, <1>2, <1>7, <1>8, <1>9, <1>10, <1>s, GoesOn

\* Another name is added only while there is room.
LEMMA RoomIs ==
  ASSUME NEW D, IsFiniteSet(D), Cardinality(D) <= MaxMaps, NEW fresh \in SUBSET D, NEW o, NEW keeps,
         keeps = IF o \in fresh \/ Cardinality(fresh) < MaxMaps THEN fresh \cup {o} ELSE fresh
  PROVE  IsFiniteSet(keeps) /\ Cardinality(keeps) <= MaxMaps
  <1>1. /\ IsFiniteSet(fresh) /\ Cardinality(fresh) <= Cardinality(D)
        /\ Cardinality(fresh) \in Nat /\ Cardinality(D) \in Nat /\ MaxMaps \in Nat
    BY FS_Subset, FS_CardinalityType, PagesAssumption
  <1>2. CASE o \in fresh
    <2>1. keeps = fresh
      BY <1>2
    <2> QED
      BY <1>1, <2>1
  <1>3. CASE o \notin fresh /\ Cardinality(fresh) < MaxMaps
    <2>1. keeps = fresh \cup {o}
      BY <1>3
    <2>2. IsFiniteSet(fresh \cup {o}) /\ Cardinality(fresh \cup {o}) = Cardinality(fresh) + 1
      BY <1>1, <1>3, FS_AddElement
    <2> QED
      BY <1>1, <1>3, <2>1, <2>2
  <1>4. CASE o \notin fresh /\ ~ (Cardinality(fresh) < MaxMaps)
    <2>1. keeps = fresh
      BY <1>4
    <2> QED
      BY <1>1, <2>1
  <1> QED
    BY <1>2, <1>3, <1>4

LEMMA SitemapXMLStep ==
  ASSUME PagesInv, NEW v \in Visitors, SitemapXML(v)
  PROVE  PagesInv'
  <1>1. PICK x \in ViewRecord : x = view[v] /\ Informed(x) /\ Honest(x)
    BY ViewHas
  <1>2. PICK e : e = Kept(x)
    OBVIOUS
  <1>3. EntrySound(e) /\ e.until # 0 /\ now < e.until
    BY <1>1, <1>2, KeptIs
  <1>4. PICK k : k = Served(e, "sitemap")
    OBVIOUS
  <1>5. k \in ViewRecord /\ Informed(k) /\ Honest(k)
    BY <1>3, <1>4, ServedIs
  <1>6. PICK fresh : fresh = {o \in Origins : Fresh(o)}
    OBVIOUS
  <1>7. PICK keeps : keeps = IF x.host \in fresh \/ Cardinality(fresh) < MaxMaps
                             THEN fresh \cup {x.host} ELSE fresh
    OBVIOUS
  <1>8. /\ maps' = [o \in keeps |-> IF o = x.host THEN e ELSE maps[o]]
        /\ view' = [view EXCEPT ![v] = k]
        /\ UNCHANGED <<shelfVars, now>> /\ front' = front
    BY <1>1, <1>2, <1>4, <1>6, <1>7 DEF SitemapXML
  <1>9. /\ fresh \in SUBSET (DOMAIN maps) /\ fresh \subseteq Origins /\ x.host \in Origins
        /\ IsFiniteSet(DOMAIN maps) /\ Cardinality(DOMAIN maps) <= MaxMaps
        /\ \A o \in DOMAIN maps : EntrySound(maps[o])
    BY <1>6 DEF Fresh, PagesInv, MapsSound, ViewRecord
  <1>10. IsFiniteSet(keeps) /\ Cardinality(keeps) <= MaxMaps
    BY <1>7, <1>9, RoomIs
  <1>11. keeps \subseteq Origins /\ \A o \in keeps : o = x.host \/ o \in DOMAIN maps
    BY <1>7, <1>9
  <1>12. DOMAIN maps' = keeps /\ \A o \in keeps : EntrySound(maps'[o])
    BY <1>3, <1>8, <1>9, <1>11
  <1>13. MapsSound'
    BY <1>10, <1>11, <1>12 DEF MapsSound, EntrySound, Offerable, Entries
  <1>14. EntrySound(front')
    BY <1>8 DEF PagesInv
  <1> QED
    BY <1>5, <1>8, <1>13, <1>14, ViewMoves

-----------------------------------------------------------------------------
\* A request hears of what is put on the catalogue while it is under way.
Heard(x, c, l, b, u) ==
  [x EXCEPT !.steady = x.steady \cap c, !.listed = x.listed \cup l, !.blessed = x.blessed \cup b,
            !.torn = x.torn \cup u]

News(x, c, l, b, u) ==
  /\ x \in ViewRecord /\ Honest(x)
  /\ c \in SUBSET Ids /\ l \in SUBSET Ids /\ b \in SUBSET Offers /\ u \in SUBSET Ids

Heeds(x, c, l, b, u, k) ==
  /\ k \in ViewRecord /\ Honest(k)
  /\ k.steady \subseteq c /\ l \subseteq k.listed /\ b \subseteq k.blessed
  /\ k.of = x.of /\ k.at = x.at /\ k.named = x.named /\ k.torn = x.torn \cup u

LEMMA HearsOf ==
  ASSUME NEW x, NEW c, NEW l, NEW b, NEW u, News(x, c, l, b, u)
  PROVE  Heeds(x, c, l, b, u, Heard(x, c, l, b, u))
  <1>0. PICK k : k = Heard(x, c, l, b, u)
    OBVIOUS
  <1> /\ x \in ViewRecord /\ Honest(x)
      /\ c \in SUBSET Ids /\ l \in SUBSET Ids /\ b \in SUBSET Offers /\ u \in SUBSET Ids
    BY DEF News
  <1>1. PICK s \in SUBSET Ids, li \in SUBSET Ids, bl \in SUBSET Offers, to \in SUBSET Ids :
          s = x.steady \cap c /\ li = x.listed \cup l /\ bl = x.blessed \cup b /\ to = x.torn \cup u
    BY DEF ViewRecord
  <1>2. k = [x EXCEPT !.steady = s, !.listed = li, !.blessed = bl, !.torn = to]
    BY <1>0, <1>1 DEF Heard
  <1>3. k \in ViewRecord
    BY <1>2 DEF ViewRecord
  <1>4. /\ k.of = x.of /\ k.at = x.at /\ k.list = x.list /\ k.rows = x.rows /\ k.named = x.named
        /\ k.tracks = x.tracks /\ k.links = x.links /\ k.seen = x.seen /\ k.more = x.more
        /\ k.after = x.after /\ k.steady = s /\ k.listed = li /\ k.blessed = bl /\ k.torn = to
    BY <1>2 DEF ViewRecord
  <1>5. s \subseteq x.steady /\ x.listed \subseteq li /\ x.blessed \subseteq bl /\ x.torn \subseteq to
    BY <1>1
  <1>6. Walking(x) => Walking(k)
    BY <1>4, <1>5 DEF Walking, Passed, Scope
  <1>7. Offering(k)
    BY <1>4, <1>5, LinksKept DEF Honest
  <1>8. Honest(k)
    BY <1>4, <1>5, <1>6, <1>7 DEF Honest
  <1>9. k.steady \subseteq c /\ l \subseteq k.listed /\ b \subseteq k.blessed
    BY <1>1, <1>4
  <1> QED
    BY <1>0, <1>1, <1>3, <1>4, <1>8, <1>9 DEF Heeds

\* A pin that is neither taken nor removed nor given another title stays as it was.
LEMMA PinsStay ==
  ASSUME NEW n \in Offers, n[1] \notin Renamed, n[1] \notin pinned \/ n \in Pins
  PROVE  n[1] \notin pinned' \/ n \in Pins'
  <1>1. n[1] \in Ids
    BY DEF Offers
  <1>2. pinName'[n[1]] = pinName[n[1]]
    BY <1>1 DEF Renamed
  <1>3. CASE n[1] \notin pinned
    BY <1>1, <1>2, <1>3 DEF pinned
  <1>4. CASE n \in Pins
    <2>1. PICK r \in pinned : n = <<r, pinName[r]>>
      BY <1>4 DEF Pins
    <2>2. n[1] = r /\ pinName'[r] = pinName[r] /\ r \in pinned'
      BY <1>2, <2>1 DEF pinned
    <2> QED
      BY <2>1, <2>2 DEF Pins
  <1> QED
    BY <1>3, <1>4

LEMMA ShelfMoves ==
  ASSUME PagesInv, Moved, up' \subseteq Ids, heads' \subseteq up', loose' \subseteq Ids,
         heading' \in [Ids -> Headings], pinName' \in [Ids -> Headings \cup {NoPin}],
         had' \in [Ids -> SUBSET Headings]
  PROVE  PagesInv'
  <1>1. PICK c : c = Catalogue'
    OBVIOUS
  <1>2. c \in SUBSET Ids
    BY <1>1 DEF Catalogue
  <1>p. Pins' \in SUBSET Offers
    <2>1. \A r \in pinned' : r \in Ids /\ pinName'[r] \in Headings
      BY DEF pinned
    <2> QED
      BY <2>1 DEF Pins, Offers, Headings
  <1>3. PICK l \in SUBSET Ids, b \in SUBSET Offers : l = up' \cap heads' /\ b = Pins' /\ l = heads'
    BY <1>p
  <1>u. PICK U \in SUBSET Ids : U = Renamed
    BY DEF Renamed
  <1>4. \A w \in Visitors : view'[w] = IF Free(w) /\ ~ view[w].more THEN view[w]
          ELSE [view[w] EXCEPT !.steady = @ \cap c, !.listed = @ \cup l, !.blessed = @ \cup b,
                               !.torn = IF view[w].at \in {"tracks", "pins"} THEN @ \cup U ELSE @]
    BY <1>1, <1>3, <1>u DEF Moved
  <1>5. ASSUME NEW w \in Visitors
        PROVE  /\ view'[w] \in ViewRecord /\ Honest(view'[w]) /\ Sure(view[w])'
               /\ Active(view'[w]) => /\ view'[w].steady \subseteq c /\ l \subseteq view'[w].listed
                                      /\ b \subseteq view'[w].blessed
    <2>1. PICK x \in ViewRecord : x = view[w] /\ Honest(x) /\ Informed(x)
      BY ViewHas
    <2>2. CASE Free(w) /\ ~ view[w].more
      <3>1. view'[w] = x /\ ~ Active(x) /\ x.at \in {"idle", "done"}
        BY <1>4, <2>1, <2>2 DEF Free, Active
      <3>2. Sure(view[w])'
        BY <3>1 DEF Sure
      <3> QED
        BY <2>1, <3>1, <3>2
    <2>3. CASE ~ (Free(w) /\ ~ view[w].more)
      <3>0. PICK u \in SUBSET Ids : u = IF x.at \in {"tracks", "pins"} THEN U ELSE {}
        OBVIOUS
      <3>1. PICK k : k = Heard(x, c, l, b, u)
        OBVIOUS
      <3>2. view'[w] = k
        <4>1. (IF x.at \in {"tracks", "pins"} THEN x.torn \cup U ELSE x.torn) = x.torn \cup u
          BY <3>0
        <4> QED
          BY <1>4, <2>1, <2>3, <3>1, <4>1 DEF Heard
      <3>3. /\ k \in ViewRecord /\ Honest(k)
            /\ k.steady \subseteq c /\ l \subseteq k.listed /\ b \subseteq k.blessed
            /\ k.of = x.of /\ k.at = x.at /\ k.named = x.named /\ k.torn = x.torn \cup u
        <4>1. News(x, c, l, b, u)
          BY <1>2, <2>1 DEF News
        <4>2. Heeds(x, c, l, b, u, Heard(x, c, l, b, u))
          BY <4>1, HearsOf, Zenon
        <4>3. Heeds(x, c, l, b, u, k)
          BY <3>1, <4>2, Zenon
        <4> QED
          BY <4>3 DEF Heeds
      <3>4. Sure(view[w])'
        <4> SUFFICES ASSUME k.at \in {"tracks", "pins"}, k.of # "search", NEW n \in k.named
                     PROVE  n[1] \in k.torn \/ n[1] \notin pinned' \/ n \in Pins'
          BY <3>2 DEF Sure
        <4>1. n \in Offers /\ u = U
          BY <3>0, <3>3 DEF ViewRecord
        <4>2. n[1] \in x.torn \/ n[1] \notin pinned \/ n \in Pins
          BY <2>1, <3>3 DEF Informed, Sure
        <4>3. CASE n[1] \in x.torn \/ n[1] \in Renamed
          BY <1>u, <3>3, <4>1, <4>3
        <4>4. CASE n[1] \notin x.torn /\ n[1] \notin Renamed
          BY <4>1, <4>2, <4>4, PinsStay
        <4> QED
          BY <4>3, <4>4
      <3> QED
        BY <3>2, <3>3, <3>4
    <2> QED
      BY <2>2, <2>3
  <1>6. view' \in [Visitors -> ViewRecord]
    <2>1. PICK f : f = [w \in Visitors |-> view'[w]]
      OBVIOUS
    <2>2. view' = f
      BY <2>1 DEF Moved
    <2>3. \A w \in Visitors : f[w] \in ViewRecord
      BY <1>5, <2>1
    <2>4. f \in [Visitors -> ViewRecord]
      BY <2>1, <2>3
    <2> QED
      BY <2>2, <2>4
  <1>7. (view \in [Visitors -> ViewRecord])'
    BY <1>6 DEF ViewRecord, Kinds
  <1>8. ASSUME NEW w \in Visitors
        PROVE  Informed(view[w])'
    BY <1>1, <1>3, <1>5 DEF Informed, Active, Sure
  <1>9. ASSUME NEW w \in Visitors
        PROVE  Honest(view[w])'
    BY <1>5 DEF Honest, Offering, Offerable, Walking, Passed, Scope
  <1>10. ShelfSound'
    <2>1. moves < MaxMoves /\ moves' = moves + 1 /\ now' = now
      BY DEF Moved
    <2>2. moves \in 0..MaxMoves /\ now \in 0..MaxNow /\ MaxMoves \in Nat
      BY PagesAssumption DEF PagesInv, ShelfSound
    <2>3. moves' \in 0..MaxMoves /\ now' \in 0..MaxNow
      BY <2>1, <2>2
    <2> QED
      BY <2>3 DEF ShelfSound, Headings
  <1>11. EntrySound(front)' /\ MapsSound'
    BY DEF Moved, PagesInv, MapsSound, EntrySound, Offerable, Entries
  <1> QED
    BY <1>7, <1>8, <1>9, <1>10, <1>11 DEF PagesInv

LEMMA ShelfStep ==
  ASSUME PagesInv, ShelfNext
  PROVE  PagesInv'
  <1>1. PICK r \in Ids : \/ ReleaseWithdrawn(r) \/ ReleaseRestored(r) \/ TrackGone(r) \/ TrackAppears(r)
                         \/ MetadataPinned(r) \/ MetadataUnpinned(r) \/ TitleDerived(r)
    BY DEF ShelfNext
  <1>2. /\ up \subseteq Ids /\ heads \subseteq up /\ loose \subseteq Ids
        /\ heading \in [Ids -> Headings] /\ pinName \in [Ids -> Headings \cup {NoPin}]
        /\ had \in [Ids -> SUBSET Headings]
    BY DEF PagesInv, ShelfSound
  <1>3. CASE ReleaseWithdrawn(r) \/ ReleaseRestored(r) \/ TrackGone(r) \/ TrackAppears(r)
    <2>1. Moved /\ UNCHANGED naming /\ up' \subseteq Ids /\ heads' \subseteq up'
      BY <1>2, <1>3 DEF ReleaseWithdrawn, ReleaseRestored, TrackGone, TrackAppears
    <2> QED
      BY <1>2, <2>1, ShelfMoves DEF naming
  <1>4. CASE MetadataPinned(r)
    <2>1. PICK t \in had[r] : pinName' = [pinName EXCEPT ![r] = t]
      BY <1>4 DEF MetadataPinned
    <2>2. t \in Headings
      BY <1>2, <2>1
    <2>3. pinName' \in [Ids -> Headings \cup {NoPin}]
      BY <1>2, <2>1, <2>2
    <2>4. Moved /\ UNCHANGED <<up, heads, heading, had, loose>>
      BY <1>4 DEF MetadataPinned
    <2> QED
      BY <1>2, <2>3, <2>4, ShelfMoves
  <1>5. CASE MetadataUnpinned(r)
    <2>1. /\ pinName' = [pinName EXCEPT ![r] = NoPin] /\ loose' = loose \cup {r}
          /\ Moved /\ UNCHANGED <<up, heads, heading, had>>
      BY <1>5 DEF MetadataUnpinned
    <2>2. pinName' \in [Ids -> Headings \cup {NoPin}]
      BY <1>2, <2>1
    <2> QED
      BY <1>2, <2>1, <2>2, ShelfMoves
  <1>6. CASE TitleDerived(r)
    <2>1. PICK t \in Headings :
            heading' = [heading EXCEPT ![r] = t] /\ had' = [had EXCEPT ![r] = @ \cup {t}]
      BY <1>6 DEF TitleDerived
    <2>2. heading' \in [Ids -> Headings]
      BY <1>2, <2>1
    <2>3. had' \in [Ids -> SUBSET Headings]
      BY <1>2, <2>1
    <2>4. Moved /\ UNCHANGED <<up, heads, pinName, loose>>
      BY <1>6 DEF TitleDerived
    <2> QED
      BY <1>2, <2>2, <2>3, <2>4, ShelfMoves
  <1> QED
    BY <1>1, <1>3, <1>4, <1>5, <1>6

\* Nothing that a view is judged by changes.
LEMMA ViewsStay ==
  ASSUME PagesInv, ShelfSound', UNCHANGED <<shelfVars, view, front, maps>>
  PROVE  PagesInv'
  <1>1. UNCHANGED <<up, heads, heading, pinName, view, front, maps>>
    BY DEF shelfVars
  <1>2. Catalogue' = Catalogue /\ Pins' = Pins /\ pinned' = pinned
    BY <1>1 DEF Catalogue, Catalogued, HasVisibleTrack, titled, pinned, Pins
  <1>3. (view \in [Visitors -> ViewRecord])'
    BY <1>1 DEF PagesInv, ViewRecord, Kinds
  <1>4. (\A w \in Visitors : Informed(view[w]) /\ Honest(view[w]))'
    BY <1>1, <1>2 DEF PagesInv, Informed, Sure, Honest, Offering, Offerable, Walking, Passed, Scope, Active
  <1>5. EntrySound(front)' /\ MapsSound'
    BY <1>1 DEF PagesInv, MapsSound, EntrySound, Offerable, Entries
  <1> QED
    BY <1>3, <1>4, <1>5 DEF PagesInv

LEMMA PageTickStep ==
  ASSUME PagesInv, PageTick
  PROVE  PagesInv'
  <1>1. UNCHANGED <<shelfVars, view, front, maps>> /\ now' = now + 1 /\ now < MaxNow
    BY DEF PageTick
  <1>2. ShelfSound'
    <2>1. MaxNow \in Nat
      BY PagesAssumption
    <2> QED
      BY <1>1, <2>1 DEF PagesInv, ShelfSound, shelfVars
  <1> QED
    BY <1>1, <1>2, ViewsStay

LEMMA PagesStart == PagesInit => PagesInv
  <1> SUFFICES ASSUME PagesInit PROVE PagesInv
    OBVIOUS
  <1>1. ShelfSound
    <2>1. \A r \in Ids : heading[r] \in Headings
      BY DEF PagesInit
    <2>2. had \in [Ids -> SUBSET Headings] /\ loose \subseteq Ids
      BY <2>1 DEF PagesInit
    <2>3. up \subseteq Ids /\ heads \subseteq up /\ now \in 0..MaxNow /\ moves \in 0..MaxMoves
      <3>1. MaxNow \in Nat /\ MaxMoves \in Nat
        BY PagesAssumption
      <3> QED
        BY <3>1 DEF PagesInit
    <2> QED
      BY <2>2, <2>3 DEF PagesInit, ShelfSound
  <1>2. view \in [Visitors -> ViewRecord] /\ \A v \in Visitors : Informed(view[v]) /\ Honest(view[v])
    BY NoViewIs DEF PagesInit, Informed
  <1>3. EntrySound(front)
    BY DEF PagesInit, NoEntry, EntrySound, Offerable, Entries
  <1>4. MapsSound
    <2>1. DOMAIN << >> = {}
      OBVIOUS
    <2>2. DOMAIN maps = {}
      BY <2>1 DEF PagesInit
    <2> QED
      <3>1. MaxMaps \in Nat
        BY PagesAssumption
      <3> QED
        BY <2>2, <3>1, FS_EmptySet DEF MapsSound
  <1> QED
    BY <1>1, <1>2, <1>3, <1>4 DEF PagesInv

LEMMA PagesStep == PagesInv /\ [PagesNext]_pagesVars => PagesInv'
  <1> SUFFICES ASSUME PagesInv, [PagesNext]_pagesVars PROVE PagesInv'
    OBVIOUS
  <1>1. CASE ShelfNext
    BY <1>1, ShelfStep
  <1>2. CASE PageTick
    BY <1>2, PageTickStep
  <1>3. ASSUME NEW v \in Visitors, ListingNext(v)
        PROVE  PagesInv'
    BY <1>3, AsksStep, OlderStep, ReleasePageStep, BrowsePageStep, UploaderPageStep, SearchPageStep,
       ConfirmedStep, TracksOfPageStep, BuildStep, PageFailsStep DEF ListingNext
  <1>4. ASSUME NEW v \in Visitors, FrontNext(v)
        PROVE  PagesInv'
    BY <1>4, Zenon, HandleIndexStep, FrontRowsStep, TracksOfPageStep, HomepageListStep, ListFailsStep,
       HomepageListsStep DEF FrontNext
  <1>5. ASSUME NEW v \in Visitors, SitemapNext(v)
        PROVE  PagesInv'
    BY <1>5, HandleSitemapStep, ReadIndexableStep, SitemapXMLStep, PageFailsStep DEF SitemapNext
  <1>6. CASE UNCHANGED pagesVars
    <2>1. UNCHANGED <<shelfVars, now, view, front, maps>>
      BY <1>6 DEF pagesVars
    <2>2. ShelfSound'
      BY <2>1 DEF shelfVars, PagesInv, ShelfSound
    <2> QED
      BY <2>1, <2>2, ViewsStay
  <1> QED
    BY <1>1, <1>2, <1>3, <1>4, <1>5, <1>6 DEF PagesNext

\* Whatever changes between two pages, no walk shows a release twice or misses
\* one that was there all the while, and what a crawler is offered was on the
\* catalogue and pinned while it was put together, under the name that was pinned
\* unless moderation came between the reads.
THEOREM PagesKeepTheirWord ==
  PagesSpec => [](PagesTypeOK /\ WalksAreWhole /\ OffersAreCurrent)
  <1>1. PagesInv => PagesTypeOK /\ WalksAreWhole /\ OffersAreCurrent
    BY PagesTyped, PagesHold
  <1> QED
    BY <1>1, PagesStart, PagesStep, PTL DEF PagesSpec

-----------------------------------------------------------------------------
(* Grouping: Works. *)

Two(S) == \E r, s \in S : r # s
MembersOf(g, w) == {r \in Grouped : g[r] = w}

\* Where a link is, it has done what comes before: both rows are locked and read
\* before a work is chosen, and the work that is absorbed is gone before either is set.
LinkSound(t, g) ==
  /\ t.a # t.b /\ t.a \in Grouped /\ t.b \in Grouped
  /\ t.pc \in {"lockLo", "lockHi", "choose", "find", "move", "set", "commit"}
  /\ t.pc = "lockHi" => Lower(t.a, t.b) \in t.locks
  /\ t.pc \notin {"lockLo", "lockHi"} => t.a \in t.locks /\ t.b \in t.locks
  /\ t.a \in t.locks => t.wa = g[t.a]
  /\ t.b \in t.locks => t.wb = g[t.b]
  /\ t.pc \in {"lockLo", "lockHi", "choose"} => t.rows = {} /\ ~ t.made /\ ~ t.gone /\ t.drop = 0
  /\ t.pc \in {"find", "move", "set", "commit"} =>
       /\ t.into # 0 /\ t.into # t.drop
       /\ t.made => t.wa = 0 /\ t.wb = 0 /\ t.drop = 0
       /\ ~ t.made => {t.wa, t.wb} = {t.into, t.drop}
       /\ t.gone => t.drop # 0 /\ t.pc \in {"set", "commit"}
       /\ t.drop # 0 /\ t.pc \in {"set", "commit"} => t.gone
       /\ t.pc \in {"find", "move"} => t.drop # 0 /\ ~ t.made
       /\ \A r \in t.rows : g[r] = t.drop \/ r \in {t.a, t.b}
       /\ t.pc = "commit" => t.a \in t.rows /\ t.b \in t.rows

UnlinkSound(t, g) ==
  /\ t.a \in Grouped /\ t.pc \in {"lock", "leave", "count", "find", "move", "commit"}
  /\ ~ t.made /\ t.into = 0
  /\ t.pc # "lock" => t.a \in t.locks /\ t.wa = g[t.a]
  /\ t.pc \in {"lock", "leave"} => t.rows = {} /\ ~ t.gone
  /\ t.pc \in {"count", "find", "move", "commit"} =>
       /\ t.drop = t.wa /\ t.drop # 0 /\ t.a \in t.rows
       /\ \A r \in t.rows : g[r] = t.drop
       /\ t.gone => t.pc = "commit"
       /\ t.pc \in {"count", "find"} \/ (t.pc = "commit" /\ ~ t.gone) => t.rows = {t.a}

\* What a transaction may count on while the rows are grouped as g, ws are the
\* works, n is the next number and rc the works whose members raced with a count.
\* An unlink that counted others leaves them, and one that counted none, or one, still would.
SoundFor(t, g, ws, n, rc) ==
  /\ t.op = "none" => t = NoTx
  /\ t.op = "link" => LinkSound(t, g)
  /\ t.op = "unlink" => UnlinkSound(t, g)
  /\ t.rows \subseteq t.locks
  /\ t.gone => \A r \in Grouped \ t.rows : g[r] # t.drop
  /\ t.made => t.into \notin ws /\ t.into < n /\ \A r \in Grouped : g[r] # t.into
  /\ t.op = "unlink" /\ t.drop \notin rc =>
       /\ t.pc = "commit" /\ ~ t.gone => Two(MembersOf(g, t.drop) \ {t.a})
       /\ t.pc \in {"find", "move"} \/ t.gone => ~ Two(MembersOf(g, t.drop) \ {t.a})

Counted(t) == t.op = "unlink" /\ t.pc \in {"find", "move", "commit"}

\* What two transactions keep from each other.
ApartFor(t, u, rc) ==
  /\ t.locks \cap u.locks = {}
  /\ t.gone => ~ (u.rows # {} /\ u.into = t.drop) /\ ~ (u.gone /\ u.drop = t.drop)
  /\ t.made /\ u.made => t.into # u.into
  /\ Counted(t) /\ Counted(u) /\ t.drop = u.drop => t.drop \in rc

WorksInv ==
  /\ WorksTypeOK
  /\ nextWork # 0 /\ \A w \in works : w # 0 /\ w < nextWork
  /\ WorksAreThere
  /\ \A w \in works \ raced : Two(MembersOf(work, w))
  /\ \A c \in Links : SoundFor(tx[c], work, works, nextWork, raced)
  /\ \A c \in Links : \A d \in Links \ {c} : ApartFor(tx[c], tx[d], raced)

-----------------------------------------------------------------------------
\* Two members are what a count of two means.
LEMMA TwoIs ==
  ASSUME NEW S, IsFiniteSet(S)
  PROVE  Cardinality(S) >= 2 <=> Two(S)
  <1>1. Cardinality(S) \in Nat
    BY FS_CardinalityType
  <1>2. ASSUME NEW r \in S, NEW s \in S, r # s
        PROVE  Cardinality(S) >= 2
    <2>1. IsFiniteSet(S \ {r}) /\ Cardinality(S \ {r}) = Cardinality(S) - 1
      BY FS_RemoveElement
    <2>2. Cardinality((S \ {r}) \ {s}) = Cardinality(S \ {r}) - 1 /\ IsFiniteSet((S \ {r}) \ {s})
      BY <1>2, <2>1, FS_RemoveElement
    <2>3. Cardinality((S \ {r}) \ {s}) \in Nat
      BY <2>2, FS_CardinalityType
    <2> QED
      BY <1>1, <2>1, <2>2, <2>3
  <1>3. ASSUME ~ Two(S)
        PROVE  Cardinality(S) <= 1
    <2>1. CASE S = {}
      <3>1. Cardinality({}) = 0
        BY FS_EmptySet
      <3> QED
        BY <2>1, <3>1
    <2>2. ASSUME NEW r \in S
          PROVE  Cardinality(S) <= 1
      <3>1. S = {r}
        BY <1>3, <2>2 DEF Two
      <3>2. Cardinality({r}) = 1
        BY FS_Singleton
      <3> QED
        BY <3>1, <3>2
    <2> QED
      BY <2>1, <2>2
  <1> QED
    BY <1>1, <1>2, <1>3 DEF Two

LEMMA MembersFinite ==
  ASSUME NEW g, NEW w
  PROVE  IsFiniteSet(MembersOf(g, w)) /\ \A a : IsFiniteSet(MembersOf(g, w) \ {a})
  <1>1. MembersOf(g, w) \subseteq Grouped
    BY DEF MembersOf
  <1> QED
    BY <1>1, FS_Subset, WorksConstants

LEMMA WorksHold == WorksInv => WorksTypeOK /\ WorksAreThere /\ NoLonelyWork
  <1> SUFFICES ASSUME WorksInv, NEW w \in works \ raced
               PROVE  Cardinality({r \in Grouped : work[r] = w}) >= 2
    BY DEF WorksInv, NoLonelyWork
  <1>1. PICK S : S = {r \in Grouped : work[r] = w}
    OBVIOUS
  <1>2. S = MembersOf(work, w)
    BY <1>1 DEF MembersOf
  <1>3. Two(S) /\ IsFiniteSet(S)
    BY <1>2, MembersFinite DEF WorksInv
  <1>4. Cardinality(S) >= 2
    BY <1>3, TwoIs
  <1> QED
    BY <1>1, <1>4

LEMMA TxHas ==
  ASSUME WorksInv, NEW c \in Links
  PROVE  /\ tx[c] \in Transaction /\ SoundFor(tx[c], work, works, nextWork, raced)
         /\ \A d \in Links \ {c} : ApartFor(tx[c], tx[d], raced) /\ ApartFor(tx[d], tx[c], raced)
  BY DEF WorksInv, WorksTypeOK

LEMMA WorkIs ==
  ASSUME WorksInv
  PROVE  /\ work \in [Grouped -> Nat] /\ works \subseteq Nat /\ nextWork \in Nat \ {0}
         /\ tx \in [Links -> Transaction] /\ txs \in 0..MaxTx /\ raced \subseteq Nat
         /\ 0 \notin Grouped /\ \A r \in Grouped : r \in Nat
         /\ \A r \in Grouped : work[r] # 0 => work[r] \in works
         /\ \A r \in Grouped : work[r] < nextWork
  BY WorksConstants DEF WorksInv, WorksTypeOK, WorksAreThere

\* A step of one transaction, to t; what is committed being left alone.
LEMMA Swaps ==
  ASSUME WorksInv, NEW c \in Links, NEW t \in Transaction, tx' = [tx EXCEPT ![c] = t],
         work' = work, works' = works, nextWork' \in Nat, nextWork <= nextWork',
         txs' \in 0..MaxTx, raced' \subseteq Nat, raced \subseteq raced',
         SoundFor(t, work, works, nextWork', raced'),
         \A d \in Links \ {c} : ApartFor(t, tx[d], raced') /\ ApartFor(tx[d], t, raced')
  PROVE  WorksInv'
  <1>0. tx \in [Links -> Transaction] /\ nextWork \in Nat \ {0}
    BY WorkIs
  <1>1. tx' \in [Links -> Transaction] /\ tx'[c] = t /\ \A d \in Links \ {c} : tx'[d] = tx[d]
    BY <1>0
  <1>2. WorksTypeOK'
    BY <1>1 DEF WorksInv, WorksTypeOK, Transaction
  <1>3. ASSUME NEW d \in Links
        PROVE  SoundFor(tx'[d], work, works, nextWork', raced')
    <2>1. CASE d = c
      BY <1>1, <2>1
    <2>2. CASE d # c
      <3>1. PICK u \in Transaction : u = tx[d] /\ SoundFor(u, work, works, nextWork, raced)
        BY TxHas
      <3>2. u.made => u.into < nextWork'
        BY <1>0, <3>1 DEF SoundFor, Transaction
      <3>3. SoundFor(u, work, works, nextWork', raced')
        BY <3>1, <3>2 DEF SoundFor
      <3> QED
        BY <1>1, <2>2, <3>1, <3>3
    <2> QED
      BY <2>1, <2>2
  <1>4. ASSUME NEW d \in Links, NEW e \in Links \ {d}
        PROVE  ApartFor(tx'[d], tx'[e], raced')
    <2>1. CASE d = c
      BY <1>1, <2>1
    <2>2. CASE e = c
      BY <1>1, <2>2
    <2>3. CASE d # c /\ e # c
      <3>1. ApartFor(tx[d], tx[e], raced)
        BY TxHas
      <3>2. ApartFor(tx[d], tx[e], raced')
        BY <3>1 DEF ApartFor
      <3> QED
        BY <1>1, <2>3, <3>2
    <2> QED
      BY <2>1, <2>2, <2>3
  <1>a. \A d \in Links : SoundFor(tx'[d], work', works', nextWork', raced')
    BY <1>3
  <1>5. (\A d \in Links : SoundFor(tx[d], work, works, nextWork, raced))'
    BY <1>a, Zenon DEF SoundFor, LinkSound, UnlinkSound, MembersOf, Two
  <1>6. (\A d \in Links : \A e \in Links \ {d} : ApartFor(tx[d], tx[e], raced))'
    BY <1>4 DEF ApartFor, Counted
  <1>7. (nextWork # 0 /\ \A w \in works : w # 0 /\ w < nextWork)'
    BY <1>0 DEF WorksInv, WorksTypeOK
  <1>8. WorksAreThere' /\ (\A w \in works \ raced : Two(MembersOf(work, w)))'
    BY DEF WorksInv, WorksAreThere, MembersOf
  <1> QED
    BY <1>2, <1>5, <1>6, <1>7, <1>8 DEF WorksInv

LEMMA OnlyStep ==
  ASSUME WorksInv, NEW c \in Links, NEW t \in Transaction, Only(c, t),
         SoundFor(t, work, works, nextWork, raced),
         \A d \in Links \ {c} : ApartFor(t, tx[d], raced) /\ ApartFor(tx[d], t, raced)
  PROVE  WorksInv'
  <1>1. /\ tx' = [tx EXCEPT ![c] = t] /\ work' = work /\ works' = works /\ nextWork' = nextWork
        /\ txs' = txs /\ raced' = raced
    BY DEF Only, Becomes
  <1>2. /\ nextWork' \in Nat /\ nextWork <= nextWork' /\ txs' \in 0..MaxTx /\ raced' \subseteq Nat
        /\ raced \subseteq raced'
    BY <1>1, WorkIs
  <1> QED
    BY <1>1, <1>2, Swaps

LEMMA NoTxIs ==
  /\ NoTx \in Transaction
  /\ NoTx.op = "none" /\ NoTx.pc = "idle" /\ NoTx.locks = {} /\ NoTx.rows = {} /\ NoTx.into = 0
  /\ NoTx.drop = 0 /\ NoTx.made = FALSE /\ NoTx.gone = FALSE
  BY DEF NoTx, Transaction

LEMMA NoTxSound ==
  ASSUME NEW g, NEW ws, NEW n, NEW rc
  PROVE  SoundFor(NoTx, g, ws, n, rc) /\ \A u : ApartFor(NoTx, u, rc) /\ ApartFor(u, NoTx, rc)
  BY NoTxIs DEF SoundFor, ApartFor, Counted

LEMMA EndsStep ==
  ASSUME WorksInv, NEW c \in Links, Only(c, NoTx)
  PROVE  WorksInv'
  <1>1. NoTx \in Transaction
    BY NoTxIs
  <1>2. SoundFor(NoTx, work, works, nextWork, raced)
    BY NoTxSound
  <1>3. \A d \in Links \ {c} : ApartFor(NoTx, tx[d], raced) /\ ApartFor(tx[d], NoTx, raced)
    BY NoTxSound
  <1> QED
    BY <1>1, <1>2, <1>3, OnlyStep

\* A step that takes no lock and writes nothing.
LEMMA StaysApart ==
  ASSUME WorksInv, NEW c \in Links, NEW x, x = tx[c], NEW k, k.locks = x.locks, k.gone = x.gone, k.gone => k.drop = x.drop,
         k.made => x.made /\ k.into = x.into, k.rows # {} => x.rows # {} /\ k.into = x.into,
         Counted(k) => Counted(x) /\ k.drop = x.drop
  PROVE  \A d \in Links \ {c} : ApartFor(k, tx[d], raced) /\ ApartFor(tx[d], k, raced)
  <1> SUFFICES ASSUME NEW d \in Links \ {c}
               PROVE  ApartFor(k, tx[d], raced) /\ ApartFor(tx[d], k, raced)
    OBVIOUS
  <1>1. ApartFor(x, tx[d], raced) /\ ApartFor(tx[d], x, raced)
    BY TxHas
  <1> QED
    BY <1>1 DEF ApartFor

-----------------------------------------------------------------------------
LEMMA BeginsStep ==
  ASSUME WorksInv, NEW c \in Links, NEW t \in Transaction, BeginTx(c, t),
         SoundFor(t, work, works, nextWork, raced), t.locks = {}, t.rows = {}, ~ t.made, ~ t.gone, ~ Counted(t)
  PROVE  WorksInv'
  <1>1. /\ tx' = [tx EXCEPT ![c] = t] /\ work' = work /\ works' = works /\ nextWork' = nextWork
        /\ txs' = txs + 1 /\ txs < MaxTx /\ raced' = raced
    BY DEF BeginTx, Becomes
  <1>2. /\ nextWork' \in Nat /\ nextWork <= nextWork' /\ txs' \in 0..MaxTx /\ raced' \subseteq Nat
        /\ raced \subseteq raced'
    BY <1>1, WorkIs, WorksConstants
  <1>3. SoundFor(t, work, works, nextWork', raced')
    BY <1>1
  <1>4. \A d \in Links \ {c} : ApartFor(t, tx[d], raced') /\ ApartFor(tx[d], t, raced')
    BY DEF ApartFor
  <1> QED
    BY <1>1, <1>2, <1>3, <1>4, Swaps

LEMMA LinkReleasesStep ==
  ASSUME WorksInv, NEW c \in Links, NEW a \in Grouped, NEW b \in Grouped, LinkReleases(c, a, b)
  PROVE  WorksInv'
  <1>1. PICK t : t = [NoTx EXCEPT !.op = "link", !.pc = "lockLo", !.a = a, !.b = b]
    OBVIOUS
  <1>2. t \in Transaction
    BY <1>1 DEF NoTx, Transaction
  <1>3. /\ t.op = "link" /\ t.pc = "lockLo" /\ t.a = a /\ t.b = b /\ t.locks = {} /\ t.rows = {}
        /\ t.drop = 0 /\ t.made = FALSE /\ t.gone = FALSE
    BY <1>1 DEF NoTx
  <1>4. BeginTx(c, t) /\ a # b
    BY <1>1 DEF LinkReleases
  <1>5. LinkSound(t, work)
    BY <1>3, <1>4 DEF LinkSound
  <1>6. SoundFor(t, work, works, nextWork, raced) /\ ~ Counted(t)
    BY <1>3, <1>5 DEF SoundFor, Counted
  <1> QED
    BY <1>2, <1>3, <1>4, <1>6, BeginsStep

LEMMA UnlinkReleaseStep ==
  ASSUME WorksInv, NEW c \in Links, NEW a \in Grouped, UnlinkRelease(c, a)
  PROVE  WorksInv'
  <1>1. PICK t : t = [NoTx EXCEPT !.op = "unlink", !.pc = "lock", !.a = a]
    OBVIOUS
  <1>2. t \in Transaction
    BY <1>1 DEF NoTx, Transaction
  <1>3. /\ t.op = "unlink" /\ t.pc = "lock" /\ t.a = a /\ t.locks = {} /\ t.rows = {} /\ t.into = 0
        /\ t.made = FALSE /\ t.gone = FALSE
    BY <1>1 DEF NoTx
  <1>4. BeginTx(c, t)
    BY <1>1 DEF UnlinkRelease
  <1>5. UnlinkSound(t, work)
    BY <1>3 DEF UnlinkSound
  <1>6. SoundFor(t, work, works, nextWork, raced) /\ ~ Counted(t)
    BY <1>3, <1>5 DEF SoundFor, Counted
  <1> QED
    BY <1>2, <1>3, <1>4, <1>6, BeginsStep

\* A row is locked and its work read.
Taken(x, r, next) ==
  [x EXCEPT !.pc = next, !.locks = @ \cup {r}, !.wa = IF r = x.a THEN work[r] ELSE @,
            !.wb = IF r = x.b THEN work[r] ELSE @]

IsTaken(c, x, r, next, k) ==
  /\ k \in Transaction
  /\ k.op = x.op /\ k.pc = next /\ k.a = x.a /\ k.b = x.b /\ k.locks = x.locks \cup {r}
  /\ k.rows = {} /\ k.into = x.into /\ k.drop = x.drop /\ ~ k.made /\ ~ k.gone
  /\ k.wa = (IF r = x.a THEN work[r] ELSE x.wa) /\ k.wb = (IF r = x.b THEN work[r] ELSE x.wb)
  /\ \A d \in Links \ {c} : ApartFor(k, tx[d], raced) /\ ApartFor(tx[d], k, raced)

LEMMA TakenIs ==
  ASSUME WorksInv, NEW c \in Links, NEW x \in Transaction, x = tx[c], NEW r \in Grouped, NEW next, RowFree(c, r),
         next \in {"lockHi", "choose", "leave"}, x.rows = {}, ~ x.made, ~ x.gone
  PROVE  IsTaken(c, x, r, next, Taken(x, r, next))
  <1>0. PICK k : k = Taken(x, r, next)
    OBVIOUS
  <1>1. work[r] \in Nat
    BY WorkIs
  <1>2. PICK wa \in Nat, wb \in Nat :
          wa = (IF r = x.a THEN work[r] ELSE x.wa) /\ wb = (IF r = x.b THEN work[r] ELSE x.wb)
    BY <1>1 DEF Transaction
  <1>3. k = [x EXCEPT !.pc = next, !.locks = x.locks \cup {r}, !.wa = wa, !.wb = wb]
    BY <1>0, <1>2 DEF Taken
  <1>5. x.locks \cup {r} \in SUBSET Grouped
    BY DEF Transaction
  <1>6. k \in Transaction
    BY <1>3, <1>5 DEF Transaction
  <1>7. /\ k.op = x.op /\ k.pc = next /\ k.a = x.a /\ k.b = x.b /\ k.locks = x.locks \cup {r}
        /\ k.rows = {} /\ k.into = x.into /\ k.drop = x.drop /\ ~ k.made /\ ~ k.gone
        /\ k.wa = wa /\ k.wb = wb
    BY <1>3 DEF Transaction
  <1>8. ASSUME NEW d \in Links \ {c}
        PROVE  ApartFor(k, tx[d], raced) /\ ApartFor(tx[d], k, raced)
    <2>1. ApartFor(x, tx[d], raced) /\ ApartFor(tx[d], x, raced)
      BY TxHas
    <2>2. r \notin tx[d].locks
      BY DEF RowFree
    <2>3. ~ Counted(k)
      BY <1>7 DEF Counted
    <2> QED
      BY <1>7, <2>1, <2>2, <2>3 DEF ApartFor
  <1> QED
    BY <1>0, <1>2, <1>6, <1>7, <1>8 DEF IsTaken

\* Which transaction is where.
LEMMA AtIs ==
  ASSUME WorksInv, NEW c \in Links
  PROVE  \E x \in Transaction :
           /\ x = tx[c] /\ SoundFor(x, work, works, nextWork, raced)
           /\ \A d \in Links \ {c} : ApartFor(x, tx[d], raced) /\ ApartFor(tx[d], x, raced)
           /\ x.pc \in {"lockLo", "lockHi", "choose", "set"} => x.op = "link" /\ LinkSound(x, work)
           /\ x.pc \in {"lock", "leave", "count"} => x.op = "unlink" /\ UnlinkSound(x, work)
           /\ x.pc \in {"find", "move", "commit"} => \/ x.op = "link" /\ LinkSound(x, work)
                                                     \/ x.op = "unlink" /\ UnlinkSound(x, work)
  <1>1. PICK x \in Transaction : x = tx[c] /\ SoundFor(x, work, works, nextWork, raced)
    BY TxHas
  <1>2. x.op \in {"none", "link", "unlink"}
    BY DEF Transaction
  <1>3. x.op = "none" => x.pc = "idle"
    BY <1>1, NoTxIs DEF SoundFor
  <1>4. x.op = "link" => LinkSound(x, work) /\ x.pc \notin {"lock", "leave", "count"}
    BY <1>1 DEF SoundFor, LinkSound
  <1>5. x.op = "unlink" => UnlinkSound(x, work) /\ x.pc \notin {"lockLo", "lockHi", "choose", "set"}
    BY <1>1 DEF SoundFor, UnlinkSound
  <1>6. \A d \in Links \ {c} : ApartFor(x, tx[d], raced) /\ ApartFor(tx[d], x, raced)
    BY <1>1, TxHas
  <1> QED
    BY <1>1, <1>2, <1>3, <1>4, <1>5, <1>6

LEMMA LockStep ==
  ASSUME WorksInv, NEW c \in Links, LockLo(c) \/ LockHi(c)
  PROVE  WorksInv'
  <1>1. PICK x \in Transaction :
          /\ x = tx[c] /\ SoundFor(x, work, works, nextWork, raced)
          /\ x.pc \in {"lockLo", "lockHi", "choose", "set"} => x.op = "link" /\ LinkSound(x, work)
    BY AtIs
  <1>2. x.pc \in {"lockLo", "lockHi"} /\ x.op = "link" /\ LinkSound(x, work)
    BY <1>1 DEF LockLo, LockHi, LockRow, AtTx
  <1>3. PICK r, next :
          /\ RowFree(c, r) /\ Only(c, Taken(x, r, next))
          /\ \/ x.pc = "lockLo" /\ next = "lockHi" /\ r = Lower(x.a, x.b)
             \/ x.pc = "lockHi" /\ next = "choose" /\ r = Higher(x.a, x.b)
    BY <1>1 DEF LockLo, LockHi, LockRow, AtTx, Taken
  <1>4. /\ x.a \in Grouped /\ x.b \in Grouped /\ x.a # x.b /\ r \in Grouped
        /\ {Lower(x.a, x.b), Higher(x.a, x.b)} = {x.a, x.b}
    BY <1>2, <1>3 DEF LinkSound, Lower, Higher
  <1>5. x.rows = {} /\ ~ x.made /\ ~ x.gone /\ x.drop = 0
    BY <1>2 DEF LinkSound
  <1>6. next \in {"lockHi", "choose", "leave"}
    BY <1>3
  <1>k. PICK k : k = Taken(x, r, next)
    OBVIOUS
  <1>o. Only(c, k)
    BY <1>3, <1>k
  <1>t. IsTaken(c, x, r, next, k)
    BY <1>1, <1>3, <1>4, <1>5, <1>6, <1>k, TakenIs
  <1>7. /\ k \in Transaction
        /\ k.op = x.op /\ k.pc = next /\ k.a = x.a /\ k.b = x.b /\ k.locks = x.locks \cup {r}
        /\ k.rows = {} /\ k.into = x.into /\ k.drop = x.drop /\ ~ k.made /\ ~ k.gone
        /\ k.wa = (IF r = x.a THEN work[r] ELSE x.wa) /\ k.wb = (IF r = x.b THEN work[r] ELSE x.wb)
        /\ \A d \in Links \ {c} : ApartFor(k, tx[d], raced) /\ ApartFor(tx[d], k, raced)
    BY <1>t DEF IsTaken
  <1>8. /\ k.a \in k.locks => k.wa = work[k.a]
        /\ k.b \in k.locks => k.wb = work[k.b]
    BY <1>2, <1>7 DEF LinkSound
  <1>h. Lower(k.a, k.b) = Lower(x.a, x.b)
    BY <1>7
  <1>9. /\ next = "lockHi" => Lower(k.a, k.b) \in k.locks
        /\ next = "choose" => k.a \in k.locks /\ k.b \in k.locks
    <2>1. next = "lockHi" => Lower(k.a, k.b) \in k.locks
      BY <1>3, <1>7, <1>h
    <2>2. ASSUME next = "choose"
          PROVE  k.a \in k.locks /\ k.b \in k.locks
      <3>1. Lower(x.a, x.b) \in x.locks /\ r = Higher(x.a, x.b)
        BY <1>2, <1>3, <2>2 DEF LinkSound
      <3> QED
        BY <1>4, <1>7, <3>1
    <2> QED
      BY <2>1, <2>2
  <1>10. LinkSound(k, work)
    BY <1>3, <1>4, <1>5, <1>7, <1>8, <1>9 DEF LinkSound
  <1>11. SoundFor(k, work, works, nextWork, raced)
    BY <1>2, <1>7, <1>10 DEF SoundFor
  <1> QED
    BY <1>o, <1>7, <1>11, OnlyStep

LEMMA LockOneStep ==
  ASSUME WorksInv, NEW c \in Links, LockOne(c)
  PROVE  WorksInv'
  <1>1. PICK x \in Transaction :
          /\ x = tx[c] /\ SoundFor(x, work, works, nextWork, raced)
          /\ x.pc \in {"lock", "leave", "count"} => x.op = "unlink" /\ UnlinkSound(x, work)
    BY AtIs
  <1>2. x.pc = "lock" /\ x.op = "unlink" /\ UnlinkSound(x, work)
    BY <1>1 DEF LockOne, LockRow, AtTx
  <1>3. PICK r, next : r \in Grouped /\ RowFree(c, r) /\ Only(c, Taken(x, r, next)) /\ r = x.a /\ next = "leave"
    BY <1>1, <1>2 DEF LockOne, LockRow, Taken, UnlinkSound
  <1>4. x.rows = {} /\ ~ x.made /\ ~ x.gone /\ x.into = 0
    BY <1>2 DEF UnlinkSound
  <1>5. next \in {"lockHi", "choose", "leave"}
    BY <1>3
  <1>k. PICK k : k = Taken(x, r, next)
    OBVIOUS
  <1>o. Only(c, k)
    BY <1>3, <1>k
  <1>t. IsTaken(c, x, r, next, k)
    BY <1>1, <1>3, <1>4, <1>5, <1>k, TakenIs
  <1>6. /\ k \in Transaction
        /\ k.op = x.op /\ k.pc = next /\ k.a = x.a /\ k.b = x.b /\ k.locks = x.locks \cup {r}
        /\ k.rows = {} /\ k.into = x.into /\ k.drop = x.drop /\ ~ k.made /\ ~ k.gone
        /\ k.wa = (IF r = x.a THEN work[r] ELSE x.wa) /\ k.wb = (IF r = x.b THEN work[r] ELSE x.wb)
        /\ \A d \in Links \ {c} : ApartFor(k, tx[d], raced) /\ ApartFor(tx[d], k, raced)
    BY <1>t DEF IsTaken
  <1>7. UnlinkSound(k, work)
    BY <1>2, <1>3, <1>4, <1>6 DEF UnlinkSound
  <1>8. SoundFor(k, work, works, nextWork, raced)
    BY <1>2, <1>3, <1>6, <1>7 DEF SoundFor
  <1> QED
    BY <1>o, <1>6, <1>8, OnlyStep

-----------------------------------------------------------------------------
LEMMA CreateStep ==
  ASSUME WorksInv, NEW c \in Links, Create(c)
  PROVE  WorksInv'
  <1>1. PICK x \in Transaction :
          /\ x = tx[c] /\ SoundFor(x, work, works, nextWork, raced)
          /\ \A d \in Links \ {c} : ApartFor(x, tx[d], raced) /\ ApartFor(tx[d], x, raced)
          /\ x.pc \in {"lockLo", "lockHi", "choose", "set"} => x.op = "link" /\ LinkSound(x, work)
    BY AtIs
  <1>2. x.pc = "choose" /\ x.op = "link" /\ LinkSound(x, work) /\ x.wa = 0 /\ x.wb = 0
    BY <1>1 DEF Create, AtTx
  <1>3. /\ nextWork \in Nat \ {0} /\ txs \in 0..MaxTx /\ raced \subseteq Nat
        /\ \A r \in Grouped : work[r] \in Nat /\ work[r] < nextWork
        /\ works \subseteq Nat /\ nextWork \notin works
    BY WorkIs DEF WorksInv
  <1>4. PICK n \in Nat : n = nextWork
    BY <1>3
  <1>5. PICK k : k = [x EXCEPT !.pc = "set", !.into = n, !.made = TRUE]
    OBVIOUS
  <1>6. /\ tx' = [tx EXCEPT ![c] = k] /\ work' = work /\ works' = works /\ nextWork' = n + 1
        /\ txs' = txs /\ raced' = raced
    BY <1>1, <1>4, <1>5 DEF Create, Becomes
  <1>7. k \in Transaction
    BY <1>5 DEF Transaction
  <1>8. /\ k.op = x.op /\ k.pc = "set" /\ k.a = x.a /\ k.b = x.b /\ k.wa = x.wa /\ k.wb = x.wb
        /\ k.locks = x.locks /\ k.rows = x.rows /\ k.into = n /\ k.made = TRUE /\ k.drop = x.drop /\ k.gone = x.gone
    BY <1>5 DEF Transaction
  <1>9. x.drop = 0 /\ x.rows = {} /\ ~ x.gone
    BY <1>2 DEF LinkSound
  <1>10. LinkSound(k, work)
    BY <1>2, <1>3, <1>4, <1>8, <1>9 DEF LinkSound
  <1>11. k.into \notin works /\ k.into < nextWork' /\ \A r \in Grouped : work[r] # k.into
    BY <1>3, <1>4, <1>6, <1>8
  <1>12. SoundFor(k, work, works, nextWork', raced')
    BY <1>2, <1>8, <1>9, <1>10, <1>11 DEF SoundFor
  <1>13. ASSUME NEW d \in Links \ {c}
         PROVE  ApartFor(k, tx[d], raced') /\ ApartFor(tx[d], k, raced')
    <2>1. PICK u \in Transaction : u = tx[d] /\ SoundFor(u, work, works, nextWork, raced)
      BY TxHas
    <2>2. ApartFor(x, u, raced) /\ ApartFor(u, x, raced)
      BY <1>1, <2>1
    <2>3. u.made => u.into # n
      BY <1>4, <2>1 DEF SoundFor, Transaction
    <2>4. ApartFor(k, u, raced) /\ ApartFor(u, k, raced)
      BY <1>2, <1>8, <1>9, <2>2, <2>3 DEF ApartFor, Counted
    <2> QED
      BY <1>6, <2>1, <2>4
  <1>14. nextWork' \in Nat /\ nextWork <= nextWork' /\ txs' \in 0..MaxTx /\ raced' \subseteq Nat /\ raced \subseteq raced'
    BY <1>3, <1>4, <1>6
  <1> QED
    BY <1>6, <1>7, <1>12, <1>13, <1>14, Swaps

\* A work is chosen to join, or one to absorb.
LEMMA Chooses ==
  ASSUME WorksInv, NEW c \in Links, NEW x \in Transaction, x = tx[c], x.pc = "choose", x.op = "link",
         LinkSound(x, work), SoundFor(x, work, works, nextWork, raced), NEW k \in Transaction, Only(c, k),
         {x.wa, x.wb} = {k.into, k.drop}, k.into # 0, k.into # k.drop,
         k.pc = (IF k.drop = 0 THEN "set" ELSE "find"),
         k.op = x.op, k.a = x.a, k.b = x.b, k.wa = x.wa, k.wb = x.wb, k.locks = x.locks, k.rows = x.rows,
         k.made = x.made, k.gone = x.gone
  PROVE  WorksInv'
  <1>1. x.rows = {} /\ ~ x.gone /\ ~ x.made
    BY DEF LinkSound
  <1>2. LinkSound(k, work)
    BY <1>1 DEF LinkSound
  <1>3. SoundFor(k, work, works, nextWork, raced)
    BY <1>1, <1>2 DEF SoundFor
  <1>4. ~ Counted(k)
    BY DEF Counted
  <1>5. \A d \in Links \ {c} : ApartFor(k, tx[d], raced) /\ ApartFor(tx[d], k, raced)
    BY <1>1, <1>4, StaysApart
  <1> QED
    BY <1>3, <1>5, OnlyStep

LEMMA JoinStep ==
  ASSUME WorksInv, NEW c \in Links, Join(c)
  PROVE  WorksInv'
  <1>1. PICK x \in Transaction :
          /\ x = tx[c] /\ SoundFor(x, work, works, nextWork, raced)
          /\ x.pc \in {"lockLo", "lockHi", "choose", "set"} => x.op = "link" /\ LinkSound(x, work)
    BY AtIs
  <1>2. /\ x.pc = "choose" /\ x.op = "link" /\ LinkSound(x, work)
        /\ x.wa # x.wb /\ (x.wa = 0 \/ x.wb = 0)
    BY <1>1 DEF Join, AtTx
  <1>3. x.drop = 0
    BY <1>2 DEF LinkSound
  <1>4. PICK into \in Nat : into = IF x.wa = 0 THEN x.wb ELSE x.wa
    BY DEF Transaction
  <1>5. PICK k : k = [x EXCEPT !.pc = "set", !.into = into]
    OBVIOUS
  <1>6. Only(c, k)
    BY <1>1, <1>4, <1>5 DEF Join
  <1>7. k \in Transaction
    BY <1>5 DEF Transaction
  <1>8. /\ k.op = x.op /\ k.pc = "set" /\ k.a = x.a /\ k.b = x.b /\ k.wa = x.wa /\ k.wb = x.wb
        /\ k.locks = x.locks /\ k.rows = x.rows /\ k.into = into /\ k.made = x.made /\ k.drop = 0 /\ k.gone = x.gone
    BY <1>3, <1>5 DEF Transaction
  <1>9. {x.wa, x.wb} = {k.into, k.drop} /\ k.into # 0 /\ k.into # k.drop
    BY <1>2, <1>4, <1>8
  <1>10. k.pc = (IF k.drop = 0 THEN "set" ELSE "find")
    BY <1>8
  <1> QED
    BY <1>1, <1>2, <1>6, <1>7, <1>8, <1>9, <1>10, Chooses

LEMMA SizeStep ==
  ASSUME WorksInv, NEW c \in Links, Size(c)
  PROVE  WorksInv'
  <1>1. PICK x \in Transaction :
          /\ x = tx[c] /\ SoundFor(x, work, works, nextWork, raced)
          /\ x.pc \in {"lockLo", "lockHi", "choose", "set"} => x.op = "link" /\ LinkSound(x, work)
    BY AtIs
  <1>2. /\ x.pc = "choose" /\ x.op = "link" /\ LinkSound(x, work)
        /\ x.wa # x.wb /\ x.wa # 0 /\ x.wb # 0 /\ x.wa \in Nat /\ x.wb \in Nat
    BY <1>1 DEF Size, AtTx, Transaction
  <1>3. \/ Only(c, [x EXCEPT !.pc = "find", !.into = x.wb, !.drop = x.wa])
        \/ Only(c, [x EXCEPT !.pc = "find", !.into = x.wa, !.drop = x.wb])
    BY <1>1 DEF Size
  <1>4. PICK into \in Nat, drop \in Nat :
          /\ Only(c, [x EXCEPT !.pc = "find", !.into = into, !.drop = drop])
          /\ {x.wa, x.wb} = {into, drop} /\ into # drop /\ into # 0 /\ drop # 0
    BY <1>2, <1>3
  <1>5. PICK k : k = [x EXCEPT !.pc = "find", !.into = into, !.drop = drop]
    OBVIOUS
  <1>6. Only(c, k)
    BY <1>4, <1>5
  <1>7. k \in Transaction
    BY <1>5 DEF Transaction
  <1>8. /\ k.op = x.op /\ k.pc = "find" /\ k.a = x.a /\ k.b = x.b /\ k.wa = x.wa /\ k.wb = x.wb
        /\ k.locks = x.locks /\ k.rows = x.rows /\ k.into = into /\ k.made = x.made /\ k.drop = drop /\ k.gone = x.gone
    BY <1>5 DEF Transaction
  <1>9. {x.wa, x.wb} = {k.into, k.drop} /\ k.into # 0 /\ k.into # k.drop
    BY <1>4, <1>8
  <1>10. k.pc = (IF k.drop = 0 THEN "set" ELSE "find")
    BY <1>4, <1>8
  <1> QED
    BY <1>1, <1>2, <1>6, <1>7, <1>8, <1>9, <1>10, Chooses

-----------------------------------------------------------------------------
\* No transaction writes the number of a work another one deletes.
LEMMA IntoIsSafe ==
  ASSUME WorksInv, NEW c \in Links, NEW d \in Links \ {c}, NEW x, x = tx[c], NEW u, u = tx[d], u.gone,
         \/ x.op = "link" /\ x.pc \in {"find", "move", "set", "commit"}
         \/ x.into = 0
  PROVE  x.into # u.drop
  <1>1. /\ x \in Transaction /\ SoundFor(x, work, works, nextWork, raced)
        /\ u \in Transaction /\ SoundFor(u, work, works, nextWork, raced) /\ ApartFor(x, u, raced)
    BY TxHas
  <1>2. u.op \in {"link", "unlink"}
    <2>1. u.op \in {"none", "link", "unlink"}
      BY <1>1 DEF Transaction
    <2> QED
      BY <1>1, <2>1, NoTxIs DEF SoundFor
  <1>3. u.drop # 0 /\ \E r \in Grouped : work[r] = u.drop
    <2>1. CASE u.op = "link"
      <3>1. LinkSound(u, work)
        BY <1>1, <2>1 DEF SoundFor
      <3>2. /\ u.drop # 0 /\ u.pc \in {"set", "commit"} /\ ~ u.made
            /\ {u.wa, u.wb} = {u.into, u.drop} /\ u.wa = work[u.a] /\ u.wb = work[u.b]
            /\ u.a \in Grouped /\ u.b \in Grouped
        BY <3>1 DEF LinkSound
      <3> QED
        BY <3>2
    <2>2. CASE u.op = "unlink"
      <3>1. UnlinkSound(u, work)
        BY <1>1, <2>2 DEF SoundFor
      <3>2. u.drop # 0 /\ u.drop = work[u.a] /\ u.a \in Grouped
        BY <3>1 DEF UnlinkSound
      <3> QED
        BY <3>2
    <2> QED
      BY <1>2, <2>1, <2>2
  <1>4. CASE x.into = 0
    BY <1>3, <1>4
  <1>5. CASE x.op = "link" /\ x.pc \in {"find", "move", "set", "commit"}
    <2>1. LinkSound(x, work)
      BY <1>1, <1>5 DEF SoundFor
    <2>2. CASE x.made
      BY <1>1, <1>3, <2>2 DEF SoundFor
    <2>3. CASE ~ x.made
      <3>1. /\ x.a \in Grouped /\ x.b \in Grouped /\ x.a \in x.locks /\ x.b \in x.locks
            /\ x.into = work[x.a] \/ x.into = work[x.b]
        BY <1>5, <2>1, <2>3 DEF LinkSound
      <3>2. x.a \notin u.rows /\ x.b \notin u.rows
        BY <1>1, <3>1 DEF ApartFor, SoundFor
      <3> QED
        BY <1>1, <3>1, <3>2 DEF SoundFor
    <2> QED
      BY <2>2, <2>3
  <1> QED
    BY <1>4, <1>5

LEMMA FindRowsStep ==
  ASSUME WorksInv, NEW c \in Links, FindRows(c)
  PROVE  WorksInv'
  <1>1. PICK x \in Transaction :
          /\ x = tx[c] /\ SoundFor(x, work, works, nextWork, raced)
          /\ x.pc \in {"find", "move", "commit"} => \/ x.op = "link" /\ LinkSound(x, work)
                                                    \/ x.op = "unlink" /\ UnlinkSound(x, work)
    BY AtIs
  <1>2. x.pc = "find"
    BY <1>1 DEF FindRows, AtTx
  <1>3. PICK targets \in SUBSET Grouped : targets = Seen(c, x.drop)
    BY DEF Seen
  <1>4. PICK k : k = [x EXCEPT !.pc = "move", !.targets = targets]
    OBVIOUS
  <1>5. Only(c, k)
    BY <1>1, <1>3, <1>4 DEF FindRows
  <1>6. k \in Transaction
    BY <1>4 DEF Transaction
  <1>7. /\ k.op = x.op /\ k.pc = "move" /\ k.a = x.a /\ k.b = x.b /\ k.wa = x.wa /\ k.wb = x.wb
        /\ k.locks = x.locks /\ k.rows = x.rows /\ k.into = x.into /\ k.made = x.made /\ k.drop = x.drop /\ k.gone = x.gone
    BY <1>4 DEF Transaction
  <1>8. x.op = "link" => LinkSound(k, work)
    BY <1>1, <1>2, <1>7 DEF LinkSound, UnlinkSound
  <1>9. x.op = "unlink" => UnlinkSound(k, work)
    BY <1>1, <1>2, <1>7 DEF LinkSound, UnlinkSound
  <1>10. SoundFor(k, work, works, nextWork, raced)
    BY <1>1, <1>2, <1>7, <1>8, <1>9 DEF SoundFor
  <1>11. Counted(k) => Counted(x)
    BY <1>2, <1>7 DEF Counted
  <1>12. \A d \in Links \ {c} : ApartFor(k, tx[d], raced) /\ ApartFor(tx[d], k, raced)
    BY <1>1, <1>7, <1>11, StaysApart
  <1> QED
    BY <1>5, <1>6, <1>10, <1>12, OnlyStep

LEMMA MoveRowStep ==
  ASSUME WorksInv, NEW c \in Links, NEW r \in Grouped, MoveRow(c, r)
  PROVE  WorksInv'
  <1>1. PICK x \in Transaction :
          /\ x = tx[c] /\ SoundFor(x, work, works, nextWork, raced)
          /\ \A d \in Links \ {c} : ApartFor(x, tx[d], raced) /\ ApartFor(tx[d], x, raced)
          /\ x.pc \in {"find", "move", "commit"} => \/ x.op = "link" /\ LinkSound(x, work)
                                                    \/ x.op = "unlink" /\ UnlinkSound(x, work)
    BY AtIs
  <1>2. x.pc = "move" /\ RowFree(c, r)
    BY <1>1 DEF MoveRow, AtTx
  <1>3. x.targets \ {r} \in SUBSET Grouped /\ x.locks \cup {r} \in SUBSET Grouped /\ x.rows \cup {r} \in SUBSET Grouped
    BY DEF Transaction
  <1>4. CASE work[r] # x.drop
    <2>1. PICK k : k = [x EXCEPT !.targets = x.targets \ {r}]
      OBVIOUS
    <2>2. Only(c, k)
      BY <1>1, <1>4, <2>1 DEF MoveRow
    <2>3. k \in Transaction
      BY <1>3, <2>1 DEF Transaction
    <2>4. /\ k.op = x.op /\ k.pc = x.pc /\ k.a = x.a /\ k.b = x.b /\ k.wa = x.wa /\ k.wb = x.wb
          /\ k.locks = x.locks /\ k.rows = x.rows /\ k.into = x.into /\ k.made = x.made /\ k.drop = x.drop /\ k.gone = x.gone
      BY <2>1 DEF Transaction
    <2>5. x.op = "link" => LinkSound(k, work)
      BY <1>1, <1>2, <2>4 DEF LinkSound, UnlinkSound
    <2>6. x.op = "unlink" => UnlinkSound(k, work)
      BY <1>1, <1>2, <2>4 DEF LinkSound, UnlinkSound
    <2>7. SoundFor(k, work, works, nextWork, raced)
      BY <1>1, <1>2, <2>4, <2>5, <2>6 DEF SoundFor
    <2>8. Counted(k) => Counted(x)
      BY <2>4 DEF Counted
    <2>9. \A d \in Links \ {c} : ApartFor(k, tx[d], raced) /\ ApartFor(tx[d], k, raced)
      BY <1>1, <2>4, <2>8, StaysApart
    <2> QED
      BY <2>2, <2>3, <2>7, <2>9, OnlyStep
  <1>5. CASE work[r] = x.drop
    <2>1. PICK k : k = [x EXCEPT !.targets = x.targets \ {r}, !.locks = x.locks \cup {r}, !.rows = x.rows \cup {r}]
      OBVIOUS
    <2>2. Only(c, k)
      BY <1>1, <1>5, <2>1 DEF MoveRow
    <2>3. k \in Transaction
      BY <1>3, <2>1 DEF Transaction
    <2>4. /\ k.op = x.op /\ k.pc = x.pc /\ k.a = x.a /\ k.b = x.b /\ k.wa = x.wa /\ k.wb = x.wb
          /\ k.locks = x.locks \cup {r} /\ k.rows = x.rows \cup {r} /\ k.into = x.into /\ k.made = x.made
          /\ k.drop = x.drop /\ k.gone = x.gone
      BY <2>1 DEF Transaction
    <2>5. ASSUME x.op = "link"
          PROVE  LinkSound(k, work)
      <3>1. LinkSound(x, work)
        BY <1>1, <1>2, <2>5
      <3> QED
        BY <1>2, <1>5, <2>4, <3>1 DEF LinkSound
    <2>6. ASSUME x.op = "unlink"
          PROVE  UnlinkSound(k, work)
      <3>1. UnlinkSound(x, work)
        BY <1>1, <1>2, <2>6
      <3> QED
        BY <1>2, <1>5, <2>4, <3>1 DEF UnlinkSound
    <2>7. ~ x.gone /\ (x.op = "unlink" => x.into = 0) /\ x.op \in {"link", "unlink"}
      BY <1>1, <1>2 DEF LinkSound, UnlinkSound
    <2>8. SoundFor(k, work, works, nextWork, raced)
      BY <1>1, <1>2, <2>4, <2>5, <2>6, <2>7 DEF SoundFor
    <2>9. ASSUME NEW d \in Links \ {c}
          PROVE  ApartFor(k, tx[d], raced) /\ ApartFor(tx[d], k, raced)
      <3>1. PICK u : u = tx[d]
        OBVIOUS
      <3>2. ApartFor(x, u, raced) /\ ApartFor(u, x, raced)
        BY <1>1, <3>1
      <3>3. u.gone => x.into # u.drop
        BY <1>1, <1>2, <2>7, <3>1, IntoIsSafe
      <3>4. r \notin u.locks
        BY <1>2, <3>1 DEF RowFree
      <3>5. ApartFor(k, u, raced)
        BY <2>4, <2>7, <3>2, <3>4 DEF ApartFor, Counted
      <3>6. ApartFor(u, k, raced)
        BY <2>4, <2>7, <3>2, <3>3, <3>4 DEF ApartFor, Counted
      <3> QED
        BY <3>1, <3>5, <3>6
    <2> QED
      BY <2>2, <2>3, <2>8, <2>9, OnlyStep
  <1> QED
    BY <1>4, <1>5

LEMMA DropWorkStep ==
  ASSUME WorksInv, NEW c \in Links, DropWork(c)
  PROVE  WorksInv'
  <1>1. PICK x \in Transaction :
          /\ x = tx[c] /\ SoundFor(x, work, works, nextWork, raced)
          /\ \A d \in Links \ {c} : ApartFor(x, tx[d], raced) /\ ApartFor(tx[d], x, raced)
          /\ x.pc \in {"find", "move", "commit"} => \/ x.op = "link" /\ LinkSound(x, work)
                                                    \/ x.op = "unlink" /\ UnlinkSound(x, work)
    BY AtIs
  <1>2. x.pc = "move" /\ WorkFree(c, x.drop)
    BY <1>1 DEF DropWork, AtTx
  <1>3. CASE Referring(c, x.drop) # {}
    <2>1. Only(c, NoTx)
      BY <1>1, <1>3 DEF DropWork
    <2> QED
      BY <2>1, EndsStep
  <1>4. CASE Referring(c, x.drop) = {}
    <2>1. PICK pc \in {"set", "commit"} : pc = IF x.op = "link" THEN "set" ELSE "commit"
      OBVIOUS
    <2>2. PICK k : k = [x EXCEPT !.gone = TRUE, !.pc = pc]
      OBVIOUS
    <2>3. Only(c, k)
      BY <1>1, <1>4, <2>1, <2>2 DEF DropWork
    <2>4. k \in Transaction
      BY <2>1, <2>2 DEF Transaction
    <2>5. /\ k.op = x.op /\ k.pc = pc /\ k.a = x.a /\ k.b = x.b /\ k.wa = x.wa /\ k.wb = x.wb
          /\ k.locks = x.locks /\ k.rows = x.rows /\ k.into = x.into /\ k.made = x.made
          /\ k.drop = x.drop /\ k.gone = TRUE
      BY <2>2 DEF Transaction
    <2>6. ASSUME x.op = "link"
          PROVE  LinkSound(k, work)
      <3>1. LinkSound(x, work)
        BY <1>1, <1>2, <2>6
      <3> QED
        BY <1>2, <2>1, <2>5, <2>6, <3>1 DEF LinkSound
    <2>7. ASSUME x.op = "unlink"
          PROVE  UnlinkSound(k, work)
      <3>1. UnlinkSound(x, work)
        BY <1>1, <1>2, <2>7
      <3> QED
        BY <1>2, <2>1, <2>5, <2>7, <3>1 DEF UnlinkSound
    <2>8. \A r \in Grouped \ k.rows : work[r] # k.drop
      BY <1>1, <1>4, <2>5 DEF Referring
    <2>9. /\ ~ x.made /\ x.op \in {"link", "unlink"} /\ (x.op = "unlink" => x.into = 0)
      BY <1>1, <1>2 DEF LinkSound, UnlinkSound
    <2>10. SoundFor(k, work, works, nextWork, raced)
      BY <1>1, <1>2, <2>5, <2>6, <2>7, <2>8, <2>9 DEF SoundFor
    <2>11. Counted(k) => Counted(x)
      BY <1>2, <2>5 DEF Counted
    <2>12. ASSUME NEW d \in Links \ {c}
           PROVE  ApartFor(k, tx[d], raced) /\ ApartFor(tx[d], k, raced)
      <3>1. PICK u : u = tx[d]
        OBVIOUS
      <3>2. ApartFor(x, u, raced) /\ ApartFor(u, x, raced)
        BY <1>1, <3>1
      <3>3. ~ (u.rows # {} /\ u.into = x.drop) /\ ~ (u.gone /\ u.drop = x.drop)
        BY <1>2, <3>1 DEF WorkFree, Shares, Deletes
      <3>4. ApartFor(k, u, raced)
        BY <2>5, <2>11, <3>2, <3>3 DEF ApartFor
      <3>5. ApartFor(u, k, raced)
        BY <2>5, <2>11, <3>2, <3>3 DEF ApartFor
      <3> QED
        BY <3>1, <3>4, <3>5
    <2> QED
      BY <2>3, <2>4, <2>10, <2>12, OnlyStep
  <1> QED
    BY <1>3, <1>4

LEMMA SetBothStep ==
  ASSUME WorksInv, NEW c \in Links, SetBoth(c)
  PROVE  WorksInv'
  <1>1. PICK x \in Transaction :
          /\ x = tx[c] /\ SoundFor(x, work, works, nextWork, raced)
          /\ \A d \in Links \ {c} : ApartFor(x, tx[d], raced) /\ ApartFor(tx[d], x, raced)
          /\ x.pc \in {"lockLo", "lockHi", "choose", "set"} => x.op = "link" /\ LinkSound(x, work)
    BY AtIs
  <1>2. x.pc = "set" /\ x.op = "link" /\ LinkSound(x, work)
    BY <1>1 DEF SetBoth, AtTx
  <1>3. PICK k : k = [x EXCEPT !.pc = "commit", !.rows = x.rows \cup {x.a, x.b}]
    OBVIOUS
  <1>4. Only(c, NoTx) \/ Only(c, k)
    BY <1>1, <1>3 DEF SetBoth
  <1>5. /\ x.a \in Grouped /\ x.b \in Grouped /\ x.a \in x.locks /\ x.b \in x.locks
        /\ x.rows \cup {x.a, x.b} \in SUBSET Grouped
    BY <1>2 DEF LinkSound, Transaction
  <1>6. k \in Transaction
    BY <1>3, <1>5 DEF Transaction
  <1>7. /\ k.op = x.op /\ k.pc = "commit" /\ k.a = x.a /\ k.b = x.b /\ k.wa = x.wa /\ k.wb = x.wb
        /\ k.locks = x.locks /\ k.rows = x.rows \cup {x.a, x.b} /\ k.into = x.into /\ k.made = x.made
        /\ k.drop = x.drop /\ k.gone = x.gone
    BY <1>3 DEF Transaction
  <1>8. LinkSound(k, work)
    BY <1>2, <1>7 DEF LinkSound
  <1>9. SoundFor(k, work, works, nextWork, raced)
    BY <1>1, <1>2, <1>5, <1>7, <1>8 DEF SoundFor
  <1>10. ASSUME NEW d \in Links \ {c}
         PROVE  ApartFor(k, tx[d], raced) /\ ApartFor(tx[d], k, raced)
    <2>1. PICK u : u = tx[d]
      OBVIOUS
    <2>2. ApartFor(x, u, raced) /\ ApartFor(u, x, raced)
      BY <1>1, <2>1
    <2>3. u.gone => x.into # u.drop
      BY <1>1, <1>2, <2>1, IntoIsSafe
    <2>4. ApartFor(k, u, raced)
      BY <1>2, <1>7, <2>2 DEF ApartFor, Counted
    <2>5. ApartFor(u, k, raced)
      BY <1>2, <1>7, <2>2, <2>3 DEF ApartFor, Counted
    <2> QED
      BY <2>1, <2>4, <2>5
  <1> QED
    BY <1>4, <1>6, <1>9, <1>10, OnlyStep, EndsStep

LEMMA LeaveStep ==
  ASSUME WorksInv, NEW c \in Links, Leave(c)
  PROVE  WorksInv'
  <1>1. PICK x \in Transaction :
          /\ x = tx[c] /\ SoundFor(x, work, works, nextWork, raced)
          /\ \A d \in Links \ {c} : ApartFor(x, tx[d], raced) /\ ApartFor(tx[d], x, raced)
          /\ x.pc \in {"lock", "leave", "count"} => x.op = "unlink" /\ UnlinkSound(x, work)
    BY AtIs
  <1>2. x.pc = "leave" /\ x.op = "unlink" /\ UnlinkSound(x, work)
    BY <1>1 DEF Leave, AtTx
  <1>3. CASE x.wa = 0
    <2>1. Only(c, NoTx)
      BY <1>1, <1>3 DEF Leave
    <2> QED
      BY <2>1, EndsStep
  <1>4. CASE x.wa # 0
    <2>1. PICK k : k = [x EXCEPT !.pc = "count", !.rows = {x.a}, !.into = 0, !.drop = x.wa]
      OBVIOUS
    <2>2. Only(c, k)
      BY <1>1, <1>4, <2>1 DEF Leave
    <2>3. x.a \in Grouped /\ x.a \in x.locks /\ x.wa \in Nat /\ {x.a} \in SUBSET Grouped /\ ~ x.gone /\ ~ x.made
      BY <1>2 DEF UnlinkSound, Transaction
    <2>4. k \in Transaction
      BY <2>1, <2>3 DEF Transaction
    <2>5. /\ k.op = x.op /\ k.pc = "count" /\ k.a = x.a /\ k.b = x.b /\ k.wa = x.wa /\ k.wb = x.wb
          /\ k.locks = x.locks /\ k.rows = {x.a} /\ k.into = 0 /\ k.made = x.made
          /\ k.drop = x.wa /\ k.gone = x.gone
      BY <2>1 DEF Transaction
    <2>6. UnlinkSound(k, work)
      BY <1>2, <1>4, <2>3, <2>5 DEF UnlinkSound
    <2>7. SoundFor(k, work, works, nextWork, raced)
      BY <1>2, <2>3, <2>5, <2>6 DEF SoundFor
    <2>8. ASSUME NEW d \in Links \ {c}
          PROVE  ApartFor(k, tx[d], raced) /\ ApartFor(tx[d], k, raced)
      <3>1. PICK u : u = tx[d]
        OBVIOUS
      <3>2. ApartFor(x, u, raced) /\ ApartFor(u, x, raced)
        BY <1>1, <3>1
      <3>3. x.into = 0
        BY <1>2 DEF UnlinkSound
      <3>4. u.gone => x.into # u.drop
        BY <1>1, <3>1, <3>3, IntoIsSafe
      <3>5. ApartFor(k, u, raced)
        BY <2>3, <2>5, <3>2 DEF ApartFor, Counted
      <3>6. ApartFor(u, k, raced)
        BY <2>3, <2>5, <3>2, <3>3, <3>4 DEF ApartFor, Counted
      <3> QED
        BY <3>1, <3>5, <3>6
    <2> QED
      BY <2>2, <2>4, <2>7, <2>8, OnlyStep
  <1> QED
    BY <1>3, <1>4


LEMMA AlreadyLinkedStep ==
  ASSUME WorksInv, NEW c \in Links, AlreadyLinked(c)
  PROVE  WorksInv'
  BY EndsStep DEF AlreadyLinked

LEMMA AbortStep ==
  ASSUME WorksInv, NEW c \in Links, Abort(c)
  PROVE  WorksInv'
  BY EndsStep DEF Abort

\* Counting beside another unlink of the same work is what raced records.
LEMMA CountLeftStep ==
  ASSUME WorksInv, NEW c \in Links, CountLeft(c)
  PROVE  WorksInv'
  <1>1. PICK x \in Transaction :
          /\ x = tx[c] /\ SoundFor(x, work, works, nextWork, raced)
          /\ \A d \in Links \ {c} : ApartFor(x, tx[d], raced) /\ ApartFor(tx[d], x, raced)
          /\ x.pc \in {"lock", "leave", "count"} => x.op = "unlink" /\ UnlinkSound(x, work)
    BY AtIs
  <1>2. x.pc = "count" /\ x.op = "unlink" /\ UnlinkSound(x, work)
    BY <1>1 DEF CountLeft, AtTx
  <1>3. x.rows = {x.a} /\ x.into = 0 /\ x.drop # 0 /\ ~ x.gone /\ ~ x.made /\ x.a \in Grouped
    BY <1>2 DEF UnlinkSound
  <1>4. PICK S : S = MembersOf(work, x.drop) \ {x.a}
    OBVIOUS
  <1>5. Seen(c, x.drop) = S
    BY <1>1, <1>3, <1>4 DEF Seen, WorkOf, MembersOf
  <1>6. IsFiniteSet(S)
    BY <1>4, MembersFinite
  <1>7. Cardinality(S) \in Nat /\ (Cardinality(S) >= 2 <=> Two(S))
    BY <1>6, FS_CardinalityType, TwoIs
  <1>8. PICK pc \in {"find", "commit"} :
          /\ pc = IF Cardinality(S) < 2 THEN "find" ELSE "commit"
          /\ pc = "find" <=> ~ Two(S)
    BY <1>7
  <1>9. PICK k : k = [x EXCEPT !.pc = pc]
    OBVIOUS
  <1>10. /\ tx' = [tx EXCEPT ![c] = k] /\ work' = work /\ works' = works /\ nextWork' = nextWork /\ txs' = txs
         /\ raced' = IF \E d \in Links \ {c} : Leaving(d, x.drop) THEN raced \cup {x.drop} ELSE raced
    BY <1>1, <1>5, <1>8, <1>9 DEF CountLeft, Becomes
  <1>11. k \in Transaction
    BY <1>9 DEF Transaction
  <1>12. /\ k.op = x.op /\ k.pc = pc /\ k.a = x.a /\ k.b = x.b /\ k.wa = x.wa /\ k.wb = x.wb
         /\ k.locks = x.locks /\ k.rows = x.rows /\ k.into = x.into /\ k.made = x.made
         /\ k.drop = x.drop /\ k.gone = x.gone
    BY <1>9 DEF Transaction
  <1>13. UnlinkSound(k, work)
    BY <1>2, <1>8, <1>12 DEF UnlinkSound
  <1>14. x.drop \in Nat
    BY DEF Transaction
  <1>15. /\ nextWork' \in Nat /\ nextWork <= nextWork' /\ txs' \in 0..MaxTx /\ raced' \subseteq Nat
         /\ raced \subseteq raced'
    BY <1>10, <1>14, WorkIs
  <1>16. SoundFor(k, work, works, nextWork', raced')
    <2>1. k.drop \notin raced' => /\ k.pc = "commit" /\ ~ k.gone => Two(MembersOf(work, k.drop) \ {k.a})
                                  /\ k.pc \in {"find", "move"} \/ k.gone => ~ Two(MembersOf(work, k.drop) \ {k.a})
      BY <1>3, <1>4, <1>8, <1>12
    <2>2. k.rows \subseteq k.locks
      BY <1>1, <1>12 DEF SoundFor
    <2> QED
      BY <1>2, <1>3, <1>12, <1>13, <2>1, <2>2 DEF SoundFor
  <1>17. ASSUME NEW d \in Links \ {c}
         PROVE  ApartFor(k, tx[d], raced') /\ ApartFor(tx[d], k, raced')
    <2>1. PICK u : u = tx[d]
      OBVIOUS
    <2>2. ApartFor(x, u, raced) /\ ApartFor(u, x, raced) /\ SoundFor(u, work, works, nextWork, raced)
      BY <1>1, <2>1, TxHas
    <2>3. Counted(u) /\ u.drop = x.drop => Leaving(d, x.drop)
      BY <2>1, <2>2 DEF SoundFor, UnlinkSound, Counted, Leaving
    <2>4. Counted(u) /\ u.drop = x.drop => x.drop \in raced'
      BY <1>10, <2>3
    <2>5. ApartFor(k, u, raced')
      BY <1>3, <1>12, <2>2, <2>4 DEF ApartFor
    <2>6. ApartFor(u, k, raced')
      BY <1>3, <1>12, <2>2, <2>4 DEF ApartFor
    <2> QED
      BY <2>1, <2>5, <2>6
  <1> QED
    BY <1>10, <1>11, <1>15, <1>16, <1>17, Swaps

-----------------------------------------------------------------------------
\* What a transaction about to commit is: a link puts both of its releases in
\* one work and takes all the members of the one it absorbs along, an unlink
\* takes one release out, or all of a work it dissolves.
LEMMA CommitIs ==
  ASSUME WorksInv, NEW c \in Links, AtTx(c, "commit")
  PROVE  \E x \in Transaction :
           /\ x = tx[c] /\ x.pc = "commit" /\ SoundFor(x, work, works, nextWork, raced)
           /\ \A d \in Links \ {c} : ApartFor(x, tx[d], raced) /\ ApartFor(tx[d], x, raced)
           /\ x.rows # {} /\ x.op \in {"link", "unlink"}
           /\ x.made => x.into \notin works /\ x.into \in Nat /\ x.into < nextWork
           /\ ~ x.made => x.into = 0 \/ x.into \in works
           /\ \A r \in x.rows : work[r] = 0 \/ work[r] = x.into \/ work[r] = x.drop
           /\ x.op = "link" => /\ x.a # x.b /\ x.a \in x.rows /\ x.b \in x.rows /\ x.a \in Grouped /\ x.b \in Grouped
                               /\ x.into # 0 /\ x.into # x.drop /\ (x.drop # 0 => x.gone)
           /\ x.op = "unlink" => /\ x.into = 0 /\ x.drop # 0 /\ ~ x.made
                                 /\ ~ x.gone => x.rows = {x.a}
                                 /\ ~ x.gone /\ x.drop \notin raced => Two(MembersOf(work, x.drop) \ {x.a})
                                 /\ x.gone /\ x.drop \notin raced => ~ Two(MembersOf(work, x.drop) \ {x.a})
  <1>1. PICK x \in Transaction :
          /\ x = tx[c] /\ SoundFor(x, work, works, nextWork, raced)
          /\ \A d \in Links \ {c} : ApartFor(x, tx[d], raced) /\ ApartFor(tx[d], x, raced)
          /\ x.pc \in {"find", "move", "commit"} => \/ x.op = "link" /\ LinkSound(x, work)
                                                    \/ x.op = "unlink" /\ UnlinkSound(x, work)
    BY AtIs
  <1>2. x.pc = "commit"
    BY <1>1 DEF AtTx
  <1>3. x.made => x.into \notin works /\ x.into \in Nat /\ x.into < nextWork
    BY <1>1 DEF SoundFor, Transaction
  <1>4. CASE x.op = "link" /\ LinkSound(x, work)
    <2>1. /\ x.a # x.b /\ x.a \in x.rows /\ x.b \in x.rows /\ x.a \in Grouped /\ x.b \in Grouped
          /\ x.into # 0 /\ x.into # x.drop /\ (x.drop # 0 => x.gone)
          /\ x.wa = work[x.a] /\ x.wb = work[x.b]
      BY <1>2, <1>4 DEF LinkSound
    <2>2. /\ x.made => x.wa = 0 /\ x.wb = 0
          /\ ~ x.made => {x.wa, x.wb} = {x.into, x.drop}
          /\ \A r \in x.rows : work[r] = x.drop \/ r \in {x.a, x.b}
      BY <1>2, <1>4 DEF LinkSound
    <2>3. \A r \in x.rows : work[r] = 0 \/ work[r] = x.into \/ work[r] = x.drop
      BY <2>1, <2>2
    <2>4. ~ x.made => x.into \in works
      BY <2>1, <2>2, WorkIs
    <2> QED
      BY <1>1, <1>2, <1>3, <1>4, <2>1, <2>3, <2>4
  <1>5. CASE x.op = "unlink" /\ UnlinkSound(x, work)
    <2>1. /\ x.into = 0 /\ x.drop # 0 /\ ~ x.made /\ x.a \in x.rows /\ (~ x.gone => x.rows = {x.a})
          /\ \A r \in x.rows : work[r] = x.drop
      BY <1>2, <1>5 DEF UnlinkSound
    <2>2. x.drop \notin raced => /\ ~ x.gone => Two(MembersOf(work, x.drop) \ {x.a})
                                 /\ x.gone => ~ Two(MembersOf(work, x.drop) \ {x.a})
      BY <1>1, <1>2, <1>5 DEF SoundFor
    <2> QED
      BY <1>1, <1>2, <1>3, <1>5, <2>1, <2>2
  <1> QED
    BY <1>1, <1>2, <1>4, <1>5


LEMMA CommitStep ==
  ASSUME WorksInv, NEW c \in Links, Commit(c)
  PROVE  WorksInv'
  <1>1. PICK x \in Transaction :
           /\ x = tx[c] /\ x.pc = "commit" /\ SoundFor(x, work, works, nextWork, raced)
           /\ \A d \in Links \ {c} : ApartFor(x, tx[d], raced) /\ ApartFor(tx[d], x, raced)
           /\ x.rows # {} /\ x.op \in {"link", "unlink"}
           /\ x.made => x.into \notin works /\ x.into \in Nat /\ x.into < nextWork
           /\ ~ x.made => x.into = 0 \/ x.into \in works
           /\ \A r \in x.rows : work[r] = 0 \/ work[r] = x.into \/ work[r] = x.drop
           /\ x.op = "link" => /\ x.a # x.b /\ x.a \in x.rows /\ x.b \in x.rows /\ x.a \in Grouped /\ x.b \in Grouped
                               /\ x.into # 0 /\ x.into # x.drop /\ (x.drop # 0 => x.gone)
           /\ x.op = "unlink" => /\ x.into = 0 /\ x.drop # 0 /\ ~ x.made
                                 /\ ~ x.gone => x.rows = {x.a}
                                 /\ ~ x.gone /\ x.drop \notin raced => Two(MembersOf(work, x.drop) \ {x.a})
                                 /\ x.gone /\ x.drop \notin raced => ~ Two(MembersOf(work, x.drop) \ {x.a})
    BY CommitIs DEF Commit
  <1>2. work' = [r \in Grouped |-> IF r \in x.rows THEN x.into ELSE work[r]]
    BY <1>1 DEF Commit, WorkOf
  <1>3. works' = (works \cup (IF x.made THEN {x.into} ELSE {})) \ (IF x.gone THEN {x.drop} ELSE {})
    BY <1>1 DEF Commit
  <1>4. tx' = [tx EXCEPT ![c] = NoTx] /\ nextWork' = nextWork /\ txs' = txs
    BY DEF Commit, Becomes
  <1>5. /\ raced \subseteq raced' /\ raced' \subseteq Nat
        /\ \A d \in Links : Leaving(d, x.into) /\ tx[d].pc \in {"find", "move"} /\ x.into \in works => x.into \in raced'
    BY <1>1, WorkIs DEF Commit, Shares
  <1>6. x.rows \subseteq x.locks /\ x.rows \subseteq Grouped /\ x.into \in Nat
        /\ (x.gone => \A r \in Grouped \ x.rows : work[r] # x.drop)
    BY <1>1 DEF SoundFor, Transaction
  <1>7. /\ \A r \in Grouped : work'[r] = IF r \in x.rows THEN x.into ELSE work[r]
        /\ work' \in [Grouped -> Nat]
    BY <1>2, <1>6, WorkIs
  <1>8. tx' \in [Links -> Transaction] /\ tx'[c] = NoTx /\ \A d \in Links \ {c} : tx'[d] = tx[d]
    BY <1>4, NoTxIs, WorkIs
  <1>9. WorksTypeOK'
    <2>1. works' \subseteq Nat
      BY <1>3, <1>6, WorkIs
    <2> QED
      BY <1>4, <1>5, <1>7, <1>8, <2>1, WorkIs DEF WorksTypeOK, Transaction
  <1>10. \A w \in works' : w # 0 /\ w < nextWork
    <2>1. x.made => x.op = "link"
      BY <1>1
    <2> QED
      BY <1>1, <1>3, <2>1 DEF WorksInv
  <1>11. x.into # 0 => x.into \in works'
    BY <1>1, <1>3
  <1>12. WorksAreThere'
    <2>1. ASSUME NEW r \in Grouped, work'[r] # 0
          PROVE  work'[r] \in works'
      <3>1. CASE r \in x.rows
        BY <1>7, <1>11, <2>1, <3>1
      <3>2. CASE r \notin x.rows
        BY <1>3, <1>6, <1>7, <2>1, <3>2, WorkIs
      <3> QED
        BY <3>1, <3>2
    <2> QED
      BY <2>1 DEF WorksAreThere
  <1>13. ASSUME NEW w \in works', w \notin raced'
         PROVE  Two(MembersOf(work', w))
    <2>1. CASE w = x.into
      <3>1. x.op = "link"
        BY <1>1, <1>10, <2>1
      <3>2. x.a \in MembersOf(work', w) /\ x.b \in MembersOf(work', w) /\ x.a # x.b
        BY <1>1, <1>7, <2>1, <3>1 DEF MembersOf
      <3> QED
        BY <3>2 DEF Two
    <2>2. CASE w # x.into
      <3>1. w \in works /\ w \notin raced /\ w # 0
        BY <1>3, <1>5, <1>10, <1>13, <2>2
      <3>2. PICK r, s : r \in MembersOf(work, w) /\ s \in MembersOf(work, w) /\ r # s
        BY <3>1 DEF WorksInv, Two
      <3>3. CASE w # x.drop
        <4>1. r \notin x.rows /\ s \notin x.rows
          BY <1>1, <2>2, <3>1, <3>2, <3>3 DEF MembersOf
        <4>2. r \in MembersOf(work', w) /\ s \in MembersOf(work', w)
          BY <1>7, <3>2, <4>1 DEF MembersOf
        <4> QED
          BY <3>2, <4>2 DEF Two
      <3>4. CASE w = x.drop
        <4>1. ~ x.gone
          BY <1>3, <3>4
        <4>2. x.op = "unlink"
          BY <1>1, <3>1, <3>4, <4>1
        <4>3. x.rows = {x.a} /\ Two(MembersOf(work, w) \ {x.a})
          BY <1>1, <3>1, <3>4, <4>1, <4>2
        <4>4. PICK p, q : p \in MembersOf(work, w) \ {x.a} /\ q \in MembersOf(work, w) \ {x.a} /\ p # q
          BY <4>3 DEF Two
        <4>5. p \in MembersOf(work', w) /\ q \in MembersOf(work', w)
          BY <1>7, <4>3, <4>4 DEF MembersOf
        <4> QED
          BY <4>4, <4>5 DEF Two
      <3> QED
        BY <3>3, <3>4
    <2> QED
      BY <2>1, <2>2
  <1>14. ASSUME NEW d \in Links \ {c}
         PROVE  SoundFor(tx[d], work', works', nextWork, raced')
    <2>1. PICK u \in Transaction : u = tx[d] /\ SoundFor(u, work, works, nextWork, raced)
      BY TxHas
    <2>2. ApartFor(x, u, raced) /\ ApartFor(u, x, raced)
      BY <1>1, <2>1
    <2>3. u.rows \subseteq u.locks /\ u.rows \subseteq Grouped /\ \A r \in u.locks : r \notin x.rows /\ work'[r] = work[r]
      BY <1>6, <1>7, <2>1, <2>2 DEF SoundFor, ApartFor, Transaction
    <2>4. u.op = "link" => LinkSound(u, work')
      <3>1. SUFFICES ASSUME LinkSound(u, work)
                     PROVE  LinkSound(u, work')
        BY <2>1 DEF SoundFor
      <3>2. \A r \in u.rows : work'[r] = work[r]
        BY <2>3
      <3> QED
        BY <2>3, <3>1, <3>2 DEF LinkSound
    <2>5. u.op = "unlink" => UnlinkSound(u, work')
      <3>1. SUFFICES ASSUME UnlinkSound(u, work)
                     PROVE  UnlinkSound(u, work')
        BY <2>1 DEF SoundFor
      <3>2. \A r \in u.rows : work'[r] = work[r]
        BY <2>3
      <3> QED
        BY <2>3, <3>1, <3>2 DEF UnlinkSound
    <2>6. u.gone => x.into # u.drop /\ \A r \in Grouped \ u.rows : work'[r] # u.drop
      BY <1>1, <1>7, <2>1, <2>2 DEF SoundFor, ApartFor
    <2>7. ASSUME u.made
          PROVE  u.into \notin works' /\ u.into < nextWork /\ \A r \in Grouped : work'[r] # u.into
      <3>1. u.op = "link"
        BY <2>1, <2>7, NoTxIs DEF SoundFor, UnlinkSound, Transaction
      <3>2. u.into # 0
        BY <2>1, <2>7, <3>1 DEF SoundFor, LinkSound
      <3>3. x.into # u.into
        BY <1>1, <2>1, <2>2, <2>7, <3>2 DEF SoundFor, ApartFor
      <3> QED
        BY <1>3, <1>7, <2>1, <2>7, <3>3 DEF SoundFor
    <2>8. ASSUME u.op = "unlink", u.drop \notin raced'
          PROVE  /\ u.pc = "commit" /\ ~ u.gone => Two(MembersOf(work', u.drop) \ {u.a})
                 /\ u.pc \in {"find", "move"} \/ u.gone => ~ Two(MembersOf(work', u.drop) \ {u.a})
      <3>1. UnlinkSound(u, work) /\ u.drop \notin raced
        BY <1>5, <2>1, <2>8 DEF SoundFor
      <3>2. ASSUME u.pc = "commit", ~ u.gone
            PROVE  Two(MembersOf(work', u.drop) \ {u.a})
        <4>1. Two(MembersOf(work, u.drop) \ {u.a})
          BY <2>1, <2>8, <3>1, <3>2 DEF SoundFor
        <4>2. PICK p, q : p \in MembersOf(work, u.drop) \ {u.a} /\ q \in MembersOf(work, u.drop) \ {u.a} /\ p # q
          BY <4>1 DEF Two
        <4>3. u.drop # 0 /\ u.drop = work[u.a] /\ u.a \in u.locks /\ u.a \in Grouped
          BY <3>1, <3>2 DEF UnlinkSound
        <4>4. u.drop # x.drop
          <5>1. CASE x.op = "link"
            BY <1>1, <1>6, <2>3, <4>3, <5>1
          <5>2. CASE x.op = "unlink"
            <6>1. Counted(x) /\ Counted(u)
              BY <1>1, <2>8, <3>2, <5>2 DEF Counted
            <6> QED
              BY <2>2, <3>1, <6>1 DEF ApartFor
          <5> QED
            BY <1>1, <5>1, <5>2
        <4>5. p \in MembersOf(work', u.drop) /\ q \in MembersOf(work', u.drop)
          BY <1>1, <1>7, <4>2, <4>3, <4>4 DEF MembersOf
        <4> QED
          BY <4>2, <4>5 DEF Two
      <3>3. ASSUME u.pc \in {"find", "move"} \/ u.gone
            PROVE  ~ Two(MembersOf(work', u.drop) \ {u.a})
        <4>1. ~ Two(MembersOf(work, u.drop) \ {u.a})
          BY <2>1, <2>8, <3>1, <3>3 DEF SoundFor
        <4>2. x.into # u.drop
          <5>1. CASE u.gone
            BY <2>6, <5>1
          <5>2. CASE u.pc \in {"find", "move"} /\ x.into = u.drop
            <6>1. u.drop # 0 /\ u.drop = work[u.a] /\ u.a \in Grouped /\ u.rows # {}
              BY <3>1, <5>2 DEF UnlinkSound
            <6>2. Leaving(d, x.into) /\ x.into \in works
              BY <2>1, <2>8, <5>2, <6>1, WorkIs DEF Leaving
            <6> QED
              BY <1>5, <2>1, <2>8, <5>2, <6>2
          <5> QED
            BY <3>3, <5>1, <5>2
        <4>3. MembersOf(work', u.drop) \subseteq MembersOf(work, u.drop)
          BY <1>7, <4>2 DEF MembersOf
        <4> QED
          BY <4>1, <4>3 DEF Two
      <3> QED
        BY <3>2, <3>3
    <2>9. (u.op = "none" => u = NoTx) /\ u.rows \subseteq u.locks
      BY <2>1 DEF SoundFor
    <2>10. SoundFor(u, work', works', nextWork, raced')
      BY <2>4, <2>5, <2>6, <2>7, <2>8, <2>9 DEF SoundFor
    <2> QED
      BY <2>1, <2>10
  <1>15. \A d \in Links : SoundFor(tx'[d], work', works', nextWork', raced')
    <2>1. SoundFor(NoTx, work', works', nextWork, raced')
      BY NoTxSound
    <2> QED
      BY <1>4, <1>8, <1>14, <2>1
  <1>16. (\A d \in Links : SoundFor(tx[d], work, works, nextWork, raced))'
    BY <1>15, Zenon DEF SoundFor, LinkSound, UnlinkSound, MembersOf, Two
  <1>17. ASSUME NEW d \in Links, NEW e \in Links \ {d}
         PROVE  ApartFor(tx'[d], tx'[e], raced')
    <2>1. CASE d = c
      BY <1>8, <2>1, NoTxSound
    <2>2. CASE e = c
      BY <1>8, <2>2, NoTxSound
    <2>3. CASE d # c /\ e # c
      <3>1. ApartFor(tx[d], tx[e], raced)
        BY TxHas
      <3>2. ApartFor(tx[d], tx[e], raced')
        BY <1>5, <3>1 DEF ApartFor
      <3> QED
        BY <1>8, <2>3, <3>2
    <2> QED
      BY <2>1, <2>2, <2>3
  <1>18. (\A d \in Links : \A e \in Links \ {d} : ApartFor(tx[d], tx[e], raced))'
    BY <1>17 DEF ApartFor, Counted
  <1>19. (nextWork # 0 /\ \A w \in works : w # 0 /\ w < nextWork)'
    BY <1>4, <1>10, WorkIs
  <1>20. (\A w \in works \ raced : Two(MembersOf(work, w)))'
    BY <1>13, Zenon DEF Two, MembersOf
  <1> QED
    BY <1>9, <1>12, <1>16, <1>18, <1>19, <1>20 DEF WorksInv

-----------------------------------------------------------------------------
LEMMA WorksStart == WorksInit => WorksInv
  <1> SUFFICES ASSUME WorksInit
               PROVE  WorksInv
    OBVIOUS
  <1>1. Cardinality(Grouped) \in Nat
    BY WorksConstants, FS_CardinalityType
  <1>2. PICK n : n = Cardinality(Grouped) /\ n \in Nat
    BY <1>1
  <1>3. /\ work \in Groupings /\ work \in [Grouped -> 0..n] /\ works = {work[r] : r \in Grouped} \ {0}
        /\ nextWork = n + 1 /\ tx = [c \in Links |-> NoTx] /\ txs = 0 /\ raced = {}
    BY <1>2, WorksConstants DEF WorksInit
  <1>4. \A r \in Grouped : work[r] \in 0..n /\ work[r] \in Nat
    BY <1>2, <1>3
  <1>5. works \subseteq Nat /\ \A w \in works : w # 0 /\ w < nextWork
    BY <1>2, <1>3, <1>4
  <1>6. tx \in [Links -> Transaction]
    BY <1>3, NoTxIs
  <1>7. WorksTypeOK
    <2>1. work \in [Grouped -> Nat]
      BY <1>3
    <2>2. nextWork \in Nat
      BY <1>2, <1>3
    <2>3. txs \in 0..MaxTx /\ raced \subseteq Nat
      BY <1>3, WorksConstants
    <2> QED
      BY <1>5, <1>6, <2>1, <2>2, <2>3 DEF WorksTypeOK
  <1>8. WorksAreThere
    BY <1>3 DEF WorksAreThere
  <1>9. ASSUME NEW w \in works
        PROVE  Two(MembersOf(work, w))
    <2>1. PICK r \in Grouped : work[r] = w /\ w # 0
      BY <1>3
    <2>2. PICK s \in Grouped : s # r /\ work[s] = w
      BY <1>3, <2>1, WorksConstants
    <2> QED
      BY <2>1, <2>2 DEF Two, MembersOf
  <1>10. ASSUME NEW c \in Links
         PROVE  tx[c] = NoTx
    BY <1>3
  <1>11. \A c \in Links : SoundFor(tx[c], work, works, nextWork, raced)
    BY <1>10, NoTxSound
  <1>12. \A c \in Links : \A d \in Links \ {c} : ApartFor(tx[c], tx[d], raced)
    BY <1>10, NoTxSound
  <1>13. nextWork # 0
    BY <1>2, <1>3
  <1> QED
    BY <1>5, <1>7, <1>8, <1>9, <1>11, <1>12, <1>13 DEF WorksInv

LEMMA WorksStep == WorksInv /\ [WorksNext]_worksVars => WorksInv'
  <1> SUFFICES ASSUME WorksInv, [WorksNext]_worksVars
               PROVE  WorksInv'
    OBVIOUS
  <1>1. CASE UNCHANGED worksVars
    BY <1>1 DEF worksVars, WorksInv, WorksTypeOK, WorksAreThere, SoundFor, LinkSound, UnlinkSound, ApartFor,
                Counted, Two, MembersOf
  <1>2. ASSUME NEW c \in Links, NEW a \in Grouped, UnlinkRelease(c, a)
        PROVE  WorksInv'
    BY <1>2, UnlinkReleaseStep
  <1>3. ASSUME NEW c \in Links, NEW a \in Grouped, NEW b \in Grouped, LinkReleases(c, a, b)
        PROVE  WorksInv'
    BY <1>3, LinkReleasesStep
  <1>4. ASSUME NEW c \in Links, LockLo(c) \/ LockHi(c) \/ LockOne(c)
        PROVE  WorksInv'
    BY <1>4, LockStep, LockOneStep
  <1>5. ASSUME NEW c \in Links, Create(c) \/ Join(c) \/ AlreadyLinked(c) \/ Size(c)
        PROVE  WorksInv'
    BY <1>5, CreateStep, JoinStep, AlreadyLinkedStep, SizeStep
  <1>6. ASSUME NEW c \in Links, NEW r \in Grouped, MoveRow(c, r)
        PROVE  WorksInv'
    BY <1>6, MoveRowStep
  <1>7. ASSUME NEW c \in Links, FindRows(c) \/ DropWork(c) \/ SetBoth(c)
        PROVE  WorksInv'
    BY <1>7, FindRowsStep, DropWorkStep, SetBothStep
  <1>8. ASSUME NEW c \in Links, Leave(c) \/ CountLeft(c) \/ Commit(c) \/ Abort(c)
        PROVE  WorksInv'
    BY <1>8, LeaveStep, CountLeftStep, CommitStep, AbortStep
  <1> QED
    BY <1>1, <1>2, <1>3, <1>4, <1>5, <1>6, <1>7, <1>8 DEF WorksNext

\* A link takes whole groups along.
LEMMA WorksPart ==
  ASSUME WorksInv, NEW c \in Links, Commit(c), NEW r \in Grouped, NEW s \in Grouped, r # s, Together(r, s),
         ~ (work'[r] = work'[s] /\ work'[r] # 0)
  PROVE  /\ tx[c].op = "unlink" /\ tx'[c] = NoTx
         /\ tx[c].a \in {r, s} \/ (tx[c].gone /\ tx[c].drop = work[r] /\ work[r] \in raced)
  <1>1. PICK x \in Transaction :
           /\ x = tx[c] /\ x.pc = "commit" /\ SoundFor(x, work, works, nextWork, raced)
           /\ \A d \in Links \ {c} : ApartFor(x, tx[d], raced) /\ ApartFor(tx[d], x, raced)
           /\ x.rows # {} /\ x.op \in {"link", "unlink"}
           /\ x.made => x.into \notin works /\ x.into \in Nat /\ x.into < nextWork
           /\ ~ x.made => x.into = 0 \/ x.into \in works
           /\ \A q \in x.rows : work[q] = 0 \/ work[q] = x.into \/ work[q] = x.drop
           /\ x.op = "link" => /\ x.a # x.b /\ x.a \in x.rows /\ x.b \in x.rows /\ x.a \in Grouped /\ x.b \in Grouped
                               /\ x.into # 0 /\ x.into # x.drop /\ (x.drop # 0 => x.gone)
           /\ x.op = "unlink" => /\ x.into = 0 /\ x.drop # 0 /\ ~ x.made
                                 /\ ~ x.gone => x.rows = {x.a}
                                 /\ ~ x.gone /\ x.drop \notin raced => Two(MembersOf(work, x.drop) \ {x.a})
                                 /\ x.gone /\ x.drop \notin raced => ~ Two(MembersOf(work, x.drop) \ {x.a})
    BY CommitIs DEF Commit
  <1>2. \A q \in Grouped : work'[q] = IF q \in x.rows THEN x.into ELSE work[q]
    BY <1>1 DEF Commit, WorkOf
  <1>3. tx'[c] = NoTx
    BY WorkIs DEF Commit, Becomes
  <1>4. work[r] = work[s] /\ work[r] # 0
    BY DEF Together
  <1>5. work[r] = x.drop /\ (r \in x.rows \/ s \in x.rows)
    BY <1>1, <1>2, <1>4
  <1>6. x.gone => \A q \in Grouped \ x.rows : work[q] # x.drop
    BY <1>1 DEF SoundFor
  <1>7. x.op = "unlink"
    <2>1. ASSUME x.op = "link"
          PROVE  FALSE
      <3>1. r \in x.rows /\ s \in x.rows /\ x.into # 0
        BY <1>1, <1>4, <1>5, <1>6, <2>1
      <3> QED
        BY <1>2, <3>1
    <2> QED
      BY <1>1, <2>1
  <1>8. CASE ~ x.gone
    BY <1>1, <1>3, <1>5, <1>7, <1>8
  <1>9. CASE x.gone /\ x.a \notin {r, s}
    <2>1. r \in MembersOf(work, x.drop) \ {x.a} /\ s \in MembersOf(work, x.drop) \ {x.a}
      BY <1>4, <1>5, <1>9 DEF MembersOf
    <2>2. Two(MembersOf(work, x.drop) \ {x.a})
      BY <2>1 DEF Two
    <2> QED
      BY <1>1, <1>3, <1>5, <1>7, <1>9, <2>2
  <1> QED
    BY <1>1, <1>3, <1>7, <1>8, <1>9

THEOREM WorksAreKept == WorksSpec => [](WorksTypeOK /\ WorksAreThere /\ NoLonelyWork)
  <1>1. WorksSpec => []WorksInv
    BY WorksStart, WorksStep, PTL DEF WorksSpec
  <1> QED
    BY <1>1, WorksHold, PTL

THEOREM LinksKeepGroups == WorksSpec => OnlyUnlinkParts
  <1>1. WorksSpec => []WorksInv
    BY WorksStart, WorksStep, PTL DEF WorksSpec
  <1>2. ASSUME WorksInv, [WorksNext]_worksVars, work' # work, NEW r \in Grouped, NEW s \in Grouped,
               r # s, Together(r, s), ~ (work'[r] = work'[s] /\ work'[r] # 0)
        PROVE  \E c \in Links : /\ tx[c].op = "unlink" /\ tx'[c] = NoTx
                                /\ tx[c].a \in {r, s} \/ (tx[c].gone /\ tx[c].drop = work[r] /\ work[r] \in raced)
    <2>1. PICK c \in Links : Commit(c)
      BY <1>2 DEF WorksNext, worksVars, UnlinkRelease, LinkReleases, BeginTx, LockLo, LockHi, LockOne, LockRow,
                  Create, Join, AlreadyLinked, Size, FindRows, MoveRow, DropWork, SetBoth, Leave, CountLeft,
                  Abort, Only
    <2> QED
      BY <1>2, <2>1, WorksPart
  <1>3. WorksInv /\ [WorksNext]_worksVars =>
          [work' # work => \A r, s \in Grouped :
             r # s /\ Together(r, s) /\ ~(work'[r] = work'[s] /\ work'[r] # 0) =>
               \E c \in Links : /\ tx[c].op = "unlink" /\ tx'[c] = NoTx
                                /\ tx[c].a \in {r, s} \/ (tx[c].gone /\ tx[c].drop = work[r] /\ work[r] \in raced)]_worksVars
    BY <1>2
  <1> QED
    BY <1>1, <1>3, PTL DEF WorksSpec, OnlyUnlinkParts

\* While a release leaves its work, no other transaction has a release leave that
\* work or join it.
UnlinksStandApart ==
  \A c \in Links : \A d \in Links \ {c} : \A w \in works : Leaving(c, w) => ~ Leaving(d, w) /\ ~ Shares(d, w)

\* Then no count is out of date when it is acted on.
LEMMA NoRace ==
  ASSUME WorksInv, UnlinksStandApart, raced = {}, [WorksNext]_worksVars
  PROVE  raced' = {}
  <1>1. CASE \E c \in Links : CountLeft(c)
    <2>1. PICK c \in Links : CountLeft(c)
      BY <1>1
    <2>2. tx[c].pc = "count" /\ tx[c] \in Transaction /\ SoundFor(tx[c], work, works, nextWork, raced)
      BY <2>1, WorkIs DEF CountLeft, AtTx, WorksInv, WorksTypeOK
    <2>3. tx[c].op = "unlink"
      <3>1. tx[c].op # "none"
        BY <2>2 DEF SoundFor, NoTx
      <3>2. tx[c].op # "link"
        BY <2>2 DEF SoundFor, LinkSound
      <3> QED
        BY <2>2, <3>1, <3>2 DEF Transaction
    <2>4. UnlinkSound(tx[c], work)
      BY <2>2, <2>3 DEF SoundFor
    <2>5. /\ tx[c].a \in Grouped /\ tx[c].drop = work[tx[c].a] /\ tx[c].drop # 0 /\ tx[c].rows # {}
      BY <2>2, <2>4 DEF UnlinkSound
    <2>6. tx[c].drop \in works /\ Leaving(c, tx[c].drop)
      BY <2>3, <2>5 DEF WorksInv, WorksAreThere, Leaving
    <2>7. ~ \E d \in Links \ {c} : Leaving(d, tx[c].drop)
      BY <2>6 DEF UnlinksStandApart
    <2> QED
      BY <2>1, <2>7 DEF CountLeft
  <1>2. CASE \E c \in Links : Commit(c)
    <2>1. PICK c \in Links : Commit(c)
      BY <1>2
    <2>2. raced' = raced \cup {w \in works : Shares(c, w) /\ \E d \in Links : Leaving(d, w) /\ tx[d].pc \in {"find", "move"}}
      BY <2>1 DEF Commit
    <2>3. ASSUME NEW w \in works, Shares(c, w), NEW d \in Links, Leaving(d, w)
          PROVE  FALSE
      <3>1. SoundFor(tx[c], work, works, nextWork, raced) /\ w # 0
        BY DEF WorksInv
      <3>2. d # c
        BY <2>3, <3>1 DEF SoundFor, UnlinkSound, Leaving, Shares
      <3> QED
        BY <2>3, <3>2 DEF UnlinksStandApart
    <2> QED
      BY <2>2, <2>3
  <1>3. CASE ~ (\E c \in Links : CountLeft(c)) /\ ~ (\E c \in Links : Commit(c))
    BY <1>3 DEF WorksNext, worksVars, UnlinkRelease, LinkReleases, BeginTx, LockLo, LockHi, LockOne, LockRow,
                Create, Join, AlreadyLinked, Size, FindRows, MoveRow, DropWork, SetBoth, Leave, Abort, Only
  <1> QED
    BY <1>1, <1>2, <1>3

\* Every work has the two releases that made it one.
WorksAreGroups == \A w \in works : Cardinality({r \in Grouped : work[r] = w}) >= 2

\* A work of one, or a group parted by an unlinking of none of its releases, has
\* one cause only: two transactions at one work of which one unlinks.  While
\* unlinks stand apart, every work has at least two releases, and only unlinking
\* one of two releases parts them ("repeatedly linking never fragments a set").
THEOREM WorksAreWholeWithoutRaces ==
  WorksSpec /\ []UnlinksStandApart =>
    /\ []WorksAreGroups
    /\ [][work' # work => \A r, s \in Grouped :
            r # s /\ Together(r, s) /\ ~(work'[r] = work'[s] /\ work'[r] # 0) =>
              \E c \in Links : tx[c].op = "unlink" /\ tx'[c] = NoTx /\ tx[c].a \in {r, s}]_worksVars
  <1>1. WorksSpec => []WorksInv
    BY WorksStart, WorksStep, PTL DEF WorksSpec
  <1>2. WorksInit => raced = {}
    BY DEF WorksInit
  <1>3. WorksInv /\ raced = {} => WorksAreGroups
    BY WorksHold DEF NoLonelyWork, WorksAreGroups
  <1>4. ASSUME WorksInv, raced = {}, [WorksNext]_worksVars, work' # work, NEW r \in Grouped, NEW s \in Grouped,
               r # s, Together(r, s), ~ (work'[r] = work'[s] /\ work'[r] # 0)
        PROVE  \E c \in Links : tx[c].op = "unlink" /\ tx'[c] = NoTx /\ tx[c].a \in {r, s}
    <2>1. PICK c \in Links : Commit(c)
      BY <1>4 DEF WorksNext, worksVars, UnlinkRelease, LinkReleases, BeginTx, LockLo, LockHi, LockOne, LockRow,
                  Create, Join, AlreadyLinked, Size, FindRows, MoveRow, DropWork, SetBoth, Leave, CountLeft,
                  Abort, Only
    <2> QED
      BY <1>4, <2>1, WorksPart
  <1>5. WorksInv /\ raced = {} /\ [WorksNext]_worksVars =>
          [work' # work => \A r, s \in Grouped :
             r # s /\ Together(r, s) /\ ~(work'[r] = work'[s] /\ work'[r] # 0) =>
               \E c \in Links : tx[c].op = "unlink" /\ tx'[c] = NoTx /\ tx[c].a \in {r, s}]_worksVars
    BY <1>4
  <1>6. WorksInv /\ UnlinksStandApart /\ raced = {} /\ [WorksNext]_worksVars => (raced = {})'
    BY NoRace
  <1> QED
    BY <1>1, <1>2, <1>3, <1>5, <1>6, PTL DEF WorksSpec

-----------------------------------------------------------------------------
(* Naming: Metadata. *)

\* The pool of a release and what its page is to show, as functions of the rows,
\* the pins and the grouping.
PoolIn(g, r) == {s \in Releases : s = r \/ (g[s] = g[r] /\ g[s] # 0)}
Whole(g, S) == \A r \in S : PoolIn(g, r) \subseteq S
AnswerIn(ps, pn, g, r) ==
  IF pn[r] # None THEN pn[r].shows ELSE DeriveFrom({p \in ps : p.release \in PoolIn(g, r)})

ProposalSet == [release : Releases, by : Accounts \cup {None}, claim : Claims, stash : Stashes, at : 0..MaxJobs]

Plans == {<<>>, <<"auto">>, <<"attach">>, <<"members">>, <<"unblock">>, <<"grouping", "auto">>, <<"purge", "members">>}

JobState ==
  [pc : {"idle", "attach", "grouping", "auto", "autoPin", "pinByHand", "unblock", "purgeList", "purge",
         "members", "derive", "write"},
   release : Releases \cup {0}, plan : Plans, todo : SUBSET Releases, work : Nat, read : Shown,
   reach : SUBSET Releases, alone : BOOLEAN]

\* Where a job is and what follows.
InPhase(j) ==
  \/ j.pc = "attach" /\ j.plan \in {<<>>, <<"grouping", "auto">>}
  \/ j.pc = "grouping" /\ j.plan \in {<<>>, <<"auto">>}
  \/ j.pc \in {"auto", "autoPin", "unblock", "members"} /\ j.plan = <<>>
  \/ j.pc = "pinByHand" /\ j.plan = <<"unblock">>
  \/ j.pc = "purgeList" /\ j.plan = <<"purge", "members">>
  \/ j.pc = "purge" /\ j.plan = <<"members">>
  \/ j.pc \in {"derive", "write"} /\ j.plan \in {<<>>, <<"auto">>, <<"attach">>, <<"members">>}

ByWork(j) == j.pc \in {"members", "purge", "purgeList"} \/ j.plan = <<"members">>

\* What a job has yet to derive.
Owes(j, g) ==
  {r \in Releases :
     \/ j.pc \in {"derive", "write"} /\ r \in j.todo
     \/ (j.pc = "grouping" \/ j.plan = <<"grouping", "auto">>) /\ r \in PoolIn(g, j.release)
     \/ ByWork(j) /\ g[r] = j.work}

\* A job whose writes can move the releases of R, when n jobs have begun.
JobFine(j, R, n) ==
  /\ InPhase(j) /\ j.release \in R /\ j.todo \subseteq R
  /\ j.pc \in {"derive", "write"} <=> j.todo # {} /\ j.pc # "purge"
  /\ ByWork(j) => j.work # 0
  /\ j.work <= n + 1

\* What it may count on while no other's writes can move one of them.
AloneFine(j, R, ps, pn, pg, g, bl) ==
  /\ Whole(g, R)
  /\ ByWork(j) => \A r \in Releases : g[r] = j.work => r \in R
  /\ j.pc = "write" => j.read = AnswerIn(ps, pn, g, Least(j.todo))
  /\ j.pc \in {"pinByHand", "autoPin"} => j.read = pg[j.release]
  /\ j.pc = "autoPin" => pn[j.release] = None /\ j.release \notin bl
  /\ j.pc = "purge" => \A r \in j.todo : g[r] = j.work

\* The rows: no two are of one moment, an account has one for a release.
RowsFine(ps, n) ==
  /\ ps \subseteq ProposalSet /\ IsFiniteSet(ps)
  /\ \A p \in ps : p.at <= n
  /\ \A p, q \in ps : p.at = q.at => p = q
  /\ \A p, q \in ps : p.by # None /\ p.by = q.by /\ p.release = q.release => p = q

TablesFine(ps, pg, pn, bl, ca, g, tr, n) ==
  /\ RowsFine(ps, n)
  /\ pg \in [Releases -> Shown] /\ pn \in [Releases -> {None} \cup [shows : Shown, hand : BOOLEAN]]
  /\ bl \subseteq Releases /\ ca \subseteq Releases /\ tr \subseteq Accounts
  /\ g \in [Releases -> 0..(MaxJobs + 1)] /\ \A r \in Releases : g[r] <= n + 1

\* Of the jobs jb: who may be at it beside whom, and what is in doubt.
Apart(jb, x, y) == jb[x].pc # "idle" /\ jb[y].pc # "idle" /\ jb[x].alone => jb[x].reach \cap jb[y].reach = {}
Doubts(j, g, un) == ~ j.alone => \A r \in j.reach : PoolIn(g, r) \subseteq un
Settled(r, jb, ps, pn, pg, g) ==
  pg[r] = AnswerIn(ps, pn, g, r) \/ \E h \in Jobs : jb[h].pc # "idle" /\ jb[h].alone /\ r \in Owes(jb[h], g)

JobHolds(j, ps, pn, pg, g, bl, un, n) ==
  IF j.pc = "idle" THEN j = Idle
  ELSE /\ JobFine(j, j.reach, n) /\ Doubts(j, g, un)
       /\ j.alone => AloneFine(j, j.reach, ps, pn, pg, g, bl)

MetadataInv ==
  /\ TablesFine(proposals, page, pin, blocked, carriers, group, trusted, begun)
  /\ job \in [Jobs -> JobState] /\ begun \in 0..MaxJobs
  /\ unsure \subseteq Releases /\ passedOver \subseteq Releases
  /\ \A h \in Jobs : JobHolds(job[h], proposals, pin, page, group, blocked, unsure, begun)
  /\ \A h \in Jobs : \A x \in Jobs \ {h} : Apart(job, h, x)
  /\ \A r \in Releases \ (unsure \cup passedOver) : Settled(r, job, proposals, pin, page, group)

-----------------------------------------------------------------------------
LEMMA PoolIs ==
  ASSUME NEW r \in Releases
  PROVE  Pool(r) = PoolIn(group, r)
  BY DEF Pool, Members, PoolIn

LEMMA AnswerIs ==
  ASSUME NEW r \in Releases
  PROVE  Answer(r) = AnswerIn(proposals, pin, group, r)
  BY PoolIs DEF Answer, AnswerIn, ProposalsFor

LEMMA Rereads ==
  ASSUME MetadataInv, NEW h \in Jobs
  PROVE  /\ job[h] \in JobState
         /\ JobHolds(job[h], proposals, pin, page, group, blocked, unsure, begun)
         /\ \A x \in Jobs \ {h} : Apart(job, h, x) /\ Apart(job, x, h)
  BY DEF MetadataInv

LEMMA PoolsAre ==
  ASSUME NEW g, NEW r \in Releases
  PROVE  /\ r \in PoolIn(g, r) /\ PoolIn(g, r) \subseteq Releases
         /\ \A s \in PoolIn(g, r) : PoolIn(g, s) = PoolIn(g, r)
         /\ Whole(g, PoolIn(g, r))
  BY DEF PoolIn, Whole

-----------------------------------------------------------------------------
\* A step that changes the tables for the releases of R.
Confined(R) ==
  /\ {p \in proposals : p.release \notin R} = {p \in proposals' : p.release \notin R}
  /\ \A r \in Releases \ R : /\ page'[r] = page[r] /\ pin'[r] = pin[r] /\ group'[r] = group[r]
                             /\ r \in blocked' <=> r \in blocked
  /\ group' # group => Whole(group, R) /\ Whole(group', R)

\* Whole works beside those are as they were.
LEMMA Beside ==
  ASSUME NEW R \in SUBSET Releases, NEW S \in SUBSET Releases, Confined(R), Whole(group, S), S \cap R = {}
  PROVE  /\ Whole(group', S)
         /\ \A r \in S : /\ PoolIn(group', r) = PoolIn(group, r) /\ page'[r] = page[r] /\ pin'[r] = pin[r]
                         /\ group'[r] = group[r] /\ (r \in blocked' <=> r \in blocked)
                         /\ AnswerIn(proposals', pin', group', r) = AnswerIn(proposals, pin, group, r)
  <1>1. ASSUME NEW r \in S
        PROVE  PoolIn(group', r) = PoolIn(group, r)
    <2>1. CASE group' = group
      BY <2>1
    <2>2. CASE group' # group
      <3>1. Whole(group, R) /\ Whole(group', R) /\ r \notin R
        BY <2>2 DEF Confined
      <3>2. \A s \in R : r \notin PoolIn(group, s) /\ r \notin PoolIn(group', s)
        BY <3>1 DEF Whole
      <3>3. \A s \in Releases \ R : group'[s] = group[s]
        BY DEF Confined
      <3>4. \A s \in R : s \notin PoolIn(group, r) /\ s \notin PoolIn(group', r)
        BY <3>2 DEF PoolIn
      <3> QED
        BY <3>1, <3>3, <3>4 DEF PoolIn
    <2> QED
      BY <2>1, <2>2
  <1>2. Whole(group', S)
    BY <1>1 DEF Whole
  <1>3. ASSUME NEW r \in S
        PROVE  AnswerIn(proposals', pin', group', r) = AnswerIn(proposals, pin, group, r)
    <2>1. PICK P : P = PoolIn(group, r)
      OBVIOUS
    <2>2. P \subseteq S /\ P \cap R = {}
      BY <2>1 DEF Whole
    <2>3. {p \in proposals' : p.release \in P} = {p \in proposals : p.release \in P}
      BY <2>2 DEF Confined
    <2>4. pin'[r] = pin[r]
      BY DEF Confined
    <2>5. PoolIn(group', r) = P
      BY <1>1, <2>1
    <2> QED
      BY <2>1, <2>3, <2>4, <2>5 DEF AnswerIn
  <1> QED
    BY <1>1, <1>2, <1>3 DEF Confined

LEMMA FirstIs ==
  ASSUME NEW S \in SUBSET Releases, S # {}
  PROVE  Least(S) \in S
  <1>1. \E r \in S : \A q \in S : r <= q
    BY LeastIs, MetadataConstants
  <1> QED
    BY <1>1 DEF Least

LEMMA OwesWithin ==
  ASSUME NEW j, NEW ps, NEW pn, NEW pg, NEW g, NEW bl, NEW n, NEW R,
         JobFine(j, R, n), AloneFine(j, R, ps, pn, pg, g, bl)
  PROVE  Owes(j, g) \subseteq R
  BY DEF JobFine, AloneFine, Owes, Whole

\* A step of one job, which goes on as k: the others keep what they have read
\* and planned, and where they meet its writes it is in doubt.
Goes(h, k, R) ==
  /\ job' \in [Jobs -> JobState] /\ job'[h] = k /\ (k.pc # "idle" => k.reach = R)
  /\ \A x \in Jobs \ {h} :
       /\ \/ job'[x] = job[x]
          \/ /\ job'[x] = [job[x] EXCEPT !.alone = FALSE] /\ job[x].pc # "idle"
             /\ job[x].reach \subseteq unsure' /\ R \subseteq unsure'
       /\ job'[x].pc # "idle" /\ job'[x].alone => job[x].reach \cap R = {}
       /\ k.pc # "idle" /\ k.alone /\ job[x].pc # "idle" => job[x].reach \cap R = {}
       /\ group' # group /\ job[x].pc # "idle" /\ job[x].reach \cap R # {} => R \subseteq unsure'
  /\ unsure' \subseteq Releases
  /\ \/ unsure \subseteq unsure'
     \/ /\ group' = group /\ Whole(group, R) /\ unsure \ unsure' \subseteq R
        /\ \A x \in Jobs \ {h} : job[x].pc # "idle" => job[x].reach \cap R = {}

\* A release gets no work but a new one, or one of R's.
Regroups(R) ==
  \A r \in R : group'[r] = 0 \/ group'[r] > begun + 1 \/ \E s \in R : group[s] = group'[r]

\* Each page shows its answer, or the job is to see to it, or nothing came up.
Answers(h, k) ==
  \A r \in Releases \ (unsure' \cup passedOver') :
    \/ page'[r] = AnswerIn(proposals', pin', group', r)
    \/ k.pc # "idle" /\ k.alone /\ r \in Owes(k, group')
    \/ /\ r \notin unsure /\ r \notin passedOver
       /\ ~ (job[h].pc # "idle" /\ job[h].alone /\ r \in Owes(job[h], group))
       /\ page[r] = AnswerIn(proposals, pin, group, r) => page'[r] = AnswerIn(proposals', pin', group', r)

LEMMA OthersHold ==
  ASSUME MetadataInv, NEW h \in Jobs, NEW k \in JobState, NEW R \in SUBSET Releases,
         Goes(h, k, R), Confined(R), Regroups(R), begun' \in Nat, begun <= begun', NEW x \in Jobs \ {h}
  PROVE  JobHolds(job'[x], proposals', pin', page', group', blocked', unsure', begun')
  <1>1. PICK j \in JobState : j = job[x]
    BY Rereads
  <1>2. JobHolds(j, proposals, pin, page, group, blocked, unsure, begun)
    BY <1>1, Rereads
  <1>3. PICK k2 \in JobState : k2 = job'[x]
    BY DEF Goes
  <1>4. k2 = j \/ (k2 = [j EXCEPT !.alone = FALSE] /\ j.pc # "idle" /\ j.reach \subseteq unsure' /\ R \subseteq unsure')
    BY <1>1, <1>3 DEF Goes
  <1>5. CASE j.pc = "idle"
    BY <1>2, <1>3, <1>4, <1>5 DEF JobHolds
  <1>6. CASE j.pc # "idle"
    <2>1. /\ JobFine(j, j.reach, begun) /\ Doubts(j, group, unsure)
          /\ j.alone => AloneFine(j, j.reach, proposals, pin, page, group, blocked)
      BY <1>2, <1>6 DEF JobHolds
    <2>2. /\ k2.pc = j.pc /\ k2.plan = j.plan /\ k2.release = j.release /\ k2.todo = j.todo /\ k2.work = j.work
          /\ k2.read = j.read /\ k2.reach = j.reach
      BY <1>4 DEF JobState
    <2>3. begun \in Nat /\ j.work \in Nat
      BY DEF MetadataInv, JobState
    <2>4. JobFine(k2, k2.reach, begun')
      BY <2>1, <2>2, <2>3 DEF JobFine, InPhase, ByWork
    <2>5. j.reach \in SUBSET Releases
      BY DEF JobState
    <2>6. /\ group' # group => R \cap j.reach = {} \/ R \subseteq unsure'
          /\ \/ unsure \subseteq unsure'
             \/ group' = group /\ Whole(group, R) /\ unsure \ unsure' \subseteq R /\ j.reach \cap R = {}
      BY <1>1, <1>6 DEF Goes
    <2>7. ASSUME NEW r \in j.reach, NEW Q, PoolIn(group, r) \subseteq Q, Q \subseteq unsure'
          PROVE  PoolIn(group', r) \subseteq unsure'
      <3>1. CASE group' = group
        BY <2>7, <3>1
      <3>2. CASE group' # group
        <4>1. Whole(group, R) /\ Whole(group', R)
          BY <3>2 DEF Confined
        <4>2. CASE r \in R
          BY <2>6, <3>2, <4>1, <4>2 DEF Whole
        <4>3. CASE r \notin R
          <5>1. PICK S \in SUBSET Releases : S = Releases \ R
            OBVIOUS
          <5>2. Whole(group, S) /\ S \cap R = {}
            BY <4>1, <5>1 DEF Whole, PoolIn
          <5>3. PoolIn(group', r) = PoolIn(group, r)
            BY <2>5, <4>3, <5>1, <5>2, Beside
          <5> QED
            BY <2>7, <5>3
        <4> QED
          BY <4>2, <4>3
      <3> QED
        BY <3>1, <3>2
    <2>8. Doubts(k2, group', unsure')
      <3>1. SUFFICES ASSUME ~ k2.alone, NEW r \in j.reach
                     PROVE  PoolIn(group', r) \subseteq unsure'
        BY <2>2 DEF Doubts
      <3>2. CASE ~ j.alone
        <4>1. PoolIn(group, r) \subseteq unsure
          BY <2>1, <3>2 DEF Doubts
        <4>2. CASE unsure \subseteq unsure'
          BY <2>7, <4>1, <4>2
        <4>3. CASE ~ (unsure \subseteq unsure')
          <5>1. group' = group /\ Whole(group, R) /\ unsure \ unsure' \subseteq R /\ j.reach \cap R = {}
            BY <2>6, <4>3
          <5>2. \A q \in PoolIn(group, r) : r \in PoolIn(group, q)
            BY <2>5 DEF PoolIn
          <5>3. \A q \in PoolIn(group, r) : q \notin R
            BY <5>1, <5>2 DEF Whole
          <5> QED
            BY <4>1, <5>1, <5>3
        <4> QED
          BY <4>2, <4>3
      <3>3. CASE j.alone
        <4>1. j.reach \subseteq unsure'
          BY <1>4, <3>1, <3>3
        <4>2. PoolIn(group, r) \subseteq j.reach
          BY <2>1, <3>3 DEF AloneFine, Whole
        <4> QED
          BY <2>7, <4>1, <4>2
      <3> QED
        BY <3>2, <3>3
    <2>9. k2.alone => AloneFine(k2, k2.reach, proposals', pin', page', group', blocked')
      <3>1. SUFFICES ASSUME k2.alone
                     PROVE  AloneFine(k2, k2.reach, proposals', pin', page', group', blocked')
        OBVIOUS
      <3>2. k2 = j /\ j.reach \cap R = {}
        BY <1>1, <1>3, <1>4, <1>6, <2>2, <3>1 DEF Goes, JobState
      <3>3. AloneFine(j, j.reach, proposals, pin, page, group, blocked)
        BY <2>1, <3>1, <3>2
      <3>4. Whole(group, j.reach)
        BY <3>3 DEF AloneFine
      <3>5. /\ Whole(group', j.reach)
            /\ \A r \in j.reach : /\ page'[r] = page[r] /\ pin'[r] = pin[r] /\ group'[r] = group[r]
                                  /\ r \in blocked' <=> r \in blocked
                                  /\ AnswerIn(proposals', pin', group', r) = AnswerIn(proposals, pin, group, r)
        BY <2>5, <3>2, <3>4, Beside
      <3>6. j.pc = "write" => Least(j.todo) \in j.reach
        BY <2>1, <2>5, FirstIs DEF JobFine
      <3>7. ByWork(j) => \A r \in Releases : group'[r] = j.work => r \in j.reach
        <4>1. SUFFICES ASSUME ByWork(j), NEW r \in Releases, group'[r] = j.work
                       PROVE  r \in j.reach
          OBVIOUS
        <4>2. \A s \in Releases : group[s] = j.work => s \in j.reach
          BY <3>3, <4>1 DEF AloneFine
        <4>3. CASE r \notin R
          BY <4>1, <4>2, <4>3 DEF Confined
        <4>4. CASE r \in R
          <5>1. j.work # 0 /\ j.work <= begun + 1
            BY <2>1, <4>1 DEF JobFine
          <5>2. \E s \in R : group[s] = j.work
            BY <2>3, <4>1, <4>4, <5>1 DEF Regroups
          <5> QED
            BY <3>2, <4>2, <5>2
        <4> QED
          BY <4>3, <4>4
      <3>8. j.release \in j.reach /\ j.todo \subseteq j.reach
        BY <2>1 DEF JobFine
      <3> QED
        BY <3>2, <3>3, <3>5, <3>6, <3>7, <3>8 DEF AloneFine
    <2> QED
      BY <1>3, <1>6, <2>2, <2>4, <2>8, <2>9 DEF JobHolds
  <1> QED
    BY <1>5, <1>6

LEMMA StillSettled ==
  ASSUME MetadataInv, NEW h \in Jobs, NEW k \in JobState, NEW R \in SUBSET Releases,
         Goes(h, k, R), Confined(R), Answers(h, k), NEW r \in Releases \ (unsure' \cup passedOver')
  PROVE  Settled(r, job', proposals', pin', page', group')
  <1>0. job'[h] = k
    BY DEF Goes
  <1>1. CASE page'[r] = AnswerIn(proposals', pin', group', r)
    BY <1>1 DEF Settled
  <1>2. CASE k.pc # "idle" /\ k.alone /\ r \in Owes(k, group')
    BY <1>0, <1>2 DEF Settled
  <1>3. CASE /\ r \notin unsure /\ r \notin passedOver
             /\ ~ (job[h].pc # "idle" /\ job[h].alone /\ r \in Owes(job[h], group))
             /\ page[r] = AnswerIn(proposals, pin, group, r) => page'[r] = AnswerIn(proposals', pin', group', r)
             /\ page'[r] # AnswerIn(proposals', pin', group', r)
    <2>1. Settled(r, job, proposals, pin, page, group)
      BY <1>3 DEF MetadataInv
    <2>2. PICK x \in Jobs \ {h} : job[x].pc # "idle" /\ job[x].alone /\ r \in Owes(job[x], group)
      BY <1>3, <2>1 DEF Settled
    <2>3. PICK j \in JobState : j = job[x]
      BY Rereads
    <2>4. JobFine(j, j.reach, begun) /\ AloneFine(j, j.reach, proposals, pin, page, group, blocked)
      BY <2>2, <2>3, Rereads DEF JobHolds
    <2>5. r \in j.reach
      BY <2>2, <2>3, <2>4, OwesWithin
    <2>6. job'[x] = j
      BY <2>3, <2>5 DEF Goes
    <2>7. j.reach \cap R = {} /\ j.reach \in SUBSET Releases /\ Whole(group, j.reach)
      BY <2>2, <2>3, <2>4, <2>6 DEF Goes, JobState, AloneFine
    <2>8. \A s \in j.reach : group'[s] = group[s] /\ PoolIn(group', s) = PoolIn(group, s)
      BY <2>7, Beside
    <2>9. j.release \in j.reach
      BY <2>4 DEF JobFine
    <2>10. r \in Owes(j, group')
      BY <2>2, <2>3, <2>5, <2>8, <2>9 DEF Owes
    <2> QED
      BY <2>2, <2>3, <2>6, <2>10 DEF Settled
  <1> QED
    BY <1>1, <1>2, <1>3 DEF Answers

\* What the tables and counters are after a step.
After ==
  /\ TablesFine(proposals', page', pin', blocked', carriers', group', trusted', begun')
  /\ begun' \in 0..MaxJobs /\ begun <= begun' /\ passedOver' \subseteq Releases

LEMMA Steps ==
  ASSUME MetadataInv, NEW h \in Jobs, NEW k \in JobState, NEW R \in SUBSET Releases,
         Goes(h, k, R), Confined(R), Regroups(R), After, Answers(h, k),
         JobHolds(k, proposals', pin', page', group', blocked', unsure', begun')
  PROVE  MetadataInv'
  <1>1. job'[h] = k /\ job' \in [Jobs -> JobState] /\ unsure' \subseteq Releases /\ begun' \in Nat
    BY DEF Goes, After
  <1>2. \A x \in Jobs : JobHolds(job'[x], proposals', pin', page', group', blocked', unsure', begun')
    <2>1. SUFFICES ASSUME NEW x \in Jobs, x # h
                   PROVE  JobHolds(job'[x], proposals', pin', page', group', blocked', unsure', begun')
      BY <1>1
    <2> QED
      BY <1>1, <2>1, OthersHold DEF After
  <1>3. \A r \in Releases \ (unsure' \cup passedOver') : Settled(r, job', proposals', pin', page', group')
    BY StillSettled
  <1>4. ASSUME NEW x \in Jobs, NEW y \in Jobs \ {x}
        PROVE  Apart(job', x, y)
    <2>1. CASE x = h
      <3>1. /\ job'[y].reach = job[y].reach /\ job'[y].pc = job[y].pc
            /\ k.pc # "idle" /\ k.alone /\ job[y].pc # "idle" => job[y].reach \cap R = {}
        BY <2>1, Rereads DEF Goes, JobState
      <3> QED
        BY <1>1, <2>1, <3>1 DEF Apart, Goes
    <2>2. CASE y = h
      <3>1. /\ job'[x].reach = job[x].reach
            /\ job'[x].pc # "idle" /\ job'[x].alone => job[x].reach \cap R = {}
        BY <2>2, Rereads DEF Goes, JobState
      <3> QED
        BY <1>1, <2>2, <3>1 DEF Apart, Goes
    <2>3. CASE x # h /\ y # h
      <3>1. /\ job'[x].reach = job[x].reach /\ job'[x].pc = job[x].pc /\ (job'[x].alone => job[x].alone)
            /\ job'[y].reach = job[y].reach /\ job'[y].pc = job[y].pc
        BY <2>3, Rereads DEF Goes, JobState
      <3>2. Apart(job, x, y)
        BY Rereads
      <3> QED
        BY <3>1, <3>2 DEF Apart
    <2> QED
      BY <2>1, <2>2, <2>3
  <1>5. (\A x \in Jobs : JobHolds(job[x], proposals, pin, page, group, blocked, unsure, begun))'
    BY <1>2
  <1>6. (\A x \in Jobs : \A y \in Jobs \ {x} : Apart(job, x, y))'
    BY <1>4
  <1>7. (\A r \in Releases \ (unsure \cup passedOver) : Settled(r, job, proposals, pin, page, group))'
    BY <1>3
  <1> QED
    BY <1>1, <1>5, <1>6, <1>7 DEF MetadataInv, After


-----------------------------------------------------------------------------
LEMMA IdleIs ==
  /\ Idle \in JobState /\ Idle.pc = "idle" /\ Idle.todo = {} /\ Idle.reach = {} /\ Idle.alone = FALSE
  <1>1. Empty \in Shown
    BY DEF Empty, Shown
  <1> QED
    BY <1>1 DEF Idle, JobState, Plans

LEMMA TablesAre ==
  ASSUME MetadataInv
  PROVE  /\ TablesFine(proposals, page, pin, blocked, carriers, group, trusted, begun)
         /\ begun \in 0..MaxJobs /\ begun \in Nat /\ passedOver \subseteq Releases /\ unsure \subseteq Releases
         /\ job \in [Jobs -> JobState]
  BY MetadataConstants DEF MetadataInv

\* A job goes on with the reach it has; the releases of S are seen to.
LEMMA MoveHolds ==
  ASSUME MetadataInv, NEW h \in Jobs, NEW j \in JobState, j = job[h], j.pc # "idle", NEW k \in JobState,
         k = Idle \/ (k.pc # "idle" /\ k.reach = j.reach /\ k.alone = j.alone),
         job' = [job EXCEPT ![h] = k], begun' = begun, group' = group, After, Confined(j.reach),
         NEW S \in SUBSET Releases, S \subseteq j.reach, passedOver' = passedOver \ S,
         unsure' = (IF j.alone THEN unsure \ S ELSE unsure),
         k # Idle => JobFine(k, j.reach, begun),
         j.alone /\ k # Idle => AloneFine(k, j.reach, proposals', pin', page', group, blocked'),
         j.alone => \A r \in j.reach :
           /\ r \in S => page'[r] = AnswerIn(proposals', pin', group, r)
           /\ r \notin S /\ (r \in Owes(j, group) \/ page[r] = AnswerIn(proposals, pin, group, r)) =>
                page'[r] = AnswerIn(proposals', pin', group, r) \/ (k # Idle /\ r \in Owes(k, group))
  PROVE  MetadataInv'
  <1>1. PICK R \in SUBSET Releases : R = j.reach
    BY DEF JobState
  <1>2. /\ JobFine(j, R, begun) /\ Doubts(j, group, unsure)
        /\ j.alone => AloneFine(j, R, proposals, pin, page, group, blocked)
    BY <1>1, Rereads DEF JobHolds
  <1>3. k = Idle <=> k.pc = "idle"
    BY IdleIs
  <1>4. job' \in [Jobs -> JobState] /\ job'[h] = k /\ \A x \in Jobs \ {h} : job'[x] = job[x]
    BY TablesAre
  <1>5. \A x \in Jobs \ {h} : /\ job[x].pc # "idle" /\ job[x].alone => job[x].reach \cap R = {}
                              /\ job[x].pc # "idle" /\ j.alone => job[x].reach \cap R = {}
    BY <1>1, Rereads DEF Apart
  <1>6. j.alone => Whole(group, R)
    BY <1>2 DEF AloneFine
  <1>7. Goes(h, k, R)
    <2>1. unsure' \subseteq Releases
      BY TablesAre
    <2>2. \/ unsure \subseteq unsure'
          \/ /\ group' = group /\ Whole(group, R) /\ unsure \ unsure' \subseteq R
             /\ \A x \in Jobs \ {h} : job[x].pc # "idle" => job[x].reach \cap R = {}
      BY <1>1, <1>5, <1>6
    <2> QED
      BY <1>1, <1>3, <1>4, <1>5, <2>1, <2>2 DEF Goes
  <1>8. Regroups(R)
    BY DEF Regroups
  <1>9. JobHolds(k, proposals', pin', page', group', blocked', unsure', begun')
    <2>1. k # Idle => Doubts(k, group, unsure')
      BY <1>2 DEF Doubts
    <2> QED
      BY <1>1, <1>3, <2>1 DEF JobHolds
  <1>10. Answers(h, k)
    <2>1. SUFFICES ASSUME NEW r \in Releases, r \notin unsure', r \notin passedOver',
                          page'[r] # AnswerIn(proposals', pin', group', r),
                          ~ (k.pc # "idle" /\ k.alone /\ r \in Owes(k, group'))
                   PROVE  /\ r \notin unsure /\ r \notin passedOver
                          /\ ~ (j.pc # "idle" /\ j.alone /\ r \in Owes(j, group))
                          /\ page[r] # AnswerIn(proposals, pin, group, r)
      BY DEF Answers
    <2>2. CASE j.alone /\ r \in R
      BY <1>1, <1>3, <2>1, <2>2
    <2>3. CASE j.alone /\ r \notin R
      <3>1. PICK T \in SUBSET Releases : T = Releases \ R
        OBVIOUS
      <3>2. Whole(group, T) /\ T \cap R = {}
        BY <1>6, <2>3, <3>1 DEF Whole, PoolIn
      <3>3. /\ page'[r] = page[r]
            /\ AnswerIn(proposals', pin', group', r) = AnswerIn(proposals, pin, group, r)
        BY <1>1, <2>3, <3>1, <3>2, Beside
      <3>4. Owes(j, group) \subseteq R
        BY <1>2, <2>3, OwesWithin
      <3> QED
        BY <1>1, <2>1, <2>3, <3>3, <3>4
    <2>4. CASE ~ j.alone
      <3>1. \A q \in R : r \notin PoolIn(group, q)
        BY <1>1, <1>2, <2>1, <2>4 DEF Doubts
      <3>2. PICK T \in SUBSET Releases : T = PoolIn(group, r)
        BY PoolsAre
      <3>3. r \in T /\ Whole(group, T)
        BY <3>2, PoolsAre
      <3>4. T \cap R = {}
        BY <3>1, <3>2 DEF PoolIn
      <3>5. /\ page'[r] = page[r]
            /\ AnswerIn(proposals', pin', group', r) = AnswerIn(proposals, pin, group, r)
        BY <1>1, <3>3, <3>4, Beside
      <3>6. r \notin S
        BY <1>1, <3>3, <3>4
      <3> QED
        BY <2>1, <2>4, <3>5, <3>6
    <2> QED
      BY <2>2, <2>3, <2>4
  <1> QED
    BY <1>1, <1>7, <1>8, <1>9, <1>10, Steps

\* What Reaches makes of the jobs, k being what it makes of the one that goes on.
Reached(h, j, R, k) ==
  /\ k.pc = j.pc /\ k.release = j.release /\ k.plan = j.plan /\ k.todo = j.todo /\ k.work = j.work
  /\ k.read = j.read /\ k.reach = R /\ (k.alone => j.alone)
  /\ job' \in [Jobs -> JobState] /\ job'[h] = k
  /\ \A x \in Jobs \ {h} :
       /\ \/ job'[x] = job[x]
          \/ /\ job'[x] = [job[x] EXCEPT !.alone = FALSE] /\ job[x].pc # "idle"
             /\ job[x].reach \subseteq unsure' /\ R \subseteq unsure' /\ ~ k.alone
       /\ job'[x].pc # "idle" /\ job'[x].alone => job[x].reach \cap R = {}
       /\ k.alone /\ job[x].pc # "idle" => job[x].reach \cap R = {}
       /\ job[x].pc # "idle" /\ job[x].reach \cap R # {} => R \subseteq unsure'
  /\ unsure' \subseteq Releases /\ unsure \subseteq unsure'
  /\ ~ k.alone => R \subseteq unsure'
  /\ j.alone /\ (\A x \in Jobs \ {h} : job[x].pc # "idle" => job[x].reach \cap R = {}) =>
       k.alone /\ unsure' = unsure /\ \A x \in Jobs \ {h} : job'[x] = job[x]

LEMMA SameJob ==
  ASSUME NEW i \in JobState, NEW k \in JobState, i.pc = k.pc, i.release = k.release, i.plan = k.plan,
         i.todo = k.todo, i.work = k.work, i.read = k.read, i.reach = k.reach, i.alone = k.alone
  PROVE  i = k
  BY DEF JobState

LEMMA ReachesIs ==
  ASSUME MetadataInv, NEW h \in Jobs, NEW j \in JobState, NEW R \in SUBSET Releases, Reaches(h, j, R)
  PROVE  \E k \in JobState : Reached(h, j, R, k)
  <1>1. PICK met : met = {x \in Running \ {h} : job[x].reach \cap R # {}}
    OBVIOUS
  <1>2. PICK alone \in BOOLEAN : alone = (j.alone /\ met = {})
    BY DEF JobState
  <1>3. PICK k : k = [j EXCEPT !.reach = R, !.alone = alone]
    OBVIOUS
  <1>4. k \in JobState
    BY <1>3 DEF JobState
  <1>5. /\ k.pc = j.pc /\ k.release = j.release /\ k.plan = j.plan /\ k.todo = j.todo /\ k.work = j.work
        /\ k.read = j.read /\ k.reach = R /\ k.alone = alone
    BY <1>3 DEF JobState
  <1>6. /\ job' = [x \in Jobs |-> IF x = h THEN k ELSE IF x \in met THEN [job[x] EXCEPT !.alone = FALSE] ELSE job[x]]
        /\ unsure' = (IF alone THEN unsure ELSE unsure \cup R \cup UNION {job[x].reach : x \in met})
    BY <1>1, <1>2, <1>3 DEF Reaches
  <1>7. \A x \in Jobs : job[x] \in JobState /\ [job[x] EXCEPT !.alone = FALSE] \in JobState
    BY Rereads DEF JobState
  <1>8. job' \in [Jobs -> JobState] /\ job'[h] = k
    BY <1>4, <1>6, <1>7
  <1>9. \A x \in Jobs \ {h} : job'[x] = IF x \in met THEN [job[x] EXCEPT !.alone = FALSE] ELSE job[x]
    BY <1>6
  <1>10. met \subseteq Jobs \ {h} /\ \A x \in Jobs \ {h} : x \in met <=> job[x].pc # "idle" /\ job[x].reach \cap R # {}
    BY <1>1 DEF Running
  <1>11. \A x \in met : job[x].reach \subseteq unsure' /\ R \subseteq unsure' /\ ~ alone
    BY <1>2, <1>6
  <1>12. \A x \in Jobs \ {h} : /\ x \in met => job'[x].alone = FALSE
                               /\ job'[x].pc = job[x].pc
    <2>1. SUFFICES ASSUME NEW x \in Jobs \ {h}
                   PROVE  (x \in met => job'[x].alone = FALSE) /\ job'[x].pc = job[x].pc
      OBVIOUS
    <2>2. PICK i \in JobState : i = job[x]
      BY <1>7
    <2>3. [i EXCEPT !.alone = FALSE].pc = i.pc /\ [i EXCEPT !.alone = FALSE].alone = FALSE
      BY DEF JobState
    <2>4. job'[x] = i \/ job'[x] = [i EXCEPT !.alone = FALSE]
      BY <1>9, <2>2
    <2>5. x \in met => job'[x] = [i EXCEPT !.alone = FALSE]
      BY <1>9, <2>2
    <2> QED
      BY <2>2, <2>3, <2>4, <2>5
  <1>13. unsure' \subseteq Releases /\ unsure \subseteq unsure'
    <2>1. \A x \in met : job[x].reach \subseteq Releases
      BY <1>7, <1>10 DEF JobState
    <2>2. UNION {job[x].reach : x \in met} \subseteq Releases
      BY <2>1
    <2> QED
      BY <1>6, <2>2, TablesAre
  <1>14. ~ alone => R \subseteq unsure'
    BY <1>6
  <1>15. j.alone /\ (\A x \in Jobs \ {h} : job[x].pc # "idle" => job[x].reach \cap R = {}) =>
           alone /\ unsure' = unsure /\ \A x \in Jobs \ {h} : job'[x] = job[x]
    <2>1. SUFFICES ASSUME j.alone, \A x \in Jobs \ {h} : job[x].pc # "idle" => job[x].reach \cap R = {}
                   PROVE  alone /\ unsure' = unsure /\ \A x \in Jobs \ {h} : job'[x] = job[x]
      OBVIOUS
    <2>2. met = {}
      BY <1>10, <2>1
    <2> QED
      BY <1>2, <1>6, <1>9, <2>1, <2>2
  <1>16. \A x \in Jobs \ {h} :
           /\ \/ job'[x] = job[x]
              \/ /\ job'[x] = [job[x] EXCEPT !.alone = FALSE] /\ job[x].pc # "idle"
                 /\ job[x].reach \subseteq unsure' /\ R \subseteq unsure' /\ ~ k.alone
           /\ job'[x].pc # "idle" /\ job'[x].alone => job[x].reach \cap R = {}
           /\ k.alone /\ job[x].pc # "idle" => job[x].reach \cap R = {}
           /\ job[x].pc # "idle" /\ job[x].reach \cap R # {} => R \subseteq unsure'
    <2>1. SUFFICES ASSUME NEW x \in Jobs \ {h}
                   PROVE  /\ \/ job'[x] = job[x]
                             \/ /\ job'[x] = [job[x] EXCEPT !.alone = FALSE] /\ job[x].pc # "idle"
                                /\ job[x].reach \subseteq unsure' /\ R \subseteq unsure' /\ ~ k.alone
                          /\ job'[x].pc # "idle" /\ job'[x].alone => job[x].reach \cap R = {}
                          /\ k.alone /\ job[x].pc # "idle" => job[x].reach \cap R = {}
                          /\ job[x].pc # "idle" /\ job[x].reach \cap R # {} => R \subseteq unsure'
      OBVIOUS
    <2>2. CASE x \in met
      BY <1>5, <1>9, <1>10, <1>11, <1>12, <2>2
    <2>3. CASE x \notin met
      BY <1>5, <1>9, <1>10, <1>12, <2>3
    <2> QED
      BY <2>2, <2>3
  <1> QED
    BY <1>2, <1>4, <1>5, <1>8, <1>13, <1>14, <1>15, <1>16 DEF Reached

LEMMA BeginHolds ==
  ASSUME MetadataInv, NEW h \in Jobs, NEW j \in JobState, NEW R \in SUBSET Releases, Begin(h, j, R), j.pc # "idle",
         After, Confined(R), Regroups(R), Whole(group, R), Whole(group', R), passedOver \subseteq passedOver',
         JobFine(j, R, begun'), AloneFine(j, R, proposals', pin', page', group', blocked'),
         \A r \in R \ passedOver' :
           \/ r \in Owes(j, group')
           \/ page[r] = AnswerIn(proposals, pin, group, r) => page'[r] = AnswerIn(proposals', pin', group', r)
  PROVE  MetadataInv'
  <1>1. PICK i : i = [j EXCEPT !.alone = TRUE]
    OBVIOUS
  <1>2. /\ i \in JobState /\ i.pc = j.pc /\ i.release = j.release /\ i.plan = j.plan /\ i.todo = j.todo
        /\ i.work = j.work /\ i.read = j.read
    BY <1>1 DEF JobState
  <1>3. Reaches(h, i, R) /\ job[h].pc = "idle"
    BY <1>1 DEF Begin, Running
  <1>r. PICK k \in JobState : Reached(h, i, R, k)
    BY <1>2, <1>3, ReachesIs
  <1>4. /\ k.pc = i.pc /\ k.release = i.release /\ k.plan = i.plan /\ k.todo = i.todo /\ k.work = i.work
        /\ k.read = i.read /\ k.reach = R /\ (k.alone => i.alone)
        /\ job' \in [Jobs -> JobState] /\ job'[h] = k
        /\ \A x \in Jobs \ {h} :
             /\ \/ job'[x] = job[x]
                \/ /\ job'[x] = [job[x] EXCEPT !.alone = FALSE] /\ job[x].pc # "idle"
                   /\ job[x].reach \subseteq unsure' /\ R \subseteq unsure' /\ ~ k.alone
             /\ job'[x].pc # "idle" /\ job'[x].alone => job[x].reach \cap R = {}
             /\ k.alone /\ job[x].pc # "idle" => job[x].reach \cap R = {}
             /\ job[x].pc # "idle" /\ job[x].reach \cap R # {} => R \subseteq unsure'
        /\ unsure' \subseteq Releases /\ unsure \subseteq unsure'
        /\ ~ k.alone => R \subseteq unsure'
    BY <1>r DEF Reached
  <1>5. Goes(h, k, R)
    BY <1>4 DEF Goes
  <1>6. JobFine(k, R, begun')
    BY <1>2, <1>4 DEF JobFine, InPhase, ByWork
  <1>7. AloneFine(k, R, proposals', pin', page', group', blocked')
    BY <1>2, <1>4 DEF AloneFine, ByWork
  <1>8. Owes(k, group') = Owes(j, group')
    BY <1>2, <1>4 DEF Owes, ByWork
  <1>9. Doubts(k, group', unsure')
    BY <1>4 DEF Doubts, Whole
  <1>10. JobHolds(k, proposals', pin', page', group', blocked', unsure', begun')
    BY <1>2, <1>4, <1>6, <1>7, <1>9 DEF JobHolds
  <1>11. Answers(h, k)
    <2>1. SUFFICES ASSUME NEW r \in Releases, r \notin unsure', r \notin passedOver',
                          page'[r] # AnswerIn(proposals', pin', group', r),
                          ~ (k.pc # "idle" /\ k.alone /\ r \in Owes(k, group'))
                   PROVE  /\ r \notin unsure /\ r \notin passedOver
                          /\ ~ (job[h].pc # "idle" /\ job[h].alone /\ r \in Owes(job[h], group))
                          /\ page[r] # AnswerIn(proposals, pin, group, r)
      BY DEF Answers
    <2>2. CASE r \in R
      BY <1>2, <1>3, <1>4, <1>8, <2>1, <2>2
    <2>3. CASE r \notin R
      <3>1. PICK T \in SUBSET Releases : T = Releases \ R
        OBVIOUS
      <3>2. Whole(group, T) /\ T \cap R = {}
        BY <2>3, <3>1 DEF Whole, PoolIn
      <3>3. /\ page'[r] = page[r]
            /\ AnswerIn(proposals', pin', group', r) = AnswerIn(proposals, pin, group, r)
        BY <2>3, <3>1, <3>2, Beside
      <3> QED
        BY <1>3, <1>4, <2>1, <3>3
    <2> QED
      BY <2>2, <2>3
  <1> QED
    BY <1>5, <1>10, <1>11, Steps

\* A job finds which releases it is to derive.
LEMMA FindsHold ==
  ASSUME MetadataInv, NEW h \in Jobs, NEW j \in JobState, j = job[h], j.pc # "idle", NEW k \in JobState, Finds(h, k),
         k = Idle \/ (k.pc # "idle" /\ k.reach = j.reach /\ k.alone = j.alone), Whole(group, k.todo),
         k # Idle => JobFine(k, j.reach \cup k.todo, begun),
         j.alone /\ k # Idle => k.todo \subseteq j.reach /\ AloneFine(k, j.reach, proposals, pin, page, group, blocked),
         j.alone => \A r \in Owes(j, group) : k # Idle /\ r \in Owes(k, group)
  PROVE  MetadataInv'
  <1>1. UNCHANGED <<tables, begun, passedOver>>
    BY DEF Finds
  <1>2. After
    BY <1>1, TablesAre DEF After, tables
  <1>3. ASSUME NEW R
        PROVE  Confined(R) /\ Regroups(R)
    BY <1>1 DEF Confined, Regroups, tables
  <1>4. CASE /\ job' = [job EXCEPT ![h] = k] /\ unsure' = unsure
             /\ k # Idle => JobFine(k, j.reach, begun)
    <2>1. PICK S \in SUBSET Releases : S = {}
      OBVIOUS
    <2>2. passedOver' = passedOver \ S /\ unsure' = (IF j.alone THEN unsure \ S ELSE unsure) /\ S \subseteq j.reach
      BY <1>1, <1>4, <2>1
    <2>3. begun' = begun /\ group' = group
      BY <1>1 DEF tables
    <2>4. /\ j.alone /\ k # Idle => AloneFine(k, j.reach, proposals', pin', page', group, blocked')
          /\ j.alone => \A r \in j.reach :
               /\ r \in S => page'[r] = AnswerIn(proposals', pin', group, r)
               /\ r \notin S /\ (r \in Owes(j, group) \/ page[r] = AnswerIn(proposals, pin, group, r)) =>
                    page'[r] = AnswerIn(proposals', pin', group, r) \/ (k # Idle /\ r \in Owes(k, group))
      BY <1>1, <2>1 DEF tables
    <2> QED
      BY <1>2, <1>3, <1>4, <2>2, <2>3, <2>4, MoveHolds
  <1>5. CASE k = Idle
    <2>1. job' = [job EXCEPT ![h] = k] /\ unsure' = unsure
      BY <1>5, IdleIs DEF Finds
    <2> QED
      BY <1>4, <1>5, <2>1
  <1>6. CASE k # Idle
    <2>1. k.pc # "idle" /\ k.reach = j.reach /\ k.alone = j.alone
      BY <1>6
    <2>2. PICK R \in SUBSET Releases : R = j.reach \cup k.todo
      BY DEF JobState
    <2>3. Reaches(h, k, R)
      BY <2>1, <2>2 DEF Finds
    <2>r. PICK i \in JobState : Reached(h, k, R, i)
      BY <2>3, ReachesIs
    <2>4. /\ i.pc = k.pc /\ i.release = k.release /\ i.plan = k.plan /\ i.todo = k.todo /\ i.work = k.work
          /\ i.read = k.read /\ i.reach = R /\ (i.alone => k.alone)
          /\ job' \in [Jobs -> JobState] /\ job'[h] = i
          /\ \A x \in Jobs \ {h} :
               /\ \/ job'[x] = job[x]
                  \/ /\ job'[x] = [job[x] EXCEPT !.alone = FALSE] /\ job[x].pc # "idle"
                     /\ job[x].reach \subseteq unsure' /\ R \subseteq unsure' /\ ~ i.alone
               /\ job'[x].pc # "idle" /\ job'[x].alone => job[x].reach \cap R = {}
               /\ i.alone /\ job[x].pc # "idle" => job[x].reach \cap R = {}
               /\ job[x].pc # "idle" /\ job[x].reach \cap R # {} => R \subseteq unsure'
          /\ unsure' \subseteq Releases /\ unsure \subseteq unsure'
          /\ ~ i.alone => R \subseteq unsure'
          /\ k.alone /\ (\A x \in Jobs \ {h} : job[x].pc # "idle" => job[x].reach \cap R = {}) =>
               i.alone /\ unsure' = unsure /\ \A x \in Jobs \ {h} : job'[x] = job[x]
      BY <2>r DEF Reached
    <2>5. CASE j.alone
      <3>1. R = j.reach
        BY <1>6, <2>2, <2>5
      <3>2. \A x \in Jobs \ {h} : job[x].pc # "idle" => job[x].reach \cap R = {}
        BY <2>5, <3>1, Rereads DEF Apart
      <3>3. i.alone /\ unsure' = unsure /\ \A x \in Jobs \ {h} : job'[x] = job[x]
        BY <2>1, <2>4, <2>5, <3>2
      <3>4. i = k
        BY <2>1, <2>4, <2>5, <3>1, <3>3, SameJob
      <3>5. job' = [job EXCEPT ![h] = k]
        BY <2>4, <3>3, <3>4, TablesAre
      <3> QED
        BY <1>4, <1>6, <2>2, <3>1, <3>3, <3>5
    <2>6. CASE ~ j.alone
      <3>1. ~ i.alone
        BY <2>1, <2>4, <2>6
      <3>2. Goes(h, i, R)
        BY <2>4 DEF Goes
      <3>3. JobFine(i, R, begun)
        BY <1>6, <2>2, <2>4 DEF JobFine, InPhase, ByWork
      <3>4. Doubts(i, group, unsure')
        <4>1. Doubts(j, group, unsure)
          BY Rereads DEF JobHolds
        <4> QED
          BY <2>2, <2>4, <2>6, <3>1, <4>1 DEF Doubts, Whole
      <3>5. JobHolds(i, proposals', pin', page', group', blocked', unsure', begun')
        BY <1>1, <2>1, <2>4, <3>1, <3>3, <3>4 DEF JobHolds, tables
      <3>6. Answers(h, i)
        <4>1. /\ unsure \subseteq unsure' /\ passedOver' = passedOver
              /\ page' = page /\ proposals' = proposals /\ pin' = pin /\ group' = group
          BY <1>1, <2>4 DEF tables
        <4> QED
          BY <2>6, <4>1 DEF Answers
      <3> QED
        BY <1>2, <1>3, <3>2, <3>5, <3>6, Steps
    <2> QED
      BY <2>5, <2>6
  <1> QED
    BY <1>5, <1>6

-----------------------------------------------------------------------------
(* What is derived is something a page can show. *)

LEMMA MostIs ==
  ASSUME NEW T, T # {}, NEW f \in [T -> Nat], NEW n \in Nat, \A t \in T : f[t] <= n
  PROVE  \E t \in T : \A u \in T : f[u] <= f[t]
  <1>1. PICK S : S = {n - f[t] : t \in T}
    OBVIOUS
  <1>2. S \in SUBSET Nat /\ S # {}
    BY <1>1
  <1>3. PICK s \in S : \A q \in S : s <= q
    BY <1>2, LeastIs
  <1>4. PICK t \in T : s = n - f[t]
    BY <1>1, <1>3
  <1>5. ASSUME NEW u \in T
        PROVE  f[u] <= f[t]
    <2>1. n - f[u] \in S
      BY <1>1
    <2>2. n - f[t] <= n - f[u]
      BY <1>3, <1>4, <2>1
    <2>3. f[u] \in Nat /\ f[t] \in Nat
      OBVIOUS
    <2> QED
      BY <2>2, <2>3
  <1> QED
    BY <1>5

\* Rows as the table holds them: no two of one moment.
RowsOK(rows) == /\ rows \subseteq ProposalSet /\ IsFiniteSet(rows)
                /\ \A p, q \in rows : p.at = q.at => p = q

LEMMA NewestIs ==
  ASSUME NEW S, RowsOK(S), S # {}
  PROVE  \E p \in S : Newest(S) = p.at
  <1>1. PICK f : f = [p \in S |-> p.at]
    OBVIOUS
  <1>2. f \in [S -> Nat] /\ \A p \in S : f[p] <= MaxJobs /\ f[p] = p.at
    BY <1>1, MetadataConstants DEF RowsOK, ProposalSet
  <1>3. PICK p \in S : \A q \in S : f[q] <= f[p]
    BY <1>2, MostIs, MetadataConstants
  <1>4. p.at \in {q.at : q \in S} /\ \A q \in S : q.at <= p.at
    BY <1>2, <1>3
  <1>5. \E n \in {q.at : q \in S} : \A q \in S : q.at <= n
    BY <1>4
  <1>6. Newest(S) \in {q.at : q \in S}
    BY <1>5 DEF Newest
  <1> QED
    BY <1>6

\* One candidate has the better of every other.
LEMMA BestIs ==
  ASSUME NEW rows, RowsOK(rows), Titles(rows) # {}
  PROVE  \E t \in Titles(rows) : \A u \in Titles(rows) \ {t} : Better(rows, t, u)
  <1>1. PICK T : T = Titles(rows)
    OBVIOUS
  <1>2. \A t \in T : /\ Says(rows, t) # {} /\ Says(rows, t) \subseteq rows /\ RowsOK(Says(rows, t))
                     /\ Cardinality(Says(rows, t)) \in Nat /\ Cardinality(Says(rows, t)) <= Cardinality(rows)
    <2>1. SUFFICES ASSUME NEW t \in T
                   PROVE  /\ Says(rows, t) # {} /\ Says(rows, t) \subseteq rows /\ RowsOK(Says(rows, t))
                          /\ Cardinality(Says(rows, t)) \in Nat /\ Cardinality(Says(rows, t)) <= Cardinality(rows)
      OBVIOUS
    <2>2. Says(rows, t) # {} /\ Says(rows, t) \in SUBSET rows /\ IsFiniteSet(rows)
      BY <1>1 DEF Titles, Says, RowsOK
    <2>3. IsFiniteSet(Says(rows, t)) /\ Cardinality(Says(rows, t)) <= Cardinality(rows)
      BY <2>2, FS_Subset
    <2> QED
      BY <2>2, <2>3, FS_CardinalityType DEF RowsOK
  <1>3. PICK A : A = IF \E t \in T : Backed(Says(rows, t)) THEN {t \in T : Backed(Says(rows, t))} ELSE T
    OBVIOUS
  <1>4. A # {} /\ A \subseteq T
    BY <1>1, <1>3
  <1>5. PICK c : c = [t \in A |-> Cardinality(Says(rows, t))]
    OBVIOUS
  <1>6. c \in [A -> Nat] /\ Cardinality(rows) \in Nat /\ \A t \in A : c[t] <= Cardinality(rows)
    BY <1>2, <1>4, <1>5, FS_CardinalityType DEF RowsOK
  <1>7. PICK a \in A : \A t \in A : c[t] <= c[a]
    BY <1>4, <1>6, MostIs
  <1>8. PICK B : B = {t \in A : c[t] = c[a]}
    OBVIOUS
  <1>9. PICK n : n = [t \in B |-> Newest(Says(rows, t))]
    OBVIOUS
  <1>10. \A t \in T : \E p \in Says(rows, t) : Newest(Says(rows, t)) = p.at
    BY <1>2, NewestIs
  <1>11. \A t \in T : Newest(Says(rows, t)) \in Nat /\ Newest(Says(rows, t)) <= MaxJobs
    BY <1>2, <1>10, MetadataConstants DEF RowsOK, ProposalSet
  <1>12. B # {} /\ B \subseteq T /\ n \in [B -> Nat] /\ \A t \in B : n[t] <= MaxJobs
    BY <1>4, <1>8, <1>9, <1>11
  <1>13. PICK t \in B : \A u \in B : n[u] <= n[t]
    BY <1>12, MostIs, MetadataConstants
  <1>14. ASSUME NEW u \in T, u # t
         PROVE  Better(rows, t, u)
    <2>1. t \in A /\ t \in T /\ c[t] = c[a]
      BY <1>4, <1>8, <1>13
    <2>2. Backed(Says(rows, t)) \in BOOLEAN /\ Backed(Says(rows, u)) \in BOOLEAN
      BY DEF Backed
    <2>3. CASE u \notin A
      <3>1. Backed(Says(rows, t)) /\ ~ Backed(Says(rows, u))
        BY <1>3, <2>1, <2>3
      <3> QED
        BY <2>2, <3>1 DEF Better
    <2>4. CASE u \in A
      <3>1. Backed(Says(rows, t)) = Backed(Says(rows, u))
        BY <1>3, <2>1, <2>2, <2>4
      <3>2. CASE c[u] # c[t]
        <4>1. /\ Cardinality(Says(rows, u)) = c[u] /\ Cardinality(Says(rows, t)) = c[t]
              /\ c[u] \in Nat /\ c[t] \in Nat /\ c[u] <= c[t]
          BY <1>5, <1>6, <1>7, <2>1, <2>4
        <4>2. Cardinality(Says(rows, t)) # Cardinality(Says(rows, u)) /\ Cardinality(Says(rows, t)) > Cardinality(Says(rows, u))
          BY <3>2, <4>1
        <4> QED
          BY <3>1, <4>2 DEF Better
      <3>3. CASE c[u] = c[t]
        <4>1. u \in B /\ Cardinality(Says(rows, u)) = Cardinality(Says(rows, t))
          BY <1>5, <1>8, <2>1, <2>4, <3>3
        <4>2. n[u] <= n[t] /\ n[u] = Newest(Says(rows, u)) /\ n[t] = Newest(Says(rows, t))
          BY <1>9, <1>13, <4>1
        <4>3. PICK p \in Says(rows, t) : Newest(Says(rows, t)) = p.at
          BY <1>10, <2>1
        <4>4. PICK q \in Says(rows, u) : Newest(Says(rows, u)) = q.at
          BY <1>10
        <4>5. p \in rows /\ q \in rows /\ p # q
          BY <4>3, <4>4 , <1>14 DEF Says
        <4>6. p.at # q.at
          BY <4>5 DEF RowsOK
        <4>7. Newest(Says(rows, t)) > Newest(Says(rows, u))
          BY <1>11, <2>1, <4>2, <4>3, <4>4, <4>6
        <4> QED
          BY <3>1, <4>1, <4>7 DEF Better
      <3> QED
        BY <3>2, <3>3
    <2> QED
      BY <2>3, <2>4
  <1> QED
    BY <1>1, <1>12, <1>14

LEMMA DerivedIs ==
  ASSUME NEW rows, RowsOK(rows)
  PROVE  DeriveFrom(rows) \in Shown
  <1>1. PickTitle(rows) \in {c.title : c \in Claims} \cup {None}
    <2>1. Titles(rows) \subseteq {c.title : c \in Claims}
      BY DEF Titles, RowsOK, ProposalSet
    <2>2. CASE Titles(rows) = {}
      BY <2>2 DEF PickTitle
    <2>3. CASE Titles(rows) # {}
      <3>1. \E t \in Titles(rows) : \A u \in Titles(rows) \ {t} : Better(rows, t, u)
        BY <2>3, BestIs
      <3>2. PickTitle(rows) \in Titles(rows)
        BY <2>3, <3>1 DEF PickTitle
      <3> QED
        BY <2>1, <3>2
    <2> QED
      BY <2>2, <2>3
  <1>2. PickPerformers(rows) \in SUBSET People
    <2>1. UNION {p.claim.cast : p \in rows} \subseteq People
      BY DEF People, RowsOK, ProposalSet
    <2> QED
      BY <2>1 DEF PickPerformers
  <1> QED
    BY <1>1, <1>2 DEF DeriveFrom, Shown

LEMMA AnswersAre ==
  ASSUME MetadataInv, NEW r \in Releases
  PROVE  Answer(r) \in Shown
  <1>1. PICK rows : rows = ProposalsFor(Pool(r))
    OBVIOUS
  <1>2. RowsOK(rows)
    <2>1. rows \in SUBSET proposals /\ RowsFine(proposals, begun)
      BY <1>1, TablesAre DEF ProposalsFor, TablesFine
    <2> QED
      BY <2>1, FS_Subset DEF RowsFine, RowsOK
  <1>3. pin[r] # None => pin[r].shows \in Shown
    BY TablesAre DEF TablesFine
  <1> QED
    BY <1>1, <1>2, <1>3, DerivedIs DEF Answer

-----------------------------------------------------------------------------
(* The handlers begin. *)

\* A job about r whose writes can move its pool, the grouping as it was.
LEMMA Pooled ==
  ASSUME MetadataInv, NEW h \in Jobs, NEW r \in Releases, NEW j, NEW R, R = Pool(r), Begin(h, j, R), group' = group
  PROVE  /\ R \in SUBSET Releases /\ r \in R /\ R = PoolIn(group, r) /\ R = PoolIn(group', r)
         /\ Whole(group, R) /\ Whole(group', R) /\ Regroups(R)
         /\ begun \in Nat /\ begun' = begun + 1 /\ begun' \in Nat /\ begun' \in 0..MaxJobs /\ begun <= begun'
  <1>1. R = PoolIn(group, r)
    BY PoolIs
  <1>2. R \in SUBSET Releases /\ r \in R /\ Whole(group, R)
    BY <1>1, PoolsAre
  <1>3. Regroups(R)
    BY DEF Regroups
  <1>4. begun \in Nat /\ begun' = begun + 1 /\ begun < MaxJobs /\ MaxJobs \in Nat
    BY TablesAre, MetadataConstants DEF Begin
  <1> QED
    BY <1>1, <1>2, <1>3, <1>4

LEMMA TaskIs ==
  ASSUME NEW r \in Releases, NEW plan
  PROVE  LET j == Task(r, plan)
         IN  /\ j.pc = Head(plan) /\ j.release = r /\ j.plan = Tail(plan) /\ j.todo = {} /\ j.work = 0
             /\ j.read = Empty /\ j.reach = {} /\ j.alone = FALSE
             /\ Tail(plan) \in Plans /\ Head(plan) \in {"grouping", "attach", "members", "pinByHand", "purgeList", "derive"}
                  => j \in JobState
  BY IdleIs DEF Task, Idle, JobState

LEMMA PlansAre ==
  /\ Head(<<"grouping", "auto">>) = "grouping" /\ Tail(<<"grouping", "auto">>) = <<"auto">>
  /\ Head(<<"attach", "grouping", "auto">>) = "attach" /\ Tail(<<"attach", "grouping", "auto">>) = <<"grouping", "auto">>
  /\ Head(<<"grouping">>) = "grouping" /\ Tail(<<"grouping">>) = <<>>
  /\ Head(<<"derive">>) = "derive" /\ Tail(<<"derive">>) = <<>>
  /\ Head(<<"derive", "attach">>) = "derive" /\ Tail(<<"derive", "attach">>) = <<"attach">>
  /\ Head(<<"derive", "members">>) = "derive" /\ Tail(<<"derive", "members">>) = <<"members">>
  /\ Head(<<"pinByHand", "unblock">>) = "pinByHand" /\ Tail(<<"pinByHand", "unblock">>) = <<"unblock">>
  /\ Head(<<"members">>) = "members" /\ Tail(<<"members">>) = <<>>
  /\ Head(<<"purgeList", "purge", "members">>) = "purgeList" /\ Tail(<<"purgeList", "purge", "members">>) = <<"purge", "members">>
  /\ Head(<<"purge", "members">>) = "purge" /\ Tail(<<"purge", "members">>) = <<"members">>
  /\ Head(<<"auto">>) = "auto" /\ Tail(<<"auto">>) = <<>>
  /\ Head(<<"attach">>) = "attach" /\ Tail(<<"attach">>) = <<>>
  /\ Head(<<"unblock">>) = "unblock" /\ Tail(<<"unblock">>) = <<>>
  OBVIOUS

LEMMA PlansDiffer ==
  /\ <<>> \in Plans /\ <<"auto">> \in Plans /\ <<"grouping", "auto">> \in Plans /\ <<"attach">> \in Plans
  /\ <<"members">> \in Plans /\ <<"unblock">> \in Plans /\ <<"purge", "members">> \in Plans
  /\ \A p \in {<<>>, <<"auto">>, <<"attach">>, <<"unblock">>, <<"grouping", "auto">>, <<"purge", "members">>} : p # <<"members">>
  /\ \A p \in {<<"auto">>, <<"attach">>, <<"unblock">>, <<"grouping", "auto">>, <<"purge", "members">>, <<"members">>} : p # <<>>
  /\ \A p \in {<<>>, <<"auto">>, <<"attach">>, <<"unblock">>, <<"purge", "members">>, <<"members">>} : p # <<"grouping", "auto">>
  BY DEF Plans

\* Rows that were there, but for those of one release.
LEMMA RowsGo ==
  ASSUME RowsFine(proposals, begun), NEW ps \in SUBSET proposals, begun \in Nat, begun' \in Nat, begun <= begun'
  PROVE  RowsFine(ps, begun')
  <1>1. IsFiniteSet(ps)
    BY FS_Subset DEF RowsFine
  <1>2. ps \subseteq ProposalSet
    BY DEF RowsFine
  <1>3. \A p \in ps : p.at <= begun'
    <2>1. SUFFICES ASSUME NEW p \in ps
                   PROVE  p.at <= begun'
      OBVIOUS
    <2>2. p.at <= begun /\ p.at \in Nat
      BY <1>2, MetadataConstants DEF RowsFine, ProposalSet
    <2> QED
      BY <2>2
  <1> QED
    BY <1>1, <1>2, <1>3 DEF RowsFine

LEMMA Recorded ==
  ASSUME MetadataInv, NEW r \in Releases, NEW by \in Accounts \cup {None}, NEW claim \in Claims, NEW stash \in Stashes,
         RecordProposal(r, by, claim, stash), begun < MaxJobs, begun' = begun + 1
  PROVE  /\ RowsFine(proposals', begun')
         /\ \E p, q : /\ q \in ProposalSet /\ q.release = r /\ q.by = by
                      /\ proposals' = (proposals \ {p}) \cup {q}
                      /\ IF p \in proposals THEN p.release = r /\ p.by = by /\ by # None /\ (p.claim = q.claim => q.at = p.at)
                         ELSE by = None \/ Filed(r, by) = {}
  <1>0. RowsFine(proposals, begun) /\ begun \in Nat /\ begun' \in Nat /\ begun <= begun' /\ begun' \in 0..MaxJobs
    BY TablesAre, MetadataConstants DEF TablesFine
  <1>1. PICK held : held = IF by = None THEN {} ELSE Filed(r, by)
    OBVIOUS
  <1>2. held \subseteq proposals /\ \A p \in held : p.release = r /\ p.by = by
    BY <1>1 DEF Filed
  <1>3. \A p, q \in held : p = q
    BY <1>0, <1>1, <1>2 DEF RowsFine
  <1>4. \E p, q : /\ q \in ProposalSet /\ q.release = r /\ q.by = by
                  /\ proposals' = (proposals \ {p}) \cup {q}
                  /\ IF p \in proposals THEN held = {p} /\ q.at \in {p.at, begun'} /\ (p.claim = q.claim => q.at = p.at)
                     ELSE held = {} /\ q.at = begun'
    <2>1. CASE held = {}
      <3>1. PICK q : q = Row(r, by, claim, stash, begun + 1)
        OBVIOUS
      <3>2. q \in ProposalSet /\ q.release = r /\ q.by = by /\ q.at = begun'
        BY <1>0, <3>1 DEF Row, ProposalSet
      <3>3. proposals' = proposals \cup {q}
        BY <1>1, <2>1, <3>1 DEF RecordProposal
      <3>4. q \notin proposals
        BY <1>0, <3>2 DEF RowsFine
      <3>5. proposals' = (proposals \ {q}) \cup {q}
        BY <3>3
      <3> QED
        BY <2>1, <3>2, <3>4, <3>5
    <2>2. CASE held # {}
      <3>1. PICK p \in held : held = {p}
        BY <1>3, <2>2
      <3>2. PICK q : q = Row(r, by, claim, IF stash = None THEN p.stash ELSE stash, IF p.claim = claim THEN p.at ELSE begun + 1)
        OBVIOUS
      <3>3. p \in ProposalSet /\ p \in proposals
        BY <1>0, <1>2, <3>1 DEF RowsFine
      <3>4. /\ q \in ProposalSet /\ q.release = r /\ q.by = by /\ q.at \in {p.at, begun'}
            /\ p.claim = q.claim => q.at = p.at
        BY <1>0, <3>2, <3>3 DEF Row, ProposalSet
      <3>5. proposals' = (proposals \ held) \cup
                         {Row(r, by, claim, IF stash = None THEN x.stash ELSE stash,
                              IF x.claim = claim THEN x.at ELSE begun + 1) : x \in held}
        BY <1>1, <2>2 DEF RecordProposal
      <3>6. proposals' = (proposals \ {p}) \cup {q}
        BY <3>1, <3>2, <3>5
      <3> QED
        BY <3>1, <3>3, <3>4, <3>6
    <2> QED
      BY <2>1, <2>2
  <1>5. PICK p, q : /\ q \in ProposalSet /\ q.release = r /\ q.by = by
                    /\ proposals' = (proposals \ {p}) \cup {q}
                    /\ IF p \in proposals THEN held = {p} /\ q.at \in {p.at, begun'} /\ (p.claim = q.claim => q.at = p.at)
                       ELSE held = {} /\ q.at = begun'
    BY <1>4
  <1>6. PICK old : old = proposals \ {p}
    OBVIOUS
  <1>7. RowsFine(old, begun') /\ proposals' = old \cup {q}
    BY <1>0, <1>5, <1>6, RowsGo
  <1>8. \A x \in old : x.at # q.at
    <2>1. SUFFICES ASSUME NEW x \in old
                   PROVE  x.at # q.at
      OBVIOUS
    <2>2. x \in proposals /\ x # p /\ x.at <= begun /\ x.at \in Nat
      BY <1>0, <1>6, MetadataConstants DEF RowsFine, ProposalSet
    <2>3. x.at # begun'
      BY <1>0, <2>2
    <2>4. p \in proposals => x.at # p.at
      BY <1>0, <2>2 DEF RowsFine
    <2> QED
      BY <1>5, <2>3, <2>4
  <1>9. \A x \in old : ~ (x.by # None /\ x.by = by /\ x.release = r)
    <2>1. SUFFICES ASSUME NEW x \in old, x.by # None, x.by = by, x.release = r
                   PROVE  FALSE
      OBVIOUS
    <2>2. x \in held
      BY <1>1, <1>6, <2>1 DEF Filed
    <2> QED
      BY <1>5, <1>6, <2>2
  <1>10. q.at <= begun'
    <2>1. p \in proposals => p.at <= begun /\ p.at \in Nat
      BY <1>0, MetadataConstants DEF RowsFine, ProposalSet
    <2> QED
      BY <1>0, <1>5, <2>1
  <1>11. IsFiniteSet(proposals')
    BY <1>7, FS_AddElement DEF RowsFine
  <1>12. RowsFine(proposals', begun')
    BY <1>5, <1>7, <1>8, <1>9, <1>10, <1>11 DEF RowsFine
  <1>13. IF p \in proposals THEN p.release = r /\ p.by = by /\ by # None ELSE by = None \/ Filed(r, by) = {}
    BY <1>1, <1>2, <1>5
  <1> QED
    BY <1>5, <1>12, <1>13

\* A handler that writes for r, and then goes through the whole pool.
Writes(h, r, j, R) ==
  /\ R = Pool(r) /\ Begin(h, j, R) /\ group' = group /\ passedOver' = passedOver /\ trusted' = trusted
  /\ page' = page /\ carriers' = carriers
  /\ {p \in proposals : p.release \notin R} = {p \in proposals' : p.release \notin R}
  /\ \A x \in Releases \ R : pin'[x] = pin[x] /\ (x \in blocked' <=> x \in blocked)
  /\ RowsFine(proposals', begun') /\ pin' \in [Releases -> {None} \cup [shows : Shown, hand : BOOLEAN]]
  /\ blocked' \subseteq Releases

LEMMA WritesHold ==
  ASSUME MetadataInv, NEW h \in Jobs, NEW r \in Releases, NEW j \in JobState, NEW R, Writes(h, r, j, R),
         j.pc # "idle", JobFine(j, R, begun'),
         (j.pc \in {"pinByHand", "autoPin"} => j.read = page[j.release]),
         ByWork(j) => \A s \in Releases : group[s] = j.work => s \in R,
         j.pc \notin {"write", "autoPin", "purge"},
         \/ \A s \in R : s \in Owes(j, group)
         \/ proposals' = proposals /\ pin' = pin
  PROVE  MetadataInv'
  <1>1. /\ R = Pool(r) /\ Begin(h, j, R) /\ group' = group /\ passedOver' = passedOver /\ trusted' = trusted
        /\ page' = page /\ carriers' = carriers
        /\ {p \in proposals : p.release \notin R} = {p \in proposals' : p.release \notin R}
        /\ \A x \in Releases \ R : pin'[x] = pin[x] /\ (x \in blocked' <=> x \in blocked)
        /\ RowsFine(proposals', begun') /\ pin' \in [Releases -> {None} \cup [shows : Shown, hand : BOOLEAN]]
        /\ blocked' \subseteq Releases
    BY DEF Writes
  <1>2. /\ R \in SUBSET Releases /\ r \in R /\ R = PoolIn(group, r) /\ R = PoolIn(group', r)
        /\ Whole(group, R) /\ Whole(group', R) /\ Regroups(R)
        /\ begun \in Nat /\ begun' = begun + 1 /\ begun' \in Nat /\ begun' \in 0..MaxJobs /\ begun <= begun'
    BY <1>1, Pooled
  <1>3. After
    <2>1. /\ page \in [Releases -> Shown] /\ carriers \subseteq Releases /\ trusted \subseteq Accounts
          /\ group \in [Releases -> 0..(MaxJobs + 1)] /\ passedOver \subseteq Releases
      BY TablesAre DEF TablesFine
    <2>2. \A x \in Releases : group[x] <= begun' + 1
      <3>1. \A x \in Releases : group[x] <= begun + 1 /\ group[x] \in Nat
        BY TablesAre, MetadataConstants DEF TablesFine
      <3> QED
        BY <1>2, <3>1
    <2>3. TablesFine(proposals', page', pin', blocked', carriers', group', trusted', begun')
      BY <1>1, <2>1, <2>2 DEF TablesFine
    <2> QED
      BY <1>1, <1>2, <2>1, <2>3 DEF After
  <1>4. Confined(R)
    BY <1>1 DEF Confined
  <1>5. AloneFine(j, R, proposals', pin', page', group', blocked')
    BY <1>1, <1>2 DEF AloneFine
  <1>6. \A x \in R \ passedOver' :
          \/ x \in Owes(j, group')
          \/ page[x] = AnswerIn(proposals, pin, group, x) => page'[x] = AnswerIn(proposals', pin', group', x)
    BY <1>1
  <1>7. passedOver \subseteq passedOver'
    BY <1>1
  <1> QED
    BY <1>1, <1>2, <1>3, <1>4, <1>5, <1>6, <1>7, BeginHolds

LEMMA ProposeHolds ==
  ASSUME MetadataInv, NEW h \in Jobs, NEW r \in Releases, NEW by \in Accounts, NEW claim \in Claims, NEW stash \in Stashes,
         Propose(h, r, by, claim, stash)
  PROVE  MetadataInv'
  <1>1. PICK plan : plan = IF stash = None THEN <<"grouping", "auto">> ELSE <<"attach", "grouping", "auto">>
    OBVIOUS
  <1>2. PICK j : j = Task(r, plan)
    OBVIOUS
  <1>3. /\ j.release = r /\ j.todo = {} /\ j.work = 0 /\ j \in JobState
        /\ \/ j.pc = "grouping" /\ j.plan = <<"auto">>
           \/ j.pc = "attach" /\ j.plan = <<"grouping", "auto">>
    BY <1>1, <1>2, TaskIs, PlansAre, PlansDiffer
  <1>4. PICK R : R = Pool(r)
    OBVIOUS
  <1>5. /\ Begin(h, j, R) /\ RecordProposal(r, by, claim, stash)
        /\ UNCHANGED <<page, pin, blocked, carriers, group, trusted, passedOver>>
    BY <1>1, <1>2, <1>4 DEF Propose
  <1>6. R \in SUBSET Releases /\ r \in R /\ R = PoolIn(group, r) /\ begun \in Nat /\ begun' \in Nat /\ begun' = begun + 1
    BY <1>4, <1>5, Pooled
  <1>7. begun < MaxJobs
    BY <1>5 DEF Begin
  <1>8. /\ RowsFine(proposals', begun')
        /\ \E p, q : /\ q \in ProposalSet /\ q.release = r /\ q.by = by
                     /\ proposals' = (proposals \ {p}) \cup {q}
                     /\ IF p \in proposals THEN p.release = r /\ p.by = by /\ by # None /\ (p.claim = q.claim => q.at = p.at)
                        ELSE by = None \/ Filed(r, by) = {}
    BY <1>5, <1>6, <1>7, Recorded
  <1>9. {p \in proposals : p.release \notin R} = {p \in proposals' : p.release \notin R}
    BY <1>6, <1>8
  <1>10. Writes(h, r, j, R)
    BY <1>4, <1>5, <1>8, <1>9, TablesAre DEF Writes, TablesFine
  <1>11. \A s \in R : s \in Owes(j, group)
    BY <1>3, <1>6 DEF Owes
  <1>12. ~ ByWork(j)
    BY <1>3, PlansDiffer DEF ByWork
  <1>13. JobFine(j, R, begun')
    <2>1. InPhase(j)
      BY <1>3 DEF InPhase
    <2>2. j.work <= begun' + 1
      BY <1>3, <1>6
    <2> QED
      BY <1>3, <1>6, <1>12, <2>1, <2>2 DEF JobFine
  <1> QED
    BY <1>3, <1>10, <1>11, <1>12, <1>13, WritesHold

\* The handlers whose plan is to derive the grouping.
LEMMA Grouping ==
  ASSUME MetadataInv, NEW h \in Jobs, NEW r \in Releases, NEW j, j = Task(r, <<"grouping">>), NEW R, Writes(h, r, j, R)
  PROVE  MetadataInv'
  <1>1. /\ j.release = r /\ j.todo = {} /\ j.work = 0 /\ j \in JobState
        /\ j.pc = "grouping" /\ j.plan = <<>>
    BY TaskIs, PlansAre, PlansDiffer
  <1>2. R \in SUBSET Releases /\ r \in R /\ R = PoolIn(group, r) /\ begun' \in Nat
    BY Pooled DEF Writes
  <1>3. \A s \in R : s \in Owes(j, group)
    BY <1>1, <1>2 DEF Owes
  <1>4. ~ ByWork(j)
    BY <1>1, PlansDiffer DEF ByWork
  <1>5. JobFine(j, R, begun')
    BY <1>1, <1>2, <1>4 DEF JobFine, InPhase
  <1> QED
    BY <1>1, <1>3, <1>4, <1>5, WritesHold

LEMMA RetractHolds ==
  ASSUME MetadataInv, NEW h \in Jobs, NEW r \in Releases, NEW by \in Accounts, Retract(h, r, by)
  PROVE  MetadataInv'
  <1>1. PICK j : j = Task(r, <<"grouping">>)
    OBVIOUS
  <1>2. PICK R : R = Pool(r)
    OBVIOUS
  <1>3. /\ Begin(h, j, R) /\ proposals' = proposals \ Filed(r, by)
        /\ UNCHANGED <<page, pin, blocked, carriers, group, trusted, passedOver>>
    BY <1>1, <1>2 DEF Retract
  <1>4. r \in R /\ begun \in Nat /\ begun' \in Nat /\ begun <= begun'
    BY <1>2, <1>3, Pooled
  <1>5. proposals' \in SUBSET proposals
    BY <1>3
  <1>6. RowsFine(proposals', begun')
    BY <1>4, <1>5, RowsGo, TablesAre DEF TablesFine
  <1>7. {p \in proposals : p.release \notin R} = {p \in proposals' : p.release \notin R}
    BY <1>3, <1>4 DEF Filed
  <1>8. Writes(h, r, j, R)
    BY <1>2, <1>3, <1>6, <1>7, TablesAre DEF Writes, TablesFine
  <1> QED
    BY <1>1, <1>8, Grouping

LEMMA PurgeHolds ==
  ASSUME MetadataInv, NEW h \in Jobs, NEW r \in Releases, Purge(h, r)
  PROVE  MetadataInv'
  <1>1. PICK j : j = Task(r, <<"grouping">>)
    OBVIOUS
  <1>2. PICK R : R = Pool(r)
    OBVIOUS
  <1>3. /\ Begin(h, j, R) /\ proposals' = {p \in proposals : p.release \notin {r}}
        /\ pin' = [x \in Releases |-> IF x \in {r} THEN None ELSE pin[x]]
        /\ UNCHANGED <<page, blocked, carriers, group, trusted, passedOver>>
    BY <1>1, <1>2 DEF Purge, PurgeProposals
  <1>4. r \in R /\ begun \in Nat /\ begun' \in Nat /\ begun <= begun'
    BY <1>2, <1>3, Pooled
  <1>5. proposals' \in SUBSET proposals
    BY <1>3
  <1>6. RowsFine(proposals', begun')
    BY <1>4, <1>5, RowsGo, TablesAre DEF TablesFine
  <1>7. {p \in proposals : p.release \notin R} = {p \in proposals' : p.release \notin R}
    BY <1>3, <1>4
  <1>8. pin' \in [Releases -> {None} \cup [shows : Shown, hand : BOOLEAN]]
    BY <1>3, TablesAre DEF TablesFine
  <1>9. blocked' \subseteq Releases /\ \A x \in Releases \ R : pin'[x] = pin[x] /\ (x \in blocked' <=> x \in blocked)
    BY <1>3, <1>4, TablesAre DEF TablesFine
  <1>10. Writes(h, r, j, R)
    BY <1>2, <1>3, <1>6, <1>7, <1>8, <1>9 DEF Writes
  <1> QED
    BY <1>1, <1>10, Grouping

LEMMA UnconfirmHolds ==
  ASSUME MetadataInv, NEW h \in Jobs, NEW r \in Releases, Unconfirm(h, r)
  PROVE  MetadataInv'
  <1>1. PICK j : j = Task(r, <<"grouping">>)
    OBVIOUS
  <1>2. PICK R : R = Pool(r)
    OBVIOUS
  <1>3. /\ Begin(h, j, R) /\ pin' = [pin EXCEPT ![r] = None] /\ blocked' = blocked \cup {r}
        /\ UNCHANGED <<proposals, page, carriers, group, trusted, passedOver>>
    BY <1>1, <1>2 DEF Unconfirm
  <1>4. r \in R /\ begun \in Nat /\ begun' \in Nat /\ begun <= begun'
    BY <1>2, <1>3, Pooled
  <1>5. proposals' \in SUBSET proposals
    BY <1>3
  <1>6. RowsFine(proposals', begun')
    BY <1>4, <1>5, RowsGo, TablesAre DEF TablesFine
  <1>7. {p \in proposals : p.release \notin R} = {p \in proposals' : p.release \notin R}
    BY <1>3
  <1>8. pin' \in [Releases -> {None} \cup [shows : Shown, hand : BOOLEAN]]
    BY <1>3, TablesAre DEF TablesFine
  <1>9. blocked' \subseteq Releases /\ \A x \in Releases \ R : pin'[x] = pin[x] /\ (x \in blocked' <=> x \in blocked)
    BY <1>3, <1>4, TablesAre DEF TablesFine
  <1>10. Writes(h, r, j, R)
    BY <1>2, <1>3, <1>6, <1>7, <1>8, <1>9 DEF Writes
  <1> QED
    BY <1>1, <1>10, Grouping

LEMMA ConfirmHolds ==
  ASSUME MetadataInv, NEW h \in Jobs, NEW r \in Releases, Confirm(h, r)
  PROVE  MetadataInv'
  <1>1. PICK i : i = Task(r, <<"pinByHand", "unblock">>)
    OBVIOUS
  <1>2. PICK j : j = [i EXCEPT !.read = page[r]]
    OBVIOUS
  <1>3. i.release = r /\ i.todo = {} /\ i.work = 0 /\ i \in JobState /\ i.pc = "pinByHand" /\ i.plan = <<"unblock">>
    BY <1>1, TaskIs, PlansAre, PlansDiffer
  <1>4. /\ j.release = r /\ j.todo = {} /\ j.work = 0 /\ j \in JobState /\ j.pc = "pinByHand" /\ j.plan = <<"unblock">>
        /\ j.read = page[r]
    <2>1. page[r] \in Shown
      BY TablesAre DEF TablesFine
    <2> QED
      BY <1>2, <1>3, <2>1 DEF JobState
  <1>5. PICK R : R = Pool(r)
    OBVIOUS
  <1>6. /\ Begin(h, j, R) /\ UNCHANGED <<proposals, page, pin, blocked, carriers, group, trusted, passedOver>>
    BY <1>1, <1>2, <1>5 DEF Confirm, tables
  <1>7. R \in SUBSET Releases /\ r \in R /\ begun \in Nat /\ begun' \in Nat /\ begun <= begun'
    BY <1>5, <1>6, Pooled
  <1>8. proposals' \in SUBSET proposals
    BY <1>6
  <1>9. RowsFine(proposals', begun')
    BY <1>7, <1>8, RowsGo, TablesAre DEF TablesFine
  <1>10. Writes(h, r, j, R)
    BY <1>5, <1>6, <1>9, TablesAre DEF Writes, TablesFine
  <1>11. ~ ByWork(j)
    BY <1>4, PlansDiffer DEF ByWork
  <1>12. JobFine(j, R, begun')
    <2>1. InPhase(j)
      BY <1>4 DEF InPhase
    <2>2. j.work <= begun' + 1
      <3>1. ASSUME NEW n \in Nat
            PROVE  0 <= n + 1
        OBVIOUS
      <3>2. 0 <= begun' + 1
        BY <1>7, <3>1
      <3> QED
        BY <1>4, <3>2
    <2>3. j.release \in R /\ j.todo = {} /\ j.pc = "pinByHand"
      BY <1>4, <1>7
    <2> QED
      BY <1>11, <2>1, <2>2, <2>3 DEF JobFine
  <1> QED
    BY <1>4, <1>6, <1>10, <1>11, <1>12, WritesHold

LEMMA PurgeWorkHolds ==
  ASSUME MetadataInv, NEW h \in Jobs, NEW r \in Releases, PurgeWork(h, r)
  PROVE  MetadataInv'
  <1>1. PICK i : i = Task(r, <<"purgeList", "purge", "members">>)
    OBVIOUS
  <1>2. PICK j : j = [i EXCEPT !.work = group[r]]
    OBVIOUS
  <1>3. i.release = r /\ i.todo = {} /\ i \in JobState /\ i.pc = "purgeList" /\ i.plan = <<"purge", "members">>
    BY <1>1, TaskIs, PlansAre, PlansDiffer
  <1>4. /\ j.release = r /\ j.todo = {} /\ j.work = group[r] /\ j \in JobState /\ j.pc = "purgeList"
        /\ j.plan = <<"purge", "members">> /\ group[r] \in Nat /\ group[r] <= begun + 1
    <2>1. group[r] \in Nat /\ group[r] <= begun + 1
      BY TablesAre, MetadataConstants DEF TablesFine
    <2> QED
      BY <1>2, <1>3, <2>1 DEF JobState
  <1>5. PICK R : R = Pool(r)
    OBVIOUS
  <1>6. /\ Begin(h, j, R) /\ UNCHANGED <<proposals, page, pin, blocked, carriers, group, trusted, passedOver>>
        /\ group[r] # 0
    BY <1>1, <1>2, <1>5 DEF PurgeWork, tables
  <1>7. /\ R \in SUBSET Releases /\ r \in R /\ R = PoolIn(group, r) /\ begun \in Nat /\ begun' \in Nat /\ begun <= begun'
        /\ begun' = begun + 1
    BY <1>5, <1>6, Pooled
  <1>8. proposals' \in SUBSET proposals
    BY <1>6
  <1>9. RowsFine(proposals', begun')
    BY <1>7, <1>8, RowsGo, TablesAre DEF TablesFine
  <1>10. Writes(h, r, j, R)
    BY <1>5, <1>6, <1>9, TablesAre DEF Writes, TablesFine
  <1>11. ByWork(j) /\ \A s \in Releases : group[s] = j.work => s \in R
    BY <1>4, <1>6, <1>7 DEF ByWork, PoolIn
  <1>12. j.work <= begun' + 1
    BY <1>4, <1>7
  <1>13. JobFine(j, R, begun')
    BY <1>4, <1>6, <1>7, <1>12 DEF JobFine, InPhase
  <1> QED
    BY <1>4, <1>6, <1>10, <1>11, <1>13, WritesHold

LEMMA ImportHolds ==
  ASSUME MetadataInv, NEW h \in Jobs, NEW r \in Releases, NEW claim \in Claims, NEW stash \in Stashes,
         Import(h, r, claim, stash)
  PROVE  MetadataInv'
  <1>1. PICK plan : plan = IF stash = None THEN <<"derive">> ELSE <<"derive", "attach">>
    OBVIOUS
  <1>2. PICK i : i = Task(r, plan)
    OBVIOUS
  <1>3. /\ i.release = r /\ i.work = 0 /\ i \in JobState /\ i.pc = "derive" /\ i.plan \in {<<>>, <<"attach">>}
    BY <1>1, <1>2, TaskIs, PlansAre, PlansDiffer
  <1>4. PICK j : j = [i EXCEPT !.pc = "derive", !.todo = {r}]
    OBVIOUS
  <1>5. /\ j.release = r /\ j.work = 0 /\ j \in JobState /\ j.pc = "derive" /\ j.plan \in {<<>>, <<"attach">>}
        /\ j.todo = {r}
    BY <1>3, <1>4 DEF JobState
  <1>6. PICK R : R = Pool(r)
    OBVIOUS
  <1>7. /\ Begin(h, j, R) /\ RecordProposal(r, None, claim, stash) /\ passedOver' = passedOver \cup (R \ {r})
        /\ UNCHANGED <<page, pin, blocked, carriers, group, trusted>>
    BY <1>1, <1>2, <1>4, <1>6 DEF Import, Deriving
  <1>8. /\ R \in SUBSET Releases /\ r \in R /\ R = PoolIn(group, r) /\ R = PoolIn(group', r)
        /\ Whole(group, R) /\ Whole(group', R) /\ Regroups(R)
        /\ begun \in Nat /\ begun' = begun + 1 /\ begun' \in Nat /\ begun' \in 0..MaxJobs /\ begun <= begun'
    BY <1>6, <1>7, Pooled
  <1>9. begun < MaxJobs
    BY <1>7 DEF Begin
  <1>10. None \in Accounts \cup {None}
    OBVIOUS
  <1>11. /\ RowsFine(proposals', begun')
         /\ \E p, q : /\ q \in ProposalSet /\ q.release = r /\ q.by = None
                      /\ proposals' = (proposals \ {p}) \cup {q}
                      /\ IF p \in proposals THEN p.release = r /\ p.by = None /\ None # None /\ (p.claim = q.claim => q.at = p.at)
                         ELSE None = None \/ Filed(r, None) = {}
    BY <1>7, <1>8, <1>9, <1>10, Recorded
  <1>12. {p \in proposals : p.release \notin R} = {p \in proposals' : p.release \notin R}
    BY <1>8, <1>11
  <1>13. After
    <2>1. /\ page \in [Releases -> Shown] /\ carriers \subseteq Releases /\ trusted \subseteq Accounts
          /\ pin \in [Releases -> {None} \cup [shows : Shown, hand : BOOLEAN]] /\ blocked \subseteq Releases
          /\ group \in [Releases -> 0..(MaxJobs + 1)] /\ passedOver \subseteq Releases
      BY TablesAre DEF TablesFine
    <2>2. \A x \in Releases : group[x] <= begun' + 1
      <3>1. \A x \in Releases : group[x] <= begun + 1 /\ group[x] \in Nat
        BY TablesAre, MetadataConstants DEF TablesFine
      <3> QED
        BY <1>8, <3>1
    <2>3. TablesFine(proposals', page', pin', blocked', carriers', group', trusted', begun')
      BY <1>7, <1>11, <2>1, <2>2 DEF TablesFine
    <2>4. passedOver' \subseteq Releases
      BY <1>7, <1>8, <2>1
    <2> QED
      BY <1>8, <2>3, <2>4 DEF After
  <1>14. Confined(R)
    BY <1>7, <1>12 DEF Confined
  <1>15. ~ ByWork(j)
    BY <1>5, PlansDiffer DEF ByWork
  <1>16. AloneFine(j, R, proposals', pin', page', group', blocked')
    BY <1>5, <1>8, <1>15 DEF AloneFine
  <1>17. JobFine(j, R, begun')
    <2>1. InPhase(j)
      BY <1>5 DEF InPhase
    <2>2. j.work <= begun' + 1
      BY <1>5, <1>8
    <2>3. j.release \in R /\ j.todo = {r} /\ j.pc = "derive" /\ r \in R
      BY <1>5, <1>8
    <2> QED
      BY <1>15, <2>1, <2>2, <2>3 DEF JobFine
  <1>18. \A x \in R \ passedOver' :
           \/ x \in Owes(j, group')
           \/ page[x] = AnswerIn(proposals, pin, group, x) => page'[x] = AnswerIn(proposals', pin', group', x)
    <2>1. \A x \in R \ passedOver' : x = r
      BY <1>7
    <2>2. r \in Owes(j, group')
      BY <1>5 DEF Owes
    <2> QED
      BY <2>1, <2>2
  <1>19. passedOver \subseteq passedOver' /\ j.pc # "idle"
    BY <1>5, <1>7
  <1> QED
    BY <1>5, <1>7, <1>8, <1>13, <1>14, <1>16, <1>17, <1>18, <1>19, BeginHolds

\* The handlers that change the grouping of R only.
Groups(R) ==
  /\ UNCHANGED <<proposals, page, pin, blocked, carriers, trusted, passedOver>>
  /\ group' \in [Releases -> 0..(MaxJobs + 1)] /\ \A x \in Releases : group'[x] <= begun' + 1
  /\ \A x \in Releases \ R : group'[x] = group[x]
  /\ Whole(group, R) /\ Whole(group', R)

LEMMA GroupsHold ==
  ASSUME MetadataInv, NEW h \in Jobs, NEW j \in JobState, NEW R \in SUBSET Releases, Groups(R), Regroups(R),
         Begin(h, j, R), JobFine(j, R, begun'), j.pc \in {"derive", "members"},
         ByWork(j) => \A s \in Releases : group'[s] = j.work => s \in R, \A x \in R : x \in Owes(j, group')
  PROVE  MetadataInv'
  <1>1. /\ UNCHANGED <<proposals, page, pin, blocked, carriers, trusted, passedOver>>
        /\ group' \in [Releases -> 0..(MaxJobs + 1)] /\ \A x \in Releases : group'[x] <= begun' + 1
        /\ \A x \in Releases \ R : group'[x] = group[x]
        /\ Whole(group, R) /\ Whole(group', R)
    BY DEF Groups
  <1>2. begun \in Nat /\ begun' = begun + 1 /\ begun' \in Nat /\ begun' \in 0..MaxJobs /\ begun <= begun'
    BY TablesAre, MetadataConstants DEF Begin
  <1>3. After
    <2>1. RowsFine(proposals', begun')
      <3>1. proposals' \in SUBSET proposals
        BY <1>1
      <3> QED
        BY <1>2, <3>1, RowsGo, TablesAre DEF TablesFine
    <2>2. /\ page \in [Releases -> Shown] /\ carriers \subseteq Releases /\ trusted \subseteq Accounts
          /\ pin \in [Releases -> {None} \cup [shows : Shown, hand : BOOLEAN]] /\ blocked \subseteq Releases
          /\ passedOver \subseteq Releases
      BY TablesAre DEF TablesFine
    <2>3. TablesFine(proposals', page', pin', blocked', carriers', group', trusted', begun')
      BY <1>1, <2>1, <2>2 DEF TablesFine
    <2> QED
      BY <1>1, <1>2, <2>2, <2>3 DEF After
  <1>4. Confined(R)
    BY <1>1 DEF Confined
  <1>5. AloneFine(j, R, proposals', pin', page', group', blocked')
    BY <1>1 DEF AloneFine
  <1>6. passedOver \subseteq passedOver' /\ j.pc # "idle"
    BY <1>1
  <1>7. \A x \in R \ passedOver' :
          \/ x \in Owes(j, group')
          \/ page[x] = AnswerIn(proposals, pin, group, x) => page'[x] = AnswerIn(proposals', pin', group', x)
    OBVIOUS
  <1> QED
    BY <1>1, <1>3, <1>4, <1>5, <1>6, <1>7, BeginHolds

LEMMA LinkHolds ==
  ASSUME MetadataInv, NEW h \in Jobs, NEW a \in Releases, NEW b \in Releases, Link(h, a, b)
  PROVE  MetadataInv'
  <1>1. PICK w : w = Absorbs(a, b)
    OBVIOUS
  <1>2. PICK R : R = PoolIn(group, a) \cup PoolIn(group, b)
    OBVIOUS
  <1>3. R = Pool(a) \cup Pool(b) /\ R \in SUBSET Releases /\ a \in R /\ b \in R /\ Whole(group, R)
    BY <1>2, PoolIs, PoolsAre DEF Whole
  <1>4. PICK i : i = Task(a, <<"members">>)
    OBVIOUS
  <1>5. PICK j : j = [i EXCEPT !.work = w]
    OBVIOUS
  <1>6. /\ Begin(h, j, R) /\ group' = [r \in Releases |-> IF r \in R THEN w ELSE group[r]]
        /\ UNCHANGED <<proposals, page, pin, blocked, carriers, trusted, passedOver>>
    BY <1>1, <1>3, <1>4, <1>5 DEF Link
  <1>7. begun \in Nat /\ begun < MaxJobs /\ MaxJobs \in Nat /\ begun' = begun + 1
    BY <1>6, TablesAre, MetadataConstants DEF Begin
  <1>8. \A r \in Releases : group[r] \in Nat /\ group[r] \in 0..(MaxJobs + 1) /\ group[r] <= begun + 1
    BY <1>7, TablesAre DEF TablesFine
  <1>9. w = begun + 2 \/ (w = group[a] /\ group[a] # 0) \/ (w = group[b] /\ group[b] # 0)
    BY <1>1 DEF Absorbs
  <1>10. w \in Nat /\ w \in 0..(MaxJobs + 1) /\ w # 0 /\ w <= begun' + 1
    <2>1. CASE w = begun + 2
      BY <1>7, <2>1
    <2>2. CASE w # begun + 2
      <3>1. PICK c \in Releases : w = group[c] /\ group[c] # 0
        BY <1>9, <2>2
      <3> QED
        BY <1>7, <1>8, <3>1
    <2> QED
      BY <2>1, <2>2
  <1>11. \A s \in Releases : group'[s] = w <=> s \in R
    <2>1. SUFFICES ASSUME NEW s \in Releases, s \notin R, group[s] = w
                   PROVE  FALSE
      BY <1>6
    <2>2. w # begun + 2
      BY <1>7, <1>8, <2>1
    <2> QED
      BY <1>2, <1>9, <2>1, <2>2 DEF PoolIn
  <1>12. Whole(group', R)
    BY <1>3, <1>11 DEF Whole, PoolIn
  <1>13. \A x \in Releases : group'[x] \in 0..(MaxJobs + 1) /\ group'[x] <= begun' + 1
    <2>1. SUFFICES ASSUME NEW x \in Releases
                   PROVE  group'[x] \in 0..(MaxJobs + 1) /\ group'[x] <= begun' + 1
      OBVIOUS
    <2>2. group'[x] = w \/ group'[x] = group[x]
      BY <1>6
    <2> QED
      BY <1>7, <1>8, <1>10, <2>2
  <1>14. Groups(R)
    BY <1>3, <1>6, <1>12, <1>13 DEF Groups
  <1>15. Regroups(R)
    <2>1. \A r \in R : group'[r] = w
      BY <1>3, <1>11
    <2>2. w > begun + 1 \/ \E s \in R : group[s] = w
      BY <1>3, <1>7, <1>9
    <2> QED
      BY <2>1, <2>2 DEF Regroups
  <1>16. i.release = a /\ i.todo = {} /\ i \in JobState /\ i.pc = "members" /\ i.plan = <<>>
    BY <1>4, TaskIs, PlansAre, PlansDiffer
  <1>17. j.release = a /\ j.todo = {} /\ j \in JobState /\ j.pc = "members" /\ j.plan = <<>> /\ j.work = w
    BY <1>5, <1>10, <1>16 DEF JobState
  <1>18. ByWork(j) /\ InPhase(j)
    BY <1>17 DEF ByWork, InPhase
  <1>19. JobFine(j, R, begun')
    BY <1>3, <1>10, <1>17, <1>18 DEF JobFine
  <1>20. \A x \in R : x \in Owes(j, group')
    BY <1>3, <1>11, <1>17, <1>18 DEF Owes
  <1>21. \A s \in Releases : group'[s] = j.work => s \in R
    BY <1>11, <1>17
  <1> QED
    BY <1>3, <1>6, <1>14, <1>15, <1>17, <1>19, <1>20, <1>21, GroupsHold

LEMMA UnlinkHolds ==
  ASSUME MetadataInv, NEW h \in Jobs, NEW r \in Releases, Unlink(h, r)
  PROVE  MetadataInv'
  <1>1. PICK R : R = Members(group[r])
    OBVIOUS
  <1>2. PICK d \in BOOLEAN : d = (Cardinality(Members(group[r]) \ {r}) < 2)
    <2>1. PICK T \in SUBSET Releases : T = Members(group[r]) \ {r}
      BY DEF Members
    <2>2. Cardinality(T) \in Nat
      BY <2>1, MetadataConstants, FS_Subset, FS_CardinalityType
    <2>3. (Cardinality(T) < 2) \in BOOLEAN
      BY <2>2
    <2> QED
      BY <2>1, <2>3
  <1>3. PICK i : i = Task(r, IF d THEN <<"derive">> ELSE <<"derive", "members">>)
    OBVIOUS
  <1>4. PICK k : k = [i EXCEPT !.work = group[r]]
    OBVIOUS
  <1>5. PICK S : S = IF d THEN R ELSE {r}
    OBVIOUS
  <1>6. PICK j : j = [k EXCEPT !.pc = "derive", !.todo = S]
    OBVIOUS
  <1>7. group[r] # 0
    BY DEF Unlink
  <1>8. R = Pool(r) /\ R = PoolIn(group, r)
    BY <1>1, <1>7, PoolIs DEF Pool
  <1>9. R \in SUBSET Releases /\ r \in R /\ Whole(group, R)
    BY <1>8, PoolsAre
  <1>10. S # {} /\ S \subseteq R
    BY <1>5, <1>9
  <1>11. /\ Begin(h, j, R) /\ group' = [x \in Releases |-> IF x = r \/ (d /\ x \in R \ {r}) THEN 0 ELSE group[x]]
         /\ UNCHANGED <<proposals, page, pin, blocked, carriers, trusted, passedOver>>
    <2>1. Begin(h, Deriving(k, S), R)
      BY <1>1, <1>2, <1>3, <1>4, <1>5, <1>8 DEF Unlink
    <2> QED
      BY <1>1, <1>2, <1>6, <1>10, <2>1 DEF Unlink, Deriving
  <1>12. begun \in Nat /\ begun < MaxJobs /\ MaxJobs \in Nat /\ begun' = begun + 1
    BY <1>11, TablesAre, MetadataConstants DEF Begin
  <1>13. \A x \in Releases : group[x] \in Nat /\ group[x] \in 0..(MaxJobs + 1) /\ group[x] <= begun + 1
    BY <1>12, TablesAre DEF TablesFine
  <1>14. \A x \in Releases : group'[x] = 0 \/ group'[x] = group[x]
    BY <1>11
  <1>15. \A x \in Releases : group'[x] \in 0..(MaxJobs + 1) /\ group'[x] <= begun' + 1
    <2>1. SUFFICES ASSUME NEW x \in Releases
                   PROVE  group'[x] \in 0..(MaxJobs + 1) /\ group'[x] <= begun' + 1
      OBVIOUS
    <2>2. group'[x] = 0 \/ group'[x] = group[x]
      BY <1>14
    <2> QED
      BY <1>12, <1>13, <2>2
  <1>16. \A s \in Releases : group'[s] = group[r] => s \in R
    BY <1>1, <1>7, <1>14 DEF Members
  <1>17. \A x \in Releases \ R : group'[x] = group[x]
    BY <1>9, <1>11
  <1>18. \A x \in R : group'[x] = 0 \/ group'[x] = group[r]
    BY <1>1, <1>14 DEF Members
  <1>19. Whole(group', R)
    BY <1>9, <1>16, <1>18 DEF Whole, PoolIn
  <1>20. Groups(R)
    BY <1>9, <1>11, <1>15, <1>17, <1>19 DEF Groups
  <1>21. Regroups(R)
    BY <1>9, <1>18 DEF Regroups
  <1>22. i.release = r /\ i \in JobState /\ i.pc = "derive" /\ i.plan = IF d THEN <<>> ELSE <<"members">>
    BY <1>3, TaskIs, PlansAre, PlansDiffer
  <1>23. k.release = r /\ k \in JobState /\ k.plan = i.plan /\ k.work = group[r]
    BY <1>4, <1>13, <1>22 DEF JobState
  <1>24. j.release = r /\ j \in JobState /\ j.plan = i.plan /\ j.work = group[r] /\ j.pc = "derive" /\ j.todo = S
    BY <1>6, <1>9, <1>10, <1>23 DEF JobState
  <1>25. InPhase(j)
    BY <1>22, <1>24 DEF InPhase
  <1>26. j.work <= begun' + 1
    BY <1>12, <1>13, <1>24
  <1>27. JobFine(j, R, begun')
    BY <1>7, <1>9, <1>10, <1>24, <1>25, <1>26 DEF JobFine
  <1>28. \A x \in R : x \in Owes(j, group')
    <2>1. CASE d
      BY <1>5, <1>9, <1>24, <2>1 DEF Owes
    <2>2. CASE ~ d
      <3>1. ByWork(j)
        BY <1>22, <1>24, <2>2 DEF ByWork
      <3>2. \A x \in R : x = r \/ group'[x] = j.work
        BY <1>1, <1>9, <1>11, <1>24, <2>2 DEF Members
      <3> QED
        BY <1>5, <1>9, <1>24, <2>2, <3>1, <3>2 DEF Owes
    <2> QED
      BY <2>1, <2>2
  <1>29. \A s \in Releases : group'[s] = j.work => s \in R
    BY <1>16, <1>24
  <1> QED
    BY <1>9, <1>11, <1>20, <1>21, <1>24, <1>27, <1>28, <1>29, GroupsHold

-----------------------------------------------------------------------------
(* The handlers go on. *)

\* What a running job is.
LEMMA Job ==
  ASSUME MetadataInv, NEW h \in Jobs, job[h].pc # "idle"
  PROVE  LET j == job[h]
         IN  /\ j \in JobState /\ JobFine(j, j.reach, begun) /\ j.reach \in SUBSET Releases
             /\ Doubts(j, group, unsure)
             /\ j.alone => AloneFine(j, j.reach, proposals, pin, page, group, blocked)
             /\ j.release \in Releases /\ j.todo \in SUBSET Releases /\ j.work \in Nat /\ begun \in Nat
  <1>1. job[h] \in JobState /\ JobHolds(job[h], proposals, pin, page, group, blocked, unsure, begun) /\ begun \in Nat
    BY Rereads, TablesAre
  <1>2. job[h].reach \in SUBSET Releases /\ job[h].todo \in SUBSET Releases /\ job[h].work \in Nat
    BY <1>1 DEF JobState
  <1> QED
    BY <1>1, <1>2 DEF JobHolds, JobFine

\* It derives the releases of S.
LEMMA DerivingIs ==
  ASSUME NEW j \in JobState, NEW S \in SUBSET Releases, S # {}, NEW k, k = Deriving(j, S)
  PROVE  /\ k \in JobState /\ k.pc = "derive" /\ k.release = j.release /\ k.plan = j.plan /\ k.todo = S
         /\ k.work = j.work /\ k.reach = j.reach /\ k.alone = j.alone /\ k # Idle
  <1>1. k = [j EXCEPT !.pc = "derive", !.todo = S]
    BY DEF Deriving
  <1> QED
    BY <1>1, IdleIs DEF JobState

\* It goes on to its next phase.
LEMMA OnwardIs ==
  ASSUME NEW j \in JobState, NEW k, k = Onward(j),
         j.plan # <<>> => Head(j.plan) \in {"grouping", "auto", "attach", "members", "unblock", "purge"} /\ Tail(j.plan) \in Plans
  PROVE  /\ j.plan = <<>> => k = Idle
         /\ j.plan # <<>> => /\ k \in JobState /\ k.pc = Head(j.plan) /\ k.release = j.release /\ k.plan = Tail(j.plan)
                             /\ k.todo = j.todo /\ k.work = j.work /\ k.reach = j.reach /\ k.alone = j.alone
                             /\ k.read = j.read /\ k # Idle /\ k.pc # "idle"
  <1>1. CASE j.plan = <<>>
    BY <1>1 DEF Onward
  <1>2. CASE j.plan # <<>>
    <2>1. k = [j EXCEPT !.pc = Head(j.plan), !.plan = Tail(j.plan)]
      BY <1>2 DEF Onward
    <2>2. PICK pc : pc = Head(j.plan)
      OBVIOUS
    <2>3. PICK plan : plan = Tail(j.plan)
      OBVIOUS
    <2>4. k = [j EXCEPT !.pc = pc, !.plan = plan] /\ plan \in Plans
          /\ pc \in {"grouping", "auto", "attach", "members", "unblock", "purge"}
      BY <1>2, <2>1, <2>2, <2>3
    <2>5. /\ k \in JobState /\ k.pc = pc /\ k.release = j.release /\ k.plan = plan
          /\ k.todo = j.todo /\ k.work = j.work /\ k.reach = j.reach /\ k.alone = j.alone
          /\ k.read = j.read
      BY <2>4 DEF JobState
    <2> QED
      BY <1>2, <2>2, <2>3, <2>4, <2>5, IdleIs
  <1> QED
    BY <1>1, <1>2

LEMMA GroupingHolds ==
  ASSUME MetadataInv, NEW h \in Jobs, DeriveAfterProposal(h)
  PROVE  MetadataInv'
  <1>1. PICK j : j = job[h]
    OBVIOUS
  <1>2. j.pc = "grouping"
    BY <1>1 DEF DeriveAfterProposal, At
  <1>3. /\ j \in JobState /\ JobFine(j, j.reach, begun) /\ j.reach \in SUBSET Releases
        /\ j.alone => AloneFine(j, j.reach, proposals, pin, page, group, blocked)
        /\ j.release \in Releases
    BY <1>1, <1>2, Job
  <1>4. PICK S : S = PoolIn(group, j.release)
    OBVIOUS
  <1>5. S \in SUBSET Releases /\ j.release \in S /\ Whole(group, S) /\ S = Pool(j.release)
    BY <1>3, <1>4, PoolsAre, PoolIs
  <1>6. PICK k : k = Deriving(j, S)
    OBVIOUS
  <1>7. /\ k \in JobState /\ k.pc = "derive" /\ k.release = j.release /\ k.plan = j.plan /\ k.todo = S
        /\ k.work = j.work /\ k.reach = j.reach /\ k.alone = j.alone /\ k # Idle
    BY <1>3, <1>5, <1>6, DerivingIs
  <1>8. Finds(h, k)
    BY <1>1, <1>5, <1>6 DEF DeriveAfterProposal
  <1>9. j.plan \in {<<>>, <<"auto">>} /\ ~ ByWork(j) /\ ~ ByWork(k) /\ j.work <= begun + 1 /\ j.release \in j.reach
    <2>1. j.plan \in {<<>>, <<"auto">>} /\ j.work <= begun + 1 /\ j.release \in j.reach
      BY <1>2, <1>3 DEF JobFine, InPhase
    <2> QED
      BY <1>2, <1>7, <2>1, PlansDiffer DEF ByWork
  <1>10. JobFine(k, j.reach \cup k.todo, begun)
    <2>1. InPhase(k)
      BY <1>7, <1>9 DEF InPhase
    <2> QED
      BY <1>5, <1>7, <1>9, <2>1 DEF JobFine
  <1>11. j.alone => k.todo \subseteq j.reach /\ AloneFine(k, j.reach, proposals, pin, page, group, blocked)
    BY <1>3, <1>4, <1>7, <1>9 DEF AloneFine, Whole
  <1>12. \A r \in Owes(j, group) : k # Idle /\ r \in Owes(k, group)
    <2>1. j.plan # <<"grouping", "auto">>
      BY <1>9, PlansDiffer
    <2>2. \A r \in Owes(j, group) : r \in S
      BY <1>2, <1>4, <1>9, <2>1 DEF Owes
    <2> QED
      BY <1>5, <1>7, <2>2 DEF Owes
  <1>13. Whole(group, k.todo) /\ k.pc # "idle" /\ j.pc # "idle"
    BY <1>2, <1>5, <1>7
  <1> QED
    BY <1>1, <1>3, <1>7, <1>8, <1>10, <1>11, <1>12, <1>13, FindsHold

LEMMA MembersHold ==
  ASSUME MetadataInv, NEW h \in Jobs, DeriveWork(h)
  PROVE  MetadataInv'
  <1>1. PICK j : j = job[h]
    OBVIOUS
  <1>2. j.pc = "members"
    BY <1>1 DEF DeriveWork, At
  <1>3. /\ j \in JobState /\ JobFine(j, j.reach, begun) /\ j.reach \in SUBSET Releases
        /\ j.alone => AloneFine(j, j.reach, proposals, pin, page, group, blocked)
        /\ j.release \in Releases
    BY <1>1, <1>2, Job
  <1>4. j.plan = <<>> /\ ByWork(j) /\ j.work # 0 /\ j.work <= begun + 1 /\ j.release \in j.reach
    BY <1>2, <1>3 DEF JobFine, InPhase, ByWork
  <1>5. PICK S : S = {r \in Releases : group[r] = j.work}
    OBVIOUS
  <1>6. S \in SUBSET Releases /\ S = Members(j.work) /\ Whole(group, S)
    BY <1>4, <1>5 DEF Members, Whole, PoolIn
  <1>7. PICK k : k = Deriving(j, S)
    OBVIOUS
  <1>8. Finds(h, k) /\ j.pc # "idle"
    BY <1>1, <1>2, <1>6, <1>7 DEF DeriveWork
  <1>9. \A r \in Owes(j, group) : r \in S
    BY <1>2, <1>4, <1>5, PlansDiffer DEF Owes
  <1>10. CASE S = {}
    <2>1. k = Idle
      BY <1>4, <1>7, <1>10 DEF Deriving, Onward
    <2>2. Whole(group, k.todo) /\ k \in JobState
      BY <2>1, IdleIs DEF Whole
    <2> QED
      BY <1>1, <1>3, <1>8, <1>9, <1>10, <2>1, <2>2, FindsHold
  <1>11. CASE S # {}
    <2>1. /\ k \in JobState /\ k.pc = "derive" /\ k.release = j.release /\ k.plan = j.plan /\ k.todo = S
          /\ k.work = j.work /\ k.reach = j.reach /\ k.alone = j.alone /\ k # Idle
      BY <1>3, <1>6, <1>7, <1>11, DerivingIs
    <2>2. ~ ByWork(k)
      BY <1>4, <2>1, PlansDiffer DEF ByWork
    <2>3. JobFine(k, j.reach \cup k.todo, begun)
      <3>1. InPhase(k)
        BY <1>4, <2>1 DEF InPhase
      <3> QED
        BY <1>4, <1>11, <2>1, <2>2, <3>1 DEF JobFine
    <2>4. j.alone => k.todo \subseteq j.reach /\ AloneFine(k, j.reach, proposals, pin, page, group, blocked)
      <3>1. j.alone => S \subseteq j.reach /\ Whole(group, j.reach)
        BY <1>3, <1>4, <1>5 DEF AloneFine
      <3> QED
        BY <2>1, <2>2, <3>1 DEF AloneFine
    <2>5. \A r \in Owes(j, group) : k # Idle /\ r \in Owes(k, group)
      BY <1>6, <1>9, <2>1 DEF Owes
    <2>6. Whole(group, k.todo) /\ k.pc # "idle"
      BY <1>6, <2>1
    <2> QED
      BY <1>1, <1>3, <1>8, <2>1, <2>3, <2>4, <2>5, <2>6, FindsHold
  <1> QED
    BY <1>10, <1>11

LEMMA PurgeListHolds ==
  ASSUME MetadataInv, NEW h \in Jobs, PurgeList(h)
  PROVE  MetadataInv'
  <1>1. PICK j : j = job[h]
    OBVIOUS
  <1>2. j.pc = "purgeList"
    BY <1>1 DEF PurgeList, At
  <1>3. /\ j \in JobState /\ JobFine(j, j.reach, begun) /\ j.reach \in SUBSET Releases
        /\ j.alone => AloneFine(j, j.reach, proposals, pin, page, group, blocked)
        /\ j.release \in Releases
    BY <1>1, <1>2, Job
  <1>4. j.plan = <<"purge", "members">> /\ ByWork(j) /\ j.work # 0 /\ j.work <= begun + 1 /\ j.release \in j.reach
    BY <1>2, <1>3 DEF JobFine, InPhase, ByWork
  <1>5. PICK S : S = {r \in Releases : group[r] = j.work}
    OBVIOUS
  <1>6. S \in SUBSET Releases /\ S = Members(j.work) /\ Whole(group, S)
    BY <1>4, <1>5 DEF Members, Whole, PoolIn
  <1>7. PICK i : i = Onward(j)
    OBVIOUS
  <1>8. /\ i \in JobState /\ i.pc = "purge" /\ i.release = j.release /\ i.plan = <<"members">>
        /\ i.work = j.work /\ i.reach = j.reach /\ i.alone = j.alone
    <2>1. Head(j.plan) = "purge" /\ Tail(j.plan) = <<"members">> /\ j.plan # <<>>
      BY <1>4, PlansAre, PlansDiffer
    <2> QED
      BY <1>3, <1>7, <2>1, OnwardIs, PlansDiffer
  <1>9. PICK k : k = [i EXCEPT !.todo = S]
    OBVIOUS
  <1>10. /\ k \in JobState /\ k.pc = "purge" /\ k.release = j.release /\ k.plan = <<"members">> /\ k.todo = S
         /\ k.work = j.work /\ k.reach = j.reach /\ k.alone = j.alone /\ k.pc # "idle"
    BY <1>6, <1>8, <1>9 DEF JobState
  <1>11. k # Idle
    BY <1>10, IdleIs
  <1>12. Finds(h, k) /\ j.pc # "idle"
    BY <1>1, <1>2, <1>6, <1>7, <1>9 DEF PurgeList
  <1>13. ByWork(k) /\ InPhase(k)
    BY <1>10 DEF ByWork, InPhase
  <1>14. JobFine(k, j.reach \cup k.todo, begun)
    BY <1>4, <1>10, <1>13 DEF JobFine
  <1>15. j.alone => k.todo \subseteq j.reach /\ AloneFine(k, j.reach, proposals, pin, page, group, blocked)
    <2>1. j.alone => S \subseteq j.reach /\ Whole(group, j.reach)
      BY <1>3, <1>4, <1>5 DEF AloneFine
    <2> QED
      BY <1>5, <1>10, <2>1 DEF AloneFine
  <1>16. \A r \in Owes(j, group) : k # Idle /\ r \in Owes(k, group)
    <2>1. \A r \in Owes(j, group) : r \in Releases /\ group[r] = j.work
      BY <1>2, <1>4, PlansDiffer DEF Owes
    <2> QED
      BY <1>10, <1>11, <1>13, <2>1 DEF Owes
  <1>17. Whole(group, k.todo)
    BY <1>6, <1>10
  <1> QED
    BY <1>1, <1>3, <1>10, <1>12, <1>14, <1>15, <1>16, <1>17, FindsHold

\* What a step changes beside the pages, for the releases of R.
Changes(R) ==
  /\ group' = group /\ begun' = begun /\ page' = page /\ passedOver' = passedOver /\ unsure' = unsure
  /\ trusted' = trusted /\ carriers' \subseteq Releases /\ blocked' \subseteq Releases
  /\ pin' \in [Releases -> {None} \cup [shows : Shown, hand : BOOLEAN]] /\ proposals' \in SUBSET proposals
  /\ {p \in proposals : p.release \notin R} = {p \in proposals' : p.release \notin R}
  /\ \A x \in Releases \ R : pin'[x] = pin[x] /\ (x \in blocked' <=> x \in blocked)

LEMMA ChangesHold ==
  ASSUME MetadataInv, NEW h \in Jobs, NEW j \in JobState, j = job[h], j.pc # "idle", NEW k \in JobState,
         k = Idle \/ (k.pc # "idle" /\ k.reach = j.reach /\ k.alone = j.alone),
         job' = [job EXCEPT ![h] = k], Changes(j.reach),
         k # Idle => JobFine(k, j.reach, begun),
         j.alone /\ k # Idle => AloneFine(k, j.reach, proposals', pin', page, group, blocked'),
         j.alone => \A r \in j.reach :
           r \in Owes(j, group) \/ page[r] = AnswerIn(proposals, pin, group, r) =>
             page[r] = AnswerIn(proposals', pin', group, r) \/ (k # Idle /\ r \in Owes(k, group))
  PROVE  MetadataInv'
  <1>1. /\ group' = group /\ begun' = begun /\ page' = page /\ passedOver' = passedOver /\ unsure' = unsure
        /\ trusted' = trusted /\ carriers' \subseteq Releases /\ blocked' \subseteq Releases
        /\ pin' \in [Releases -> {None} \cup [shows : Shown, hand : BOOLEAN]] /\ proposals' \in SUBSET proposals
        /\ {p \in proposals : p.release \notin j.reach} = {p \in proposals' : p.release \notin j.reach}
        /\ \A x \in Releases \ j.reach : pin'[x] = pin[x] /\ (x \in blocked' <=> x \in blocked)
    BY DEF Changes
  <1>2. begun \in Nat /\ begun' \in Nat /\ begun <= begun' /\ begun' \in 0..MaxJobs
    BY <1>1, TablesAre
  <1>3. After
    <2>1. RowsFine(proposals', begun')
      BY <1>1, <1>2, RowsGo, TablesAre DEF TablesFine
    <2>2. /\ page \in [Releases -> Shown] /\ trusted \subseteq Accounts /\ passedOver \subseteq Releases
          /\ group \in [Releases -> 0..(MaxJobs + 1)] /\ \A r \in Releases : group[r] <= begun + 1
      BY TablesAre DEF TablesFine
    <2>3. TablesFine(proposals', page', pin', blocked', carriers', group', trusted', begun')
      BY <1>1, <2>1, <2>2 DEF TablesFine
    <2> QED
      BY <1>1, <1>2, <2>2, <2>3 DEF After
  <1>4. Confined(j.reach)
    BY <1>1 DEF Confined
  <1>5. PICK S \in SUBSET Releases : S = {}
    OBVIOUS
  <1>6. S \subseteq j.reach /\ passedOver' = passedOver \ S /\ unsure' = (IF j.alone THEN unsure \ S ELSE unsure)
    BY <1>1, <1>5
  <1>7. j.alone /\ k # Idle => AloneFine(k, j.reach, proposals', pin', page', group, blocked')
    BY <1>1
  <1>8. j.alone => \A r \in j.reach :
          /\ r \in S => page'[r] = AnswerIn(proposals', pin', group, r)
          /\ r \notin S /\ (r \in Owes(j, group) \/ page[r] = AnswerIn(proposals, pin, group, r)) =>
               page'[r] = AnswerIn(proposals', pin', group, r) \/ (k # Idle /\ r \in Owes(k, group))
    BY <1>1, <1>5
  <1>9. begun' = begun /\ group' = group
    BY <1>1
  <1> QED
    BY <1>3, <1>4, <1>6, <1>7, <1>8, <1>9, MoveHolds

LEMMA PlansAhead ==
  ASSUME NEW j, InPhase(j)
  PROVE  j.plan # <<>> => Head(j.plan) \in {"grouping", "auto", "attach", "members", "unblock", "purge"} /\ Tail(j.plan) \in Plans
  <1>1. SUFFICES ASSUME j.plan # <<>>
                 PROVE  Head(j.plan) \in {"grouping", "auto", "attach", "members", "unblock", "purge"} /\ Tail(j.plan) \in Plans
    OBVIOUS
  <1>2. j.plan \in {<<"auto">>, <<"attach">>, <<"members">>, <<"unblock">>, <<"grouping", "auto">>, <<"purge", "members">>}
    BY <1>1 DEF InPhase
  <1> QED
    BY <1>2, PlansAre, PlansDiffer

LEMMA AttachHolds ==
  ASSUME MetadataInv, NEW h \in Jobs, Attach(h)
  PROVE  MetadataInv'
  <1>1. PICK j : j = job[h]
    OBVIOUS
  <1>2. j.pc = "attach"
    BY <1>1 DEF Attach, At
  <1>3. /\ j \in JobState /\ JobFine(j, j.reach, begun) /\ j.reach \in SUBSET Releases
        /\ j.alone => AloneFine(j, j.reach, proposals, pin, page, group, blocked)
        /\ j.release \in Releases
    BY <1>1, <1>2, Job
  <1>4. j.plan \in {<<>>, <<"grouping", "auto">>} /\ j.release \in j.reach /\ j.todo = {} /\ j.work <= begun + 1
    BY <1>2, <1>3 DEF JobFine, InPhase
  <1>5. PICK k : k = Onward(j)
    OBVIOUS
  <1>6. job' = [job EXCEPT ![h] = k] /\ carriers' = carriers \cup {j.release} /\ begun' = begun
        /\ UNCHANGED <<proposals, page, pin, blocked, group, trusted, unsure, passedOver>>
    BY <1>1, <1>5 DEF Attach, Moves
  <1>7. Changes(j.reach)
    BY <1>3, <1>6, TablesAre DEF Changes, TablesFine
  <1>8. CASE j.plan = <<>>
    <2>1. k = Idle /\ k \in JobState
      BY <1>5, <1>8, IdleIs DEF Onward
    <2>2. Owes(j, group) = {}
      BY <1>2, <1>8, PlansDiffer DEF Owes, ByWork
    <2>3. \A r \in j.reach :
            r \in Owes(j, group) \/ page[r] = AnswerIn(proposals, pin, group, r) =>
              page[r] = AnswerIn(proposals', pin', group, r) \/ (k # Idle /\ r \in Owes(k, group))
      BY <1>6, <2>2
    <2> QED
      BY <1>1, <1>2, <1>3, <1>6, <1>7, <2>1, <2>3, ChangesHold
  <1>9. CASE j.plan = <<"grouping", "auto">>
    <2>1. /\ k \in JobState /\ k.pc = "grouping" /\ k.release = j.release /\ k.plan = <<"auto">>
          /\ k.todo = j.todo /\ k.work = j.work /\ k.reach = j.reach /\ k.alone = j.alone /\ k # Idle
      BY <1>3, <1>5, <1>9, OnwardIs, PlansAre, PlansDiffer
    <2>2. ~ ByWork(k) /\ ~ ByWork(j)
      BY <1>2, <1>9, <2>1, PlansDiffer DEF ByWork
    <2>3. JobFine(k, j.reach, begun)
      <3>1. InPhase(k)
        BY <2>1 DEF InPhase
      <3> QED
        BY <1>4, <2>1, <2>2, <3>1 DEF JobFine
    <2>4. j.alone => AloneFine(k, j.reach, proposals', pin', page, group, blocked')
      BY <1>3, <2>1, <2>2 DEF AloneFine
    <2>5. Owes(j, group) \subseteq Owes(k, group)
      BY <1>2, <1>9, <2>1, <2>2 DEF Owes
    <2>6. \A r \in j.reach :
            r \in Owes(j, group) \/ page[r] = AnswerIn(proposals, pin, group, r) =>
              page[r] = AnswerIn(proposals', pin', group, r) \/ (k # Idle /\ r \in Owes(k, group))
      BY <1>6, <2>1, <2>5
    <2>7. k.pc # "idle"
      BY <2>1
    <2> QED
      BY <1>1, <1>2, <1>3, <1>6, <1>7, <2>1, <2>3, <2>4, <2>6, <2>7, ChangesHold
  <1> QED
    BY <1>4, <1>8, <1>9

LEMMA DeriveHolds ==
  ASSUME MetadataInv, NEW h \in Jobs, DeriveMetadata(h)
  PROVE  MetadataInv'
  <1>1. PICK j : j = job[h]
    OBVIOUS
  <1>2. j.pc = "derive"
    BY <1>1 DEF DeriveMetadata, At
  <1>3. /\ j \in JobState /\ JobFine(j, j.reach, begun) /\ j.reach \in SUBSET Releases
        /\ j.alone => AloneFine(j, j.reach, proposals, pin, page, group, blocked)
        /\ j.release \in Releases /\ j.todo \in SUBSET Releases
    BY <1>1, <1>2, Job
  <1>4. j.todo # {} /\ j.todo \subseteq j.reach /\ j.release \in j.reach /\ j.work <= begun + 1 /\ (ByWork(j) => j.work # 0)
    BY <1>2, <1>3 DEF JobFine
  <1>5. PICK r : r = Least(j.todo)
    OBVIOUS
  <1>6. r \in Releases
    BY <1>3, <1>4, <1>5, FirstIs
  <1>7. PICK a \in Shown : a = Answer(r)
    BY <1>6, AnswersAre
  <1>8. a = AnswerIn(proposals, pin, group, r)
    BY <1>6, <1>7, AnswerIs
  <1>9. PICK k : k = [j EXCEPT !.pc = "write", !.read = a]
    OBVIOUS
  <1>10. /\ k \in JobState /\ k.pc = "write" /\ k.release = j.release /\ k.plan = j.plan /\ k.todo = j.todo
         /\ k.work = j.work /\ k.reach = j.reach /\ k.alone = j.alone /\ k.read = a /\ k.pc # "idle"
    BY <1>3, <1>9 DEF JobState
  <1>11. job' = [job EXCEPT ![h] = k] /\ begun' = begun
         /\ UNCHANGED <<proposals, page, pin, blocked, carriers, group, trusted, unsure, passedOver>>
    BY <1>1, <1>5, <1>7, <1>9 DEF DeriveMetadata, Moves, Reads, tables
  <1>12. Changes(j.reach)
    BY <1>11, TablesAre DEF Changes, TablesFine
  <1>13. ByWork(k) <=> ByWork(j)
    BY <1>2, <1>10 DEF ByWork
  <1>14. JobFine(k, j.reach, begun)
    <2>1. InPhase(k)
      BY <1>2, <1>3, <1>10 DEF JobFine, InPhase
    <2> QED
      BY <1>4, <1>10, <1>13, <2>1 DEF JobFine
  <1>15. j.alone => AloneFine(k, j.reach, proposals', pin', page, group, blocked')
    BY <1>3, <1>5, <1>8, <1>10, <1>11, <1>13 DEF AloneFine
  <1>16. Owes(k, group) = Owes(j, group)
    BY <1>2, <1>10, <1>13 DEF Owes
  <1>17. k # Idle
    BY <1>10, IdleIs
  <1>18. \A x \in j.reach :
           x \in Owes(j, group) \/ page[x] = AnswerIn(proposals, pin, group, x) =>
             page[x] = AnswerIn(proposals', pin', group, x) \/ (k # Idle /\ x \in Owes(k, group))
    BY <1>11, <1>16, <1>17
  <1> QED
    BY <1>1, <1>2, <1>3, <1>10, <1>11, <1>12, <1>14, <1>15, <1>18, ChangesHold

LEMMA PurgeListedHolds ==
  ASSUME MetadataInv, NEW h \in Jobs, PurgeListed(h)
  PROVE  MetadataInv'
  <1>1. PICK j : j = job[h]
    OBVIOUS
  <1>2. j.pc = "purge"
    BY <1>1 DEF PurgeListed, At
  <1>3. /\ j \in JobState /\ JobFine(j, j.reach, begun) /\ j.reach \in SUBSET Releases
        /\ j.alone => AloneFine(j, j.reach, proposals, pin, page, group, blocked)
        /\ j.release \in Releases /\ j.todo \in SUBSET Releases
    BY <1>1, <1>2, Job
  <1>4. /\ j.plan = <<"members">> /\ ByWork(j) /\ j.work # 0 /\ j.work <= begun + 1 /\ j.release \in j.reach
        /\ j.todo \subseteq j.reach
    BY <1>2, <1>3 DEF JobFine, InPhase, ByWork
  <1>5. PICK i : i = Onward(j)
    OBVIOUS
  <1>6. /\ i \in JobState /\ i.pc = "members" /\ i.release = j.release /\ i.plan = <<>>
        /\ i.work = j.work /\ i.reach = j.reach /\ i.alone = j.alone
    BY <1>3, <1>4, <1>5, OnwardIs, PlansAre, PlansDiffer
  <1>7. PICK k : k = [i EXCEPT !.todo = {}]
    OBVIOUS
  <1>8. /\ k \in JobState /\ k.pc = "members" /\ k.release = j.release /\ k.plan = <<>> /\ k.todo = {}
        /\ k.work = j.work /\ k.reach = j.reach /\ k.alone = j.alone /\ k.pc # "idle"
    BY <1>6, <1>7 DEF JobState
  <1>9. /\ job' = [job EXCEPT ![h] = k] /\ begun' = begun
        /\ proposals' = {p \in proposals : p.release \notin j.todo}
        /\ pin' = [x \in Releases |-> IF x \in j.todo THEN None ELSE pin[x]]
        /\ UNCHANGED <<page, blocked, carriers, group, trusted, unsure, passedOver>>
    BY <1>1, <1>5, <1>7 DEF PurgeListed, Moves, PurgeProposals
  <1>10. Changes(j.reach)
    <2>1. pin' \in [Releases -> {None} \cup [shows : Shown, hand : BOOLEAN]]
      BY <1>9, TablesAre DEF TablesFine
    <2>2. {p \in proposals : p.release \notin j.reach} = {p \in proposals' : p.release \notin j.reach}
      BY <1>4, <1>9
    <2>3. \A x \in Releases \ j.reach : pin'[x] = pin[x] /\ (x \in blocked' <=> x \in blocked)
      BY <1>4, <1>9
    <2> QED
      BY <1>9, <2>1, <2>2, <2>3, TablesAre DEF Changes, TablesFine
  <1>11. k # Idle
    BY <1>8, IdleIs
  <1>12. JobFine(k, j.reach, begun)
    <2>1. InPhase(k)
      BY <1>8 DEF InPhase
    <2> QED
      BY <1>4, <1>8, <2>1 DEF JobFine
  <1>13. j.alone => AloneFine(k, j.reach, proposals', pin', page, group, blocked')
    BY <1>3, <1>4, <1>8 DEF AloneFine
  <1>14. \A r \in Releases : group[r] = j.work => r \in Owes(k, group)
    BY <1>8 DEF Owes, ByWork
  <1>15. ASSUME j.alone, NEW r \in j.reach, r \in Owes(j, group) \/ page[r] = AnswerIn(proposals, pin, group, r)
         PROVE  page[r] = AnswerIn(proposals', pin', group, r) \/ (k # Idle /\ r \in Owes(k, group))
    <2>1. r \in Releases
      BY <1>3
    <2>2. CASE group[r] = j.work
      BY <1>11, <1>14, <2>1, <2>2
    <2>3. CASE group[r] # j.work
      <3>1. page[r] = AnswerIn(proposals, pin, group, r)
        BY <1>2, <1>4, <1>15, <2>3, PlansDiffer DEF Owes
      <3>2. \A x \in j.todo : group[x] = j.work
        BY <1>2, <1>3, <1>15 DEF AloneFine
      <3>3. PICK P : P = PoolIn(group, r)
        OBVIOUS
      <3>4. P \cap j.todo = {} /\ r \notin j.todo
        BY <2>3, <3>2, <3>3 DEF PoolIn
      <3>5. {p \in proposals' : p.release \in P} = {p \in proposals : p.release \in P}
        BY <1>9, <3>4
      <3>6. pin'[r] = pin[r]
        BY <1>9, <2>1, <3>4
      <3>7. AnswerIn(proposals', pin', group, r) = AnswerIn(proposals, pin, group, r)
        BY <3>3, <3>5, <3>6 DEF AnswerIn
      <3> QED
        BY <3>1, <3>7
    <2> QED
      BY <2>2, <2>3
  <1> QED
    BY <1>1, <1>2, <1>3, <1>8, <1>9, <1>10, <1>12, <1>13, <1>15, ChangesHold

LEMMA WriteHolds ==
  ASSUME MetadataInv, NEW h \in Jobs, WriteDerived(h)
  PROVE  MetadataInv'
  <1>1. PICK j : j = job[h]
    OBVIOUS
  <1>2. j.pc = "write"
    BY <1>1 DEF WriteDerived, At
  <1>3. /\ j \in JobState /\ JobFine(j, j.reach, begun) /\ j.reach \in SUBSET Releases
        /\ j.alone => AloneFine(j, j.reach, proposals, pin, page, group, blocked)
        /\ j.release \in Releases /\ j.todo \in SUBSET Releases
    BY <1>1, <1>2, Job
  <1>4. /\ j.todo # {} /\ j.todo \subseteq j.reach /\ j.release \in j.reach /\ j.work <= begun + 1
        /\ (ByWork(j) => j.work # 0) /\ InPhase(j)
    BY <1>2, <1>3 DEF JobFine
  <1>5. PICK r : r = Least(j.todo)
    OBVIOUS
  <1>6. r \in j.todo /\ r \in Releases /\ r \in j.reach
    BY <1>3, <1>4, <1>5, FirstIs
  <1>7. PICK i : i = [j EXCEPT !.read = Empty, !.todo = {}]
    OBVIOUS
  <1>8. /\ i \in JobState /\ i.pc = "write" /\ i.release = j.release /\ i.plan = j.plan /\ i.todo = {}
        /\ i.work = j.work /\ i.reach = j.reach /\ i.alone = j.alone
    <2>1. Empty \in Shown
      BY DEF Empty, Shown
    <2> QED
      BY <1>2, <1>3, <1>7, <2>1 DEF JobState
  <1>9. PICK S \in SUBSET Releases : S = j.todo \ {r}
    BY <1>3
  <1>10. PICK k : k = Deriving(i, S)
    OBVIOUS
  <1>11. /\ job' = [job EXCEPT ![h] = k] /\ begun' = begun /\ page' = [page EXCEPT ![r] = j.read]
         /\ unsure' = (IF j.alone THEN unsure \ {r} ELSE unsure) /\ passedOver' = passedOver \ {r}
         /\ UNCHANGED <<proposals, pin, blocked, carriers, group, trusted>>
    BY <1>1, <1>5, <1>7, <1>9, <1>10 DEF WriteDerived, Moves
  <1>12. After
    <2>1. /\ page \in [Releases -> Shown] /\ passedOver \subseteq Releases /\ begun \in Nat /\ begun \in 0..MaxJobs
          /\ TablesFine(proposals, page, pin, blocked, carriers, group, trusted, begun)
      BY TablesAre DEF TablesFine
    <2>2. page' \in [Releases -> Shown]
      <3>1. j.read \in Shown
        BY <1>3 DEF JobState
      <3> QED
        BY <1>11, <2>1, <3>1
    <2>3. TablesFine(proposals', page', pin', blocked', carriers', group', trusted', begun')
      BY <1>11, <2>1, <2>2 DEF TablesFine
    <2> QED
      BY <1>11, <2>1, <2>3 DEF After
  <1>13. Confined(j.reach)
    <2>1. \A x \in Releases \ j.reach : page'[x] = page[x]
      BY <1>6, <1>11, TablesAre DEF TablesFine
    <2> QED
      BY <1>11, <2>1 DEF Confined
  <1>14. {r} \in SUBSET Releases /\ {r} \subseteq j.reach
    BY <1>6
  <1>15. j.alone => page'[r] = AnswerIn(proposals', pin', group, r)
    <2>1. j.alone => j.read = AnswerIn(proposals, pin, group, r)
      BY <1>2, <1>3, <1>5 DEF AloneFine
    <2> QED
      BY <1>6, <1>11, <2>1, TablesAre DEF TablesFine
  <1>16. \A x \in Releases : x # r => page'[x] = page[x]
    BY <1>6, <1>11, TablesAre DEF TablesFine
  <1>17. j.alone => Whole(group, j.reach) /\ (ByWork(j) => \A x \in Releases : group[x] = j.work => x \in j.reach)
    BY <1>3 DEF AloneFine
  <1>18. Owes(j, group) = j.todo \cup {x \in Releases : ByWork(j) /\ group[x] = j.work}
    <2>1. j.plan # <<"grouping", "auto">>
      BY <1>2, <1>4, PlansDiffer DEF InPhase
    <2> QED
      BY <1>2, <1>3, <2>1 DEF Owes
  <1>19. /\ k \in JobState /\ (k = Idle \/ (k.pc # "idle" /\ k.reach = j.reach /\ k.alone = j.alone))
         /\ k # Idle => JobFine(k, j.reach, begun) /\ k.pc \notin {"write", "pinByHand", "autoPin", "purge"}
                        /\ k.work = j.work /\ (ByWork(k) => ByWork(j))
         /\ S \cup {x \in Releases : ByWork(j) /\ group[x] = j.work} = {} \/ k # Idle
         /\ k # Idle => S \cup {x \in Releases : ByWork(j) /\ group[x] = j.work} \subseteq Owes(k, group)
    <2>1. CASE S # {}
      <3>1. /\ k \in JobState /\ k.pc = "derive" /\ k.release = i.release /\ k.plan = i.plan /\ k.todo = S
            /\ k.work = i.work /\ k.reach = i.reach /\ k.alone = i.alone /\ k # Idle
        BY <1>8, <1>10, <2>1, DerivingIs
      <3>2. ByWork(k) <=> ByWork(j)
        BY <1>2, <1>8, <3>1 DEF ByWork
      <3>3. InPhase(k)
        BY <1>2, <1>4, <1>8, <3>1 DEF InPhase
      <3>4. S \subseteq j.reach
        BY <1>4, <1>9
      <3>5. JobFine(k, j.reach, begun)
        BY <1>4, <1>8, <2>1, <3>1, <3>2, <3>3, <3>4 DEF JobFine
      <3>6. S \cup {x \in Releases : ByWork(j) /\ group[x] = j.work} \subseteq Owes(k, group)
        BY <1>8, <3>1, <3>2 DEF Owes
      <3> QED
        BY <1>8, <3>1, <3>2, <3>5, <3>6
    <2>2. CASE S = {} /\ j.plan = <<>>
      <3>1. k = Idle /\ k \in JobState
        BY <1>8, <1>10, <2>2, IdleIs DEF Deriving, Onward
      <3>2. ~ ByWork(j)
        BY <1>2, <2>2, PlansDiffer DEF ByWork
      <3> QED
        BY <2>2, <3>1, <3>2
    <2>3. CASE S = {} /\ j.plan # <<>>
      <3>1. j.plan \in {<<"auto">>, <<"attach">>, <<"members">>}
        BY <1>2, <1>4, <2>3 DEF InPhase
      <3>2. k = Onward(i)
        BY <1>10, <2>3 DEF Deriving
      <3>3. Head(j.plan) \in {"auto", "attach", "members"} /\ Tail(j.plan) = <<>> /\ Tail(j.plan) \in Plans
        BY <3>1, PlansAre, PlansDiffer
      <3>4. i.plan # <<>> => Head(i.plan) \in {"grouping", "auto", "attach", "members", "unblock", "purge"} /\ Tail(i.plan) \in Plans
        BY <1>8, <3>3
      <3>5. /\ k \in JobState /\ k.pc = Head(j.plan) /\ k.release = i.release /\ k.plan = <<>>
            /\ k.todo = i.todo /\ k.work = i.work /\ k.reach = i.reach /\ k.alone = i.alone
            /\ k # Idle /\ k.pc # "idle"
        BY <1>8, <2>3, <3>2, <3>3, <3>4, OnwardIs
      <3>6. k.pc = "members" <=> j.plan = <<"members">>
        BY <3>1, <3>5, PlansAre, PlansDiffer
      <3>7. ByWork(k) <=> ByWork(j)
        BY <1>2, <3>3, <3>5, <3>6, PlansDiffer DEF ByWork
      <3>8. InPhase(k)
        BY <3>3, <3>5 DEF InPhase
      <3>9. JobFine(k, j.reach, begun)
        BY <1>4, <1>8, <3>3, <3>5, <3>7, <3>8 DEF JobFine
      <3>10. S \cup {x \in Releases : ByWork(j) /\ group[x] = j.work} \subseteq Owes(k, group)
        BY <1>8, <2>3, <3>5, <3>7 DEF Owes
      <3> QED
        BY <1>8, <3>3, <3>5, <3>7, <3>9, <3>10
    <2> QED
      BY <2>1, <2>2, <2>3
  <1>20. j.alone /\ k # Idle => AloneFine(k, j.reach, proposals', pin', page', group, blocked')
    BY <1>17, <1>19 DEF AloneFine
  <1>21. ASSUME j.alone, NEW x \in j.reach
         PROVE  /\ x \in {r} => page'[x] = AnswerIn(proposals', pin', group, x)
                /\ x \notin {r} /\ (x \in Owes(j, group) \/ page[x] = AnswerIn(proposals, pin, group, x)) =>
                     page'[x] = AnswerIn(proposals', pin', group, x) \/ (k # Idle /\ x \in Owes(k, group))
    <2>1. CASE x = r
      BY <1>15, <1>21, <2>1
    <2>2. CASE x # r /\ x \in Owes(j, group)
      <3>1. x \in S \cup {y \in Releases : ByWork(j) /\ group[y] = j.work}
        BY <1>9, <1>18, <2>2
      <3> QED
        BY <1>19, <2>2, <3>1
    <2>3. CASE x # r /\ page[x] = AnswerIn(proposals, pin, group, x)
      BY <1>3, <1>11, <1>16, <2>3
    <2> QED
      BY <2>1, <2>2, <2>3
  <1>22. begun' = begun /\ group' = group /\ job' = [job EXCEPT ![h] = k] /\ j.pc # "idle"
    BY <1>2, <1>11
  <1>23. PICK Written \in SUBSET Releases : Written = {r}
    BY <1>14
  <1>24. Written \subseteq j.reach /\ passedOver' = passedOver \ Written /\ unsure' = (IF j.alone THEN unsure \ Written ELSE unsure)
    BY <1>11, <1>14, <1>23
  <1>25. j.alone => \A x \in j.reach :
           /\ x \in Written => page'[x] = AnswerIn(proposals', pin', group, x)
           /\ x \notin Written /\ (x \in Owes(j, group) \/ page[x] = AnswerIn(proposals, pin, group, x)) =>
                page'[x] = AnswerIn(proposals', pin', group, x) \/ (k # Idle /\ x \in Owes(k, group))
    BY <1>21, <1>23
  <1>26. j \in JobState /\ k \in JobState /\ (k = Idle \/ (k.pc # "idle" /\ k.reach = j.reach /\ k.alone = j.alone))
         /\ (k # Idle => JobFine(k, j.reach, begun))
    BY <1>3, <1>19
  <1> QED
    BY <1>1, <1>12, <1>13, <1>20, <1>22, <1>24, <1>25, <1>26, MoveHolds

LEMMA PinsShow ==
  ASSUME NEW shows \in Shown, NEW hand \in BOOLEAN, NEW x, x = [shows |-> shows, hand |-> hand]
  PROVE  x # None /\ x.shows = shows /\ x.hand = hand
  <1>1. PICK T : T = [shows : Shown, hand : BOOLEAN]
    OBVIOUS
  <1>2. x \in T
    BY <1>1
  <1>3. None \notin T
    BY <1>1, MetadataConstants
  <1> QED
    BY <1>2, <1>3

LEMMA PinByHandHolds ==
  ASSUME MetadataInv, NEW h \in Jobs, PinByHand(h)
  PROVE  MetadataInv'
  <1>1. PICK j : j = job[h]
    OBVIOUS
  <1>2. j.pc = "pinByHand"
    BY <1>1 DEF PinByHand, At
  <1>3. /\ j \in JobState /\ JobFine(j, j.reach, begun) /\ j.reach \in SUBSET Releases
        /\ j.alone => AloneFine(j, j.reach, proposals, pin, page, group, blocked)
        /\ j.release \in Releases
    BY <1>1, <1>2, Job
  <1>4. j.plan = <<"unblock">> /\ j.release \in j.reach /\ j.todo = {} /\ j.work <= begun + 1 /\ j.read \in Shown
    BY <1>2, <1>3 DEF JobFine, InPhase, JobState
  <1>5. PICK k : k = Onward(j)
    OBVIOUS
  <1>6. /\ k \in JobState /\ k.pc = "unblock" /\ k.release = j.release /\ k.plan = <<>> /\ k.todo = {}
        /\ k.work = j.work /\ k.reach = j.reach /\ k.alone = j.alone /\ k.pc # "idle"
    BY <1>3, <1>4, <1>5, OnwardIs, PlansAre, PlansDiffer
  <1>7. /\ job' = [job EXCEPT ![h] = k] /\ begun' = begun
        /\ pin' = [pin EXCEPT ![j.release] = [shows |-> j.read, hand |-> TRUE]]
        /\ UNCHANGED <<proposals, page, blocked, carriers, group, trusted, unsure, passedOver>>
    BY <1>1, <1>5 DEF PinByHand, Moves, ConfirmMetadata
  <1>8. Changes(j.reach)
    BY <1>3, <1>4, <1>7, TablesAre DEF Changes, TablesFine
  <1>9. ~ ByWork(k) /\ ~ ByWork(j) /\ Owes(j, group) = {}
    BY <1>2, <1>4, <1>6, PlansDiffer DEF ByWork, Owes
  <1>10. JobFine(k, j.reach, begun)
    <2>1. InPhase(k)
      BY <1>6 DEF InPhase
    <2> QED
      BY <1>4, <1>6, <1>9, <2>1 DEF JobFine
  <1>11. j.alone => AloneFine(k, j.reach, proposals', pin', page, group, blocked')
    BY <1>3, <1>6, <1>9 DEF AloneFine
  <1>12. ASSUME j.alone, NEW r \in j.reach, page[r] = AnswerIn(proposals, pin, group, r)
         PROVE  page[r] = AnswerIn(proposals', pin', group, r)
    <2>1. CASE r = j.release
      <3>1. j.read = page[r]
        BY <1>2, <1>3, <1>12, <2>1 DEF AloneFine
      <3>2. pin'[r] = [shows |-> j.read, hand |-> TRUE]
        BY <1>3, <1>7, <2>1, TablesAre DEF TablesFine
      <3>3. pin'[r] # None /\ pin'[r].shows = j.read
        BY <1>4, <3>2, PinsShow
      <3> QED
        BY <3>1, <3>3 DEF AnswerIn
    <2>2. CASE r # j.release
      <3>1. pin'[r] = pin[r] /\ proposals' = proposals
        BY <1>3, <1>7, <2>2, TablesAre DEF TablesFine
      <3> QED
        BY <1>12, <3>1 DEF AnswerIn
    <2> QED
      BY <2>1, <2>2
  <1>13. j.alone => \A r \in j.reach :
           r \in Owes(j, group) \/ page[r] = AnswerIn(proposals, pin, group, r) =>
             page[r] = AnswerIn(proposals', pin', group, r) \/ (k # Idle /\ r \in Owes(k, group))
    BY <1>9, <1>12
  <1> QED
    BY <1>1, <1>2, <1>3, <1>6, <1>7, <1>8, <1>10, <1>11, <1>13, ChangesHold

LEMMA UnblockHolds ==
  ASSUME MetadataInv, NEW h \in Jobs, Unblock(h)
  PROVE  MetadataInv'
  <1>1. PICK j : j = job[h]
    OBVIOUS
  <1>2. j.pc = "unblock"
    BY <1>1 DEF Unblock, At
  <1>3. j \in JobState /\ JobFine(j, j.reach, begun) /\ j.reach \in SUBSET Releases /\ j.release \in Releases
    BY <1>1, <1>2, Job
  <1>4. j.plan = <<>> /\ j.release \in j.reach
    BY <1>2, <1>3 DEF JobFine, InPhase
  <1>5. PICK k \in JobState : k = Idle
    BY IdleIs
  <1>6. /\ job' = [job EXCEPT ![h] = k] /\ begun' = begun /\ blocked' = blocked \ {j.release}
        /\ UNCHANGED <<proposals, page, pin, carriers, group, trusted, unsure, passedOver>>
    BY <1>1, <1>4, <1>5 DEF Unblock, Moves, Onward
  <1>7. Changes(j.reach)
    BY <1>3, <1>4, <1>6, TablesAre DEF Changes, TablesFine
  <1>8. Owes(j, group) = {}
    BY <1>2, <1>4, PlansDiffer DEF ByWork, Owes
  <1>9. \A r \in j.reach :
          r \in Owes(j, group) \/ page[r] = AnswerIn(proposals, pin, group, r) =>
            page[r] = AnswerIn(proposals', pin', group, r) \/ (k # Idle /\ r \in Owes(k, group))
    BY <1>6, <1>8
  <1> QED
    BY <1>1, <1>2, <1>3, <1>5, <1>6, <1>7, <1>9, ChangesHold

LEMMA AutoHolds ==
  ASSUME MetadataInv, NEW h \in Jobs, AutoConfirmIfEligible(h)
  PROVE  MetadataInv'
  <1>1. PICK j : j = job[h]
    OBVIOUS
  <1>2. j.pc = "auto"
    BY <1>1 DEF AutoConfirmIfEligible, At
  <1>3. /\ j \in JobState /\ JobFine(j, j.reach, begun) /\ j.reach \in SUBSET Releases
        /\ j.alone => AloneFine(j, j.reach, proposals, pin, page, group, blocked)
        /\ j.release \in Releases
    BY <1>1, <1>2, Job
  <1>4. j.plan = <<>> /\ j.release \in j.reach /\ j.todo = {} /\ j.work <= begun + 1
    BY <1>2, <1>3 DEF JobFine, InPhase
  <1>5. PICK i : i = [j EXCEPT !.pc = "autoPin", !.read = page[j.release]]
    OBVIOUS
  <1>6. /\ i \in JobState /\ i.pc = "autoPin" /\ i.release = j.release /\ i.plan = <<>> /\ i.todo = {}
        /\ i.work = j.work /\ i.reach = j.reach /\ i.alone = j.alone /\ i.pc # "idle" /\ i.read = page[j.release]
    <2>1. page[j.release] \in Shown
      BY <1>3, TablesAre DEF TablesFine
    <2> QED
      BY <1>3, <1>4, <1>5, <2>1 DEF JobState
  <1>7. PICK k : k \in {i, Idle} /\ job' = [job EXCEPT ![h] = k]
                 /\ (k = i => j.release \notin blocked /\ pin[j.release] = None)
    <2>1. Onward(j) = Idle
      BY <1>4 DEF Onward
    <2>2. i # Idle
      BY <1>6, IdleIs
    <2> QED
      BY <1>1, <1>5, <2>1, <2>2 DEF AutoConfirmIfEligible, Moves
  <1>8. begun' = begun /\ UNCHANGED <<proposals, page, pin, blocked, carriers, group, trusted, unsure, passedOver>>
    BY DEF AutoConfirmIfEligible, Moves, Reads, tables
  <1>9. Changes(j.reach)
    BY <1>8, TablesAre DEF Changes, TablesFine
  <1>10. ~ ByWork(i) /\ Owes(j, group) = {}
    BY <1>2, <1>4, <1>6, PlansDiffer DEF ByWork, Owes
  <1>11. k # Idle => JobFine(k, j.reach, begun)
    <2>1. InPhase(i)
      BY <1>6 DEF InPhase
    <2>2. JobFine(i, j.reach, begun)
      BY <1>4, <1>6, <1>10, <2>1 DEF JobFine
    <2> QED
      BY <1>7, <2>2
  <1>12. j.alone /\ k # Idle => AloneFine(k, j.reach, proposals', pin', page, group, blocked')
    <2>1. SUFFICES ASSUME j.alone, k = i
                   PROVE  AloneFine(i, j.reach, proposals', pin', page, group, blocked')
      BY <1>7
    <2>2. Whole(group, j.reach)
      BY <1>3, <2>1 DEF AloneFine
    <2>3. pin'[i.release] = None /\ i.release \notin blocked' /\ i.read = page[i.release]
      BY <1>6, <1>7, <1>8, <2>1
    <2> QED
      BY <1>6, <1>10, <2>2, <2>3 DEF AloneFine
  <1>13. \A r \in j.reach :
           r \in Owes(j, group) \/ page[r] = AnswerIn(proposals, pin, group, r) =>
             page[r] = AnswerIn(proposals', pin', group, r) \/ (k # Idle /\ r \in Owes(k, group))
    BY <1>8, <1>10
  <1>14. k \in JobState /\ (k = Idle \/ (k.pc # "idle" /\ k.reach = j.reach /\ k.alone = j.alone))
    BY <1>6, <1>7, IdleIs
  <1> QED
    BY <1>1, <1>2, <1>3, <1>7, <1>9, <1>11, <1>12, <1>13, <1>14, ChangesHold

LEMMA AutoPinHolds ==
  ASSUME MetadataInv, NEW h \in Jobs, AutoPin(h)
  PROVE  MetadataInv'
  <1>1. PICK j : j = job[h]
    OBVIOUS
  <1>2. j.pc = "autoPin"
    BY <1>1 DEF AutoPin, At
  <1>3. /\ j \in JobState /\ JobFine(j, j.reach, begun) /\ j.reach \in SUBSET Releases
        /\ j.alone => AloneFine(j, j.reach, proposals, pin, page, group, blocked)
        /\ j.release \in Releases
    BY <1>1, <1>2, Job
  <1>4. j.plan = <<>> /\ j.release \in j.reach /\ j.read \in Shown
    BY <1>2, <1>3 DEF JobFine, InPhase, JobState
  <1>5. PICK k \in JobState : k = Idle
    BY IdleIs
  <1>6. /\ job' = [job EXCEPT ![h] = k] /\ begun' = begun
        /\ pin' = [pin EXCEPT ![j.release] = [shows |-> j.read, hand |-> FALSE]]
        /\ UNCHANGED <<proposals, page, blocked, carriers, group, trusted, unsure, passedOver>>
    BY <1>1, <1>4, <1>5 DEF AutoPin, Moves, ConfirmMetadata, Onward
  <1>7. Changes(j.reach)
    BY <1>3, <1>4, <1>6, TablesAre DEF Changes, TablesFine
  <1>8. Owes(j, group) = {}
    BY <1>2, <1>4, PlansDiffer DEF ByWork, Owes
  <1>9. ASSUME j.alone, NEW r \in j.reach, page[r] = AnswerIn(proposals, pin, group, r)
        PROVE  page[r] = AnswerIn(proposals', pin', group, r)
    <2>1. CASE r = j.release
      <3>1. j.read = page[r]
        BY <1>2, <1>3, <1>9, <2>1 DEF AloneFine
      <3>2. pin'[r] = [shows |-> j.read, hand |-> FALSE]
        BY <1>3, <1>6, <2>1, TablesAre DEF TablesFine
      <3>3. pin'[r] # None /\ pin'[r].shows = j.read
        BY <1>4, <3>2, PinsShow
      <3> QED
        BY <3>1, <3>3 DEF AnswerIn
    <2>2. CASE r # j.release
      <3>1. pin'[r] = pin[r] /\ proposals' = proposals
        BY <1>3, <1>6, <2>2, TablesAre DEF TablesFine
      <3> QED
        BY <1>9, <3>1 DEF AnswerIn
    <2> QED
      BY <2>1, <2>2
  <1>10. j.alone => \A r \in j.reach :
           r \in Owes(j, group) \/ page[r] = AnswerIn(proposals, pin, group, r) =>
             page[r] = AnswerIn(proposals', pin', group, r) \/ (k # Idle /\ r \in Owes(k, group))
    BY <1>8, <1>9
  <1> QED
    BY <1>1, <1>2, <1>3, <1>5, <1>6, <1>7, <1>10, ChangesHold

\* SetAccountTrusted asks nothing of the jobs.
LEMMA TrustHolds ==
  ASSUME MetadataInv, NEW a \in Accounts, Trust(a)
  PROVE  MetadataInv'
  <1>1. /\ begun < MaxJobs /\ begun' = begun + 1 /\ trusted' \subseteq trusted \cup {a}
        /\ UNCHANGED <<proposals, page, pin, blocked, carriers, group, job, unsure, passedOver>>
    BY DEF Trust
  <1>2. begun \in Nat /\ begun' \in Nat /\ begun <= begun' /\ begun' \in 0..MaxJobs
    BY <1>1, TablesAre, MetadataConstants
  <1>3. RowsFine(proposals', begun')
    <2>1. proposals' \in SUBSET proposals
      BY <1>1
    <2> QED
      BY <1>2, <2>1, RowsGo, TablesAre DEF TablesFine
  <1>4. \A x \in Releases : group[x] <= begun' + 1
    <2>1. \A x \in Releases : group[x] <= begun + 1 /\ group[x] \in Nat
      BY TablesAre, MetadataConstants DEF TablesFine
    <2> QED
      BY <1>1, <1>2, <2>1
  <1>5. (TablesFine(proposals, page, pin, blocked, carriers, group, trusted, begun))'
    <2>1. /\ page \in [Releases -> Shown] /\ carriers \subseteq Releases /\ trusted \subseteq Accounts
          /\ pin \in [Releases -> {None} \cup [shows : Shown, hand : BOOLEAN]] /\ blocked \subseteq Releases
          /\ group \in [Releases -> 0..(MaxJobs + 1)]
      BY TablesAre DEF TablesFine
    <2>2. trusted' \subseteq Accounts
      BY <1>1, <2>1
    <2> QED
      BY <1>1, <1>3, <1>4, <2>1, <2>2 DEF TablesFine
  <1>6. ASSUME NEW h \in Jobs
        PROVE  JobHolds(job'[h], proposals', pin', page', group', blocked', unsure', begun')
    <2>1. PICK j : j = job[h]
      OBVIOUS
    <2>2. j \in JobState /\ JobHolds(j, proposals, pin, page, group, blocked, unsure, begun)
      BY <2>1, Rereads
    <2>3. j.work <= begun + 1 => j.work <= begun' + 1
      <3>1. j.work \in Nat
        BY <2>2 DEF JobState
      <3> QED
        BY <1>1, <1>2, <3>1
    <2>4. JobFine(j, j.reach, begun) => JobFine(j, j.reach, begun')
      BY <2>3 DEF JobFine
    <2>5. JobHolds(j, proposals, pin, page, group, blocked, unsure, begun')
      BY <2>2, <2>4 DEF JobHolds
    <2> QED
      BY <1>1, <2>1, <2>5
  <1>7. (\A h \in Jobs : JobHolds(job[h], proposals, pin, page, group, blocked, unsure, begun))'
    BY <1>6
  <1>8. (\A h \in Jobs : \A x \in Jobs \ {h} : Apart(job, h, x))'
    BY <1>1 DEF MetadataInv
  <1>9. (\A r \in Releases \ (unsure \cup passedOver) : Settled(r, job, proposals, pin, page, group))'
    BY <1>1 DEF MetadataInv
  <1>10. (job \in [Jobs -> JobState] /\ begun \in 0..MaxJobs /\ unsure \subseteq Releases /\ passedOver \subseteq Releases)'
    BY <1>1, <1>2, TablesAre
  <1> QED
    BY <1>5, <1>7, <1>8, <1>9, <1>10 DEF MetadataInv

LEMMA MetadataStart == MetadataInit => MetadataInv
  <1>1. SUFFICES ASSUME MetadataInit
                 PROVE  MetadataInv
    OBVIOUS
  <1>2. Least(Releases) \in Releases /\ None \in Stashes /\ MaxJobs \in Nat
    BY FirstIs, MetadataConstants
  <1>3. PICK by \in Accounts, claim \in Claims : proposals = {Row(Least(Releases), by, claim, None, 0)}
    BY <1>1 DEF MetadataInit
  <1>4. PICK p : p = Row(Least(Releases), by, claim, None, 0)
    OBVIOUS
  <1>5. p \in ProposalSet /\ p.at = 0 /\ proposals = {p}
    BY <1>2, <1>3, <1>4 DEF Row, ProposalSet
  <1>6. RowsFine(proposals, begun)
    <2>1. IsFiniteSet(proposals)
      BY <1>5, FS_Singleton
    <2>2. begun = 0
      BY <1>1 DEF MetadataInit
    <2>3. p.at <= begun
      BY <1>5, <2>2
    <2> QED
      BY <1>5, <2>1, <2>3 DEF RowsFine
  <1>7. /\ pin = [r \in Releases |-> None] /\ blocked = {} /\ carriers = {} /\ trusted \subseteq Accounts
        /\ job = [h \in Jobs |-> Idle] /\ begun = 0 /\ unsure = {} /\ passedOver = {}
        /\ page = [r \in Releases |-> DeriveFrom(ProposalsFor(Pool(r)))]
    BY <1>1 DEF MetadataInit
  <1>8. \A r \in Releases : page[r] = AnswerIn(proposals, pin, group, r) /\ page[r] \in Shown
    <2>1. SUFFICES ASSUME NEW r \in Releases
                   PROVE  page[r] = AnswerIn(proposals, pin, group, r) /\ page[r] \in Shown
      OBVIOUS
    <2>2. PICK rows : rows = ProposalsFor(Pool(r))
      OBVIOUS
    <2>3. RowsOK(rows)
      <3>1. rows \in SUBSET proposals
        BY <2>2 DEF ProposalsFor
      <3> QED
        BY <1>6, <3>1, FS_Subset DEF RowsFine, RowsOK
    <2>4. page[r] = DeriveFrom(rows) /\ pin[r] = None
      BY <1>7, <2>1, <2>2
    <2>5. Answer(r) = DeriveFrom(rows)
      BY <2>2, <2>4 DEF Answer
    <2> QED
      BY <2>3, <2>4, <2>5, DerivedIs, AnswerIs
  <1>9. TablesFine(proposals, page, pin, blocked, carriers, group, trusted, begun)
    <2>1. page \in [Releases -> Shown]
      BY <1>7, <1>8
    <2>2. group \in [Releases -> 0..(MaxJobs + 1)] /\ \A r \in Releases : group[r] <= begun + 1
      <3>1. group = [r \in Releases |-> 0] \/ group = [r \in Releases |-> 1]
        BY <1>1 DEF MetadataInit
      <3>2. 0 \in 0..(MaxJobs + 1) /\ 1 \in 0..(MaxJobs + 1)
        BY <1>2
      <3> QED
        BY <1>7, <3>1, <3>2
    <2> QED
      BY <1>6, <1>7, <2>1, <2>2 DEF TablesFine
  <1>10. \A h \in Jobs : job[h] = Idle /\ job[h].pc = "idle"
    BY <1>7, IdleIs
  <1>11. job \in [Jobs -> JobState] /\ begun \in 0..MaxJobs
    BY <1>2, <1>7, IdleIs
  <1>12. \A h \in Jobs : JobHolds(job[h], proposals, pin, page, group, blocked, unsure, begun)
    BY <1>10 DEF JobHolds
  <1>13. \A h \in Jobs : \A x \in Jobs \ {h} : Apart(job, h, x)
    BY <1>10 DEF Apart
  <1>14. \A r \in Releases : Settled(r, job, proposals, pin, page, group)
    BY <1>8 DEF Settled
  <1> QED
    BY <1>7, <1>9, <1>11, <1>12, <1>13, <1>14 DEF MetadataInv

LEMMA MetadataStep == MetadataInv /\ [MetadataNext]_metadataVars => MetadataInv'
  <1>1. ASSUME MetadataInv, UNCHANGED metadataVars
        PROVE  MetadataInv'
    <2>1. UNCHANGED <<proposals, page, pin, blocked, carriers, group, trusted, job, begun, unsure, passedOver>>
      BY <1>1 DEF metadataVars, tables
    <2>2. (TablesFine(proposals, page, pin, blocked, carriers, group, trusted, begun))'
      BY <1>1, <2>1 DEF MetadataInv
    <2>3. (\A h \in Jobs : JobHolds(job[h], proposals, pin, page, group, blocked, unsure, begun))'
      BY <1>1, <2>1 DEF MetadataInv
    <2>4. (\A h \in Jobs : \A x \in Jobs \ {h} : Apart(job, h, x))'
      BY <1>1, <2>1 DEF MetadataInv
    <2>5. (\A r \in Releases \ (unsure \cup passedOver) : Settled(r, job, proposals, pin, page, group))'
      BY <1>1, <2>1 DEF MetadataInv
    <2>6. (job \in [Jobs -> JobState] /\ begun \in 0..MaxJobs /\ unsure \subseteq Releases /\ passedOver \subseteq Releases)'
      BY <1>1, <2>1 DEF MetadataInv
    <2> QED
      BY <2>2, <2>3, <2>4, <2>5, <2>6 DEF MetadataInv
  <1>2. ASSUME MetadataInv, NEW h \in Jobs, Step(h)
        PROVE  MetadataInv'
    BY <1>2, AttachHolds, GroupingHolds, MembersHold, DeriveHolds, WriteHolds, PurgeListHolds, PurgeListedHolds,
       PinByHandHolds, UnblockHolds, AutoHolds, AutoPinHolds DEF Step
  <1>3. ASSUME MetadataInv, NEW h \in Jobs, NEW r \in Releases, NEW claim \in Claims, NEW stash \in Stashes,
               Import(h, r, claim, stash) \/ \E by \in Accounts : Propose(h, r, by, claim, stash)
        PROVE  MetadataInv'
    BY <1>3, ImportHolds, ProposeHolds
  <1>4. ASSUME MetadataInv, NEW h \in Jobs, NEW r \in Releases,
               \/ \E by \in Accounts : Retract(h, r, by)
               \/ Confirm(h, r) \/ Unconfirm(h, r) \/ Purge(h, r) \/ PurgeWork(h, r)
               \/ Unlink(h, r) \/ \E other \in Releases : Link(h, r, other)
        PROVE  MetadataInv'
    BY <1>4, RetractHolds, ConfirmHolds, UnconfirmHolds, PurgeHolds, PurgeWorkHolds, UnlinkHolds, LinkHolds
  <1> QED
    BY <1>1, <1>2, <1>3, <1>4, TrustHolds DEF MetadataNext

LEMMA MetadataInvariant == MetadataSpec => []MetadataInv
  <1> QED
    BY MetadataStart, MetadataStep, PTL DEF MetadataSpec

-----------------------------------------------------------------------------
\* At rest a page shows its answer, unless handlers met on it or an import
\* passed it over.
LEMMA AtRest == MetadataInv => MetadataTypeOK /\ PagesAreCurrent
  <1>1. SUFFICES ASSUME MetadataInv
                 PROVE  MetadataTypeOK /\ PagesAreCurrent
    OBVIOUS
  <1>2. MetadataTypeOK
    BY <1>1 DEF MetadataInv, TablesFine, RowsFine, ProposalSet, MetadataTypeOK
  <1>3. ASSUME Running = {}, NEW r \in Releases \ (unsure \cup passedOver)
        PROVE  page[r] = Answer(r)
    <2>1. \A h \in Jobs : job[h].pc = "idle"
      BY <1>3 DEF Running
    <2>2. Settled(r, job, proposals, pin, page, group)
      BY <1>1, <1>3 DEF MetadataInv
    <2> QED
      BY <1>3, <2>1, <2>2, AnswerIs DEF Settled
  <1> QED
    BY <1>2, <1>3 DEF PagesAreCurrent, Current

\* What is true of a step from sound tables.
Outranks(r) == pin'[r] # pin[r] /\ pin'[r] # None => pin'[r].hand \/ (pin[r] = None /\ r \notin blocked)

LEMMA PinsStand ==
  ASSUME MetadataInv, [MetadataNext]_metadataVars, NEW r \in Releases \ unsure
  PROVE  Outranks(r)
  <1>1. CASE pin' = pin
    BY <1>1 DEF Outranks
  <1>2. CASE pin'[r] = None
    BY <1>2 DEF Outranks
  <1>3. ASSUME NEW h \in Jobs, PinByHand(h)
        PROVE  Outranks(r)
    <2>1. job[h].pc = "pinByHand" /\ pin' = [pin EXCEPT ![job[h].release] = [shows |-> job[h].read, hand |-> TRUE]]
      BY <1>3 DEF PinByHand, At, ConfirmMetadata
    <2>2. pin'[r] # pin[r] => pin'[r] = [shows |-> job[h].read, hand |-> TRUE]
      BY <2>1, TablesAre DEF TablesFine
    <2> QED
      BY <2>2 DEF Outranks
  <1>4. ASSUME NEW h \in Jobs, AutoPin(h)
        PROVE  Outranks(r)
    <2>1. PICK j : j = job[h]
      OBVIOUS
    <2>2. j.pc = "autoPin" /\ pin' = [pin EXCEPT ![j.release] = [shows |-> j.read, hand |-> FALSE]]
      BY <1>4, <2>1 DEF AutoPin, At, ConfirmMetadata
    <2>3. pin'[r] # pin[r] => r = j.release
      BY <2>2, TablesAre DEF TablesFine
    <2>4. /\ JobFine(j, j.reach, begun) /\ Doubts(j, group, unsure)
          /\ j.alone => AloneFine(j, j.reach, proposals, pin, page, group, blocked)
      BY <2>1, <2>2, Job
    <2>5. r = j.release => j.alone
      <3>1. j.release \in j.reach /\ j.release \in PoolIn(group, j.release)
        <4>1. j.release \in Releases
          BY <2>1, <2>2, Job
        <4> QED
          BY <2>4, <4>1, PoolsAre DEF JobFine
      <3>2. ~ j.alone => j.release \in unsure
        BY <2>4, <3>1 DEF Doubts
      <3> QED
        BY <3>2
    <2>6. r = j.release => pin[r] = None /\ r \notin blocked
      BY <2>2, <2>4, <2>5 DEF AloneFine
    <2> QED
      BY <2>3, <2>6 DEF Outranks
  <1>5. ASSUME NEW S, PurgeProposals(S)
        PROVE  Outranks(r)
    <2>1. pin'[r] = None \/ pin'[r] = pin[r]
      BY <1>5 DEF PurgeProposals
    <2> QED
      BY <2>1 DEF Outranks
  <1>6. ASSUME NEW h \in Jobs, NEW x \in Releases, Unconfirm(h, x)
        PROVE  Outranks(r)
    <2>1. pin' = [pin EXCEPT ![x] = None]
      BY <1>6 DEF Unconfirm
    <2>2. pin'[r] = None \/ pin'[r] = pin[r]
      BY <2>1, TablesAre DEF TablesFine
    <2> QED
      BY <2>2 DEF Outranks
  <1>7. ASSUME NEW h \in Jobs, Step(h)
        PROVE  Outranks(r)
    <2>1. CASE PinByHand(h)
      BY <1>3, <2>1
    <2>2. CASE AutoPin(h)
      BY <1>4, <2>2
    <2>3. CASE PurgeListed(h)
      BY <1>5, <2>3 DEF PurgeListed
    <2>4. CASE \/ Attach(h) \/ DeriveAfterProposal(h) \/ DeriveWork(h) \/ DeriveMetadata(h) \/ WriteDerived(h)
               \/ PurgeList(h) \/ Unblock(h) \/ AutoConfirmIfEligible(h)
      BY <1>1, <2>4 DEF Attach, DeriveAfterProposal, DeriveWork, DeriveMetadata, WriteDerived, PurgeList, Unblock,
                        AutoConfirmIfEligible, Reads, Finds, tables
    <2> QED
      BY <1>7, <2>1, <2>2, <2>3, <2>4 DEF Step
  <1>8. ASSUME NEW h \in Jobs, NEW x \in Releases, NEW claim \in Claims, NEW stash \in Stashes,
               Import(h, x, claim, stash) \/ \E by \in Accounts : Propose(h, x, by, claim, stash)
        PROVE  Outranks(r)
    BY <1>1, <1>8 DEF Import, Propose
  <1>9. ASSUME NEW h \in Jobs, NEW x \in Releases,
               \/ \E by \in Accounts : Retract(h, x, by)
               \/ Confirm(h, x) \/ Unconfirm(h, x) \/ Purge(h, x) \/ PurgeWork(h, x)
               \/ Unlink(h, x) \/ \E other \in Releases : Link(h, x, other)
        PROVE  Outranks(r)
    <2>1. CASE Unconfirm(h, x)
      BY <1>6, <2>1
    <2>2. CASE Purge(h, x)
      BY <1>5, <2>2 DEF Purge
    <2>3. CASE \/ \E by \in Accounts : Retract(h, x, by)
               \/ Confirm(h, x) \/ PurgeWork(h, x) \/ Unlink(h, x) \/ \E other \in Releases : Link(h, x, other)
      BY <1>1, <2>3 DEF Retract, Confirm, PurgeWork, Unlink, Link, tables
    <2> QED
      BY <1>9, <2>1, <2>2, <2>3
  <1>10. CASE \E a \in Accounts : Trust(a)
    BY <1>1, <1>10 DEF Trust
  <1>11. CASE UNCHANGED metadataVars
    BY <1>1, <1>11 DEF metadataVars, tables
  <1> QED
    BY <1>7, <1>8, <1>9, <1>10, <1>11 DEF MetadataNext

\* A claim keeps its age while it is the same.
Ages(p) == \A q \in proposals' : p.by # None /\ p.by = q.by /\ p.release = q.release /\ p.claim = q.claim => p.at = q.at

LEMMA ClaimsKeepTheirAge ==
  ASSUME MetadataInv, [MetadataNext]_metadataVars, NEW p \in proposals
  PROVE  Ages(p)
  <1>1. RowsFine(proposals, begun)
    BY TablesAre DEF TablesFine
  <1>2. CASE proposals' \subseteq proposals
    BY <1>1, <1>2 DEF RowsFine, Ages
  <1>3. ASSUME NEW r \in Releases, NEW by \in Accounts \cup {None}, NEW claim \in Claims, NEW stash \in Stashes,
               RecordProposal(r, by, claim, stash), begun < MaxJobs, begun' = begun + 1
        PROVE  Ages(p)
    <2>1. PICK o, q : /\ q \in ProposalSet /\ q.release = r /\ q.by = by
                      /\ proposals' = (proposals \ {o}) \cup {q}
                      /\ IF o \in proposals THEN o.release = r /\ o.by = by /\ by # None /\ (o.claim = q.claim => q.at = o.at)
                         ELSE by = None \/ Filed(r, by) = {}
      BY <1>3, Recorded
    <2>2. SUFFICES ASSUME NEW x \in proposals', p.by # None, p.by = x.by, p.release = x.release, p.claim = x.claim
                   PROVE  p.at = x.at
      BY DEF Ages
    <2>3. CASE x \in proposals
      BY <1>1, <2>2, <2>3 DEF RowsFine
    <2>4. CASE x = q
      <3>1. p \in Filed(r, by) /\ by # None
        BY <2>1, <2>2, <2>4 DEF Filed
      <3>2. o \in proposals /\ o.release = r /\ o.by = by /\ (o.claim = q.claim => q.at = o.at)
        BY <2>1, <3>1
      <3>3. o = p
        BY <1>1, <2>1, <2>2, <2>4, <3>2 DEF RowsFine
      <3> QED
        BY <2>2, <2>4, <3>2, <3>3
    <2> QED
      BY <2>1, <2>3, <2>4
  <1>4. ASSUME NEW h \in Jobs, NEW r \in Releases, NEW claim \in Claims, NEW stash \in Stashes,
               Import(h, r, claim, stash) \/ \E by \in Accounts : Propose(h, r, by, claim, stash)
        PROVE  Ages(p)
    <2>1. PICK by \in Accounts \cup {None} : RecordProposal(r, by, claim, stash)
      BY <1>4 DEF Import, Propose
    <2>2. begun < MaxJobs /\ begun' = begun + 1
      BY <1>4 DEF Import, Propose, Begin
    <2> QED
      BY <1>3, <2>1, <2>2
  <1>5. ASSUME NEW h \in Jobs, Step(h)
        PROVE  Ages(p)
    <2>1. proposals' \subseteq proposals
      BY <1>5 DEF Step, Attach, DeriveAfterProposal, DeriveWork, DeriveMetadata, WriteDerived, PurgeList, Unblock,
                  AutoConfirmIfEligible, Reads, Finds, tables, PinByHand, AutoPin, ConfirmMetadata, PurgeListed, PurgeProposals
    <2> QED
      BY <1>2, <2>1
  <1>6. ASSUME NEW h \in Jobs, NEW x \in Releases,
               \/ \E by \in Accounts : Retract(h, x, by)
               \/ Confirm(h, x) \/ Unconfirm(h, x) \/ Purge(h, x) \/ PurgeWork(h, x)
               \/ Unlink(h, x) \/ \E other \in Releases : Link(h, x, other)
        PROVE  Ages(p)
    <2>1. proposals' \subseteq proposals
      BY <1>6 DEF Retract, Confirm, Unconfirm, Purge, PurgeProposals, PurgeWork, Unlink, Link, tables
    <2> QED
      BY <1>2, <2>1
  <1>7. CASE \E a \in Accounts : Trust(a)
    BY <1>2, <1>7 DEF Trust
  <1>8. CASE UNCHANGED metadataVars
    BY <1>2, <1>8 DEF metadataVars, tables
  <1> QED
    BY <1>4, <1>5, <1>6, <1>7, <1>8 DEF MetadataNext

\* A release's page shows its pin or what its work's evidence adds up to.
THEOREM PagesStayCurrent == MetadataSpec => [](MetadataTypeOK /\ PagesAreCurrent)
  BY MetadataInvariant, AtRest, PTL

\* No rule overrules a moderator, no repeated claim climbs.
THEOREM MetadataStands == MetadataSpec => HumansOutrankTheRule /\ RecencyMovesWithTheClaim
  <1>1. ASSUME MetadataInv, [MetadataNext]_metadataVars
        PROVE  [\A r \in Releases \ unsure :
                  pin'[r] # pin[r] /\ pin'[r] # None =>
                    pin'[r].hand \/ (pin[r] = None /\ r \notin blocked)]_metadataVars
    BY <1>1, PinsStand DEF Outranks
  <1>2. ASSUME MetadataInv, [MetadataNext]_metadataVars
        PROVE  [\A p \in proposals, q \in proposals' :
                  p.by # None /\ p.by = q.by /\ p.release = q.release /\ p.claim = q.claim => p.at = q.at]_metadataVars
    BY <1>2, ClaimsKeepTheirAge DEF Ages
  <1> QED
    BY <1>1, <1>2, MetadataInvariant, PTL DEF MetadataSpec, HumansOutrankTheRule, RecencyMovesWithTheClaim

-----------------------------------------------------------------------------
(* What else a page could be stale of: nothing. *)

\* No two handlers at work can move the same release.
HandlersKeepApart ==
  \A h \in Running : \A x \in Running \ {h} : job[h].reach \cap job[x].reach = {}

\* No proposal comes in by moansubs import.
NothingImported ==
  [][\A h \in Jobs, r \in Releases, claim \in Claims, stash \in Stashes : ~ Import(h, r, claim, stash)]_metadataVars

Undisturbed == unsure = {} /\ \A h \in Jobs : job[h].pc # "idle" => job[h].alone

LEMMA ReachesApart ==
  ASSUME MetadataInv, Undisturbed, HandlersKeepApart', NEW h \in Jobs, NEW j \in JobState, j.pc # "idle", j.alone,
         NEW R \in SUBSET Releases, Reaches(h, j, R)
  PROVE  Undisturbed'
  <1>1. PICK met : met = {x \in Running \ {h} : job[x].reach \cap R # {}}
    OBVIOUS
  <1>2. PICK alone : alone = (j.alone /\ met = {})
    OBVIOUS
  <1>3. PICK k : k = [j EXCEPT !.reach = R, !.alone = alone]
    OBVIOUS
  <1>4. k.pc = j.pc /\ k.reach = R /\ k.alone = alone
    BY <1>3 DEF JobState
  <1>5. /\ job' = [x \in Jobs |-> IF x = h THEN k ELSE IF x \in met THEN [job[x] EXCEPT !.alone = FALSE] ELSE job[x]]
        /\ unsure' = (IF alone THEN unsure ELSE unsure \cup R \cup UNION {job[x].reach : x \in met})
    BY <1>1, <1>2, <1>3 DEF Reaches
  <1>6. job'[h] = k
    BY <1>5
  <1>7. met = {}
    <2>1. SUFFICES ASSUME NEW x \in met
                   PROVE  FALSE
      OBVIOUS
    <2>2. x \in Jobs /\ x # h /\ job[x].pc # "idle" /\ job[x].reach \cap R # {}
      BY <1>1 DEF Running
    <2>3. PICK i \in JobState : i = job[x]
      BY <2>2, Rereads
    <2>4. job'[x] = [i EXCEPT !.alone = FALSE]
      BY <1>5, <2>2, <2>3
    <2>5. job'[x].pc = i.pc /\ job'[x].reach = i.reach
      BY <2>4 DEF JobState
    <2>6. h \in Running' /\ x \in Running'
      BY <1>4, <1>6, <2>2, <2>3, <2>5 DEF Running
    <2>7. job'[h].reach \cap job'[x].reach = {}
      BY <2>2, <2>6 DEF HandlersKeepApart
    <2> QED
      BY <1>4, <1>6, <2>2, <2>3, <2>5, <2>7
  <1>8. alone
    BY <1>2, <1>7
  <1>9. unsure' = {}
    BY <1>5, <1>8 DEF Undisturbed
  <1>10. ASSUME NEW x \in Jobs, job'[x].pc # "idle"
         PROVE  job'[x].alone
    <2>1. CASE x = h
      BY <1>4, <1>6, <1>8, <2>1
    <2>2. CASE x # h
      <3>1. job'[x] = job[x]
        BY <1>5, <1>7, <2>2
      <3> QED
        BY <1>10, <3>1 DEF Undisturbed
    <2> QED
      BY <2>1, <2>2
  <1> QED
    BY <1>9, <1>10 DEF Undisturbed

LEMMA BeginsApart ==
  ASSUME MetadataInv, Undisturbed, HandlersKeepApart', NEW h \in Jobs, NEW j \in JobState, j.pc # "idle",
         NEW R \in SUBSET Releases, Begin(h, j, R)
  PROVE  Undisturbed'
  <1>1. PICK i : i = [j EXCEPT !.alone = TRUE]
    OBVIOUS
  <1>2. i \in JobState /\ i.pc # "idle" /\ i.alone
    BY <1>1 DEF JobState
  <1>3. Reaches(h, i, R)
    BY <1>1 DEF Begin
  <1> QED
    BY <1>2, <1>3, ReachesApart

\* A job that goes on undisturbed, or ends, and is all that moves.
LEMMA MovesApart ==
  ASSUME Undisturbed, NEW h \in Jobs, NEW k, job' = [job EXCEPT ![h] = k], job \in [Jobs -> JobState],
         k.pc = "idle" \/ k.alone, unsure' \subseteq unsure
  PROVE  Undisturbed'
  <1>1. \A x \in Jobs : job'[x] = IF x = h THEN k ELSE job[x]
    OBVIOUS
  <1> QED
    BY <1>1 DEF Undisturbed

LEMMA FindsApart ==
  ASSUME MetadataInv, Undisturbed, HandlersKeepApart', NEW h \in Jobs, NEW k \in JobState, k.pc = "idle" \/ k.alone,
         Finds(h, k)
  PROVE  Undisturbed'
  <1>1. CASE k.pc = "idle"
    <2>1. job' = [job EXCEPT ![h] = k] /\ unsure' = unsure
      BY <1>1 DEF Finds
    <2> QED
      BY <1>1, <2>1, TablesAre, MovesApart
  <1>2. CASE k.pc # "idle"
    <2>1. Reaches(h, k, k.reach \cup k.todo)
      BY <1>2 DEF Finds
    <2>2. k.reach \cup k.todo \in SUBSET Releases
      BY DEF JobState
    <2> QED
      BY <1>2, <2>1, <2>2, ReachesApart
  <1> QED
    BY <1>1, <1>2

\* What a handler sets out to do, whatever it has read.
LEMMA SetsOut ==
  ASSUME NEW r \in Releases,
         NEW plan \in {<<"grouping", "auto">>, <<"attach", "grouping", "auto">>, <<"grouping">>, <<"derive">>,
                       <<"derive", "attach">>, <<"derive", "members">>, <<"pinByHand", "unblock">>, <<"members">>,
                       <<"purgeList", "purge", "members">>},
         NEW read \in Shown, NEW which \in Nat
  PROVE  /\ Task(r, plan) \in JobState /\ Task(r, plan).pc # "idle"
         /\ [Task(r, plan) EXCEPT !.read = read] \in JobState /\ [Task(r, plan) EXCEPT !.read = read].pc # "idle"
         /\ [Task(r, plan) EXCEPT !.work = which] \in JobState /\ [Task(r, plan) EXCEPT !.work = which].pc # "idle"
  <1>1. PICK j : j = Task(r, plan)
    OBVIOUS
  <1>2. /\ Head(plan) \in {"grouping", "attach", "members", "pinByHand", "purgeList", "derive"}
        /\ Tail(plan) \in Plans
    BY PlansAre, PlansDiffer
  <1>3. j.pc = Head(plan)
    BY <1>1, TaskIs
  <1>4. j \in JobState
    BY <1>1, <1>2, TaskIs
  <1>5. j.pc # "idle"
    BY <1>2, <1>3
  <1>6. /\ [j EXCEPT !.read = read] \in JobState /\ [j EXCEPT !.read = read].pc = j.pc
        /\ [j EXCEPT !.work = which] \in JobState /\ [j EXCEPT !.work = which].pc = j.pc
    BY <1>4 DEF JobState
  <1> QED
    BY <1>1, <1>4, <1>5, <1>6

LEMMA HandlersBeginApart ==
  ASSUME MetadataInv, Undisturbed, HandlersKeepApart', NEW h \in Jobs, NEW r \in Releases,
         \/ \E by \in Accounts, claim \in Claims, stash \in Stashes : Propose(h, r, by, claim, stash)
         \/ \E claim \in Claims, stash \in Stashes : Import(h, r, claim, stash)
         \/ \E by \in Accounts : Retract(h, r, by)
         \/ Confirm(h, r) \/ Unconfirm(h, r) \/ Purge(h, r) \/ PurgeWork(h, r)
         \/ Unlink(h, r) \/ \E other \in Releases : Link(h, r, other)
  PROVE  Undisturbed'
  <1>1. Empty \in Shown /\ 0 \in Nat
    BY DEF Empty, Shown
  <1>2. page[r] \in Shown /\ group[r] \in Nat
    BY TablesAre, MetadataConstants DEF TablesFine
  <1>3. \A x \in Releases : Pool(x) \in SUBSET Releases
    BY DEF Pool, Members
  <1>4. CASE \E by \in Accounts, claim \in Claims, stash \in Stashes : Propose(h, r, by, claim, stash)
    <2>1. PICK plan \in {<<"grouping", "auto">>, <<"attach", "grouping", "auto">>} : Begin(h, Task(r, plan), Pool(r))
      BY <1>4 DEF Propose
    <2>2. Task(r, plan) \in JobState /\ Task(r, plan).pc # "idle"
      BY <1>1, SetsOut
    <2> QED
      BY <1>3, <2>1, <2>2, BeginsApart
  <1>5. CASE \E claim \in Claims, stash \in Stashes : Import(h, r, claim, stash)
    <2>1. PICK plan \in {<<"derive">>, <<"derive", "attach">>} : Begin(h, Deriving(Task(r, plan), {r}), Pool(r))
      BY <1>5 DEF Import
    <2>2. Task(r, plan) \in JobState
      BY <1>1, SetsOut
    <2>3. {r} \in SUBSET Releases /\ {r} # {}
      OBVIOUS
    <2>4. Deriving(Task(r, plan), {r}) \in JobState /\ Deriving(Task(r, plan), {r}).pc = "derive"
      BY <2>2, <2>3, DerivingIs
    <2>5. Deriving(Task(r, plan), {r}).pc # "idle"
      BY <2>4
    <2> QED
      BY <1>3, <2>1, <2>4, <2>5, BeginsApart
  <1>6. CASE (\E by \in Accounts : Retract(h, r, by)) \/ Unconfirm(h, r) \/ Purge(h, r)
    <2>1. Begin(h, Task(r, <<"grouping">>), Pool(r))
      BY <1>6 DEF Retract, Unconfirm, Purge
    <2>2. Task(r, <<"grouping">>) \in JobState /\ Task(r, <<"grouping">>).pc # "idle"
      BY <1>1, SetsOut
    <2> QED
      BY <1>3, <2>1, <2>2, BeginsApart
  <1>7. CASE Confirm(h, r)
    <2>1. PICK j : j = [Task(r, <<"pinByHand", "unblock">>) EXCEPT !.read = page[r]]
      OBVIOUS
    <2>2. Begin(h, j, Pool(r))
      BY <1>7, <2>1 DEF Confirm
    <2>3. j \in JobState /\ j.pc # "idle"
      BY <1>1, <1>2, <2>1, SetsOut
    <2> QED
      BY <1>3, <2>2, <2>3, BeginsApart
  <1>8. CASE PurgeWork(h, r)
    <2>1. PICK j : j = [Task(r, <<"purgeList", "purge", "members">>) EXCEPT !.work = group[r]]
      OBVIOUS
    <2>2. Begin(h, j, Pool(r))
      BY <1>8, <2>1 DEF PurgeWork
    <2>3. j \in JobState /\ j.pc # "idle"
      BY <1>1, <1>2, <2>1, SetsOut
    <2> QED
      BY <1>3, <2>2, <2>3, BeginsApart
  <1>9. CASE \E other \in Releases : Link(h, r, other)
    <2>1. PICK other \in Releases : Link(h, r, other)
      BY <1>9
    <2>2. PICK j : j = [Task(r, <<"members">>) EXCEPT !.work = Absorbs(r, other)]
      OBVIOUS
    <2>3. Begin(h, j, Pool(r) \cup Pool(other))
      BY <2>1, <2>2 DEF Link
    <2>4. Absorbs(r, other) \in Nat
      BY <1>2, TablesAre, MetadataConstants DEF Absorbs, TablesFine
    <2>5. j \in JobState /\ j.pc # "idle"
      BY <1>1, <2>2, <2>4, SetsOut
    <2>6. Pool(r) \cup Pool(other) \in SUBSET Releases
      BY <1>3
    <2> QED
      BY <2>3, <2>5, <2>6, BeginsApart
  <1>10. CASE Unlink(h, r)
    <2> DEFINE dissolves == Cardinality(Members(group[r]) \ {r}) < 2
               plan == IF dissolves THEN <<"derive">> ELSE <<"derive", "members">>
               S == IF dissolves THEN Members(group[r]) ELSE {r}
    <2>1. Begin(h, Deriving([Task(r, plan) EXCEPT !.work = group[r]], S), Pool(r))
      BY <1>10 DEF Unlink
    <2>2. S \in SUBSET Releases /\ S # {} /\ plan \in {<<"derive">>, <<"derive", "members">>}
      BY DEF Members
    <2> HIDE DEF dissolves, plan, S
    <2>3. PICK i : i = [Task(r, plan) EXCEPT !.work = group[r]]
      OBVIOUS
    <2>4. i \in JobState
      BY <1>1, <1>2, <2>2, <2>3, SetsOut
    <2>5. PICK j : j = Deriving(i, S)
      OBVIOUS
    <2>6. j \in JobState /\ j.pc = "derive"
      BY <2>2, <2>4, <2>5, DerivingIs
    <2>7. Begin(h, j, Pool(r)) /\ j.pc # "idle"
      BY <2>1, <2>3, <2>5, <2>6
    <2> QED
      BY <1>3, <2>6, <2>7, BeginsApart
  <1> QED
    BY <1>4, <1>5, <1>6, <1>7, <1>8, <1>9, <1>10

\* What becomes of a job that is undisturbed.
LEMMA GoesOnAlone ==
  ASSUME NEW j \in JobState, j.alone, NEW S \in SUBSET Releases
  PROVE  /\ Onward(j).pc = "idle" \/ Onward(j).alone
         /\ Deriving(j, S).pc = "idle" \/ Deriving(j, S).alone
  <1>1. Onward(j).pc = "idle" \/ Onward(j).alone
    <2>1. CASE j.plan = <<>>
      BY <2>1, IdleIs DEF Onward
    <2>2. CASE j.plan # <<>>
      <3>1. PICK pc : pc = Head(j.plan)
        OBVIOUS
      <3>2. PICK plan : plan = Tail(j.plan)
        OBVIOUS
      <3>3. Onward(j) = [j EXCEPT !.pc = pc, !.plan = plan]
        BY <2>2, <3>1, <3>2 DEF Onward
      <3> QED
        BY <3>3 DEF JobState
    <2> QED
      BY <2>1, <2>2
  <1>2. Deriving(j, S).pc = "idle" \/ Deriving(j, S).alone
    BY <1>1 DEF Deriving, JobState
  <1> QED
    BY <1>1, <1>2

LEMMA HandlersGoOnApart ==
  ASSUME MetadataInv, Undisturbed, HandlersKeepApart', NEW h \in Jobs, Step(h)
  PROVE  Undisturbed'
  <1>1. PICK j : j = job[h]
    OBVIOUS
  <1>2. j.pc # "idle"
    BY <1>1 DEF Step, At, Attach, DeriveAfterProposal, DeriveWork, DeriveMetadata, WriteDerived, PurgeList,
       PurgeListed, PinByHand, Unblock, AutoConfirmIfEligible, AutoPin
  <1>3. j \in JobState /\ InPhase(j) /\ j.alone /\ job \in [Jobs -> JobState]
    BY <1>1, <1>2, Job, TablesAre DEF JobFine, Undisturbed
  <1>4. PICK i : i = Onward(j)
    OBVIOUS
  <1>5. i \in JobState /\ (i.pc = "idle" \/ i.alone)
    BY <1>3, <1>4, PlansAhead, OnwardIs, IdleIs
  <1>6. ASSUME NEW S \in SUBSET Releases
        PROVE  [i EXCEPT !.todo = S] \in JobState
               /\ ([i EXCEPT !.todo = S].pc = "idle" \/ [i EXCEPT !.todo = S].alone)
    BY <1>5 DEF JobState
  <1>7. ASSUME NEW S \in SUBSET Releases, NEW k, k = Deriving(j, S)
        PROVE  k \in JobState /\ (k.pc = "idle" \/ k.alone)
    <2>1. CASE S = {}
      BY <1>4, <1>5, <1>7, <2>1 DEF Deriving
    <2>2. CASE S # {}
      BY <1>3, <1>7, <2>2, DerivingIs
    <2> QED
      BY <2>1, <2>2
  <1>8. CASE Attach(h) \/ PinByHand(h) \/ Unblock(h) \/ AutoPin(h)
    <2>1. job' = [job EXCEPT ![h] = i] /\ unsure' = unsure
      BY <1>1, <1>4, <1>8 DEF Attach, PinByHand, Unblock, AutoPin, Moves, ConfirmMetadata
    <2> QED
      BY <1>3, <1>5, <2>1, MovesApart
  <1>9. CASE DeriveAfterProposal(h)
    <2>1. PICK k : k = Deriving(j, Pool(j.release))
      OBVIOUS
    <2>2. Finds(h, k) /\ Pool(j.release) \in SUBSET Releases
      <3>1. j.release \in Releases
        BY <1>1, <1>2, Job
      <3> QED
        BY <1>1, <1>9, <2>1, <3>1 DEF DeriveAfterProposal, Pool, Members
    <2>3. k \in JobState /\ (k.pc = "idle" \/ k.alone)
      BY <1>7, <2>1, <2>2
    <2> QED
      BY <2>2, <2>3, FindsApart
  <1>10. CASE DeriveWork(h)
    <2>1. PICK k : k = Deriving(j, Members(j.work))
      OBVIOUS
    <2>2. Finds(h, k) /\ Members(j.work) \in SUBSET Releases
      BY <1>1, <1>10, <2>1 DEF DeriveWork, Members
    <2>3. k \in JobState /\ (k.pc = "idle" \/ k.alone)
      BY <1>7, <2>1, <2>2
    <2> QED
      BY <2>2, <2>3, FindsApart
  <1>11. CASE PurgeList(h)
    <2>1. PICK k : k = [i EXCEPT !.todo = Members(j.work)]
      OBVIOUS
    <2>2. Finds(h, k) /\ Members(j.work) \in SUBSET Releases
      BY <1>1, <1>4, <1>11, <2>1 DEF PurgeList, Members
    <2>3. k \in JobState /\ (k.pc = "idle" \/ k.alone)
      BY <1>6, <2>1, <2>2
    <2> QED
      BY <2>2, <2>3, FindsApart
  <1>12. CASE PurgeListed(h)
    <2>1. PICK k : k = [i EXCEPT !.todo = {}]
      OBVIOUS
    <2>2. job' = [job EXCEPT ![h] = k] /\ unsure' = unsure
      BY <1>1, <1>4, <1>12, <2>1 DEF PurgeListed, Moves
    <2>3. k.pc = "idle" \/ k.alone
      BY <1>6, <2>1
    <2> QED
      BY <1>3, <2>2, <2>3, MovesApart
  <1>13. CASE DeriveMetadata(h)
    <2>1. PICK read : read = Answer(Least(j.todo))
      OBVIOUS
    <2>2. PICK k : k = [j EXCEPT !.pc = "write", !.read = read]
      OBVIOUS
    <2>3. job' = [job EXCEPT ![h] = k] /\ unsure' = unsure
      BY <1>1, <1>13, <2>1, <2>2 DEF DeriveMetadata, Moves, Reads
    <2>4. k.alone = j.alone
      BY <1>3, <2>2 DEF JobState
    <2> QED
      BY <1>3, <2>3, <2>4, MovesApart
  <1>14. CASE AutoConfirmIfEligible(h)
    <2>1. PICK k : k = [j EXCEPT !.pc = "autoPin", !.read = page[j.release]]
      OBVIOUS
    <2>2. (job' = [job EXCEPT ![h] = k] \/ job' = [job EXCEPT ![h] = i]) /\ unsure' = unsure
      BY <1>1, <1>4, <1>14, <2>1 DEF AutoConfirmIfEligible, Moves, Reads
    <2>3. k.alone = j.alone
      BY <1>3, <2>1 DEF JobState
    <2> QED
      BY <1>3, <1>5, <2>2, <2>3, MovesApart
  <1>15. CASE WriteDerived(h)
    <2>1. PICK l : l = [j EXCEPT !.read = Empty, !.todo = {}]
      OBVIOUS
    <2>2. PICK r : r = Least(j.todo)
      OBVIOUS
    <2>3. PICK k : k = Deriving(l, j.todo \ {r})
      OBVIOUS
    <2>4. job' = [job EXCEPT ![h] = k] /\ unsure' \subseteq unsure
      BY <1>1, <1>15, <2>1, <2>2, <2>3 DEF WriteDerived, Moves
    <2>5. l \in JobState /\ l.alone
      <3>1. Empty \in Shown
        BY DEF Empty, Shown
      <3> QED
        BY <1>3, <2>1, <3>1 DEF JobState
    <2>6. j.todo \ {r} \in SUBSET Releases
      BY <1>3 DEF JobState
    <2>7. k.pc = "idle" \/ k.alone
      BY <2>3, <2>5, <2>6, GoesOnAlone
    <2> QED
      BY <1>3, <2>4, <2>7, MovesApart
  <1> QED
    BY <1>8, <1>9, <1>10, <1>11, <1>12, <1>13, <1>14, <1>15 DEF Step

LEMMA StaysUndisturbed ==
  ASSUME MetadataInv, Undisturbed, HandlersKeepApart', [MetadataNext]_metadataVars
  PROVE  Undisturbed'
  <1>1. CASE \E h \in Jobs : Step(h)
    BY <1>1, HandlersGoOnApart
  <1>2. CASE UNCHANGED metadataVars
    BY <1>2 DEF metadataVars, Undisturbed
  <1>3. CASE \E a \in Accounts : Trust(a)
    BY <1>3 DEF Trust, Undisturbed
  <1>4. CASE \E h \in Jobs, r \in Releases :
               \/ \E claim \in Claims, stash \in Stashes :
                    Import(h, r, claim, stash) \/ \E by \in Accounts : Propose(h, r, by, claim, stash)
               \/ \E by \in Accounts : Retract(h, r, by)
               \/ Confirm(h, r) \/ Unconfirm(h, r) \/ Purge(h, r) \/ PurgeWork(h, r)
               \/ Unlink(h, r) \/ \E other \in Releases : Link(h, r, other)
    BY <1>4, HandlersBeginApart
  <1> QED
    BY <1>1, <1>2, <1>3, <1>4 DEF MetadataNext

\* Nothing but an import passes a sibling over.
LEMMA PassesNothingOver ==
  ASSUME passedOver = {}, [MetadataNext]_metadataVars,
         [\A h \in Jobs, r \in Releases, claim \in Claims, stash \in Stashes : ~ Import(h, r, claim, stash)]_metadataVars
  PROVE  passedOver' = {}
  <1>1. CASE UNCHANGED metadataVars
    BY <1>1 DEF metadataVars
  <1>2. CASE \E h \in Jobs : Step(h)
    BY <1>2 DEF Step, Attach, DeriveAfterProposal, DeriveWork, DeriveMetadata, WriteDerived, PurgeList,
       PurgeListed, PinByHand, Unblock, AutoConfirmIfEligible, AutoPin, Finds, Reads, ConfirmMetadata
  <1>3. CASE \E a \in Accounts : Trust(a)
    BY <1>3 DEF Trust
  <1>4. CASE \E h \in Jobs, r \in Releases :
               \/ \E claim \in Claims, stash \in Stashes, by \in Accounts : Propose(h, r, by, claim, stash)
               \/ \E by \in Accounts : Retract(h, r, by)
               \/ Confirm(h, r) \/ Unconfirm(h, r) \/ Purge(h, r) \/ PurgeWork(h, r)
               \/ Unlink(h, r) \/ \E other \in Releases : Link(h, r, other)
    BY <1>4 DEF Propose, Retract, Confirm, Unconfirm, Purge, PurgeWork, Unlink, Link
  <1>5. CASE /\ metadataVars' # metadataVars
             /\ \A h \in Jobs, r \in Releases, claim \in Claims, stash \in Stashes : ~ Import(h, r, claim, stash)
    BY <1>1, <1>2, <1>3, <1>4, <1>5 DEF MetadataNext
  <1> QED
    BY <1>1, <1>5

\* DeriveAfterProposal's comment has it that a proposal is evidence for every
\* release of its work, whose pages must not go stale.  Import is the only
\* exception: without one, the pages of siblings follow whatever else is filed,
\* linked, purged or pinned beside it.
THEOREM OnlyImportsPassSiblingsOver == MetadataSpec /\ NothingImported => []SiblingsFollow
  <1>1. MetadataInit => passedOver = {}
    BY DEF MetadataInit
  <1>2. MetadataInv /\ passedOver = {} => SiblingsFollow
    BY AtRest DEF PagesAreCurrent, SiblingsFollow, Current
  <1>3. passedOver = {} /\ [MetadataNext]_metadataVars
        /\ [\A h \in Jobs, r \in Releases, claim \in Claims, stash \in Stashes : ~ Import(h, r, claim, stash)]_metadataVars
        => (passedOver = {})'
    BY PassesNothingOver
  <1> QED
    BY <1>1, <1>2, <1>3, MetadataInvariant, PTL DEF MetadataSpec, NothingImported

\* And a page is stale, or a moderator's word overruled by the rule, only where
\* two handlers met: while no two at work can move the same release, every page
\* without exception shows its pin or its work's evidence once they are done
\* (unless an import passed it over), and the rule pins nothing that a moderator
\* has pinned or unpinned.
THEOREM ApartHandlersLeaveNoDoubt ==
  MetadataSpec /\ []HandlersKeepApart =>
    /\ [](unsure = {})
    /\ []Current(Releases \ passedOver)
    /\ [][\A r \in Releases : Outranks(r)]_metadataVars
    /\ NothingImported => []Current(Releases)
  <1>1. MetadataInit => Undisturbed
    BY IdleIs DEF MetadataInit, Undisturbed
  <1>2. Undisturbed => unsure = {}
    BY DEF Undisturbed
  <1>3. MetadataInv /\ unsure = {} => Current(Releases \ passedOver)
    BY AtRest DEF PagesAreCurrent, Current
  <1>4. SiblingsFollow /\ unsure = {} => Current(Releases)
    BY DEF SiblingsFollow, Current
  <1>5. MetadataInv /\ unsure = {} /\ [MetadataNext]_metadataVars => [\A r \in Releases : Outranks(r)]_metadataVars
    BY PinsStand
  <1> QED
    BY <1>1, <1>2, <1>3, <1>4, <1>5, StaysUndisturbed, MetadataInvariant, OnlyImportsPassSiblingsOver, PTL
       DEF MetadataSpec

-----------------------------------------------------------------------------
(* The parts together: each runs in the catalogue as it does by itself. *)

LEMMA CataloguePartsRun ==
  CatalogueSpec => MetadataSpec /\ WorksSpec /\ MirrorSpec /\ PagesSpec
  <1>1. CatalogueInit => MetadataInit /\ WorksInit /\ MirrorInit /\ PagesInit
    BY DEF CatalogueInit
  <1>2. [CatalogueNext]_catalogueVars => [MetadataNext]_metadataVars
    BY DEF CatalogueNext, catalogueVars
  <1>3. [CatalogueNext]_catalogueVars => [WorksNext]_worksVars
    BY DEF CatalogueNext, catalogueVars
  <1>4. [CatalogueNext]_catalogueVars => [MirrorNext]_mirrorVars
    BY DEF CatalogueNext, catalogueVars
  <1>5. [CatalogueNext]_catalogueVars => [PagesNext]_pagesVars
    BY DEF CatalogueNext, catalogueVars
  <1> QED
    BY <1>1, <1>2, <1>3, <1>4, <1>5, PTL DEF CatalogueSpec, MetadataSpec, WorksSpec, MirrorSpec, PagesSpec

\* Every variable of the catalogue keeps its type.
THEOREM CatalogueTyped == CatalogueSpec => []CatalogueTypeOK
  BY CataloguePartsRun, PagesStayCurrent, WorksAreKept, MirrorsKeepFaith, PagesKeepTheirWord, PTL DEF CatalogueTypeOK

\* Takedowns survive imports, chains stay apart, a walk shows what stayed listed
\* exactly once, and nothing is offered that may not be seen.
THEOREM CatalogueStaysFaithful == CatalogueSpec => []CatalogueKeepsFaith
  BY CataloguePartsRun, MirrorsKeepFaith, PagesKeepTheirWord, PTL DEF CatalogueKeepsFaith

\* When no handler runs, every release's page shows its pin or what its work's
\* proposals add up to, but where handlers met on it or an import passed it over.
THEOREM CatalogueIsCurrent == CatalogueSpec => []PagesAreCurrent
  BY CataloguePartsRun, PagesStayCurrent, PTL

\* Beside links, imports and readers, no rule overrules a moderator and no claim
\* climbs by being repeated.
THEOREM CatalogueDecisionsStand == CatalogueSpec => DecisionsStand
  BY CataloguePartsRun, MetadataStands, PTL DEF DecisionsStand

\* Beside proposals, imports and readers, no work is missing or lonely, and
\* linking parts no two releases.
THEOREM CatalogueWorksAreWhole == CatalogueSpec => WorksAreWhole
  BY CataloguePartsRun, WorksAreKept, LinksKeepGroups, PTL DEF WorksAreWhole
=============================================================================

------------------------------- MODULE Pages -------------------------------
(***************************************************************************)
(* The public pages: listings read a page at a time (store/catalogue.go,   *)
(* the handlers of api/catalogue.go and api/search_api.go), the release    *)
(* page, and the two documents that are built once and kept for everyone,  *)
(* the front page (api/homepage.go) and the sitemap (api/sitemap.go), on a *)
(* node that invites crawlers.                                             *)
(*                                                                         *)
(* A page is made of several statements: its rows, their tracks, the       *)
(* moderators' pins, and the releases change in between.  A name is that   *)
(* of the title column, which derivations write; a pin holds the name its  *)
(* moderator read there.  Releases are numbered as they were created and   *)
(* each has one track.                                                     *)
(***************************************************************************)
EXTENDS Naturals, FiniteSets

CONSTANTS
  Visitors,      \* the requests being served at once
  Ids,           \* the releases
  Names,         \* curated titles
  Stemmed,       \* those that were uploaded with a file name
  Credited,      \* those whose track names its uploader, the one with a page
  Recent, Total, \* downloads in the window and ever: [Ids -> Nat]
  Overlap,       \* how well a release matches what is searched for
  PageSize,      \* CatalogueBrowsePageSize
  SearchCap,     \* CatalogueSearchCap
  ListSize,      \* homepageListSize
  ListFetch,     \* homepageListFetch
  TTL,           \* homepageCacheTTL and sitemapCacheTTL, in ticks
  Origins,       \* the names the node is reached under
  MaxMaps,       \* maxSitemapCacheEntries
  MaxMoves,      \* bound: changes to the catalogue
  MaxNow         \* bound: the clock

ASSUME PagesAssumption ==
  /\ IsFiniteSet(Ids) /\ Ids \subseteq Nat \ {0}
  /\ {"untitled", "no pin"} \cap Names = {}
  /\ Stemmed \subseteq Ids /\ Credited \subseteq Ids
  /\ {Recent, Total, Overlap} \subseteq [Ids -> Nat]
  /\ PageSize \in Nat \ {0} /\ SearchCap >= PageSize /\ Origins # {}
  /\ {ListSize, ListFetch, MaxMaps, MaxMoves, MaxNow} \subseteq Nat /\ TTL \in Nat \ {0}

VARIABLES
  up,       \* releases that are not withdrawn
  heads,    \* releases with a visible track
  heading,  \* releases.title
  pinName,  \* the title that is pinned (release_metadata_confirmed)
  had,      \* the titles a release has had, any of which a moderator may have read
  loose,    \* releases that had no pin at some moment, when a derivation may have begun
  now, moves,
  view,     \* what each visitor is being shown
  front,    \* homepageCached
  maps      \* sitemapCache: origin -> entry

naming == <<heading, pinName, had, loose>>
shelfVars == <<up, heads, heading, pinName, had, loose, moves>>
pagesVars == <<shelfVars, now, view, front, maps>>

-----------------------------------------------------------------------------
Kinds == {"none", "browse", "uploader", "search", "release", "front", "sitemap"}
Lists == <<"newest", "trending", "popular">>

Untitled == "untitled"   \* no title, and what an offer that shows none is made under
NoPin == "no pin"
Headings == Names \cup {Untitled}
Offers == Ids \X Headings   \* a release, and the name it is shown under

titled == {r \in Ids : heading[r] # Untitled}
pinned == {r \in Ids : pinName[r] # NoPin}

Named(S) == {<<r, heading[r]>> : r \in S \cap titled}
Pins == {<<r, pinName[r]>> : r \in pinned}

\* A request: the rows it read, with their titles, what it shows, and as ghosts
\* what was on the catalogue throughout, and what was visible and what pinned at
\* some moment, since it (or the build it is served from) began; and the
\* releases whose title and pin were not, all the while from the row to the
\* pin, the same and unchanged.
NoView == [of |-> "none", at |-> "idle", after |-> 0, more |-> FALSE, rows |-> {},
           named |-> {}, tracks |-> {}, links |-> {}, seen |-> [r \in Ids |-> 0],
           list |-> 0, whole |-> TRUE, host |-> CHOOSE o \in Origins : TRUE,
           steady |-> {}, listed |-> {}, blessed |-> {}, torn |-> {}]

\* A document that is kept.
NoEntry == [until |-> 0, links |-> {}, listed |-> {}, blessed |-> {}, torn |-> {}]
Entries == [until : Nat, links : SUBSET Offers, listed : SUBSET Ids,
            blessed : SUBSET Offers, torn : SUBSET Ids]

PagesTypeOK ==
  /\ {up, heads, loose} \subseteq SUBSET Ids
  /\ heading \in [Ids -> Headings] /\ pinName \in [Ids -> Headings \cup {NoPin}]
  /\ had \in [Ids -> SUBSET Headings]
  /\ now \in 0..MaxNow /\ moves \in 0..MaxMoves
  /\ \A v \in Visitors :
       /\ view[v].of \in Kinds
       /\ view[v].at \in {"idle", "rows", "tracks", "pins", "store", "done"}
       /\ {view[v].rows, view[v].tracks, view[v].torn} \subseteq SUBSET Ids
       /\ {view[v].named, view[v].links, view[v].blessed} \subseteq SUBSET Offers
       /\ view[v].seen \in [Ids -> Nat] /\ view[v].list \in 0..3
       /\ view[v].host \in Origins
  /\ front \in Entries
  /\ DOMAIN maps \subseteq Origins /\ \A o \in DOMAIN maps : maps[o] \in Entries

-----------------------------------------------------------------------------
(* What the statements of the store select.                                *)

\* The n that nothing, or the least, stands above.
Top(S, n, Above(_, _)) ==
  {r \in S : Cardinality({q \in S : Above(q, r)}) < n}

Newer(q, r) == q > r
Busier(count, q, r) == count[q] > count[r] \/ (count[q] = count[r] /\ q > r)
Closer(q, r) == Overlap[q] > Overlap[r] \/ (Overlap[q] = Overlap[r] /\ q < r)

HasVisibleTrack(r) == r \in heads

\* On the catalogue: a name of some kind, not withdrawn, a visible track.
Catalogued(r) == r \in Stemmed \cup titled /\ r \in up /\ HasVisibleTrack(r)

Catalogue == {r \in Ids : Catalogued(r)}

\* The next page of a walk from the newest down.
Below(after, S) == {r \in S : after = 0 \/ r < after}

\* A mutant of the next: the last row of a page heads the next one too.
BrowseReleases_again(after) ==
  Top({r \in Ids : Catalogued(r) /\ (after = 0 \/ r <= after)}, PageSize, Newer)

BrowseReleases(after) == Top(Below(after, Catalogue), PageSize, Newer)

VisibleTracksByAccount(after) ==
  Top(Below(after, {r \in Credited : r \in up /\ HasVisibleTrack(r)}), PageSize, Newer)

SearchReleases == Top({r \in Ids : Overlap[r] > 0 /\ Catalogued(r)}, SearchCap, Closer)

TrendingReleasesWithCounts(limit) ==
  Top({r \in Ids : Recent[r] > 0 /\ Catalogued(r)}, limit, LAMBDA q, r : Busier(Recent, q, r))

PopularReleases(limit) ==
  Top({r \in Ids : Total[r] > 0 /\ Catalogued(r)}, limit, LAMBDA q, r : Busier(Total, q, r))

IndexableReleases == {r \in titled \cap pinned : r \in up /\ HasVisibleTrack(r)}

\* Releases whose pin names them otherwise than their page does.
AtOdds == {r \in pinned : pinName[r] # heading[r]}

-----------------------------------------------------------------------------
(* Requests.                                                               *)

Asking(of) ==
  [NoView EXCEPT !.of = of, !.at = "rows",
                 !.steady = Catalogue, !.listed = up \cap heads, !.blessed = Pins]

Free(v) == view[v].at \in {"idle", "done"}
Ask(v, x) == Free(v) /\ view' = [view EXCEPT ![v] = x] /\ UNCHANGED <<shelfVars, now, front, maps>>
Go(v, x) == view' = [view EXCEPT ![v] = x] /\ UNCHANGED <<shelfVars, now, front, maps>>
AtStep(v, of, at) == view[v].of \in of /\ view[v].at = at

HandleBrowse(v) == Ask(v, Asking("browse"))
HandleUploaderPage(v) == Ask(v, Asking("uploader"))

\* GET /search and GET /api/v1/search: the best of what was found, and whether
\* there was more.
HandleSearch(v) == Ask(v, Asking("search"))

\* The link to older rows is followed: the walk goes on below the last of them.
Older(v) ==
  /\ AtStep(v, {"browse", "uploader"}, "done") /\ view[v].more
  /\ Go(v, [view[v] EXCEPT !.at = "rows", !.rows = {}, !.more = FALSE,
                           !.after = CHOOSE r \in view[v].rows : \A q \in view[v].rows : r <= q])

\* The rows of the page, with the titles they had.
ReadPage(v, of, rows, next) ==
  /\ AtStep(v, {of}, "rows")
  /\ Go(v, [view[v] EXCEPT !.at = next, !.rows = rows, !.named = Named(rows),
                           !.torn = @ \cup AtOdds, !.more = Cardinality(rows) = PageSize])

BrowsePage(v) == ReadPage(v, "browse", BrowseReleases(view[v].after), "tracks")

\* Its rows are all it reads.
UploaderPage(v) ==
  LET rows == VisibleTracksByAccount(view[v].after) IN
  /\ AtStep(v, {"uploader"}, "rows")
  /\ Go(v, [view[v] EXCEPT !.at = "done", !.rows = rows, !.tracks = @ \cup rows,
                           !.more = Cardinality(rows) = PageSize,
                           !.seen = [r \in Ids |-> IF r \in rows THEN @[r] + 1 ELSE @[r]]])

SearchPage(v) ==
  LET found == SearchReleases IN
  /\ AtStep(v, {"search"}, "rows")
  /\ Go(v, [view[v] EXCEPT !.at = "tracks", !.rows = Top(found, PageSize, Closer),
                           !.more = Cardinality(found) > PageSize])

\* GET /release/{id}: 404 unless it is on the catalogue.
RenderReleasePage(v, r) ==
  /\ Catalogued(r)
  /\ Ask(v, [Asking("release") EXCEPT !.at = "pins", !.rows = {r}, !.named = Named({r}),
                                       !.torn = AtOdds])

\* A mutant of the next: nobody has to have confirmed the title.
ReleaseIsIndexable_unpinned(v) == view[v].named

\* A curated title when the row was read, and a pin, of whatever title, when
\* the pins were read.
ReleaseIsIndexable(v) == {n \in view[v].named : n[1] \in pinned}

\* The release page reads the pin first, and its tracks then.
Confirmed(v) ==
  /\ AtStep(v, {"release"}, "pins")
  /\ Go(v, [view[v] EXCEPT !.at = "tracks", !.links = ReleaseIsIndexable(v)])

\* A listing reads the tracks first.  Only one a crawler may keep reads pins.
TracksOfPage(v) ==
  LET x == view[v] IN
  /\ AtStep(v, {"browse", "search", "release", "front"}, "tracks")
  /\ Go(v, [x EXCEPT !.at = IF x.of \in {"browse", "front"} THEN "pins" ELSE "done",
                     !.tracks = IF x.of = "front" THEN @ ELSE @ \cup (x.rows \cap heads)])

\* ConfirmedReleaseIDs, and the rows rendered: a name no moderator confirmed is
\* "(untitled)" to a crawler.
BuildCatalogueReleases(v) ==
  LET x == view[v] IN
  /\ AtStep(v, {"browse"}, "pins")
  /\ Go(v, [x EXCEPT !.at = "done", !.links = @ \cup ReleaseIsIndexable(v),
                     !.seen = [r \in Ids |-> IF r \in x.rows THEN @[r] + 1 ELSE @[r]]])

\* A statement fails and the page with it.
PageFails(v) ==
  /\ view[v].of \notin {"none", "front"} /\ ~ Free(v)
  /\ Go(v, NoView)

-----------------------------------------------------------------------------
(* The front page.                                                         *)

Served(entry, of) ==
  [NoView EXCEPT !.of = of, !.at = "done", !.links = entry.links, !.listed = entry.listed,
                 !.blessed = entry.blessed, !.torn = entry.torn]

Kept(x) == [until |-> now + TTL, links |-> x.links, listed |-> x.listed,
            blessed |-> x.blessed, torn |-> x.torn]

\* GET /: from the cache while it is fresh, else the first list is begun.
HandleIndex(v) ==
  Ask(v, IF now < front.until THEN Served(front, "front")
         ELSE [Asking("front") EXCEPT !.list = 1])

ListRows(list) ==
  CASE list = "newest"   -> BrowseReleases(0)
    [] list = "trending" -> TrendingReleasesWithCounts(ListFetch)
    [] list = "popular"  -> PopularReleases(ListFetch)

FrontRows(v) ==
  /\ AtStep(v, {"front"}, "rows")
  /\ LET rows == ListRows(Lists[view[v].list]) IN
     Go(v, [view[v] EXCEPT !.at = "tracks", !.rows = rows, !.named = Named(rows),
                           !.torn = @ \cup AtOdds])

\* The next list, or what there is of the three is kept or not.
NextList(x) ==
  [x EXCEPT !.at = IF x.list = 3 THEN "store" ELSE "rows",
            !.list = IF x.list = 3 THEN 0 ELSE @ + 1, !.rows = {}, !.named = {}]

\* Only what a crawler may read, and no more than the list is long.
HomepageList(v) ==
  LET above(m, n) == CASE view[v].list = 1 -> Newer(m[1], n[1])
                       [] view[v].list = 2 -> Busier(Recent, m[1], n[1])
                       [] view[v].list = 3 -> Busier(Total, m[1], n[1]) IN
  /\ AtStep(v, {"front"}, "pins")
  /\ Go(v, NextList([view[v] EXCEPT
             !.links = @ \cup Top(ReleaseIsIndexable(v), ListSize, above)]))

\* A list that cannot be built is left out.
ListFails(v) ==
  /\ view[v].of = "front" /\ view[v].at \in {"rows", "tracks", "pins"}
  /\ Go(v, NextList([view[v] EXCEPT !.whole = FALSE]))

\* The lists are kept for everyone when none is missing.
HomepageLists(v) ==
  LET x == view[v] IN
  /\ AtStep(v, {"front"}, "store")
  /\ front' = IF x.whole THEN Kept(x) ELSE front
  /\ view' = [view EXCEPT ![v] = Served(Kept(x), "front")]
  /\ UNCHANGED <<shelfVars, now, maps>>

-----------------------------------------------------------------------------
(* The sitemap, one document for each name the node is reached under.      *)

Fresh(o) == o \in DOMAIN maps /\ now < maps[o].until

HandleSitemap(v, o) ==
  Ask(v, IF Fresh(o) THEN Served(maps[o], "sitemap")
         ELSE [Asking("sitemap") EXCEPT !.host = o])

\* Title and pin in one statement; a sitemap shows no names.
ReadIndexable(v) ==
  /\ AtStep(v, {"sitemap"}, "rows")
  /\ Go(v, [view[v] EXCEPT !.at = "store", !.links = IndexableReleases \X {Untitled}])

\* Expired documents go; another name is added only while there is room.
SitemapXML(v) ==
  LET x == view[v]
      fresh == {o \in Origins : Fresh(o)}
      keeps == IF x.host \in fresh \/ Cardinality(fresh) < MaxMaps
               THEN fresh \cup {x.host} ELSE fresh IN
  /\ AtStep(v, {"sitemap"}, "store")
  /\ maps' = [o \in keeps |-> IF o = x.host THEN Kept(x) ELSE maps[o]]
  /\ view' = [view EXCEPT ![v] = Served(Kept(x), "sitemap")]
  /\ UNCHANGED <<shelfVars, now, front>>

-----------------------------------------------------------------------------
(* The catalogue changes, and time passes.                                 *)

Renamed == {r \in Ids : heading'[r] # heading[r] \/ pinName'[r] # pinName[r]}

Moved ==
  /\ moves < MaxMoves /\ moves' = moves + 1
  /\ view' = [v \in Visitors |->
       IF Free(v) /\ ~ view[v].more THEN view[v]
       ELSE [view[v] EXCEPT !.steady = @ \cap Catalogue', !.listed = @ \cup (up' \cap heads'),
                            !.blessed = @ \cup Pins',
                            !.torn = IF view[v].at \in {"tracks", "pins"} THEN @ \cup Renamed ELSE @]]
  /\ UNCHANGED <<now, front, maps>>

ReleaseWithdrawn(r) ==
  /\ r \in up /\ up' = up \ {r} /\ heads' = heads \ {r} /\ UNCHANGED naming /\ Moved

ReleaseRestored(r) ==
  /\ r \notin up /\ up' = up \cup {r} /\ heads' \in {heads, heads \cup {r}}
  /\ UNCHANGED naming /\ Moved

TrackGone(r) ==
  /\ r \in heads /\ heads' = heads \ {r} /\ UNCHANGED <<up, naming>> /\ Moved

\* The first track of a release is uploaded, or one is restored.
TrackAppears(r) ==
  /\ r \in up \ heads /\ heads' = heads \cup {r} /\ UNCHANGED <<up, naming>> /\ Moved

\* A moderator, or the rule, confirms what the release is called: the pin takes
\* the title that was read, which may have been replaced since.
MetadataPinned(r) ==
  /\ \E t \in had[r] \ {pinName[r]} : pinName' = [pinName EXCEPT ![r] = t]
  /\ UNCHANGED <<up, heads, heading, had, loose>> /\ Moved

\* The pin is removed, by itself or in a purge; the title stays till it is derived.
MetadataUnpinned(r) ==
  /\ r \in pinned /\ pinName' = [pinName EXCEPT ![r] = NoPin] /\ loose' = loose \cup {r}
  /\ UNCHANGED <<up, heads, heading, had>> /\ Moved

\* A derivation writes the title: what is pinned, or what the proposals say if
\* there was no pin when it looked.
TitleDerived(r) ==
  /\ \E t \in Headings \ {heading[r]} :
       /\ t = pinName[r] \/ r \in loose
       /\ heading' = [heading EXCEPT ![r] = t] /\ had' = [had EXCEPT ![r] = @ \cup {t}]
  /\ UNCHANGED <<up, heads, pinName, loose>> /\ Moved

PageTick == now < MaxNow /\ now' = now + 1 /\ UNCHANGED <<shelfVars, view, front, maps>>

-----------------------------------------------------------------------------
PagesInit ==
  /\ up = Ids /\ heads \in SUBSET Ids
  /\ heading \in [Ids -> Headings] /\ pinName \in [Ids -> Headings \cup {NoPin}]
  /\ had = [r \in Ids |-> {heading[r]}] /\ loose = Ids \ pinned
  /\ now = 0 /\ moves = 0
  /\ view = [v \in Visitors |-> NoView] /\ front = NoEntry /\ maps = << >>

ShelfNext ==
  \E r \in Ids : \/ ReleaseWithdrawn(r) \/ ReleaseRestored(r) \/ TrackGone(r)
                 \/ TrackAppears(r) \/ MetadataPinned(r) \/ MetadataUnpinned(r) \/ TitleDerived(r)

ListingNext(v) ==
  \/ HandleBrowse(v) \/ HandleUploaderPage(v) \/ HandleSearch(v) \/ Older(v)
  \/ \E r \in Ids : RenderReleasePage(v, r)
  \/ BrowsePage(v) \/ UploaderPage(v) \/ SearchPage(v)
  \/ Confirmed(v) \/ TracksOfPage(v) \/ BuildCatalogueReleases(v) \/ PageFails(v)

FrontNext(v) ==
  \/ HandleIndex(v) \/ FrontRows(v) \/ TracksOfPage(v) \/ HomepageList(v)
  \/ ListFails(v) \/ HomepageLists(v)

SitemapNext(v) ==
  \/ \E o \in Origins : HandleSitemap(v, o)
  \/ ReadIndexable(v) \/ SitemapXML(v) \/ PageFails(v)

PagesNext ==
  \/ ShelfNext \/ PageTick
  \/ \E v \in Visitors : ListingNext(v) \/ FrontNext(v) \/ SitemapNext(v)

PagesSpec == PagesInit /\ [][PagesNext]_pagesVars

-----------------------------------------------------------------------------
(* Properties.                                                             *)

\* Following "older" to the end, no release is shown twice, and each that was
\* on the catalogue all the while is shown, whatever was taken down, restored
\* or uploaded between two pages (BrowseReleases: keyset pagination instead of
\* page numbers).
WalksAreWhole ==
  \A v \in Visitors : LET x == view[v] IN
    x.at = "done" /\ x.of \in {"browse", "uploader"} =>
      /\ \A r \in Ids : x.seen[r] <= 1
      /\ ~ x.more =>
           x.steady \cap (IF x.of = "browse" THEN Ids ELSE Credited) \subseteq
             {r \in Ids : x.seen[r] = 1}

\* The release was on the catalogue and had a pin at some moment, and the name is
\* what was pinned, unless title and pin were apart or moved between the reads.
Offerable(x, l) ==
  /\ l[1] \in x.listed /\ \E b \in x.blessed : b[1] = l[1]
  /\ l[2] = Untitled \/ l \in x.blessed \/ l[1] \in x.torn

\* What a crawler is offered, on a page, the front page or the sitemap, was on
\* the catalogue and pinned by a moderator at some moment while it was put
\* together, under the name that was pinned if moderation let it alone between
\* the reads of its row and of its pin (releaseIsIndexable; see OnlyBlessedNames
\* for what happens otherwise).  Nothing is shown that was down throughout, and
\* a document is kept for no more names of the node than there is room for.
OffersAreCurrent ==
  /\ \A v \in Visitors : LET x == view[v] IN
       x.at = "done" => x.tracks \subseteq x.listed /\ \A l \in x.links : Offerable(x, l)
  /\ Cardinality(DOMAIN maps) <= MaxMaps

\* What renderReleasePage says of itself (catalogue.go:831-833): "the failure
\* that must never happen here is publishing a name nobody blessed".  The code
\* asks for a pin, not for what it pins.
OnlyBlessedNames ==
  \A v \in Visitors : LET x == view[v] IN
    x.at = "done" => \A l \in x.links : l[2] = Untitled \/ l \in x.blessed
=============================================================================

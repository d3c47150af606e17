# Verification of MoanSubs

MoanSubs is a node that stores subtitles for video files identified by hashes
(oshash, phash) and serves them over a JSON API, a web front end and a Stash
plugin. It is a Go program over one PostgreSQL database. This directory holds
TLA+ models of its parts, the TLC configurations that check them on small
instances, and theorems the TLA+ proof system checks for every instance.

    tlc -workers 2 -config TrackStore.cfg MCTrackStore
    tlapm TrackStoreProofs.tla

`PROJECT.json` lists the runs, the mutants that each property is tested with,
which lines each definition models, the findings, the hazards and the theorems.

## 1. The system

### How it runs

The process (`cmd/moansubs/serve.go`) serves HTTP requests, each in a
goroutine of its own, over a pool of database connections. There is no lock in
the program around a request: everything two requests share is in the database
(READ COMMITTED) or in a few small in-memory tables (rate limiter, counters,
download buckets, the cached front page and sitemap). A handler is a sequence of
store calls; a store call is one SQL statement or one transaction. Several
replicas may run over one database, and the operator runs commands beside them.
So the hard behaviours are interleavings:

* of statements, between two store calls of a handler (check, then act);
* of a transaction's snapshot reading with the statement that writes after it;
* of two transactions that wait for each other's row locks;
* of a request with a moderator, an administrator or a command-line tool;
* of any of these with the end of the process.

### Components

| Part | State | Operations | What makes it correct |
| --- | --- | --- | --- |
| Track store (`internal/store/subtitle_track.go`, `release.go`) | rows of `subtitle_tracks` and `releases`: chain, revision, uploader, withdrawn stamp | create, supersede, withdraw and restore a track, a release or an account's uploads | chains stay well formed; one head per chain; a restore undoes exactly one takedown |
| Upload handler (`internal/api/subtitles.go`) | the request, and what it has read so far | check release, find identical track, create, supersede, correct kind and authorship | no duplicate, no machine transcript over a human one, corrections by the uploader only |
| Votes (`store/vote.go`, `api/votes.go`) | vote rows, a tally on the track | vote, retract, delete account | the tally is what the rows say |
| Fit reports, offsets (`store/fit.go`, `offset.go`) | report rows, counts, offsets | report, retract, set an offset | the counts are those of the reports that stand |
| Accounts, sessions (`store/account.go`, `session.go`, `api/admin.go`) | accounts, roles, tokens, sessions | register, log in, disable, purge, delete, change role or password | a deletion leaves an administrator; a revoked session ends |
| Invites (`store/invite.go`) | invites, their uses, budgets | create within budget, redeem, revoke | uses <= max uses; no budget is overdrawn |
| Metadata (`store/metadata.go`, `autoconfirm.go`) | proposals, shown metadata, pins, blocks | propose, derive, confirm, purge | what is shown follows from proposals and pins; people outrank the rule |
| Works (`store/work.go`) | works and their releases | link, unlink | a release's work exists and has two releases; linking parts none |
| Removal requests (`store/removal.go`, `api/removal.go`, `mod.go`) | requests, open or handled | file, withdraw, dismiss | a request is decided once |
| Lookup (`api/lookup.go`, `hash/`) | none | lookup by hash, block, id or name; fetch | every release within the radius is found, nothing taken down is served |
| Subtitle text (`internal/subtitle`) | none | parse, sanitise, render, clamp, shift, compare | what is stored reads back as it was stored |
| Rate limiter (`api/ratelimit.go`) | a bucket per key | allow, prune, advise | a steady budget per key; advice that suffices |
| Statistics (`api/stats.go`, `store/stats.go`) | counters in memory and in the database | count, flush, prune | each count is stored once, or lost with its process |
| Stash-box sweep (`cmd/moansubs/stashbox.go`) | ids, lookups recorded | ask, attach, propose, record | a match recorded is a match kept |
| Import, dump (`cmd/moansubs/import.go`, `dump.go`) | a mirror's tracks | import, dump | takedowns survive imports, chains arrive apart |
| Stash plugin (`plugin/`) | Stash's scenes, sidecar files | push, download, contribute | the task ends, a caption of the user's is not replaced |
| Server process (`cmd/moansubs/serve.go`, `store/migrate.go`) | phase of its life; the schema's version | open and migrate, serve, drain, exit | each migration runs once and in order; the last flush is not skipped |
| Web pages (`api/catalogue.go`, `homepage.go`, `sitemap.go`) | two cached documents | list, page, search, show | a walk is whole; what is offered was visible and pinned |

The upload handler, the moderators' handlers and the commands call the track
store. Votes and fit reports count on tracks. Account deletion and purge reach
into tracks, votes, invites and sessions. Uploads, the sweep and imports propose
metadata. Linking releases changes what their proposals are evidence for. The
plugin talks to the node only through the API and honours the limiter's advice.

`PROJECT.json` lists every part with its files, those not modelled as well,
and every hazard at its line.

## 2. The project, and its plan

| Module | Models | Composed in | Theorems in |
| --- | --- | --- | --- |
| `TrackStore` | rows and transactions of tracks and releases | `Ingest` | `TrackStoreProofs` |
| `Ingest` | the upload handler over `TrackStore`, its steps included | `MCIngest` | `IngestProofs` |
| `Votes` | votes, tallies, account deletion, lock order | `MCVotes` | `VotesProofs` |
| `Invites` | codes, redemptions, budgets | `MCInvites` | `InvitesProofs` |
| `RateLimiter`, `Accounts`, `Reports`, `Lookup` | who may do what, how often, with which answer | `MCAccess` | `AccessProofs` |
| `Stats`, `Sweep`, `Plugin` | what runs beside the requests | `MCBackground` | `BackgroundProofs` |
| `Migrate` | replicas opening the store | `MCBackground` | `BackgroundProofs` |
| `Metadata`, `Works`, `Mirror`, `Pages` | what the catalogue says and how it is read | `Catalogue` | `CatalogueProofs` |
| `Cues` | timing of a subtitle's cues | `MCCatalogue` | `CuesProofs` |
| `Text` | text of a subtitle: parse, clean, render | `MCCatalogue` | none: recursions over data |
| `Tally`, `TokenBudget` | abstract: counts kept once; one budget per key | refined by `Stats`, `RateLimiter` | |

The modules planned are all written, and every safety invariant and
every action property of every run is proved but that of the texts; of what the
code does not promise, theorems say what alone can bring it about. What is
left to extend: candidates for a work (a heuristic that only reads), the
viewer-dependent parts of the pages, a chain's summaries.

## 3. The models and the code

All the modules share a form. A variable is a table, as a set or as a function
from keys to rows; `tx[c]` (`upload[c]`, `call[c]`, `job[h]`, ...) is what a
connection, request or command is doing: where it is, what it has read, what it
will write. A store call that is one statement is one action. A transaction
whose statements others can come between is an action per statement. PostgreSQL
itself is external: a row lock is a condition on the other connections
(`TrackFree`, `RowFree`, `FitLockFree`, ...), a snapshot is a field of `tx[c]`, a
deadlock is broken by a victim's rollback. Rollback is an action enabled between
any two statements: it stands for an error, a cancelled request, a lost
connection and a crash of the process, since nothing a transaction has not
committed outlives it. `None` is SQL NULL. A definition with an underscore
(`LockTrack_never`) is a mutant: the code as a plausible slip would have it, used
in no specification. A variable called a ghost records what happened for a
property, and no action's guard reads it.

### TrackStore (store/subtitle_track.go, release.go, the tracks of account.go)

`tracks` are the rows of `subtitle_tracks` (rows are never deleted: an upload
takes the next id), `releaseAt` is `releases.withdrawn_at`, `clock` the last
stamp `now()` gave. Tracks are created and superseded, withdrawn and restored;
releases are withdrawn with their tracks and restored by matching stamps; an
account's uploads are withdrawn at once, and unlinked when it is deleted. `SupersedeTrack` is two actions: lock
and read (parent, head, `MAX(revision)`), then insert and commit. The unique
index of migration 0024 is part of the inserts and of the restores.

Simplifications: each withdrawal gets a stamp of its own (`now()` at microsecond
resolution is taken to differ between two withdrawals that both commit); gaps in
the ids are not modelled; one language; `revision_locked` is left out since no
code sets it. Rewriting a body is `Text`'s, the import's inserts are `Mirror`'s.

### Ingest (api/subtitles.go over TrackStore)

`upload[c]` is the request of a connection: it checks the release, looks for an
identical track (`FindDuplicate`), creates or supersedes, or corrects the kind
and authorship of its own earlier upload. Between two of its store calls
anything else can happen: other requests, moderators. `notes` are the columns
that can be corrected. Whether the text carries a generator's marker comes with
the request; parsing, rendering and the divergence measure against the target
are choices of any outcome here, because no property here depends on their
value; `Text` has them. Each action is a step of `TrackStore` with what the
handler adds to it, so that what is proved of the store holds here by
construction. `DeleteAccountWithCredits` is the deletion's UPDATE of an account's
uploads, which takes their credit along; it comes between any two statements of
a correction. What else a deletion does is in `Accounts` and `Votes`.

### Votes (store/vote.go, DeleteAccount of store/account.go)

A vote locks its track, writes its row, recounts and commits. A deletion locks
its account, then the administrators if it is one, unlinks its uploads, finds and
locks the tracks it voted on, deletes the votes, recounts and commits. `View(own)`
is the votes as a transaction's own statements see them. The rows a transaction
holds are `trackLocks` and `accountLocks` (FOR UPDATE) and `keyShares` (the
reference of a new vote's row). `SetAccountRole` interferes.

What the model makes plain about the code: two accounts that voted on each
other's uploads and delete themselves at once really can deadlock, as can longer
circles of deletions and first votes; PostgreSQL breaks them, one request gets an
error, and the tables stay right. The count behind `ErrLastAdmin` includes
disabled administrators, and only deletions are guarded: demotion may leave
none. Left out: a vote's check that its track is served, reasons, notes.

### Invites (store/invite.go, register of api/accounts.go)

A redemption takes the code's row with the UPDATE that is also its check,
inserts the account and commits both; a name taken rolls both back. A mint locks
its account, counts, inserts. `invites` are the committed rows: a use not yet
committed is in `tx`. PostgreSQL's `now()` is the transaction's start (`expired`),
and the sub-select on disabled creators reads the statement's snapshot (`barred`);
the model keeps both, so a redemption that waited may still use a code that ran
out, or whose creator was disabled, while it waited. The new account's reference
to the creator waits for a mint of the creator's, and the mint for it.
Administrators' codes (`CreateInvite`) have any limit and no budget.

### RateLimiter (api/ratelimit.go, the batch handler, the plugin's retries)

Time is in seconds and tokens in what a second refills. `clientIP` is modelled
with its walk over `X-Forwarded-For` from the right, past trusted proxies, over
headers a caller may have written itself; the key is the caller's network.
`AllowN` with the prune every `PruneEvery` calls, `RetryAfterN`, the header's
rounding, and a client that waits and retries up to `maxRetry429Attempts`. The
abstract `TokenBudget` has one budget for every key, never forgotten: the limiter
refines it, since an idle bucket is one that is full again.

The assumption `MaxRetry >= 2` is for `AloneGetsThrough`: the first answer of a
batch may advise one token only (the empty bucket is noticed before the batch is
priced), the next one the full price. The code has 5.

### Accounts (store/account.go, session.go, api/session.go, admin.go, the commands)

`call[c]` is a request or command under way: it authenticates (session, or
password), and writes in later statements. Purge and deletion are transactions
with their row locks. `stray` are the sessions a revocation has a known cause to
miss: one inserted, after it deleted those there were, by a login checked before
(a purge is compared with the sessions that had been issued when its statement
looked); those of a deletion that is given up; the one that changes the password;
those from before an operator's set-password. It is never set from what a
deletion left, so that one that deletes too little has no excuse.
Accounts are names; a deleted name is not registered again.

### Reports (store/removal.go, fit.go and their handlers)

A removal request is filed, and a moderator's takedown by request is three
steps: read, mark handled, withdraw. `taken` counts the takedowns of each
request. A fit report validates its pairing first and then writes and recounts
under the track's row lock; deleting an account takes its reports along.

### Lookup (hash/phash.go, api/lookup.go, the client's batching, the plugin's search)

A perceptual hash is the set of its one bits, each in one of five blocks
(`BlockOf`). A search goes through its stages (exact, blocks, stash-box id, name,
siblings), each of several statements with moderators between, and then fetches
what it was offered, shifted by the offset of the pair. `steady` are the releases
visible all through a request, `shown` those visible at some moment of it.

### Stats (api/stats.go, store/stats.go, trending.go, cmd/moansubs/serve.go)

Requests count in memory; `Stats.Run` wakes by its ticker or the signal, swaps
each counter, merges, swaps and merges the download days, prunes. A merge
commits, fails and is put back, or commits without the answer arriving
(`doubt`). `http` is the main goroutine: serving, draining with its timeout,
joining. The process can die at any step and be started again. `Tally` is the
abstract specification: a count waits, is kept, expires, or is lost with all
that wait. It may lose them at any time; that `Stats` does so only when the process
ends, and which it then loses, is what `EarlierCountsFlushed` is about.

### Sweep (cmd/moansubs/stashbox.go), Plugin (plugin/)

Both are loops over external services, stopped at any step. A sweep asks about
each candidate by oshash, phash and name, attaches ids, proposes and records;
answers are any of those the box may give. The plugin's library task and its
panel work on captions (scene and language) that the user edits too: a page is
looked up as a batch, a track fetched, the sidecar's `stat`, temporary file and
`rename` are three steps; a push reads the file once and sends what it read at
each retry; every call to the server may be refused, retried, or fail. Left out
of the sweep: proposals it filed that a moderator purges.

### Migrate (store/migrate.go, store.go)

Replicas with builds of different ages open the store: the advisory lock is held
by a session of its own, which can be cut (`cut`) while its process goes on; each
migration's statements and its row of `schema_migrations` are one transaction;
the row's primary key makes the second of two wait and fail.

### Metadata (store/metadata.go, autoconfirm.go, api/metadata_api.go, metadata_mod.go)

`proposals` is the table, its rows stamped by when they last changed; `page` what
a release shows; `pin` and `blocked` what moderators decided. Handlers are jobs:
a plan of phases (attach, find the group, derive each release of it, offer to
the rule), with one step for each read and each write. `DeriveFrom` ranks titles
by stash-box evidence, agreement and recency, and keeps the cast. `unsure` are
the releases two jobs met on, `passedOver` those an import did not derive.

A pin is an answer, and `None` must not be one (assumption); a proposal that
asserts nothing does not exist (`RecordProposal` refuses it). A claim is a title
and a cast: studio and date are derived like the title.

### Works (store/work.go)

LinkReleases and UnlinkRelease statement by statement: row locks in id order,
the choice of work, the INSERT, the UPDATE that finds rows by its snapshot and
then locks them one by one, the DELETE that waits for foreign keys, the commit.
`raced` are the works whose members changed around an unlink's count. The
assumption on `Groupings` is the schema's state after any history without such a
race: no work of one release, and ids below the sequence's next value.

### Mirror (cmd/moansubs/dump.go, import.go)

The origin uploads, revises and withdraws while a dump reads releases and tracks
in batches of ids. An import goes through the file line by line: it skips what
does not parse, finds identical tracks, finds the parent or the root here, and
inserts; it can stop anywhere and be run again, over a mirror whose users revise
and whose moderators take down and restore. A text of the origin is new, or that
of another row that was stored since this one's look for it (finding 3), so that
two chains can hold one text. An import then takes one's row for the other's, and
chains of the origin arrive as one: `ChainsStayApart` says that it mixes no others
than those that share a text, directly or over chains between them. The texts the mirror's own users upload are taken to differ
from the origin's.

### Pages (store/catalogue.go, trending.go, api/catalogue.go, homepage.go, sitemap.go)

Listings are read a page at a time by cursor; the release page reads its
release, its pin and its tracks in three statements; the front page and the
sitemap are built by whoever finds them stale, two at a time if so, and kept for
`TTL`. Releases are taken down, restored, lose and gain a track between any two
statements. `heading` is the title column and `pinName` the title in the pin: a
confirmation pins a title its moderator read earlier and leaves the column
alone, a derivation writes the column later, from the pin or, if it looked when
there was none, from the proposals. A page keeps the title its row had. The
ghosts in `view` and the entries say what was visible and what was pinned while
it was put together, and where title and pin were apart or changed meanwhile
(`torn`).

### Cues and Text (internal/subtitle, internal/provenance/strip.go, api/offset.go)

A file is a sequence of the characters that matter (tags' brackets and letters,
arrows, blanks, line ends, control characters, digits, a marker) and of whole
timestamps, each of which counts as one towards the size cap (`MaxBytes`) that
`Parse` asks of its input. `Parse`, `SanitizeText`, `RenderSRT`, `ClampCues`, `StripMarkerCues`,
`shiftSRT` and `Divergence` are operators; the actions are an upload, the
resanitize command, an import elsewhere and a revision proposed from what was
served shifted.

### The compositions

The parts of a composition share no variable: what one writes for another (a
takedown, a grouping, an account's deletion) is modelled in each part that looks
at it. So `Catalogue` is the interleaving of its four parts, and `MCAccess`,
`MCBackground` and `MCCatalogue` let each behaviour play one part (`part`, of those
the run's `Parts` name), which checks the same of each part without the product of
their states.

## 4. The runs

| Run | Instance | Asks |
| --- | --- | --- |
| `track_store` | 2 releases, 3 rows, 3 stamps, 2 connections | Do chains stay well formed and takedowns apart, and does the row lock protect what a supersede checked? |
| `two_heads` (violation) | 1 release, 5 rows, 2 connections | Is a chain's head unique? |
| `withdrawn_twice` (violation) | 1 release, 1 row, 2 stamps | Does a restore bring back what its withdrawal took down? |
| `uploads` | 2 connections: 1 account with 2 texts, machine-made or not, and 2 rows; 2 accounts with 1 row, 2 kinds, 3 authorships | Can a machine transcript replace a human track? Does a correction from a stale read lose a declaration, reach another's track, or credit an account that is gone? |
| `stored_twice` (violation) | 1 text, 2 rows, 2 connections | Is an identical upload stored once? |
| `votes` | 2 accounts, 2 tracks, 2 connections, a few ballots each | Are tallies exact, references sound, and does every transaction end? |
| `invites` | 3 names, 1 creator, 2 codes, 2 connections, cap 1, budget 1 or 2 | Are uses registrations, revocations final, budgets kept? |
| `access` | 2 callers behind 2 proxies, a budget of 2 tokens, 4 seconds; 2 accounts, 2 calls, 2 sessions; 2 requests and 2 moderators; 2 releases with hashes of 6 bits | Is the table of buckets, forgotten and met again, one honest budget per client? Does a deletion leave an administrator and a revocation no session, is a request decided once, is a lookup exact? |
| `background` | 2 requests to count, 2 days; 2 releases to sweep, twice; 2 scenes, 2 languages, 2 processes; 2 replicas with 1 and 2 migrations | Is each count kept, a recorded match kept, a user's caption left alone, each migration run once and in order, and does all of it end? |
| `catalogue` | 2 releases, 3 metadata jobs; 4 releases, 3 linking transactions; 3 tracks of an origin, 2 copies, 2 imports; 3 listed releases, 2 titles, 2 visitors, 2 changes; some 500 short files | Is what pages show current, are decisions kept, works whole, takedowns kept by imports, walks whole, offers current, and do stored texts read back? |
| `siblings` (violation) | the same, metadata only | Does an import derive all releases its proposal is evidence for? |
| `unblessed` (violation) | the same, pages only | Is every name that is published one that was pinned? |

The largest have 1,652,106 (`access`), 1,374,135 (`track_store`), 1,122,843
(`catalogue`), 767,965 (`uploads`) and 119,853 (`background`, with liveness)
distinct states and take two to four minutes each with two workers.

### Why the bounds are enough to be of interest

* Two connections give every overlap of two transactions, and actions of one
  statement (moderators, other clients) come between without a connection. The
  hazards listed are all of a pair, but for longer circles of locks, which the
  theorems cover as far as safety goes.
* Three rows make a chain of three revisions, or a chain and a stranger; three
  stamps let a release be withdrawn, restored and withdrawn again next to a
  track's own takedown. `two_heads` needs five rows, which is why it has its own
  configuration.
* In `votes` each account may be the uploader of one track, or of none (a
  mirror's), and each changes its mind about one track; both ways to the
  deadlocks described above occur.
* In `invites` the cap is 1 and a mint may earn 2, so that each of the two
  limits of a budget decides somewhere; a code has one use, or no limit; three
  names let two registrations with one code both go on after the first.
* In `uploads` each behaviour plays one of two parts: revisions, which one account
  sends so that ownership cannot refuse them, and corrections of the one row there
  is. `stored_twice` plays a third, uploads that state nothing.
* In `access` a budget of 2 tokens and costs of 1, 2 and 3 make a request that
  fits, a batch that fits a full bucket only, one that never does, and refusals of
  either kind. A bucket is idle after 3 seconds without a request, and the clock
  goes to 4: it is pruned at the second call of a pair and met again as new.
  Two accounts, one of which bootstraps or is given a role, make two
  administrators that delete themselves at once. Hashes of six bits with a first
  block of two make near releases that share that block only.
* In `background` one commit may go unanswered, and a request can count a
  download across midnight. One scene has no hash; the older replica comes after
  the newer.
* In `catalogue` one title has evidence that pins and one has not; of three jobs
  the first two may overlap. The works start as two pairs, one pair, a triple or
  none. The dump's batch is three, the second track does not parse; a
  third may be a twin of the first, or revise one. One listed release has a pin, or two do, and a
  title is one of two. A file may have 40 characters: some are close enough to
  outgrow that when they are rendered. The files are
  every short text of brackets and letters after a tag's opening, arrows between
  timestamps, lines that sanitising empties, and two or three cues in any order.

Each bound of a guard is a constant marked "bound" in its module; nothing else
is bounded but by the sets. Symmetry is used for values no definition tells
apart, and not in the runs with a liveness property.

### Fairness

Two properties need it. `TransactionsEnd` (`votes`): `FairSpec` asks strong
fairness of each transaction's next statement: PostgreSQL queues the waiters of a
row in order, so a statement whose row is free again and again gets it, and a
connection of the `pgxpool` is the request's own until its transaction ends. It
asks weak fairness of breaking a deadlock, which `deadlock_timeout` does. It asks
nothing of requests: clients may never come back.

`WorkEnds` (`background`): weak fairness of the goroutine of `Stats.Run`, of the
main goroutine once it was told to stop, of the sweep, of the plugin's
processes and of those that open the store: all are scheduled by their own
operating system. Strong fairness of Run's `select` noticing that the context is
done (Go's `select` chooses at random among what is ready), of a merge that the
database may refuse at times but not for ever, and of being granted an advisory
lock that is free again and again. Nothing is asked of requests, users, the box
or the server.

`CHECK_DEADLOCK FALSE` is said where the system may stop: once every account is
deleted, every count stored, every job over, nothing is left to do.

## 5. What the code does otherwise than it says

Five of these are runs:

1. **Two heads of a chain** (`two_heads`). `SupersedeTrack` numbers a revision
   from a maximum it read while it held only its parent. If a later revision,
   withdrawn at that time, is restored and superseded before the insert, two live
   rows have the highest revision. `API.md` promises one head.
   `OneHeadWithoutOverlap` proves that this is the only way: as long as no two
   supersedes of a chain overlap, the head is unique.
2. **A release withdrawn twice** (`withdrawn_twice`). The second withdrawal
   re-stamps the release and not its tracks, and the restore leaves them behind.
   `MANUAL.md` says it brings back exactly what was taken down.
   `RestoresAreComplete` proves it does, as long as a release is withdrawn only
   while it is live and no restore of it is open.
3. **An upload stored twice** (`stored_twice`). The check for an identical track
   and the insert are two statements with nothing behind them. `MANUAL.md` says
   bulk pushes are safe to re-run. `StoredOnceWithoutOverlap`: they are, unless two
   requests for one text are past the check at once.
4. **Siblings an import forgets** (`siblings`). An import derives the release it
   filed a proposal for and not the others of its work, which
   `DeriveAfterProposal`'s comment says every proposal is evidence for.
   `OnlyImportsPassSiblingsOver`: nothing but an import does that.
5. **A name nobody confirmed** (`unblessed`). A page for everyone asks that the
   release have a title and a pin, not that they agree. The title comes with the
   row and the pin from a later statement, and the two are written by different
   statements too: a confirmation pins what its moderator read, a derivation
   writes the column. `catalogue.go` says that publishing a name nobody blessed
   must never happen. `OffersAreCurrent`, a part of `CatalogueKeepsFaith`, says it
   does not as long as title and pin agree and stay as they are between the reads.

Others the models make plain; the properties are stated so as to hold of the
code as it is, and say where they except these:

* *Accounts.* Two administrators who demote or disable each other can leave
  none. A login verified before a disable, a purge or a password change creates
  its session after these deleted what there was (`stray`); that and a deletion
  given up are all that can (`DisablingEndsSessions`). `account set-password`
  deletes no session at all. A removal request is marked handled
  before its release is withdrawn: a crash between the two loses the takedown.
* *Works.* Two concurrent unlinks of a work of three leave one release in it; an
  unlink that counted before a link committed dissolves the enlarged work
  (`WorksAreWholeWithoutRaces`: nothing else makes a lonely work); an
  UPDATE that moves a whole work can deadlock with a link that waits, though
  `work.go:88` says it "cannot deadlock" (a victim is rolled back).
* *Metadata.* A derivation that read before another job wrote can write after
  it, and leave a page stale until the next (`unsure`); in the same kind of race
  the rule can pin over a moderator's pin (`autoconfirm.go:36-37` has it
  otherwise; `ApartHandlersLeaveNoDoubt`: only in such a race). Importing the
  same dump again stacks proposals of nobody.
* *Import.* A dump's two passes can hold tracks whose release line is missing
  (`import.go:74` requires one), and the import of such a file ends there; so does
  every import over a head that the mirror's own user revised. A chain of which
  the root and a later revision are withdrawn is imported as two chains. Where two
  chains of a release hold one text (finding 3), the import lets the first row it
  finds stand for the second (`import.go:321-340`), whose revisions then join the
  first's chain; if that row has a live revision already, the unique index refuses
  the second and the import ends there, each time, though `README.md:242-244` says
  re-running "is always safe" (`ChainsStayApart` excepts chains that share a text).
* *Pages.* The front page and the sitemap go on offering a release
  that was taken down, for as long as they are kept. Popular and trending count
  the downloads of superseded tracks.
* *Statistics.* Requests still being drained may count after Run's final flush,
  and those counts are lost, and no others (`OnlyCountsBehindTheLastFlushAreLost`); `ViewCounts` adds a stored and a waiting number, and
  undercounts when a flush falls between its two reads.
* *Sweep.* A crash between attaching an id and recording the lookup lets an id
  that a moderator then removes come back with the next sweep.
* *Plugin.* `WriteSidecar` looks at the disk and renames later: a caption saved
  between the two is replaced. Pages are asked for by number, so that a library
  that shrinks meanwhile makes a task skip scenes.
* *Text.* `ingest` measures what is uploaded and stores what `RenderSRT` makes of
  it, with numbers, full timestamps and blank lines (`subtitles.go:553-577`): near
  the cap it is stored larger than `MaxBytes`, and then does not parse again.
  `resanitize` and an import skip it, and a supersede of it is answered 500
  (`subtitles.go:719-723`), while `fuzz_test.go:57-58` says of a stored body that
  "it must parse back to exactly the cues it was rendered from".
  `StoredTextSettles` excepts it (`Outgrown`). `StripMarkerCues` takes off one marker at each end, so a second
  `track resanitize` takes off another, though it is documented as idempotent; a
  file of nothing but markers is stored with an empty body; `ClampCues` can push
  an end past 999:59:59,999, which the parser no longer reads; an import between
  an upgrade of the sanitizer and the resanitize run does not recognise a text it
  took down and brings it back.
* *Migrations.* A replica whose lock's session is cut can be refused with a
  duplicate key, or have another refused; the schema stays sound. An older build
  opens a newer schema without a word.

## 6. What is proved

The theorems hold for every value of the constants the modules' assumptions
admit: any number of connections, rows, accounts, codes, names, tracks, replicas
and requests. The bounds that keep TLC finite are constants like the others. All
of the runs' safety invariants and action properties are stated by a theorem, but
that of the texts (`TextsHold`).

Where the code falls short of a promise (section 5), or a property has an
exception, a theorem says what alone can cause it. It assumes that the race in
question never happens, and proves the promise without the exception, whatever
else runs beside:

| While ... | ... holds | Theorem |
| --- | --- | --- |
| supersedes of a chain do not overlap | a chain has one head | `OneHeadWithoutOverlap` |
| no release is withdrawn that is withdrawn or being restored | a restore brings back all its withdrawal took down | `RestoresAreComplete` |
| no two requests past their duplicate check have the same text | a text is stored once in a release | `StoredOnceWithoutOverlap` |
| nothing is imported | siblings' pages follow the proposals of their work | `OnlyImportsPassSiblingsOver` |
| no two handlers at work can move one release | no page is stale at rest and no moderator overruled | `ApartHandlersLeaveNoDoubt` |
| no release leaves a work while another leaves or joins it | works have two releases, and only unlinking one of two parts them | `WorksAreWholeWithoutRaces` |
| no login is verified beside a disable or purge, and no deletion of sessions is given up | a disabled account has no session but for the one statement between | `DisablingEndsSessions` |
| none is verified beside a change of password, no deletion given up, no password set by the operator | one session of an account at most has an old password | `ChangingPasswordLeavesOneSession` |
| nothing is counted behind the last flush | an orderly end leaves no count in memory | `OnlyCountsBehindTheLastFlushAreLost` |

Each condition excludes one race or one kind of step and leaves everything else
in; nothing in the code enforces it, so the theorems say where a lock, a check or
an index would have to go, not that the promise holds.

* `TrackStoreProofs`. `ChainInv` is inductive: types; a chain's rows share release
  and root, and a revision's parent is in its chain and before it; at most one
  live successor per row (the index); an open supersede's parent is live and
  locked. The last is needed for the others: without it, the insert could come
  after a takedown of what it replaces. `TakedownsStayApart` needs more: a stamp identifies one takedown,
  since an open withdrawal's stamp is above all those before it; from it,
  `RestoreKeepsOwnTakedowns`. `OneHeadWithoutOverlap` assumes that supersedes of
  a chain never overlap (finding 1) and has the numbers of a chain distinct.
  `RestoresAreComplete` has a withdrawn release's stamp on every track that its
  withdrawal took down (finding 2).
* `IngestProofs`. Each step of the handler is a step of the store or none (lemma
  `StoreStep`), so everything proved of `TrackStore` holds under the
  handler; `HumanTracksStayHuman`: no revision by a machine succeeds a human
  row. Its invariant carries what a request has read to the insert: payloads never
  change, so whether the target is human-made cannot become stale, while its being
  head is checked again under the lock. `DeclarationsAreKept` and
  `UploadersCorrect`, about corrections, rest on `FoundInv`: the row a correcting
  request found is still there with the text the request uploaded; whose it is
  the statement checks again. `CreditsNameAccounts` needs besides that an upload's
  account exists when its row is inserted, which the foreign key sees to, and that
  a correction that writes a credit finds the uploader in the row.
  `StoredOnceWithoutOverlap` has a text that a request is about to store absent
  from its release (finding 3).
* `VotesProofs`. `VotesInv` says of each transaction that it has the rows it
  counts locked, that it has found every vote it must recount (`FindsItsVotes`,
  which holds because the account's row is locked and a new vote would need its
  key), that what it is about to commit is what the votes will be. Exact tallies and
  no dangling references follow.
* `InvitesProofs`. `InvitesInv` says that a locked code is enabled and has a use
  left, that an inserted name is free, and that a mint's room in the budget is
  still there when it inserts: other sessions only close codes meanwhile
  (`ClosingKeepsBudgets`), and what `now()` at the transaction's start took for
  expired still is, so the count errs on the strict side. `UsesAreExact`,
  `RevocationHolds` and `BudgetsHold` follow.
* `AccessProofs`.
  `LimiterInv` adds to the types that the wait a client was told brings its
  network's level to what it needs, unless another request of that network took
  from it, and, for a caller alone on its network, that it never reaches its last
  retry. `LimiterIsSteady` is the refinement of `TokenBudget`, whose level is what
  the limiter would work out now: a key that is forgotten is at its burst.
  `AccountsInv` says that each session of an account that a revocation is about is
  in the sessions still to be deleted, or is `stray`, and which rows a transaction
  holds: two deletions cannot both have counted each other's row. For what else
  leaves a session behind, every step is one of four effects (`CallEffect`): it
  opens a session, disables, writes a password, or does neither.
  `ReportsInv` says which request each moderator's step is about and that one of
  them at most has marked it, and that one fit transaction at a time has the
  track. `LookupInv` carries what was visible all through to each stage's
  candidates; that a near release is in one of the buckets is `Pigeonhole`: two
  hashes at a distance of at most four agree on one of five blocks, for any
  number of bits.
* `BackgroundProofs`. `StatsInv`: while no flush is under way nothing is taken
  out, and what the final flush has emptied has come in again only after the
  signal. `StatsAreATally` maps every step to one of `Tally` or to none.
  `LastFlushStands`: what the final flush took out stays at zero, unless something
  is counted behind it.
  `SweepInv`: a sweep about to record a match has made it. `PluginInv`: a process
  about to write saw no caption of the user's there, unless it may replace it or
  the caption came later. `MigrateInv`: a replica that is past a check and has its lock
  still knows what is recorded; two transactions with the same migration cannot
  both commit, since the second waits for the first one's key.
* `CatalogueProofs`.
  `MirrorInv`: both nodes' chains are sound, the dump's lines are in the order of
  ids, and what an import remembers of a line is in the copy that holds it; a
  set of texts that has all of an upstream chain with one of its texts has all of a
  copied chain with one (`ChainsStayApart`), and a text that is here already is found
  before it is inserted.
  `PagesInv`: a visitor's rows are those it has been through, exactly once as far
  as they stayed; what a page or a document is made of was visible and, where it
  is offered, pinned since it was begun, and a row's title is the one that was
  pinned unless the two were apart or moved since it was read (`torn`).
  `WorksInv`: locks are apart, what a transaction has seen of the works of the
  rows it locked still holds, and a work that is to be dropped has no one waiting
  to join it that the foreign key would refuse.
  `MetadataInv`: rows have distinct stamps (so the title ranking has a best, lemma
  `DerivedIs`); the reach of each running job covers what it will write; a job
  that has met no other counts on whole works; and every release is settled, or
  owed a derivation by a job that is alone at it.
  The composition's theorems follow from these: the parts share no state, so each
  behaviour of `CatalogueSpec` is one of each part (`CataloguePartsRun`;
  `PartsBehave` and `PartsRun` do the same for `AccessSpec` and `BackgroundSpec`).

* `CuesProofs`. The arithmetic of timings, for lists of any length and any times.
  `ClampCues` gives a cue an end that depends on the cue itself and on the start
  of the next (`ClampedEnd`), and leaves the starts as they are: that makes it
  idempotent (`ClampCuesSettles`), as the resanitize command is documented to be,
  and lets it commute with a shift (`ClampingCommutesWithShifting`).
  `shiftSRT` drops no cue and holds starts and ends at zero; while no start is
  held, `Divergence` sees a shift as nothing but a shift, so an upload of a body
  that was served with an offset counts as a retime exactly when the offset is
  more than the threshold (`ShiftIsKnownForARetime`).

What the assumptions on constants say is named in section 3 where it is more
than a type: `MaxRetry >= 2`, the starting groupings of works, `None` apart from
what it stands beside; and in `Pages` that a document is kept for some time
(`TTL > 0`) and the node has a name.

What stays with TLC:

* `TransactionsEnd` and `WorkEnds`: liveness under fairness is beyond the prover.
* `TextsHold`: parsing, sanitising and rendering are recursions over sequences,
  and an induction over data is beyond it too. Of what it says of timings,
  `CuesProofs` proves the arithmetic for any list of cues.
* The five violations, which are TLC's counterexamples.

`AccessProofs` takes about seven minutes to prove from nothing, `CatalogueProofs`
about twelve and `BackgroundProofs` about three; the others take two
or less.

## 7. What is not modelled

`PROJECT.json` says of every part what is left out. In short: rendering of pages
and what depends on the viewer; configuration, flags and routing; the API
client's encoding and decoding; the detection of provenance (pattern matching on
the uploaded bytes, whose verdict comes with a request); kinds, languages and
encodings of text; the scoring of names in a search (an arbitrary order here);
candidates for works; mails. PostgreSQL, the Go runtime and the network are taken
to work as documented.

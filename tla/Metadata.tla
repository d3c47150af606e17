------------------------------ MODULE Metadata ------------------------------
(* What a release is called: accounts file proposals, a release's page shows
   what its work's proposals add up to, a moderator (or a rule) pins it
   (internal/store/metadata.go, internal/store/autoconfirm.go, the handlers of
   internal/api/metadata_api.go and metadata_mod.go, moansubs import).  Every
   handler is a job of several steps, one for each write and one for the reads
   before it; the jobs interleave.  The transactions that link and unlink
   releases are single steps here: module Works has their statements. *)
EXTENDS Naturals, Sequences, FiniteSets

CONSTANTS Jobs,           \* the requests and commands running at a time
          Releases,       \* release ids
          Accounts,
          Claims,         \* what proposals assert: [title, cast]
          Stashes,        \* the evidence they carry: None, a box's id, a pinning box's
          Clashes,        \* pairs whose runtimes differ by more than 5%
          None,
          MaxJobs,        \* bound: jobs begun
          MaxBeside       \* bound: which of them may begin beside another

Empty == [title |-> None, cast |-> {}]

People == UNION {c.cast : c \in Claims}
Shown == [title : {c.title : c \in Claims} \cup {None}, cast : SUBSET People]

\* No claim is empty: RecordProposal refuses one that asserts nothing.
ASSUME MetadataConstants ==
  /\ Releases \subseteq Nat \ {0} /\ IsFiniteSet(Releases) /\ Releases # {}
  /\ None \in Stashes /\ Stashes \subseteq {None, "backs", "pins"}
  /\ None \notin Accounts /\ Empty \notin Claims /\ MaxJobs \in Nat /\ MaxBeside \in Nat
  /\ None \notin [shows : Shown, hand : BOOLEAN]
  /\ \A c \in Claims : DOMAIN c = {"title", "cast"} /\ IsFiniteSet(c.cast)

VARIABLES
  proposals,   \* release_metadata_proposals, a set of rows
  page,        \* [Releases -> what the releases row shows]
  pin,         \* [Releases -> the pinned answer and who pinned it]
  blocked,     \* the releases a moderator unpinned
  carriers,    \* the releases that carry the scene's stash-box id
  group,       \* [Releases -> work_id, 0 when it has none]
  trusted,     \* accounts trusted and not disabled
  job,         \* [Jobs -> the handler running there]
  begun,       \* jobs begun
  unsure,      \* releases not derived since jobs met on their work
  passedOver   \* siblings of an imported release, not derived again since

tables == <<proposals, page, pin, blocked, carriers, group, trusted>>
metadataVars == <<tables, job, begun, unsure, passedOver>>

(* ---- deriving ---- *)

Least(S) == CHOOSE i \in S : \A j \in S : i <= j

\* candidate: who asserts a value, with what behind it and how lately.
Says(rows, title) == {p \in rows : p.claim.title = title}
Backed(S) == \E p \in S : p.stash # None
Newest(S) == CHOOSE n \in {p.at : p \in S} : \A p \in S : p.at <= n

\* better: stash-box evidence, then agreement, then recency.
Better(rows, a, b) ==
  LET A == Says(rows, a)  B == Says(rows, b)
  IN IF Backed(A) # Backed(B) THEN Backed(A)
     ELSE IF Cardinality(A) # Cardinality(B) THEN Cardinality(A) > Cardinality(B)
     ELSE Newest(A) > Newest(B)

Titles(rows) == {p.claim.title : p \in rows} \ {None}

PickTitle(rows) ==
  IF Titles(rows) = {} THEN None
  ELSE CHOOSE t \in Titles(rows) : \A u \in Titles(rows) \ {t} : Better(rows, t, u)

\* pickPerformers: the names backed or corroborated, all names when none is.
PickPerformers(rows) ==
  LET names == UNION {p.claim.cast : p \in rows}
      by(n) == {p \in rows : n \in p.claim.cast}
      kept == {n \in names : Backed(by(n)) \/ Cardinality(by(n)) > 1}
  IN IF kept = {} THEN names ELSE kept

DeriveFrom(rows) == [title |-> PickTitle(rows), cast |-> PickPerformers(rows)]

ProposalsFor(pool) == {p \in proposals : p.release \in pool}

Members(w) == {r \in Releases : group[r] = w}
Pool(r) == IF group[r] = 0 THEN {r} ELSE Members(group[r])

(* ---- the proposals table ---- *)

\* created_at is the count of jobs begun: each row is written by one that begins.
Row(r, by, claim, stash, at) == [release |-> r, by |-> by, claim |-> claim, stash |-> stash, at |-> at]

Filed(r, by) == {p \in proposals : p.release = r /\ p.by = by}

\* RecordProposal: one row for each account and release, whose evidence is
\* never cleared and which moves up only when what it claims changes.  The
\* rows of nobody have no key and pile up.
RecordProposal(r, by, claim, stash) ==
  LET now == begun + 1
      held == IF by = None THEN {} ELSE Filed(r, by)
      revised(p) == Row(r, by, claim, IF stash = None THEN p.stash ELSE stash,
                        IF p.claim = claim THEN p.at ELSE now)
  IN proposals' = IF held = {} THEN proposals \cup {Row(r, by, claim, stash, now)}
                  ELSE (proposals \ held) \cup {revised(p) : p \in held}

PurgeProposals(S) ==
  /\ proposals' = {p \in proposals : p.release \notin S}
  /\ pin' = [r \in Releases |-> IF r \in S THEN None ELSE pin[r]]

(* ---- jobs ---- *)

\* A job: the release it is about, the phases after this one, the releases
\* still to derive, what it has read, and the releases its writes can move.
Idle == [pc |-> "idle", release |-> 0, plan |-> <<>>, todo |-> {}, work |-> 0,
         read |-> Empty, reach |-> {}, alone |-> FALSE]

Task(r, plan) == [Idle EXCEPT !.pc = Head(plan), !.release = r, !.plan = Tail(plan)]
Onward(j) == IF j.plan = <<>> THEN Idle ELSE [j EXCEPT !.pc = Head(j.plan), !.plan = Tail(j.plan)]
Deriving(j, S) == IF S = {} THEN Onward(j) ELSE [j EXCEPT !.pc = "derive", !.todo = S]

Running == {h \in Jobs : job[h].pc # "idle"}

\* A job goes on as j, with writes that can move the releases of reach.  Where
\* others are at work that puts in doubt what all of them derive.
Reaches(h, j, reach) ==
  LET met == {x \in Running \ {h} : job[x].reach \cap reach # {}}
      alone == j.alone /\ met = {}
  IN /\ job' = [x \in Jobs |-> IF x = h THEN [j EXCEPT !.reach = reach, !.alone = alone]
                               ELSE IF x \in met THEN [job[x] EXCEPT !.alone = FALSE]
                               ELSE job[x]]
     /\ unsure' = IF alone THEN unsure ELSE unsure \cup reach \cup UNION {job[x].reach : x \in met}

Begin(h, j, reach) ==
  /\ h \notin Running /\ begun < MaxJobs /\ (Running # {} => begun < MaxBeside)
  /\ begun' = begun + 1
  /\ Reaches(h, [j EXCEPT !.alone = TRUE], reach)

\* A proposal comes from the correction form, a contribution or an upload, with
\* the stash-box evidence the last two may carry; the id itself is attached next.
Propose(h, r, by, claim, stash) ==
  /\ Begin(h, Task(r, IF stash = None THEN <<"grouping", "auto">> ELSE <<"attach", "grouping", "auto">>), Pool(r))
  /\ RecordProposal(r, by, claim, stash)
  /\ UNCHANGED <<page, pin, blocked, carriers, group, trusted, passedOver>>

\* An empty correction form withdraws the account's own claim.
Retract(h, r, by) ==
  /\ Filed(r, by) # {}
  /\ Begin(h, Task(r, <<"grouping">>), Pool(r))
  /\ proposals' = proposals \ Filed(r, by)
  /\ UNCHANGED <<page, pin, blocked, carriers, group, trusted, passedOver>>

\* moansubs import files a proposal of nobody's and derives that release only.
Import(h, r, claim, stash) ==
  /\ Begin(h, Deriving(Task(r, IF stash = None THEN <<"derive">> ELSE <<"derive", "attach">>), {r}), Pool(r))
  /\ RecordProposal(r, None, claim, stash)
  /\ passedOver' = passedOver \cup (Pool(r) \ {r})
  /\ UNCHANGED <<page, pin, blocked, carriers, group, trusted>>

\* A moderator confirms what the page shows when the handler reads it.
Confirm(h, r) ==
  /\ Begin(h, [Task(r, <<"pinByHand", "unblock">>) EXCEPT !.read = page[r]], Pool(r))
  /\ UNCHANGED <<tables, passedOver>>

\* UnconfirmMetadata: one transaction unpins and blocks the rule.
Unconfirm(h, r) ==
  /\ Begin(h, Task(r, <<"grouping">>), Pool(r))
  /\ pin' = [pin EXCEPT ![r] = None]
  /\ blocked' = blocked \cup {r}
  /\ UNCHANGED <<proposals, page, carriers, group, trusted, passedOver>>

\* The purge of one release, and of an ungrouped one by either button.
Purge(h, r) ==
  /\ Begin(h, Task(r, <<"grouping">>), Pool(r))
  /\ PurgeProposals({r})
  /\ UNCHANGED <<page, blocked, carriers, group, trusted, passedOver>>

\* The purge of a work: its id is read, then its members, then they are purged.
PurgeWork(h, r) ==
  /\ group[r] # 0
  /\ Begin(h, [Task(r, <<"purgeList", "purge", "members">>) EXCEPT !.work = group[r]], Pool(r))
  /\ UNCHANGED <<tables, passedOver>>

\* LinkReleases: the smaller group is absorbed, then the work is derived.
Absorbs(a, b) ==
  IF group[a] = 0 /\ group[b] = 0 THEN begun + 2
  ELSE IF group[b] = 0 THEN group[a]
  ELSE IF group[a] = 0 \/ Cardinality(Members(group[b])) > Cardinality(Members(group[a]))
  THEN group[b] ELSE group[a]

Link(h, a, b) ==
  /\ a # b /\ (group[a] = 0 \/ group[a] # group[b])
  /\ Begin(h, [Task(a, <<"members">>) EXCEPT !.work = Absorbs(a, b)], Pool(a) \cup Pool(b))
  /\ group' = [r \in Releases |-> IF r \in Pool(a) \cup Pool(b) THEN Absorbs(a, b) ELSE group[r]]
  /\ UNCHANGED <<proposals, page, pin, blocked, carriers, trusted, passedOver>>

\* UnlinkRelease: a work left with one member is dissolved; the release is
\* derived, then what was left of the work.
Unlink(h, r) ==
  /\ group[r] # 0
  /\ LET rest == Members(group[r]) \ {r}
         dissolves == Cardinality(rest) < 2
     IN /\ Begin(h, Deriving([Task(r, IF dissolves THEN <<"derive">> ELSE <<"derive", "members">>)
                               EXCEPT !.work = group[r]],
                             IF dissolves THEN Members(group[r]) ELSE {r}), Pool(r))
        /\ group' = [x \in Releases |-> IF x = r \/ (dissolves /\ x \in rest) THEN 0 ELSE group[x]]
  /\ UNCHANGED <<proposals, page, pin, blocked, carriers, trusted, passedOver>>

Moves(h, j) == job' = [job EXCEPT ![h] = j] /\ UNCHANGED <<begun>>
At(h, pc) == job[h].pc = pc
Reads == UNCHANGED <<tables, unsure, passedOver>>

\* The releases a job finds may be others than its first write could move.
Finds(h, j) ==
  /\ IF j.pc = "idle" THEN job' = [job EXCEPT ![h] = j] /\ UNCHANGED unsure
     ELSE Reaches(h, j, j.reach \cup j.todo)
  /\ UNCHANGED <<tables, begun, passedOver>>

\* AddReleaseStashIDs.
Attach(h) ==
  /\ At(h, "attach")
  /\ Moves(h, Onward(job[h]))
  /\ carriers' = carriers \cup {job[h].release}
  /\ UNCHANGED <<proposals, page, pin, blocked, group, trusted, unsure, passedOver>>

\* A mutant of the next: the siblings are forgotten.
DeriveAfterProposal_alone(h) ==
  /\ At(h, "grouping")
  /\ Finds(h, Deriving(job[h], {job[h].release}))

\* DeriveAfterProposal: the release alone, or every member of its work.
DeriveAfterProposal(h) ==
  /\ At(h, "grouping")
  /\ Finds(h, Deriving(job[h], Pool(job[h].release)))

\* DeriveWork, over the members it has by now.
DeriveWork(h) ==
  /\ At(h, "members")
  /\ Finds(h, Deriving(job[h], Members(job[h].work)))

Answer(r) == IF pin[r] # None THEN pin[r].shows ELSE DeriveFrom(ProposalsFor(Pool(r)))

\* DeriveMetadata reads: a pinned release is to show its pin, any other what
\* the proposals of its work add up to.
DeriveMetadata(h) ==
  /\ At(h, "derive")
  /\ Moves(h, [job[h] EXCEPT !.pc = "write", !.read = Answer(Least(job[h].todo))])
  /\ Reads

WriteDerived(h) ==
  /\ At(h, "write")
  /\ LET r == Least(job[h].todo)
     IN /\ Moves(h, Deriving([job[h] EXCEPT !.read = Empty, !.todo = {}], job[h].todo \ {r}))
        /\ page' = [page EXCEPT ![r] = job[h].read]
        /\ unsure' = IF job[h].alone THEN unsure \ {r} ELSE unsure
        /\ passedOver' = passedOver \ {r}
  /\ UNCHANGED <<proposals, pin, blocked, carriers, group, trusted>>

PurgeList(h) ==
  /\ At(h, "purgeList")
  /\ Finds(h, [Onward(job[h]) EXCEPT !.todo = Members(job[h].work)])

PurgeListed(h) ==
  /\ At(h, "purge")
  /\ Moves(h, [Onward(job[h]) EXCEPT !.todo = {}])
  /\ PurgeProposals(job[h].todo)
  /\ UNCHANGED <<page, blocked, carriers, group, trusted, unsure, passedOver>>

(* ---- pinning ---- *)

ConfirmMetadata(r, shows, hand) ==
  /\ pin' = [pin EXCEPT ![r] = [shows |-> shows, hand |-> hand]]
  /\ UNCHANGED <<proposals, page, blocked, carriers, group, trusted, unsure, passedOver>>

PinByHand(h) ==
  /\ At(h, "pinByHand")
  /\ ConfirmMetadata(job[h].release, job[h].read, TRUE)
  /\ Moves(h, Onward(job[h]))

\* Only then, in a statement of its own, is the rule let back in.
Unblock(h) ==
  /\ At(h, "unblock")
  /\ Moves(h, Onward(job[h]))
  /\ blocked' = blocked \ {job[h].release}
  /\ UNCHANGED <<proposals, page, pin, carriers, group, trusted, unsure, passedOver>>

\* Some trusted account's proposal for it carries an id of a box that may pin.
TrustedEvidence(r) ==
  \E p \in proposals : p.release = r /\ p.by \in trusted /\ p.stash = "pins"

\* A mutant of the next: what moderators decided is not asked.
AutoConfirmIfEligible_always(h) ==
  /\ At(h, "auto")
  /\ LET r == job[h].release
     IN Moves(h, IF page[r].title # None /\ TrustedEvidence(r)
                 THEN [job[h] EXCEPT !.pc = "autoPin", !.read = page[r]] ELSE Onward(job[h]))
  /\ Reads

\* AutoConfirmIfEligible reads, and any of its checks may end it.
AutoConfirmIfEligible(h) ==
  /\ At(h, "auto")
  /\ LET r == job[h].release
         eligible == /\ r \notin blocked /\ page[r].title # None /\ pin[r] = None
                     /\ TrustedEvidence(r)
                     /\ \A other \in carriers \ {r} : <<r, other>> \notin Clashes
     IN Moves(h, IF eligible THEN [job[h] EXCEPT !.pc = "autoPin", !.read = page[r]] ELSE Onward(job[h]))
  /\ Reads

AutoPin(h) ==
  /\ At(h, "autoPin")
  /\ ConfirmMetadata(job[h].release, job[h].read, FALSE)
  /\ Moves(h, Onward(job[h]))

\* SetAccountTrusted, SetAccountDisabled.
Trust(a) ==
  /\ begun < MaxJobs
  /\ trusted' = IF a \in trusted THEN trusted \ {a} ELSE trusted \cup {a}
  /\ begun' = begun + 1
  /\ UNCHANGED <<proposals, page, pin, blocked, carriers, group, job, unsure, passedOver>>

Step(h) ==
  \/ Attach(h) \/ DeriveAfterProposal(h) \/ DeriveWork(h) \/ DeriveMetadata(h) \/ WriteDerived(h)
  \/ PurgeList(h) \/ PurgeListed(h) \/ PinByHand(h) \/ Unblock(h)
  \/ AutoConfirmIfEligible(h) \/ AutoPin(h)

\* The releases are apart or one work, and one proposal has been filed and
\* derived.
MetadataInit ==
  /\ group \in {[r \in Releases |-> 0], [r \in Releases |-> 1]}
  /\ trusted \in SUBSET Accounts
  /\ proposals \in {{Row(Least(Releases), by, claim, None, 0)} : by \in Accounts, claim \in Claims}
  /\ page = [r \in Releases |-> DeriveFrom(ProposalsFor(Pool(r)))]
  /\ pin = [r \in Releases |-> None] /\ blocked = {} /\ carriers = {}
  /\ job = [h \in Jobs |-> Idle] /\ begun = 0
  /\ unsure = {} /\ passedOver = {}

MetadataNext ==
  \/ \E h \in Jobs :
       \/ Step(h)
       \/ \E r \in Releases :
            \/ \E claim \in Claims, stash \in Stashes :
                 Import(h, r, claim, stash) \/ \E by \in Accounts : Propose(h, r, by, claim, stash)
            \/ \E by \in Accounts : Retract(h, r, by)
            \/ Confirm(h, r) \/ Unconfirm(h, r) \/ Purge(h, r) \/ PurgeWork(h, r)
            \/ Unlink(h, r) \/ \E other \in Releases : Link(h, r, other)
  \/ \E a \in Accounts : Trust(a)

MetadataSpec == MetadataInit /\ [][MetadataNext]_metadataVars

(* ---- properties ---- *)

MetadataTypeOK ==
  /\ proposals \subseteq [release : Releases, by : Accounts \cup {None}, claim : Claims,
                          stash : Stashes, at : 0..MaxJobs]
  /\ page \in [Releases -> Shown]
  /\ pin \in [Releases -> {None} \cup [shows : Shown, hand : BOOLEAN]]
  /\ blocked \subseteq Releases /\ carriers \subseteq Releases
  /\ group \in [Releases -> 0..MaxJobs + 1] /\ trusted \subseteq Accounts
  /\ unsure \subseteq Releases /\ passedOver \subseteq Releases /\ begun \in 0..MaxJobs

Current(S) == Running = {} => \A r \in S : page[r] = Answer(r)

\* When nothing runs, every page shows its pin or what its work's evidence adds
\* up to: each handler derives every release its write can move, and a page two
\* handlers left stale is put right by the next one that derives it undisturbed.
PagesAreCurrent == Current(Releases \ (unsure \cup passedOver))

\* What DeriveAfterProposal's comment says, for import too: a proposal is
\* evidence for every release of the work, whose pages must not go stale.
SiblingsFollow == Current(Releases \ unsure)

\* The rule pins no release a moderator has pinned or unpinned, unless two
\* handlers met on it (AutoConfirmIfEligible).
HumansOutrankTheRule ==
  [][\A r \in Releases \ unsure :
       pin'[r] # pin[r] /\ pin'[r] # None =>
         pin'[r].hand \/ (pin[r] = None /\ r \notin blocked)]_metadataVars

\* Filing what is on file already walks no claim up the ranking: what an
\* account says of a release is as old as when it last changed (RecordProposal).
RecencyMovesWithTheClaim ==
  [][\A p \in proposals, q \in proposals' :
       p.by # None /\ p.by = q.by /\ p.release = q.release /\ p.claim = q.claim => p.at = q.at]_metadataVars
=============================================================================

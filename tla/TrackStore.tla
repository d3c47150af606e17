------------------------------ MODULE TrackStore ------------------------------
(***************************************************************************)
(* The subtitle_tracks and releases tables of internal/store: revision     *)
(* chains (migration 0024), track and release takedowns (migration 0005),  *)
(* the bulk takedown of an account's uploads, and what deleting an account *)
(* does to its uploads.                                                    *)
(*                                                                         *)
(* The database runs READ COMMITTED.  A store call that is one SQL         *)
(* statement on one row is one action, which waits while another           *)
(* transaction holds the row's lock.  A store call that reads a snapshot   *)
(* and writes after it is two actions, Begin and Commit, with the snapshot *)
(* kept in tx[c] between them; every such transaction can also be rolled   *)
(* back between the two (a lost connection, a cancelled request).          *)
(*                                                                         *)
(* One language is modelled: a chain never spans two, and every statement  *)
(* that compares languages compares the release with them.                 *)
(* revision_locked is left out: no code of the repository sets it.         *)
(***************************************************************************)
EXTENDS Integers

CONSTANTS
  Releases,    \* releases, all existing from the start
  Accounts,    \* accounts that upload, all existing from the start
  Payloads,    \* what a track carries that no statement here looks at
  Conns,       \* database connections that run transactions
  MaxTracks,   \* bound: rows ever inserted
  MaxStamp     \* bound: withdrawals ever begun

ASSUME BoundsAssumption == MaxTracks \in Nat /\ MaxStamp \in Nat

ASSUME NoAccountAssumption == 0 \notin Accounts

VARIABLES
  lastId,      \* the table's bigserial: rows are 1..lastId, none is deleted
  tracks,      \* the rows of subtitle_tracks, by id
  releaseAt,   \* releases.withdrawn_at, 0 when the release is live
  clock,       \* the last value now() returned to a withdrawal
  accounts,    \* the rows of accounts, by id
  tx           \* the open transaction of each connection

vars == <<lastId, tracks, releaseAt, clock, accounts, tx>>

None == 0      \* SQL NULL in supersedes_id, withdrawn_at and uploader_id

Stamps == 0 .. MaxStamp

\* withdrawn_reason, reduced to which operation wrote it.
Reasons == {"none", "own", "release", "purge"}

Row == [release : Releases, uploader : Accounts \cup {None},
        payload : Payloads,
        root : Nat \ {None}, revision : Nat \ {None}, supersedes : Nat,
        withdrawnAt : Stamps, reason : Reasons]

Idle == [op |-> "idle"]

Transaction ==
       {Idle}
  \cup [op : {"supersede"}, parent : Nat, max : Nat, uploader : Accounts,
        payload : Payloads]
  \cup [op : {"withdrawRelease"}, release : Releases, stamp : Stamps,
        targets : SUBSET Nat]
  \cup [op : {"withdrawUploads"}, uploader : Accounts, stamp : Stamps,
        targets : SUBSET Nat]
  \cup [op : {"restoreRelease"}, release : Releases, stamp : Stamps]

Ids == 1 .. lastId

Live(t) == tracks[t].withdrawnAt = None

Chain(root) == {t \in Ids : tracks[t].root = root}

\* trackIsHead: the listing rule every public read applies.
IsHead(t) ==
  /\ Live(t)
  /\ \A u \in Chain(tracks[t].root) :
       Live(u) => tracks[u].revision <= tracks[t].revision

\* Mutant: SupersedeTrack reads its parent without FOR UPDATE.
TrackLocked_never(t) == FALSE

\* SupersedeTrack holds its parent FOR UPDATE until it ends.
TrackLocked(t) == \E c \in Conns : tx[c].op = "supersede" /\ tx[c].parent = t

\* WithdrawRelease holds the release row from its first UPDATE until it ends.
ReleaseLocked(r) ==
  \E c \in Conns : tx[c].op = "withdrawRelease" /\ tx[c].release = r

\* subtitle_tracks_supersedes_id_uidx over the rows: among live rows,
\* supersedes_id has no duplicates.
IndexAdmits(rows) ==
  \A t, u \in DOMAIN rows :
    /\ rows[t].supersedes = rows[u].supersedes
    /\ rows[t].supersedes # None
    /\ rows[t].withdrawnAt = None
    /\ rows[u].withdrawnAt = None
    => t = u

Withdrawn(targets, stamp, reason) ==
  [t \in Ids |->
     IF t \in targets
       THEN [tracks[t] EXCEPT !.withdrawnAt = stamp, !.reason = reason]
       ELSE tracks[t]]

Restored(targets) == Withdrawn(targets, None, "none")

Inserted(row) ==
  [t \in 1 .. lastId + 1 |-> IF t \in Ids THEN tracks[t] ELSE row]

\* The uploader is a foreign key.
Insert(row) ==
  /\ lastId < MaxTracks
  /\ row.uploader \in accounts
  /\ IndexAdmits(Inserted(row))
  /\ lastId' = lastId + 1
  /\ tracks' = Inserted(row)

Begin(c, transaction) ==
  /\ tx[c] = Idle
  /\ tx' = [tx EXCEPT ![c] = transaction]

End(c) == tx' = [tx EXCEPT ![c] = Idle]

Init ==
  /\ lastId = 0
  /\ tracks = [t \in {} |-> None]
  /\ releaseAt = [r \in Releases |-> None]
  /\ clock = 0
  /\ accounts = Accounts
  /\ tx = [c \in Conns |-> Idle]

-----------------------------------------------------------------------------
\* Mutant: the second statement, which points root_id at the row, forgotten.
CreateSubtitleTrack_rootless(r, a, p) ==
  /\ Insert([release |-> r, uploader |-> a, payload |-> p,
             root |-> None, revision |-> 1, supersedes |-> None,
             withdrawnAt |-> None, reason |-> "none"])
  /\ UNCHANGED <<releaseAt, clock, accounts, tx>>

\* A new one-row chain: the row's root is its own id.
CreateSubtitleTrack(r, a, p) ==
  /\ Insert([release |-> r, uploader |-> a, payload |-> p,
             root |-> lastId + 1, revision |-> 1, supersedes |-> None,
             withdrawnAt |-> None, reason |-> "none"])
  /\ UNCHANGED <<releaseAt, clock, accounts, tx>>

(***************************************************************************)
(* SupersedeTrack.  Begin locks the parent and reads the chain; only the   *)
(* parent's row is locked, so the rest of the chain can change before      *)
(* Commit inserts the revision numbered from that reading.                 *)
(***************************************************************************)
SupersedeBegin(c, parent, a, p) ==
  /\ parent \in Ids
  /\ ~TrackLocked(parent)
  /\ IsHead(parent)
  /\ \E top \in Chain(tracks[parent].root) :
       /\ \A t \in Chain(tracks[parent].root) :
            tracks[t].revision <= tracks[top].revision
       /\ Begin(c, [op |-> "supersede", parent |-> parent,
                    max |-> tracks[top].revision, uploader |-> a,
                    payload |-> p])
  /\ UNCHANGED <<lastId, tracks, releaseAt, clock, accounts>>

\* Mutant: the parent's id taken for its chain's root.
SupersedeCommit_parentAsRoot(c) ==
  /\ tx[c].op = "supersede"
  /\ LET parent == tracks[tx[c].parent] IN
     Insert([release |-> parent.release, uploader |-> tx[c].uploader,
             payload |-> tx[c].payload, root |-> tx[c].parent,
             revision |-> tx[c].max + 1, supersedes |-> tx[c].parent,
             withdrawnAt |-> None, reason |-> "none"])
  /\ End(c)
  /\ UNCHANGED <<releaseAt, clock, accounts>>

SupersedeCommit(c) ==
  /\ tx[c].op = "supersede"
  /\ LET parent == tracks[tx[c].parent] IN
     Insert([release |-> parent.release, uploader |-> tx[c].uploader,
             payload |-> tx[c].payload, root |-> parent.root,
             revision |-> tx[c].max + 1, supersedes |-> tx[c].parent,
             withdrawnAt |-> None, reason |-> "none"])
  /\ End(c)
  /\ UNCHANGED <<releaseAt, clock, accounts>>

-----------------------------------------------------------------------------
\* Unconditional: a track already withdrawn gets a new stamp and reason.
WithdrawTrack(t) ==
  /\ t \in Ids
  /\ ~TrackLocked(t)
  /\ clock < MaxStamp
  /\ clock' = clock + 1
  /\ tracks' = Withdrawn({t}, clock + 1, "own")
  /\ UNCHANGED <<lastId, releaseAt, accounts, tx>>

\* Mutant: no unique index on the live rows' supersedes_id.
RestoreTrack_unindexed(t) ==
  /\ t \in Ids
  /\ ~TrackLocked(t)
  /\ tracks' = Restored({t})
  /\ UNCHANGED <<lastId, releaseAt, clock, accounts, tx>>

\* The unique index can refuse: then nothing changes.
RestoreTrack(t) ==
  /\ t \in Ids
  /\ ~TrackLocked(t)
  /\ IndexAdmits(Restored({t}))
  /\ tracks' = Restored({t})
  /\ UNCHANGED <<lastId, releaseAt, clock, accounts, tx>>

(***************************************************************************)
(* WithdrawRelease and the bulk takedown of an account's uploads: an       *)
(* UPDATE over the live rows its snapshot shows.  It waits for the locked  *)
(* ones and then updates those still live; a row inserted after the        *)
(* snapshot is not among them.                                             *)
(***************************************************************************)
\* Mutant: a coarse clock, one stamp for two withdrawals.
WithdrawReleaseBegin_coarseClock(c, r) ==
  /\ ~ReleaseLocked(r)
  /\ clock' = IF clock = 0 THEN 1 ELSE clock
  /\ Begin(c, [op |-> "withdrawRelease", release |-> r, stamp |-> clock',
               targets |-> {t \in Ids : Live(t) /\ tracks[t].release = r}])
  /\ UNCHANGED <<lastId, tracks, releaseAt, accounts>>

WithdrawReleaseBegin(c, r) ==
  /\ ~ReleaseLocked(r)
  /\ clock < MaxStamp
  /\ clock' = clock + 1
  /\ Begin(c, [op |-> "withdrawRelease", release |-> r, stamp |-> clock + 1,
               targets |-> {t \in Ids : Live(t) /\ tracks[t].release = r}])
  /\ UNCHANGED <<lastId, tracks, releaseAt, accounts>>

WithdrawTargets(c, matching, reason) ==
  /\ \A t \in matching : ~TrackLocked(t)
  /\ tracks' = Withdrawn(matching, tx[c].stamp, reason)

WithdrawReleaseCommit(c) ==
  /\ tx[c].op = "withdrawRelease"
  /\ WithdrawTargets(c, {t \in tx[c].targets : Live(t)}, "release")
  /\ releaseAt' = [releaseAt EXCEPT ![tx[c].release] = tx[c].stamp]
  /\ End(c)
  /\ UNCHANGED <<lastId, clock, accounts>>

WithdrawTracksByUploaderBegin(c, a) ==
  /\ a \in accounts
  /\ clock < MaxStamp
  /\ clock' = clock + 1
  /\ Begin(c, [op |-> "withdrawUploads", uploader |-> a, stamp |-> clock + 1,
               targets |-> {t \in Ids : Live(t) /\ tracks[t].uploader = a}])
  /\ UNCHANGED <<lastId, tracks, releaseAt, accounts>>

WithdrawTracksByUploaderCommit(c) ==
  /\ tx[c].op = "withdrawUploads"
  /\ WithdrawTargets(c, {t \in tx[c].targets :
                           /\ Live(t)
                           /\ tracks[t].uploader = tx[c].uploader}, "purge")
  /\ End(c)
  /\ UNCHANGED <<lastId, releaseAt, clock, accounts>>

(***************************************************************************)
(* What DeleteAccount does here.  It holds the account's row FOR UPDATE    *)
(* from its first statement on, so no upload of the account can insert     *)
(* meanwhile; its UPDATE of the uploads waits for the locked ones; and     *)
(* what it writes is seen all at once.  So it is one action.               *)
(***************************************************************************)
Uploads(a) == {t \in Ids : tracks[t].uploader = a}

Unlinked(targets) ==
  [t \in Ids |-> IF t \in targets
                   THEN [tracks[t] EXCEPT !.uploader = None]
                   ELSE tracks[t]]

DeleteAccount(a) ==
  /\ a \in accounts
  /\ \A t \in Uploads(a) : ~TrackLocked(t)
  /\ tracks' = Unlinked(Uploads(a))
  /\ accounts' = accounts \ {a}
  /\ UNCHANGED <<lastId, releaseAt, clock, tx>>

(***************************************************************************)
(* RestoreRelease.  Its UPDATE ... RETURNING (SELECT withdrawn_at ...)     *)
(* reads the stamp in the statement's snapshot and, when a WithdrawRelease *)
(* holds the row, clears it only after that one commits.                   *)
(***************************************************************************)
RestoreReleaseBegin(c, r) ==
  /\ Begin(c, [op |-> "restoreRelease", release |-> r,
               stamp |-> releaseAt[r]])
  /\ UNCHANGED <<lastId, tracks, releaseAt, clock, accounts>>

\* Mutant: brings back every withdrawn track of the release.
RestoreTargets_every(r, stamp) ==
  {t \in Ids : /\ stamp # None
               /\ tracks[t].release = r
               /\ ~Live(t)}

\* The tracks a restore holding this stamp brings back.
RestoreTargets(r, stamp) ==
  {t \in Ids : /\ stamp # None
               /\ tracks[t].release = r
               /\ tracks[t].withdrawnAt = stamp}

RestoreReleaseCommit(c) ==
  /\ tx[c].op = "restoreRelease"
  /\ ~ReleaseLocked(tx[c].release)
  /\ LET targets == RestoreTargets(tx[c].release, tx[c].stamp) IN
       /\ IndexAdmits(Restored(targets))
       /\ tracks' = Restored(targets)
  /\ releaseAt' = [releaseAt EXCEPT ![tx[c].release] = None]
  /\ End(c)
  /\ UNCHANGED <<lastId, clock, accounts>>

\* A refusal by the index, a lost connection, a cancelled request.
Rollback(c) ==
  /\ tx[c] # Idle
  /\ End(c)
  /\ UNCHANGED <<lastId, tracks, releaseAt, clock, accounts>>

-----------------------------------------------------------------------------
Statement ==
  \/ \E r \in Releases, a \in Accounts, p \in Payloads :
       CreateSubtitleTrack(r, a, p)
  \/ \E t \in Ids : WithdrawTrack(t)
  \/ \E t \in Ids : RestoreTrack(t)
  \/ \E a \in Accounts : DeleteAccount(a)

Supersede(c) ==
  \/ \E t \in Ids, a \in Accounts, p \in Payloads : SupersedeBegin(c, t, a, p)
  \/ SupersedeCommit(c)

Takedown(c) ==
  \/ \E r \in Releases : WithdrawReleaseBegin(c, r)
  \/ WithdrawReleaseCommit(c)
  \/ \E a \in Accounts : WithdrawTracksByUploaderBegin(c, a)
  \/ WithdrawTracksByUploaderCommit(c)
  \/ \E r \in Releases : RestoreReleaseBegin(c, r)
  \/ RestoreReleaseCommit(c)

Next ==
  \/ Statement
  \/ \E c \in Conns : Supersede(c) \/ Takedown(c) \/ Rollback(c)

Spec == Init /\ [][Next]_vars
-----------------------------------------------------------------------------
\* The one type invariant: every row, stamp and open transaction is in range.
TypeOK ==
  /\ lastId \in 0 .. MaxTracks
  /\ tracks \in [Ids -> Row]
  /\ releaseAt \in [Releases -> Stamps]
  /\ clock \in Stamps
  /\ accounts \subseteq Accounts
  /\ tx \in [Conns -> Transaction]

\* A chain is well formed whatever was withdrawn or restored around it: a
\* first revision is its own root, and every other row replaces an older row
\* of the same chain and release, under a strictly higher number.
ChainsWellFormed ==
  \A t \in Ids :
    LET row == tracks[t]
        parent == tracks[row.supersedes]
    IN IF row.supersedes = None
         THEN row.root = t /\ row.revision = 1
         ELSE /\ row.supersedes \in 1 .. t - 1
              /\ parent.root = row.root
              /\ parent.release = row.release
              /\ parent.revision < row.revision

\* A track never has two live successors, also after restores bring back
\* revisions that were withdrawn when the chain went on without them.
OneLiveSuccessor == IndexAdmits(tracks)

\* What the row lock buys an open SupersedeTrack: its parent stays live, its
\* reading of the chain's numbering never falls below the parent, and no
\* other transaction supersedes the same track.
OpenSupersedesHoldTheirParent ==
  \A c \in Conns : tx[c].op = "supersede" =>
    /\ tx[c].parent \in Ids
    /\ Live(tx[c].parent)
    /\ tracks[tx[c].parent].revision <= tx[c].max
    /\ \A d \in Conns : tx[d].op = "supersede" /\ tx[d].parent = tx[c].parent
                          => c = d

\* The stamps RestoreRelease may match: a release's own, and those open
\* release transactions hold.
ReleaseStamps ==
  {releaseAt[r] : r \in Releases} \cup
  {tx[c].stamp : c \in {d \in Conns :
                          tx[d].op \in {"withdrawRelease", "restoreRelease"}}}

\* A takedown of its own is told apart from a release's by the stamp alone:
\* no release stamp, stored or held by a transaction, ever equals the stamp
\* of a track withdrawn on its own or with its uploader's contribution.
StampsTellTakedownsApart ==
  /\ \A t \in Ids :
       /\ Live(t) <=> tracks[t].reason = "none"
       /\ tracks[t].withdrawnAt <= clock
       /\ tracks[t].reason \in {"own", "purge"} =>
            tracks[t].withdrawnAt \notin ReleaseStamps
  /\ \A c \in Conns :
       tx[c].op = "withdrawUploads" =>
         tx[c].stamp # None /\ tx[c].stamp \notin ReleaseStamps
  /\ \A c \in Conns :
       tx[c].op = "withdrawRelease" => tx[c].stamp # None
  /\ \A c \in Conns : tx[c].op = "withdrawUploads" => tx[c].stamp <= clock
  /\ \A s \in ReleaseStamps : s <= clock

\* Restoring a release never brings back a track that was withdrawn on its
\* own or with its uploader's whole contribution (RestoreRelease's comment:
\* it "keeps its withdrawal instead of riding back in").
RestoreReleaseKeepsOwnTakedowns ==
  [][\A c \in Conns : RestoreReleaseCommit(c) =>
       \A t \in Ids : tracks[t].reason \in {"own", "purge"} => ~Live(t)']_vars

-----------------------------------------------------------------------------
(***************************************************************************)
(* What the repository says and the code does not keep (see the README's   *)
(* findings).                                                              *)
(***************************************************************************)
\* API.md: a release's track list "shows only a chain's current head".
OneHeadPerChain ==
  \A t, u \in Ids :
    tracks[t].root = tracks[u].root /\ IsHead(t) /\ IsHead(u) => t = u

\* MANUAL.md, release restore: "restores the release and exactly the tracks
\* that withdrawal took down": under a live release, no track is left as the
\* release's withdrawal put it.
RestoreReleaseIsComplete ==
  \A t \in Ids :
    tracks[t].reason = "release" => releaseAt[tracks[t].release] # None
=============================================================================

--------------------------- MODULE TrackStoreProofs ---------------------------
(***************************************************************************)
(* Theorems about TrackStore, for every number of releases, accounts,      *)
(* connections, rows and withdrawals.                                      *)
(***************************************************************************)
EXTENDS TrackStore, TLAPS

(***************************************************************************)
(* How each statement rewrites the rows.                                   *)
(***************************************************************************)
\* A withdrawal or a restore rewrites withdrawn_at and withdrawn_reason of
\* its targets and no other column of any row.
LEMMA RewrittenRows ==
  ASSUME TypeOK, NEW targets, NEW stamp \in Stamps, NEW reason \in Reasons,
         tracks' = Withdrawn(targets, stamp, reason)
  PROVE  /\ tracks' \in [Ids -> Row]
         /\ \A t \in Ids :
              /\ tracks'[t].release = tracks[t].release
              /\ tracks'[t].uploader = tracks[t].uploader
              /\ tracks'[t].payload = tracks[t].payload
              /\ tracks'[t].root = tracks[t].root
              /\ tracks'[t].revision = tracks[t].revision
              /\ tracks'[t].supersedes = tracks[t].supersedes
              /\ t \in targets =>
                   tracks'[t].withdrawnAt = stamp /\ tracks'[t].reason = reason
              /\ t \notin targets => tracks'[t] = tracks[t]
  BY DEF TypeOK, Withdrawn, Row

\* The rows a bulk withdrawal rewrites: those of its snapshot still live.
StillLive(c) == {t \in tx[c].targets : Live(t)}

\* The rows the bulk withdrawal of an account's uploads rewrites.
StillTheirs(c) ==
  {t \in tx[c].targets : Live(t) /\ tracks[t].uploader = tx[c].uploader}

\* The rows a release restore rewrites.
RestoredBy(c) == RestoreTargets(tx[c].release, tx[c].stamp)

\* Deleting an account rewrites uploader_id and no other column of any row.
LEMMA UnlinkedRows ==
  ASSUME TypeOK, NEW a \in Accounts, DeleteAccount(a)
  PROVE  /\ Ids' = Ids
         /\ tracks' \in [Ids -> Row]
         /\ \A t \in Ids :
              /\ tracks'[t].release = tracks[t].release
              /\ tracks'[t].payload = tracks[t].payload
              /\ tracks'[t].root = tracks[t].root
              /\ tracks'[t].revision = tracks[t].revision
              /\ tracks'[t].supersedes = tracks[t].supersedes
              /\ tracks'[t].withdrawnAt = tracks[t].withdrawnAt
              /\ tracks'[t].reason = tracks[t].reason
              /\ tracks'[t].uploader \in {tracks[t].uploader, None}
              /\ tracks[t].uploader = a => tracks'[t].uploader = None
              /\ tracks[t].uploader # a => tracks'[t] = tracks[t]
  <1>1. tracks' = Unlinked(Uploads(a)) /\ lastId' = lastId
    BY DEF DeleteAccount
  <1>2. Ids' = Ids
    BY <1>1 DEF Ids
  <1>3. ASSUME NEW t \in Ids
        PROVE  tracks'[t] = IF tracks[t].uploader = a
                              THEN [tracks[t] EXCEPT !.uploader = None]
                              ELSE tracks[t]
    BY <1>1 DEF Unlinked, Uploads
  <1>4. ASSUME NEW t \in Ids
        PROVE  [tracks[t] EXCEPT !.uploader = None] \in Row
    BY DEF TypeOK, Row
  <1>5. tracks' \in [Ids -> Row]
    BY <1>1, <1>3, <1>4 DEF Unlinked, TypeOK
  <1>6. QED
    BY <1>2, <1>3, <1>5 DEF TypeOK, Row

\* An insert keeps every row and adds one.
LEMMA InsertedRows ==
  ASSUME TypeOK, NEW row \in Row
  PROVE  /\ lastId + 1 \in Nat
         /\ Ids \cup {lastId + 1} = 1 .. lastId + 1
         /\ lastId + 1 \notin Ids
         /\ Inserted(row) \in [1 .. lastId + 1 -> Row]
         /\ \A t \in Ids : Inserted(row)[t] = tracks[t]
         /\ Inserted(row)[lastId + 1] = row
  BY BoundsAssumption DEF TypeOK, Inserted, Ids

\* The row of a new chain.
FirstRevision(r, a, p) ==
  [release |-> r, uploader |-> a, payload |-> p, root |-> lastId + 1,
   revision |-> 1, supersedes |-> None, withdrawnAt |-> None, reason |-> "none"]

\* The row SupersedeCommit(c) inserts.
NextRevision(c) ==
  [release |-> tracks[tx[c].parent].release, uploader |-> tx[c].uploader,
   payload |-> tx[c].payload, root |-> tracks[tx[c].parent].root,
   revision |-> tx[c].max + 1, supersedes |-> tx[c].parent,
   withdrawnAt |-> None, reason |-> "none"]

\* What the type of an open transaction says of its fields.
LEMMA TransactionFields ==
  ASSUME TypeOK, NEW c \in Conns
  PROVE  /\ tx[c].op \in {"idle", "supersede", "withdrawRelease",
                          "withdrawUploads", "restoreRelease"}
         /\ tx[c].op = "idle" => tx[c] = Idle
         /\ tx[c].op = "supersede" =>
              /\ tx[c].parent \in Nat
              /\ tx[c].max \in Nat
              /\ tx[c].uploader \in Accounts
              /\ tx[c].payload \in Payloads
         /\ tx[c].op \in {"withdrawRelease", "restoreRelease"} =>
              tx[c].release \in Releases
         /\ tx[c].op \in {"withdrawRelease", "withdrawUploads", "restoreRelease"} =>
              tx[c].stamp \in Stamps
  <1>1. tx[c] \in Transaction
    BY DEF TypeOK
  <1>2. QED
    BY <1>1 DEF Transaction, Idle

\* The constants of the type invariant.
LEMMA StampFacts ==
  /\ None \in Stamps
  /\ Stamps \subseteq Nat
  /\ "none" \in Reasons /\ "own" \in Reasons
  /\ "release" \in Reasons /\ "purge" \in Reasons
  BY BoundsAssumption DEF None, Stamps, Reasons

\* The rows the two kinds of upload insert.
LEMMA RevisionRows ==
  ASSUME TypeOK
  PROVE  /\ \A r \in Releases, a \in Accounts, p \in Payloads :
              FirstRevision(r, a, p) \in Row
         /\ OpenSupersedesHoldTheirParent =>
              \A c \in Conns : tx[c].op = "supersede" => NextRevision(c) \in Row
  <1>1. ASSUME NEW r \in Releases, NEW a \in Accounts, NEW p \in Payloads
        PROVE  FirstRevision(r, a, p) \in Row
    BY StampFacts DEF FirstRevision, Row, TypeOK, None
  <1>2. ASSUME OpenSupersedesHoldTheirParent, NEW c \in Conns,
               tx[c].op = "supersede"
        PROVE  NextRevision(c) \in Row
    <2>1. tx[c].parent \in Ids /\ tracks[tx[c].parent] \in Row
      BY <1>2 DEF OpenSupersedesHoldTheirParent, TypeOK
    <2>2. tx[c].max + 1 \in Nat \ {None} /\ tx[c].parent \in Nat
      BY <1>2, TransactionFields DEF None
    <2>3. QED
      BY <1>2, <2>1, <2>2, TransactionFields, StampFacts DEF NextRevision, Row
  <1>3. QED
    BY <1>1, <1>2

(***************************************************************************)
(* Type correctness, together with what an open SupersedeTrack relies on:  *)
(* a superseding row takes its release and chain from its parent, so its   *)
(* type needs the parent to exist.                                         *)
(***************************************************************************)
TypeInv == TypeOK /\ OpenSupersedesHoldTheirParent

LEMMA InsertType ==
  ASSUME TypeOK, NEW row \in Row, Insert(row)
  PROVE  lastId' \in 0 .. MaxTracks /\ tracks' \in [Ids' -> Row]
  <1>1. Inserted(row) \in [1 .. lastId + 1 -> Row]
    BY InsertedRows
  <1>2. lastId + 1 \in 0 .. MaxTracks
    BY BoundsAssumption DEF TypeOK, Insert
  <1>3. QED
    BY <1>1, <1>2 DEF Insert, Ids

LEMMA BeginType ==
  ASSUME TypeOK, NEW c \in Conns, NEW transaction \in Transaction,
         Begin(c, transaction)
  PROVE  tx' \in [Conns -> Transaction]
  BY DEF TypeOK, Begin

LEMMA EndType ==
  ASSUME TypeOK, NEW c \in Conns, End(c)
  PROVE  tx' \in [Conns -> Transaction]
  BY DEF TypeOK, End, Transaction

LEMMA TypeStep ==
  ASSUME TypeInv, [Next]_vars
  PROVE  TypeOK'
  <1> USE DEF TypeInv
  <1>1. ASSUME NEW r \in Releases, NEW a \in Accounts, NEW p \in Payloads,
               CreateSubtitleTrack(r, a, p)
        PROVE  TypeOK'
    <2>1. FirstRevision(r, a, p) \in Row
      BY RevisionRows
    <2>2. /\ Insert(FirstRevision(r, a, p))
          /\ UNCHANGED <<releaseAt, clock, accounts, tx>>
      BY <1>1 DEF CreateSubtitleTrack, FirstRevision
    <2>3. QED
      BY <2>1, <2>2, InsertType DEF TypeOK
  <1>2. ASSUME NEW t \in Ids, WithdrawTrack(t)
        PROVE  TypeOK'
    <2>1. clock + 1 \in Stamps
      BY <1>2, BoundsAssumption DEF WithdrawTrack, TypeOK, Stamps
    <2>2. tracks' \in [Ids -> Row]
      BY <1>2, <2>1, RewrittenRows, StampFacts DEF WithdrawTrack
    <2>3. QED
      BY <1>2, <2>1, <2>2 DEF WithdrawTrack, TypeOK, Ids
  <1>3. ASSUME NEW t \in Ids, RestoreTrack(t)
        PROVE  TypeOK'
    <2>1. tracks' \in [Ids -> Row]
      BY <1>3, RewrittenRows, StampFacts DEF RestoreTrack, Restored
    <2>2. QED
      BY <1>3, <2>1 DEF RestoreTrack, TypeOK, Ids
  <1>4. ASSUME NEW c \in Conns, NEW t \in Ids, NEW a \in Accounts,
               NEW p \in Payloads, SupersedeBegin(c, t, a, p)
        PROVE  TypeOK'
    <2>1. PICK top \in Chain(tracks[t].root) :
            Begin(c, [op |-> "supersede", parent |-> t,
                      max |-> tracks[top].revision, uploader |-> a,
                      payload |-> p])
      BY <1>4 DEF SupersedeBegin
    <2>2. tracks[top].revision \in Nat /\ t \in Nat
      BY DEF Chain, TypeOK, Row, Ids
    <2>3. [op |-> "supersede", parent |-> t, max |-> tracks[top].revision,
           uploader |-> a, payload |-> p] \in Transaction
      BY <2>2 DEF Transaction
    <2>4. QED
      BY <1>4, <2>1, <2>3, BeginType DEF SupersedeBegin, TypeOK, Ids
  <1>5. ASSUME NEW c \in Conns, SupersedeCommit(c)
        PROVE  TypeOK'
    <2>1. NextRevision(c) \in Row
      BY <1>5, RevisionRows DEF SupersedeCommit
    <2>2. /\ Insert(NextRevision(c)) /\ End(c)
          /\ UNCHANGED <<releaseAt, clock, accounts>>
      BY <1>5 DEF SupersedeCommit, NextRevision
    <2>3. QED
      BY <2>1, <2>2, InsertType, EndType DEF TypeOK
  <1>6. ASSUME NEW c \in Conns, NEW r \in Releases, WithdrawReleaseBegin(c, r)
        PROVE  TypeOK'
    <2>1. clock + 1 \in Stamps
      BY <1>6, BoundsAssumption DEF WithdrawReleaseBegin, TypeOK, Stamps
    <2>2. [op |-> "withdrawRelease", release |-> r, stamp |-> clock + 1,
           targets |-> {t \in Ids : Live(t) /\ tracks[t].release = r}]
            \in Transaction
      BY <2>1 DEF Transaction, Ids
    <2>3. QED
      BY <1>6, <2>1, <2>2, BeginType DEF WithdrawReleaseBegin, TypeOK, Ids
  <1>7. ASSUME NEW c \in Conns, WithdrawReleaseCommit(c)
        PROVE  TypeOK'
    <2>1. tx[c].release \in Releases /\ tx[c].stamp \in Stamps
      BY <1>7, TransactionFields DEF WithdrawReleaseCommit
    <2>2. tracks' = Withdrawn(StillLive(c), tx[c].stamp, "release")
      BY <1>7 DEF WithdrawReleaseCommit, WithdrawTargets, StillLive
    <2>3. tracks' \in [Ids -> Row]
      BY <2>1, <2>2, RewrittenRows, StampFacts
    <2>4. QED
      BY <1>7, <2>1, <2>3, EndType DEF WithdrawReleaseCommit, TypeOK, Ids
  <1>8. ASSUME NEW c \in Conns, NEW a \in Accounts,
               WithdrawTracksByUploaderBegin(c, a)
        PROVE  TypeOK'
    <2>1. clock + 1 \in Stamps
      BY <1>8, BoundsAssumption
      DEF WithdrawTracksByUploaderBegin, TypeOK, Stamps
    <2>2. [op |-> "withdrawUploads", uploader |-> a, stamp |-> clock + 1,
           targets |-> {t \in Ids : Live(t) /\ tracks[t].uploader = a}]
            \in Transaction
      BY <2>1 DEF Transaction, Ids
    <2>3. QED
      BY <1>8, <2>1, <2>2, BeginType
      DEF WithdrawTracksByUploaderBegin, TypeOK, Ids
  <1>9. ASSUME NEW c \in Conns, WithdrawTracksByUploaderCommit(c)
        PROVE  TypeOK'
    <2>1. tx[c].stamp \in Stamps
      BY <1>9, TransactionFields DEF WithdrawTracksByUploaderCommit
    <2>2. tracks' = Withdrawn(StillTheirs(c), tx[c].stamp, "purge")
      BY <1>9 DEF WithdrawTracksByUploaderCommit, WithdrawTargets, StillTheirs
    <2>3. tracks' \in [Ids -> Row]
      BY <2>1, <2>2, RewrittenRows, StampFacts
    <2>4. QED
      BY <1>9, <2>3, EndType DEF WithdrawTracksByUploaderCommit, TypeOK, Ids
  <1>10. ASSUME NEW c \in Conns, NEW r \in Releases, RestoreReleaseBegin(c, r)
         PROVE  TypeOK'
    <2>1. [op |-> "restoreRelease", release |-> r, stamp |-> releaseAt[r]]
            \in Transaction
      BY DEF Transaction, TypeOK
    <2>2. QED
      BY <1>10, <2>1, BeginType DEF RestoreReleaseBegin, TypeOK, Ids
  <1>11. ASSUME NEW c \in Conns, RestoreReleaseCommit(c)
         PROVE  TypeOK'
    <2>1. tx[c].release \in Releases
      BY <1>11, TransactionFields DEF RestoreReleaseCommit
    <2>2. tracks' = Withdrawn(RestoredBy(c), None, "none")
      BY <1>11 DEF RestoreReleaseCommit, Restored, RestoredBy
    <2>3. tracks' \in [Ids -> Row]
      BY <2>2, RewrittenRows, StampFacts
    <2>4. QED
      BY <1>11, <2>1, <2>3, EndType, StampFacts
      DEF RestoreReleaseCommit, TypeOK, Ids
  <1>12. ASSUME NEW c \in Conns, Rollback(c)
         PROVE  TypeOK'
    BY <1>12, EndType DEF Rollback, TypeOK, Ids
  <1>13. CASE UNCHANGED vars
    BY <1>13 DEF vars, TypeOK, Ids
  <1>14. ASSUME NEW a \in Accounts, DeleteAccount(a)
         PROVE  TypeOK'
    <2>1. Ids' = Ids /\ tracks' \in [Ids -> Row]
      BY <1>14, UnlinkedRows
    <2>2. QED
      BY <1>14, <2>1 DEF DeleteAccount, TypeOK
  <1>15. QED
    BY <1>1, <1>2, <1>3, <1>4, <1>5, <1>6, <1>7, <1>8, <1>9, <1>10, <1>11,
       <1>12, <1>13, <1>14 DEF Next, Statement, Supersede, Takedown
(***************************************************************************)
(* The invariant of the chains.                                            *)
(***************************************************************************)
\* A withdrawal in progress holds a stamp that is not NULL.
OpenWithdrawalsAreStamped ==
  \A c \in Conns :
    tx[c].op \in {"withdrawRelease", "withdrawUploads"} => tx[c].stamp # None

ChainInv ==
  /\ TypeOK
  /\ OpenSupersedesHoldTheirParent
  /\ OpenWithdrawalsAreStamped
  /\ ChainsWellFormed
  /\ OneLiveSuccessor

LEMMA ChainInit == Init => ChainInv
  BY BoundsAssumption, StampFacts
  DEF Init, ChainInv, TypeOK, OpenWithdrawalsAreStamped, OpenSupersedesHoldTheirParent, ChainsWellFormed,
      OneLiveSuccessor, IndexAdmits, Ids, Idle, Transaction, None, Stamps

\* A rewrite of withdrawn_at alone leaves the chains well formed.
LEMMA RewriteKeepsChains ==
  ASSUME TypeOK, ChainsWellFormed, NEW targets, NEW stamp \in Stamps,
         NEW reason \in Reasons, lastId' = lastId,
         tracks' = Withdrawn(targets, stamp, reason)
  PROVE  ChainsWellFormed'
  <1>1. Ids' = Ids
    BY DEF Ids
  <1>2. \A t \in Ids : /\ tracks'[t].release = tracks[t].release
                       /\ tracks'[t].root = tracks[t].root
                       /\ tracks'[t].revision = tracks[t].revision
                       /\ tracks'[t].supersedes = tracks[t].supersedes
    BY RewrittenRows
  <1>3. \A t \in Ids : 1 .. t - 1 \subseteq Ids
    BY DEF Ids, TypeOK
  <1>4. ASSUME NEW t \in Ids
        PROVE  LET parent == tracks'[tracks'[t].supersedes]
               IN IF tracks'[t].supersedes = None
                    THEN tracks'[t].root = t /\ tracks'[t].revision = 1
                    ELSE /\ tracks'[t].supersedes \in 1 .. t - 1
                         /\ parent.root = tracks'[t].root
                         /\ parent.release = tracks'[t].release
                         /\ parent.revision < tracks'[t].revision
    BY <1>2, <1>3 DEF ChainsWellFormed
  <1>5. QED
    BY <1>1, <1>4 DEF ChainsWellFormed

\* The index over a rewrite that only withdraws.
LEMMA WithdrawKeepsIndex ==
  ASSUME TypeOK, OneLiveSuccessor, NEW targets, NEW stamp \in Stamps,
         NEW reason \in Reasons, stamp # None,
         tracks' = Withdrawn(targets, stamp, reason)
  PROVE  OneLiveSuccessor'
  <1>1. DOMAIN tracks = Ids
    BY DEF TypeOK
  <1>2. DOMAIN tracks' = Ids
    BY DEF Withdrawn
  <1>3. ASSUME NEW t \in Ids, tracks'[t].withdrawnAt = None
        PROVE  tracks'[t] = tracks[t]
    <2>1. /\ t \in targets => tracks'[t].withdrawnAt = stamp
          /\ t \notin targets => tracks'[t] = tracks[t]
      BY RewrittenRows
    <2>2. QED
      BY <1>3, <2>1
  <1>4. SUFFICES ASSUME NEW t \in Ids, NEW u \in Ids,
                        tracks'[t].supersedes = tracks'[u].supersedes,
                        tracks'[t].supersedes # None,
                        tracks'[t].withdrawnAt = None,
                        tracks'[u].withdrawnAt = None
                 PROVE  t = u
    BY <1>2 DEF OneLiveSuccessor, IndexAdmits
  <1>5. /\ tracks[t].supersedes = tracks[u].supersedes
        /\ tracks[t].supersedes # None
        /\ tracks[t].withdrawnAt = None /\ tracks[u].withdrawnAt = None
    BY <1>3, <1>4
  <1>6. QED
    BY <1>1, <1>5 DEF OneLiveSuccessor, IndexAdmits

\* An insert that does not supersede, or supersedes an older row of the same
\* chain under a higher number, leaves the chains well formed.
LEMMA InsertKeepsChains ==
  ASSUME TypeOK, ChainsWellFormed, NEW row \in Row, Insert(row),
         IF row.supersedes = None
           THEN row.root = lastId + 1 /\ row.revision = 1
           ELSE /\ row.supersedes \in Ids
                /\ tracks[row.supersedes].root = row.root
                /\ tracks[row.supersedes].release = row.release
                /\ tracks[row.supersedes].revision < row.revision
  PROVE  ChainsWellFormed'
  <1>1. /\ Ids' = Ids \cup {lastId + 1}
        /\ tracks'[lastId + 1] = row
        /\ \A t \in Ids : tracks'[t] = tracks[t]
    BY InsertedRows DEF Insert, Ids
  <1>2. \A t \in Ids : 1 .. t - 1 \subseteq Ids
    BY DEF Ids, TypeOK
  <1>3. Ids = 1 .. (lastId + 1) - 1
    BY DEF Ids, TypeOK
  <1>4. ASSUME NEW t \in Ids
        PROVE  LET parent == tracks'[tracks'[t].supersedes]
               IN IF tracks'[t].supersedes = None
                    THEN tracks'[t].root = t /\ tracks'[t].revision = 1
                    ELSE /\ tracks'[t].supersedes \in 1 .. t - 1
                         /\ parent.root = tracks'[t].root
                         /\ parent.release = tracks'[t].release
                         /\ parent.revision < tracks'[t].revision
    BY <1>1, <1>2 DEF ChainsWellFormed
  <1>5. LET parent == tracks'[row.supersedes]
        IN IF row.supersedes = None
             THEN row.root = lastId + 1 /\ row.revision = 1
             ELSE /\ row.supersedes \in 1 .. (lastId + 1) - 1
                  /\ parent.root = row.root
                  /\ parent.release = row.release
                  /\ parent.revision < row.revision
    BY <1>1, <1>3
  <1>6. QED
    BY <1>1, <1>4, <1>5 DEF ChainsWellFormed
LEMMA ChainStep ==
  ASSUME ChainInv, [Next]_vars
  PROVE  ChainsWellFormed' /\ OneLiveSuccessor'
  <1> USE DEF ChainInv
  <1>1. ASSUME NEW r \in Releases, NEW a \in Accounts, NEW p \in Payloads,
               CreateSubtitleTrack(r, a, p)
        PROVE  ChainsWellFormed' /\ OneLiveSuccessor'
    <2>1. FirstRevision(r, a, p) \in Row
      BY RevisionRows
    <2>2. Insert(FirstRevision(r, a, p))
      BY <1>1 DEF CreateSubtitleTrack, FirstRevision
    <2>3. ChainsWellFormed'
      BY <2>1, <2>2, InsertKeepsChains DEF FirstRevision
    <2>4. QED
      BY <2>2, <2>3 DEF Insert, OneLiveSuccessor
  <1>2. ASSUME NEW t \in Ids, WithdrawTrack(t)
        PROVE  ChainsWellFormed' /\ OneLiveSuccessor'
    <2>1. /\ clock + 1 \in Stamps /\ clock + 1 # None
          /\ lastId' = lastId /\ tracks' = Withdrawn({t}, clock + 1, "own")
      BY <1>2, BoundsAssumption DEF WithdrawTrack, TypeOK, Stamps, None
    <2>2. QED
      BY <2>1, RewriteKeepsChains, WithdrawKeepsIndex, StampFacts
  <1>3. ASSUME NEW t \in Ids, RestoreTrack(t)
        PROVE  ChainsWellFormed' /\ OneLiveSuccessor'
    <2>1. /\ lastId' = lastId /\ tracks' = Withdrawn({t}, None, "none")
          /\ OneLiveSuccessor'
      BY <1>3 DEF RestoreTrack, Restored, OneLiveSuccessor
    <2>2. QED
      BY <2>1, RewriteKeepsChains, StampFacts
  <1>4. ASSUME NEW c \in Conns, SupersedeCommit(c)
        PROVE  ChainsWellFormed' /\ OneLiveSuccessor'
    <2> DEFINE parent == tx[c].parent
    <2>1. parent \in Ids /\ tracks[parent].revision <= tx[c].max
      BY <1>4 DEF SupersedeCommit, OpenSupersedesHoldTheirParent
    <2>2. tracks[parent] \in Row
      BY <2>1 DEF TypeOK
    <2>3. NextRevision(c) \in Row
      BY <1>4, RevisionRows DEF SupersedeCommit
    <2>4. Insert(NextRevision(c))
      BY <1>4 DEF SupersedeCommit, NextRevision
    <2>5. /\ NextRevision(c).supersedes = parent
          /\ NextRevision(c).root = tracks[parent].root
          /\ NextRevision(c).release = tracks[parent].release
          /\ NextRevision(c).revision = tx[c].max + 1
          /\ tx[c].max \in Nat
      BY <1>4, TransactionFields DEF NextRevision, SupersedeCommit
    <2>6. parent # None /\ tracks[parent].revision < tx[c].max + 1
      BY <2>1, <2>2, <2>5 DEF Ids, None, Row
    <2>7. ChainsWellFormed'
      BY <2>1, <2>3, <2>4, <2>5, <2>6, InsertKeepsChains
    <2>8. QED
      BY <2>4, <2>7 DEF Insert, OneLiveSuccessor
  <1>5. ASSUME NEW c \in Conns, WithdrawReleaseCommit(c)
        PROVE  ChainsWellFormed' /\ OneLiveSuccessor'
    <2>1. /\ tracks' = Withdrawn(StillLive(c), tx[c].stamp, "release")
          /\ lastId' = lastId
      BY <1>5 DEF WithdrawReleaseCommit, WithdrawTargets, StillLive
    <2>2. tx[c].stamp \in Stamps /\ tx[c].stamp # None
      BY <1>5, TransactionFields
      DEF WithdrawReleaseCommit, OpenWithdrawalsAreStamped
    <2>3. QED
      BY <2>1, <2>2, RewriteKeepsChains, WithdrawKeepsIndex, StampFacts
  <1>6. ASSUME NEW c \in Conns, WithdrawTracksByUploaderCommit(c)
        PROVE  ChainsWellFormed' /\ OneLiveSuccessor'
    <2>1. /\ tracks' = Withdrawn(StillTheirs(c), tx[c].stamp, "purge")
          /\ lastId' = lastId
      BY <1>6 DEF WithdrawTracksByUploaderCommit, WithdrawTargets, StillTheirs
    <2>2. tx[c].stamp \in Stamps /\ tx[c].stamp # None
      BY <1>6, TransactionFields
      DEF WithdrawTracksByUploaderCommit, OpenWithdrawalsAreStamped
    <2>3. QED
      BY <2>1, <2>2, RewriteKeepsChains, WithdrawKeepsIndex, StampFacts
  <1>7. ASSUME NEW c \in Conns, RestoreReleaseCommit(c)
        PROVE  ChainsWellFormed' /\ OneLiveSuccessor'
    <2>1. /\ lastId' = lastId /\ tracks' = Withdrawn(RestoredBy(c), None, "none")
          /\ OneLiveSuccessor'
      BY <1>7 DEF RestoreReleaseCommit, Restored, RestoredBy, OneLiveSuccessor
    <2>2. QED
      BY <2>1, RewriteKeepsChains, StampFacts
  <1>8. ASSUME UNCHANGED <<lastId, tracks>>
        PROVE  ChainsWellFormed' /\ OneLiveSuccessor'
    BY <1>8 DEF ChainsWellFormed, OneLiveSuccessor, IndexAdmits, Ids
  <1>9. ASSUME NEW c \in Conns, NEW t \in Ids, NEW a \in Accounts,
               NEW p \in Payloads, SupersedeBegin(c, t, a, p)
        PROVE  UNCHANGED <<lastId, tracks>>
    BY <1>9 DEF SupersedeBegin
  <1>10. ASSUME NEW c \in Conns,
                \/ \E r \in Releases : \/ WithdrawReleaseBegin(c, r)
                                       \/ RestoreReleaseBegin(c, r)
                \/ \E a \in Accounts : WithdrawTracksByUploaderBegin(c, a)
                \/ Rollback(c)
         PROVE  UNCHANGED <<lastId, tracks>>
    BY <1>10 DEF WithdrawReleaseBegin, RestoreReleaseBegin,
                 WithdrawTracksByUploaderBegin, Rollback
  <1>11. CASE UNCHANGED vars
    BY <1>8, <1>11 DEF vars
  <1>12. ASSUME NEW a \in Accounts, DeleteAccount(a)
         PROVE  ChainsWellFormed' /\ OneLiveSuccessor'
    <2>1. /\ Ids' = Ids /\ DOMAIN tracks' = DOMAIN tracks
          /\ DOMAIN tracks = Ids
          /\ \A t \in Ids :
               /\ tracks'[t].release = tracks[t].release
               /\ tracks'[t].root = tracks[t].root
               /\ tracks'[t].revision = tracks[t].revision
               /\ tracks'[t].supersedes = tracks[t].supersedes
               /\ tracks'[t].withdrawnAt = tracks[t].withdrawnAt
      BY <1>12, UnlinkedRows DEF TypeOK
    <2>2. \A t \in Ids : 1 .. t - 1 \subseteq Ids
      BY DEF Ids, TypeOK
    <2>3. ChainsWellFormed'
      <3>1. ASSUME NEW t \in Ids
            PROVE  LET parent == tracks'[tracks'[t].supersedes]
                   IN IF tracks'[t].supersedes = None
                        THEN tracks'[t].root = t /\ tracks'[t].revision = 1
                        ELSE /\ tracks'[t].supersedes \in 1 .. t - 1
                             /\ parent.root = tracks'[t].root
                             /\ parent.release = tracks'[t].release
                             /\ parent.revision < tracks'[t].revision
        BY <2>1, <2>2 DEF ChainsWellFormed
      <3>2. QED
        BY <2>1, <3>1 DEF ChainsWellFormed
    <2>4. OneLiveSuccessor'
      BY <2>1 DEF OneLiveSuccessor, IndexAdmits
    <2>5. QED
      BY <2>3, <2>4
  <1>13. QED
    BY <1>1, <1>2, <1>3, <1>4, <1>5, <1>6, <1>7, <1>8, <1>9, <1>10, <1>11,
       <1>12
    DEF Next, Statement, Supersede, Takedown

(***************************************************************************)
(* The invariant of the open transactions.                                 *)
(***************************************************************************)
\* A step that opens no SupersedeTrack, and leaves the open ones' parents
\* live and numbered as they are, preserves what those transactions rely on.
LEMMA KeptParents ==
  ASSUME OpenSupersedesHoldTheirParent,
         \A c \in Conns : tx'[c].op = "supersede" => tx'[c] = tx[c],
         \A c \in Conns : tx[c].op = "supersede" =>
           /\ tx[c].parent \in Ids'
           /\ tracks'[tx[c].parent].withdrawnAt = None
           /\ tracks'[tx[c].parent].revision = tracks[tx[c].parent].revision
  PROVE  OpenSupersedesHoldTheirParent'
  BY DEF OpenSupersedesHoldTheirParent, Live

\* A takedown that spares the locked rows, and every restore, keeps them.
LEMMA RewriteKeepsParents ==
  ASSUME TypeOK, OpenSupersedesHoldTheirParent,
         NEW targets, NEW stamp \in Stamps, NEW reason \in Reasons,
         lastId' = lastId, tracks' = Withdrawn(targets, stamp, reason),
         stamp = None \/ \A t \in targets : ~TrackLocked(t),
         \A c \in Conns : tx'[c].op = "supersede" => tx'[c] = tx[c]
  PROVE  OpenSupersedesHoldTheirParent'
  <1>1. ASSUME NEW c \in Conns, tx[c].op = "supersede"
        PROVE  /\ tx[c].parent \in Ids'
               /\ tracks'[tx[c].parent].withdrawnAt = None
               /\ tracks'[tx[c].parent].revision = tracks[tx[c].parent].revision
    <2> DEFINE parent == tx[c].parent
    <2>1. parent \in Ids /\ tracks[parent].withdrawnAt = None
      BY <1>1 DEF OpenSupersedesHoldTheirParent, Live
    <2>2. TrackLocked(parent)
      BY <1>1 DEF TrackLocked
    <2>3. parent \in targets => stamp = None
      BY <2>2
    <2>4. \A t \in Ids :
            /\ tracks'[t].revision = tracks[t].revision
            /\ t \in targets => tracks'[t].withdrawnAt = stamp
            /\ t \notin targets => tracks'[t] = tracks[t]
      BY RewrittenRows
    <2>5. parent \in Ids'
      BY <2>1 DEF Ids
    <2>6. QED
      BY <2>1, <2>3, <2>4, <2>5
  <1>2. QED
    BY <1>1, KeptParents

LEMMA InsertKeepsParents ==
  ASSUME TypeOK, OpenSupersedesHoldTheirParent, NEW row \in Row, Insert(row),
         \A c \in Conns : tx'[c].op = "supersede" => tx'[c] = tx[c]
  PROVE  OpenSupersedesHoldTheirParent'
  <1>1. /\ \A t \in Ids : tracks'[t] = tracks[t]
        /\ Ids \subseteq Ids'
    BY InsertedRows DEF Insert, Ids
  <1>2. QED
    BY <1>1, KeptParents DEF OpenSupersedesHoldTheirParent, Live

\* What Begin and End do to the other connections' transactions.
LEMMA BegunTransaction ==
  ASSUME TypeOK, NEW c \in Conns, NEW transaction, Begin(c, transaction)
  PROVE  /\ tx[c] = Idle
         /\ tx'[c] = transaction
         /\ \A d \in Conns : d # c => tx'[d] = tx[d]
  BY DEF TypeOK, Begin

LEMMA EndedTransaction ==
  ASSUME TypeOK, NEW c \in Conns, End(c)
  PROVE  /\ tx'[c].op = "idle"
         /\ \A d \in Conns : d # c => tx'[d] = tx[d]
         /\ \A d \in Conns : tx'[d].op # "idle" => tx'[d] = tx[d]
  BY DEF TypeOK, End, Idle

LEMMA LockStep ==
  ASSUME ChainInv, [Next]_vars
  PROVE  OpenSupersedesHoldTheirParent' /\ OpenWithdrawalsAreStamped'
  <1> DEFINE Goal == OpenSupersedesHoldTheirParent' /\ OpenWithdrawalsAreStamped'
  <1> USE DEF ChainInv
  <1>1. ASSUME NEW r \in Releases, NEW a \in Accounts, NEW p \in Payloads,
               CreateSubtitleTrack(r, a, p)
        PROVE  Goal
    <2>1. FirstRevision(r, a, p) \in Row
      BY RevisionRows
    <2>2. Insert(FirstRevision(r, a, p)) /\ tx' = tx
      BY <1>1 DEF CreateSubtitleTrack, FirstRevision
    <2>3. QED
      BY <2>1, <2>2, InsertKeepsParents DEF OpenWithdrawalsAreStamped
  <1>2. ASSUME NEW t \in Ids, WithdrawTrack(t)
        PROVE  Goal
    <2>1. /\ clock + 1 \in Stamps
          /\ lastId' = lastId /\ tracks' = Withdrawn({t}, clock + 1, "own")
          /\ tx' = tx /\ \A u \in {t} : ~TrackLocked(u)
      BY <1>2, BoundsAssumption DEF WithdrawTrack, TypeOK, Stamps
    <2>2. OpenSupersedesHoldTheirParent'
      <3> DEFINE stamp == clock + 1
                 targets == {t}
      <3>1. /\ stamp \in Stamps /\ tracks' = Withdrawn(targets, stamp, "own")
            /\ \A u \in targets : ~TrackLocked(u)
        BY <2>1
      <3> HIDE DEF stamp, targets
      <3>2. QED
        BY <2>1, <3>1, RewriteKeepsParents, StampFacts
    <2>3. QED
      BY <2>1, <2>2 DEF OpenWithdrawalsAreStamped
  <1>3. ASSUME NEW t \in Ids, RestoreTrack(t)
        PROVE  Goal
    <2>1. /\ lastId' = lastId /\ tracks' = Withdrawn({t}, None, "none")
          /\ tx' = tx
      BY <1>3 DEF RestoreTrack, Restored
    <2>2. QED
      BY <2>1, RewriteKeepsParents, StampFacts DEF OpenWithdrawalsAreStamped
  <1>4. ASSUME NEW c \in Conns, NEW t \in Ids, NEW a \in Accounts,
               NEW p \in Payloads, SupersedeBegin(c, t, a, p)
        PROVE  Goal
    <2>1. PICK top \in Chain(tracks[t].root) :
            /\ \A u \in Chain(tracks[t].root) :
                 tracks[u].revision <= tracks[top].revision
            /\ Begin(c, [op |-> "supersede", parent |-> t,
                         max |-> tracks[top].revision, uploader |-> a,
                         payload |-> p])
      BY <1>4 DEF SupersedeBegin
    <2>2. /\ tx'[c].op = "supersede" /\ tx'[c].parent = t
          /\ tx'[c].max = tracks[top].revision
          /\ \A d \in Conns : d # c => tx'[d] = tx[d]
      BY <2>1, BegunTransaction
    <2>3. Live(t) /\ tracks[t].revision <= tracks[top].revision
      BY <1>4, <2>1 DEF SupersedeBegin, IsHead, Chain
    <2>4. \A d \in Conns : tx[d].op = "supersede" => tx[d].parent # t
      <3>1. ~TrackLocked(t)
        BY <1>4 DEF SupersedeBegin
      <3>2. QED
        BY <3>1 DEF TrackLocked
    <2>5. UNCHANGED <<lastId, tracks>>
      BY <1>4 DEF SupersedeBegin
    <2>6. OpenSupersedesHoldTheirParent'
      BY <2>2, <2>3, <2>4, <2>5 DEF OpenSupersedesHoldTheirParent, Live, Ids
    <2>7. OpenWithdrawalsAreStamped'
      BY <2>2 DEF OpenWithdrawalsAreStamped
    <2>8. QED
      BY <2>6, <2>7
  <1>5. ASSUME NEW c \in Conns, SupersedeCommit(c)
        PROVE  Goal
    <2>2. NextRevision(c) \in Row
      BY <1>5, RevisionRows DEF SupersedeCommit
    <2>3. Insert(NextRevision(c)) /\ End(c)
      BY <1>5 DEF SupersedeCommit, NextRevision
    <2>4. \A d \in Conns : tx'[d].op # "idle" => tx'[d] = tx[d]
      BY <2>3, EndedTransaction
    <2>5. QED
      BY <2>2, <2>3, <2>4, InsertKeepsParents DEF OpenWithdrawalsAreStamped
  <1>6. ASSUME NEW c \in Conns, NEW r \in Releases, WithdrawReleaseBegin(c, r)
        PROVE  Goal
    <2>1. /\ tx'[c].op = "withdrawRelease" /\ tx'[c].stamp = clock + 1
          /\ \A d \in Conns : d # c => tx'[d] = tx[d]
      BY <1>6, BegunTransaction DEF WithdrawReleaseBegin
    <2>2. clock + 1 # None
      BY DEF TypeOK, Stamps, None
    <2>3. QED
      BY <1>6, <2>1, <2>2, KeptParents
      DEF OpenWithdrawalsAreStamped, WithdrawReleaseBegin,
          OpenSupersedesHoldTheirParent, Live, Ids
  <1>7. ASSUME NEW c \in Conns, NEW a \in Accounts,
               WithdrawTracksByUploaderBegin(c, a)
        PROVE  Goal
    <2>1. /\ tx'[c].op = "withdrawUploads" /\ tx'[c].stamp = clock + 1
          /\ \A d \in Conns : d # c => tx'[d] = tx[d]
      BY <1>7, BegunTransaction DEF WithdrawTracksByUploaderBegin
    <2>2. clock + 1 # None
      BY DEF TypeOK, Stamps, None
    <2>3. QED
      BY <1>7, <2>1, <2>2, KeptParents
      DEF OpenWithdrawalsAreStamped, WithdrawTracksByUploaderBegin,
          OpenSupersedesHoldTheirParent, Live, Ids
  <1>8. ASSUME NEW c \in Conns, NEW r \in Releases, RestoreReleaseBegin(c, r)
        PROVE  Goal
    <2>1. /\ tx'[c].op = "restoreRelease"
          /\ \A d \in Conns : d # c => tx'[d] = tx[d]
      BY <1>8, BegunTransaction DEF RestoreReleaseBegin
    <2>2. QED
      BY <1>8, <2>1, KeptParents
      DEF OpenWithdrawalsAreStamped, RestoreReleaseBegin,
          OpenSupersedesHoldTheirParent, Live, Ids
  <1>9. ASSUME NEW c \in Conns, WithdrawReleaseCommit(c)
        PROVE  Goal
    <2>1. /\ tracks' = Withdrawn(StillLive(c), tx[c].stamp, "release")
          /\ lastId' = lastId /\ End(c)
          /\ \A t \in StillLive(c) : ~TrackLocked(t)
      BY <1>9 DEF WithdrawReleaseCommit, WithdrawTargets, StillLive
    <2>2. tx[c].stamp \in Stamps
      BY <1>9, TransactionFields DEF WithdrawReleaseCommit
    <2>3. \A d \in Conns : tx'[d].op # "idle" => tx'[d] = tx[d]
      BY <2>1, EndedTransaction
    <2>4. QED
      BY <2>1, <2>2, <2>3, RewriteKeepsParents, StampFacts
      DEF OpenWithdrawalsAreStamped
  <1>10. ASSUME NEW c \in Conns, WithdrawTracksByUploaderCommit(c)
         PROVE  Goal
    <2>1. /\ tracks' = Withdrawn(StillTheirs(c), tx[c].stamp, "purge")
          /\ lastId' = lastId /\ End(c)
          /\ \A t \in StillTheirs(c) : ~TrackLocked(t)
      BY <1>10 DEF WithdrawTracksByUploaderCommit, WithdrawTargets, StillTheirs
    <2>2. tx[c].stamp \in Stamps
      BY <1>10, TransactionFields DEF WithdrawTracksByUploaderCommit
    <2>3. \A d \in Conns : tx'[d].op # "idle" => tx'[d] = tx[d]
      BY <2>1, EndedTransaction
    <2>4. QED
      BY <2>1, <2>2, <2>3, RewriteKeepsParents, StampFacts
      DEF OpenWithdrawalsAreStamped
  <1>11. ASSUME NEW c \in Conns, RestoreReleaseCommit(c)
         PROVE  Goal
    <2>1. /\ tracks' = Withdrawn(RestoredBy(c), None, "none")
          /\ lastId' = lastId /\ End(c)
      BY <1>11 DEF RestoreReleaseCommit, Restored, RestoredBy
    <2>2. \A d \in Conns : tx'[d].op # "idle" => tx'[d] = tx[d]
      BY <2>1, EndedTransaction
    <2>3. QED
      BY <2>1, <2>2, RewriteKeepsParents, StampFacts
      DEF OpenWithdrawalsAreStamped
  <1>12. ASSUME NEW c \in Conns, Rollback(c)
         PROVE  Goal
    <2>1. \A d \in Conns : tx'[d].op # "idle" => tx'[d] = tx[d]
      BY <1>12, EndedTransaction DEF Rollback
    <2>2. QED
      BY <1>12, <2>1, KeptParents
      DEF Rollback, OpenWithdrawalsAreStamped, OpenSupersedesHoldTheirParent,
          Live, Ids
  <1>13. CASE UNCHANGED vars
    BY <1>13 DEF vars, OpenWithdrawalsAreStamped, OpenSupersedesHoldTheirParent,
                 TrackLocked, Live, Ids
  <1>14. ASSUME NEW a \in Accounts, DeleteAccount(a)
         PROVE  Goal
    <2>1. /\ Ids' = Ids /\ tx' = tx
          /\ \A t \in Ids :
               /\ tracks'[t].withdrawnAt = tracks[t].withdrawnAt
               /\ tracks'[t].revision = tracks[t].revision
      BY <1>14, UnlinkedRows DEF DeleteAccount
    <2>2. OpenSupersedesHoldTheirParent'
      BY <2>1, KeptParents DEF OpenSupersedesHoldTheirParent, Live
    <2>3. QED
      BY <2>1, <2>2 DEF OpenWithdrawalsAreStamped
  <1>15. QED
    BY <1>1, <1>2, <1>3, <1>4, <1>5, <1>6, <1>7, <1>8, <1>9, <1>10, <1>11,
       <1>12, <1>13, <1>14 DEF Next, Statement, Supersede, Takedown

LEMMA ChainInvariant == Spec => []ChainInv
  <1>1. Init => ChainInv
    BY ChainInit
  <1>2. ChainInv /\ [Next]_vars => ChainInv'
    BY TypeStep, ChainStep, LockStep DEF ChainInv, TypeInv
  <1>3. QED
    BY <1>1, <1>2, PTL DEF Spec

(***************************************************************************)
(* The theorems.                                                           *)
(***************************************************************************)
\* Every row, stamp and open transaction keeps its type.
THEOREM TypeCorrect == Spec => []TypeOK
  <1>1. ChainInv => TypeOK
    BY DEF ChainInv
  <1>2. QED
    BY <1>1, ChainInvariant, PTL

\* A chain stays well formed however many supersedes, takedowns and restores
\* run over it at once.
THEOREM ChainsStayWellFormed == Spec => []ChainsWellFormed
  <1>1. ChainInv => ChainsWellFormed
    BY DEF ChainInv
  <1>2. QED
    BY <1>1, ChainInvariant, PTL

\* The partial unique index holds over every write, restores included.
THEOREM LiveSuccessorIsUnique == Spec => []OneLiveSuccessor
  <1>1. ChainInv => OneLiveSuccessor
    BY DEF ChainInv
  <1>2. QED
    BY <1>1, ChainInvariant, PTL

\* The row lock of SupersedeTrack protects what it read of its parent.
THEOREM LocksProtectParents == Spec => []OpenSupersedesHoldTheirParent
  <1>1. ChainInv => OpenSupersedesHoldTheirParent
    BY DEF ChainInv
  <1>2. QED
    BY <1>1, ChainInvariant, PTL

(***************************************************************************)
(* Takedowns are told apart by their stamps.                               *)
(***************************************************************************)
\* A stamp nothing holds yet.
LEMMA FreshStamp ==
  ASSUME TypeOK, StampsTellTakedownsApart, clock < MaxStamp
  PROVE  /\ clock + 1 \in Stamps /\ clock + 1 # None
         /\ clock + 1 \notin ReleaseStamps
         /\ \A t \in Ids : tracks[t].withdrawnAt # clock + 1
         /\ \A c \in Conns : tx[c].op = "withdrawUploads" => tx[c].stamp # clock + 1
  <1>1. clock \in Nat /\ clock + 1 \in Stamps /\ clock + 1 # None
    BY BoundsAssumption DEF TypeOK, Stamps, None
  <1>2. ReleaseStamps \subseteq Nat
    <2>1. \A r \in Releases : releaseAt[r] \in Nat
      BY StampFacts DEF TypeOK
    <2>2. \A c \in Conns : tx[c].op \in {"withdrawRelease", "restoreRelease"}
                             => tx[c].stamp \in Nat
      BY TransactionFields, StampFacts
    <2>3. QED
      BY <2>1, <2>2 DEF ReleaseStamps
  <1>3. clock + 1 \notin ReleaseStamps
    BY <1>1, <1>2 DEF StampsTellTakedownsApart
  <1>4. ASSUME NEW t \in Ids
        PROVE  tracks[t].withdrawnAt # clock + 1
    <2>1. tracks[t].withdrawnAt \in Nat /\ tracks[t].withdrawnAt <= clock
      BY StampFacts DEF TypeOK, Row, StampsTellTakedownsApart
    <2>2. QED
      BY <1>1, <2>1
  <1>5. ASSUME NEW c \in Conns, tx[c].op = "withdrawUploads"
        PROVE  tx[c].stamp # clock + 1
    <2>1. tx[c].stamp \in Nat /\ tx[c].stamp <= clock
      BY <1>5, StampFacts, TransactionFields DEF StampsTellTakedownsApart
    <2>2. QED
      BY <1>1, <2>1
  <1>6. QED
    BY <1>1, <1>3, <1>4, <1>5

\* A step that adds no release stamp but NULL, and opens no transaction,
\* keeps every stamp apart when it keeps the rows.
LEMMA StampsStayApart ==
  ASSUME TypeOK, StampsTellTakedownsApart,
         ReleaseStamps' \subseteq ReleaseStamps \cup {None},
         clock' = clock,
         \A c \in Conns : tx'[c].op \in {"withdrawRelease", "withdrawUploads"}
                            => tx'[c] = tx[c],
         \A t \in Ids' : /\ tracks'[t].withdrawnAt = None <=> tracks'[t].reason = "none"
                         /\ tracks'[t].withdrawnAt <= clock
                         /\ tracks'[t].reason \in {"own", "purge"} =>
                              tracks'[t].withdrawnAt \notin ReleaseStamps
  PROVE  StampsTellTakedownsApart'
  <1>1. None <= clock
    BY DEF TypeOK, Stamps, None
  <1>2. \A s \in ReleaseStamps' : s <= clock'
    BY <1>1 DEF StampsTellTakedownsApart
  <1>3. \A t \in Ids' :
          /\ Live(t)' <=> tracks'[t].reason = "none"
          /\ tracks'[t].withdrawnAt <= clock'
          /\ tracks'[t].reason \in {"own", "purge"} =>
               tracks'[t].withdrawnAt \notin ReleaseStamps'
    BY DEF Live
  <1>4. \A c \in Conns :
          /\ tx'[c].op = "withdrawUploads" =>
               /\ tx'[c].stamp # None /\ tx'[c].stamp \notin ReleaseStamps'
               /\ tx'[c].stamp <= clock'
          /\ tx'[c].op = "withdrawRelease" => tx'[c].stamp # None
    BY DEF StampsTellTakedownsApart
  <1>5. QED
    BY <1>2, <1>3, <1>4 DEF StampsTellTakedownsApart

\* What the invariant says of the rows.
LEMMA RowStamps ==
  ASSUME StampsTellTakedownsApart, NEW t \in Ids
  PROVE  /\ tracks[t].withdrawnAt = None <=> tracks[t].reason = "none"
         /\ tracks[t].withdrawnAt <= clock
         /\ tracks[t].reason \in {"own", "purge"} =>
              tracks[t].withdrawnAt \notin ReleaseStamps
  BY DEF StampsTellTakedownsApart, Live

\* Ending transactions adds no release stamp.
LEMMA EndStamps ==
  ASSUME TypeOK, NEW c \in Conns, End(c),
         \A r \in Releases : releaseAt'[r] \in ReleaseStamps \cup {None}
  PROVE  /\ ReleaseStamps' \subseteq ReleaseStamps \cup {None}
         /\ \A d \in Conns : tx'[d].op # "idle" => tx'[d] = tx[d]
  <1>1. \A d \in Conns : tx'[d].op # "idle" => tx'[d] = tx[d]
    BY EndedTransaction
  <1>2. \A d \in Conns : tx'[d].op \in {"withdrawRelease", "restoreRelease"}
                           => tx'[d].stamp \in ReleaseStamps
    BY <1>1 DEF ReleaseStamps
  <1>3. QED
    BY <1>1, <1>2 DEF ReleaseStamps

\* Every stamp in use is at most the last one drawn.
LEMMA EarlierStamps ==
  ASSUME TypeOK, StampsTellTakedownsApart
  PROVE  /\ \A s \in ReleaseStamps : s <= clock /\ s <= clock + 1
         /\ \A c \in Conns : tx[c].op = "withdrawUploads" =>
              tx[c].stamp <= clock /\ tx[c].stamp <= clock + 1
  <1>1. ReleaseStamps \subseteq Nat /\ clock \in Nat
    <2>1. \A r \in Releases : releaseAt[r] \in Nat
      BY StampFacts DEF TypeOK
    <2>2. \A c \in Conns : tx[c].op \in {"withdrawRelease", "restoreRelease"}
                             => tx[c].stamp \in Nat
      BY TransactionFields, StampFacts
    <2>3. QED
      BY <2>1, <2>2 DEF ReleaseStamps, TypeOK, Stamps
  <1>2. \A c \in Conns : tx[c].op = "withdrawUploads" => tx[c].stamp \in Nat
    BY TransactionFields, StampFacts
  <1>3. QED
    BY <1>1, <1>2 DEF StampsTellTakedownsApart

LEMMA InsertKeepsStamps ==
  ASSUME TypeOK, StampsTellTakedownsApart, NEW row \in Row, Insert(row),
         row.withdrawnAt = None, row.reason = "none", clock' = clock,
         ReleaseStamps' \subseteq ReleaseStamps \cup {None},
         \A c \in Conns : tx'[c].op # "idle" => tx'[c] = tx[c]
  PROVE  StampsTellTakedownsApart'
  <1>1. /\ Ids' = Ids \cup {lastId + 1}
        /\ tracks'[lastId + 1] = row
        /\ \A t \in Ids : tracks'[t] = tracks[t]
    BY InsertedRows DEF Insert, Ids
  <1>2. None <= clock
    BY DEF TypeOK, Stamps, None
  <1>3. \A t \in Ids' : /\ tracks'[t].withdrawnAt = None <=> tracks'[t].reason = "none"
                        /\ tracks'[t].withdrawnAt <= clock
                        /\ tracks'[t].reason \in {"own", "purge"} =>
                             tracks'[t].withdrawnAt \notin ReleaseStamps
    BY <1>1, <1>2, RowStamps
  <1>4. QED
    BY <1>3, StampsStayApart

\* A rewrite under a stamp that fits its reason.
LEMMA RewriteKeepsStamps ==
  ASSUME TypeOK, StampsTellTakedownsApart, NEW targets, NEW stamp \in Stamps,
         NEW reason \in Reasons, tracks' = Withdrawn(targets, stamp, reason),
         stamp = None <=> reason = "none",
         stamp <= clock,
         reason \in {"own", "purge"} => stamp \notin ReleaseStamps,
         lastId' = lastId, clock' = clock,
         ReleaseStamps' \subseteq ReleaseStamps \cup {None},
         \A c \in Conns : tx'[c].op # "idle" => tx'[c] = tx[c]
  PROVE  StampsTellTakedownsApart'
  <1>1. \A t \in Ids :
          /\ t \in targets => tracks'[t].withdrawnAt = stamp /\ tracks'[t].reason = reason
          /\ t \notin targets => tracks'[t] = tracks[t]
    BY RewrittenRows
  <1>2. Ids' = Ids
    BY DEF Ids
  <1>3. \A t \in Ids' : /\ tracks'[t].withdrawnAt = None <=> tracks'[t].reason = "none"
                        /\ tracks'[t].withdrawnAt <= clock
                        /\ tracks'[t].reason \in {"own", "purge"} =>
                             tracks'[t].withdrawnAt \notin ReleaseStamps
    BY <1>1, <1>2, RowStamps
  <1>4. QED
    BY <1>3, StampsStayApart

LEMMA SameRowsKeepStamps ==
  ASSUME TypeOK, StampsTellTakedownsApart,
         UNCHANGED <<lastId, tracks, clock>>,
         ReleaseStamps' \subseteq ReleaseStamps \cup {None},
         \A c \in Conns : tx'[c].op \in {"withdrawRelease", "withdrawUploads"}
                            => tx'[c] = tx[c]
  PROVE  StampsTellTakedownsApart'
  <1>1. Ids' = Ids
    BY DEF Ids
  <1>2. QED
    BY <1>1, RowStamps, StampsStayApart

\* A withdrawal takes a new stamp, larger than every other.
LEMMA ClockAdvances ==
  ASSUME TypeOK, StampsTellTakedownsApart, clock < MaxStamp,
         clock' = clock + 1, tx' = tx, Ids' = Ids,
         ReleaseStamps' = ReleaseStamps,
         \A t \in Ids : \/ tracks'[t] = tracks[t]
                        \/ /\ tracks'[t].withdrawnAt = clock + 1
                           /\ tracks'[t].reason = "own"
  PROVE  StampsTellTakedownsApart'
  <1>1. \A t \in Ids : /\ tracks[t].withdrawnAt \in Nat
                       /\ tracks[t].withdrawnAt <= clock
    BY RowStamps, StampFacts DEF TypeOK, Row
  <1>2. \A t \in Ids :
          /\ tracks'[t].withdrawnAt = None <=> tracks'[t].reason = "none"
          /\ tracks'[t].withdrawnAt <= clock + 1
          /\ tracks'[t].reason \in {"own", "purge"} =>
               tracks'[t].withdrawnAt \notin ReleaseStamps
    <2>1. ASSUME NEW t \in Ids, tracks'[t] = tracks[t]
          PROVE  /\ tracks'[t].withdrawnAt = None <=> tracks'[t].reason = "none"
                 /\ tracks'[t].withdrawnAt <= clock + 1
                 /\ tracks'[t].reason \in {"own", "purge"} =>
                      tracks'[t].withdrawnAt \notin ReleaseStamps
      BY <1>1, <2>1, RowStamps DEF TypeOK, Stamps
    <2>2. ASSUME NEW t \in Ids, tracks'[t].withdrawnAt = clock + 1,
                 tracks'[t].reason = "own"
          PROVE  /\ tracks'[t].withdrawnAt = None <=> tracks'[t].reason = "none"
                 /\ tracks'[t].withdrawnAt <= clock + 1
                 /\ tracks'[t].reason \in {"own", "purge"} =>
                      tracks'[t].withdrawnAt \notin ReleaseStamps
      BY <2>2, FreshStamp DEF TypeOK, Stamps
    <2>3. QED
      BY <2>1, <2>2
  <1>3. \A s \in ReleaseStamps : s <= clock + 1
    BY EarlierStamps DEF TypeOK, Stamps
  <1>4. \A c \in Conns : tx[c].op = "withdrawUploads" => tx[c].stamp <= clock + 1
    BY EarlierStamps DEF TypeOK, Stamps
  <1>5. QED
    BY <1>2, <1>3, <1>4 DEF StampsTellTakedownsApart, Live

\* So does the start of a bulk withdrawal, which leaves the rows alone.
LEMMA OpeningAdvances ==
  ASSUME TypeOK, StampsTellTakedownsApart, clock < MaxStamp,
         clock' = clock + 1, UNCHANGED <<lastId, tracks>>, NEW c \in Conns,
         tx'[c].stamp = clock + 1, \A d \in Conns : d # c => tx'[d] = tx[d],
         \/ /\ tx'[c].op = "withdrawRelease"
            /\ ReleaseStamps' \subseteq ReleaseStamps \cup {clock + 1}
         \/ /\ tx'[c].op = "withdrawUploads"
            /\ ReleaseStamps' \subseteq ReleaseStamps
  PROVE  StampsTellTakedownsApart'
  <1>1. Ids' = Ids /\ clock + 1 <= clock + 1
    BY DEF Ids, TypeOK, Stamps
  <1>2. \A t \in Ids :
          /\ tracks[t].withdrawnAt = None <=> tracks[t].reason = "none"
          /\ tracks[t].withdrawnAt <= clock + 1
          /\ tracks[t].reason \in {"own", "purge"} =>
               tracks[t].withdrawnAt \notin ReleaseStamps \cup {clock + 1}
    <2>1. ASSUME NEW t \in Ids
          PROVE  /\ tracks[t].withdrawnAt <= clock + 1
                 /\ tracks[t].withdrawnAt # clock + 1
      <3>1. tracks[t].withdrawnAt \in Nat /\ tracks[t].withdrawnAt <= clock
        BY RowStamps, StampFacts DEF TypeOK, Row
      <3>2. QED
        BY <3>1 DEF TypeOK, Stamps
    <2>2. QED
      BY <2>1, RowStamps
  <1>3. \A s \in ReleaseStamps' : s <= clock + 1
    BY <1>1, EarlierStamps
  <1>4. \A d \in Conns :
          /\ tx'[d].op = "withdrawUploads" =>
               /\ tx'[d].stamp # None /\ tx'[d].stamp \notin ReleaseStamps'
               /\ tx'[d].stamp <= clock + 1
          /\ tx'[d].op = "withdrawRelease" => tx'[d].stamp # None
    <2>1. ASSUME NEW d \in Conns, d # c
          PROVE  /\ tx[d].op = "withdrawUploads" =>
                      /\ tx[d].stamp # None
                      /\ tx[d].stamp \notin ReleaseStamps \cup {clock + 1}
                      /\ tx[d].stamp <= clock + 1
                 /\ tx[d].op = "withdrawRelease" => tx[d].stamp # None
      BY FreshStamp, EarlierStamps DEF StampsTellTakedownsApart
    <2>2. clock + 1 # None /\ clock + 1 \notin ReleaseStamps
      BY FreshStamp
    <2>3. QED
      BY <1>1, <2>1, <2>2
  <1>5. QED
    BY <1>1, <1>2, <1>3, <1>4 DEF StampsTellTakedownsApart, Live

LEMMA StampStep ==
  ASSUME ChainInv, StampsTellTakedownsApart, [Next]_vars
  PROVE  StampsTellTakedownsApart'
  <1> USE DEF ChainInv
  <1>1. ASSUME NEW r \in Releases, NEW a \in Accounts, NEW p \in Payloads,
               CreateSubtitleTrack(r, a, p)
        PROVE  StampsTellTakedownsApart'
    <2>1. FirstRevision(r, a, p) \in Row
      BY RevisionRows
    <2>2. /\ Insert(FirstRevision(r, a, p))
          /\ UNCHANGED <<releaseAt, clock, tx>>
      BY <1>1 DEF CreateSubtitleTrack, FirstRevision
    <2>3. QED
      BY <2>1, <2>2, InsertKeepsStamps DEF FirstRevision, ReleaseStamps
  <1>2. ASSUME NEW t \in Ids, WithdrawTrack(t)
        PROVE  StampsTellTakedownsApart'
    <2>1. /\ clock < MaxStamp /\ clock' = clock + 1
          /\ tracks' = Withdrawn({t}, clock + 1, "own")
          /\ UNCHANGED <<lastId, releaseAt, tx>>
      BY <1>2 DEF WithdrawTrack
    <2>2. \A u \in Ids : u # t => tracks'[u] = tracks[u]
      BY <2>1 DEF Withdrawn
    <2>3. tracks'[t].withdrawnAt = clock + 1 /\ tracks'[t].reason = "own"
      BY <2>1 DEF Withdrawn, TypeOK, Row
    <2>4. ReleaseStamps' = ReleaseStamps /\ Ids' = Ids
      BY <2>1 DEF ReleaseStamps, Ids
    <2>5. QED
      BY <2>1, <2>2, <2>3, <2>4, ClockAdvances
  <1>3. ASSUME NEW t \in Ids, RestoreTrack(t)
        PROVE  StampsTellTakedownsApart'
    <2>1. /\ tracks' = Withdrawn({t}, None, "none")
          /\ UNCHANGED <<lastId, releaseAt, clock, tx>>
      BY <1>3 DEF RestoreTrack, Restored
    <2>2. None <= clock
      BY DEF TypeOK, Stamps, None
    <2>3. ReleaseStamps' \subseteq ReleaseStamps \cup {None}
      BY <2>1 DEF ReleaseStamps
    <2>4. QED
      BY <2>1, <2>2, <2>3, RewriteKeepsStamps, StampFacts
  <1>4. ASSUME NEW c \in Conns, NEW t \in Ids, NEW a \in Accounts,
               NEW p \in Payloads, SupersedeBegin(c, t, a, p)
        PROVE  StampsTellTakedownsApart'
    <2>1. PICK max : Begin(c, [op |-> "supersede", parent |-> t, max |-> max,
                               uploader |-> a, payload |-> p])
      BY <1>4 DEF SupersedeBegin
    <2>2. tx'[c].op = "supersede" /\ \A d \in Conns : d # c => tx'[d] = tx[d]
      BY <2>1, BegunTransaction
    <2>3. UNCHANGED <<lastId, tracks, releaseAt, clock>>
      BY <1>4 DEF SupersedeBegin
    <2>4. ReleaseStamps' \subseteq ReleaseStamps \cup {None}
      BY <2>2, <2>3 DEF ReleaseStamps
    <2>5. QED
      BY <2>2, <2>3, <2>4, SameRowsKeepStamps
  <1>5. ASSUME NEW c \in Conns, SupersedeCommit(c)
        PROVE  StampsTellTakedownsApart'
    <2>2. NextRevision(c) \in Row
      BY <1>5, RevisionRows DEF SupersedeCommit
    <2>3. Insert(NextRevision(c)) /\ End(c) /\ UNCHANGED <<releaseAt, clock>>
      BY <1>5 DEF SupersedeCommit, NextRevision
    <2>4. \A r \in Releases : releaseAt'[r] \in ReleaseStamps
      BY <2>3 DEF ReleaseStamps
    <2>5. QED
      BY <2>2, <2>3, <2>4, EndStamps, InsertKeepsStamps DEF NextRevision
  <1>6. ASSUME NEW c \in Conns, NEW r \in Releases, WithdrawReleaseBegin(c, r)
        PROVE  StampsTellTakedownsApart'
    <2>1. /\ clock < MaxStamp /\ clock' = clock + 1
          /\ UNCHANGED <<lastId, tracks, releaseAt>>
      BY <1>6 DEF WithdrawReleaseBegin
    <2>2. /\ tx'[c].op = "withdrawRelease" /\ tx'[c].stamp = clock + 1
          /\ \A d \in Conns : d # c => tx'[d] = tx[d]
      BY <1>6, BegunTransaction DEF WithdrawReleaseBegin
    <2>3. ReleaseStamps' \subseteq ReleaseStamps \cup {clock + 1}
      BY <2>1, <2>2 DEF ReleaseStamps
    <2>4. QED
      BY <2>1, <2>2, <2>3, OpeningAdvances
  <1>7. ASSUME NEW c \in Conns, NEW a \in Accounts,
               WithdrawTracksByUploaderBegin(c, a)
        PROVE  StampsTellTakedownsApart'
    <2>1. /\ clock < MaxStamp /\ clock' = clock + 1
          /\ UNCHANGED <<lastId, tracks, releaseAt>>
      BY <1>7 DEF WithdrawTracksByUploaderBegin
    <2>2. /\ tx'[c].op = "withdrawUploads" /\ tx'[c].stamp = clock + 1
          /\ \A d \in Conns : d # c => tx'[d] = tx[d]
      BY <1>7, BegunTransaction DEF WithdrawTracksByUploaderBegin
    <2>3. ReleaseStamps' \subseteq ReleaseStamps
      BY <2>1, <2>2 DEF ReleaseStamps
    <2>4. QED
      BY <2>1, <2>2, <2>3, OpeningAdvances
  <1>8. ASSUME NEW c \in Conns, NEW r \in Releases, RestoreReleaseBegin(c, r)
        PROVE  StampsTellTakedownsApart'
    <2>1. /\ tx'[c].op = "restoreRelease" /\ tx'[c].stamp = releaseAt[r]
          /\ \A d \in Conns : d # c => tx'[d] = tx[d]
      BY <1>8, BegunTransaction DEF RestoreReleaseBegin
    <2>2. UNCHANGED <<lastId, tracks, releaseAt, clock>>
      BY <1>8 DEF RestoreReleaseBegin
    <2>3. ReleaseStamps' \subseteq ReleaseStamps \cup {None}
      BY <2>1, <2>2 DEF ReleaseStamps
    <2>4. QED
      BY <2>1, <2>2, <2>3, SameRowsKeepStamps
  <1>9. ASSUME NEW c \in Conns, WithdrawReleaseCommit(c)
        PROVE  StampsTellTakedownsApart'
    <2>1. /\ tracks' = Withdrawn(StillLive(c), tx[c].stamp, "release")
          /\ releaseAt' = [releaseAt EXCEPT ![tx[c].release] = tx[c].stamp]
          /\ UNCHANGED <<lastId, clock>> /\ End(c)
          /\ tx[c].op = "withdrawRelease"
      BY <1>9 DEF WithdrawReleaseCommit, WithdrawTargets, StillLive
    <2>2. /\ tx[c].stamp \in Stamps /\ tx[c].stamp # None
          /\ tx[c].stamp \in ReleaseStamps /\ tx[c].stamp <= clock
      BY <2>1, TransactionFields
      DEF OpenWithdrawalsAreStamped, ReleaseStamps, StampsTellTakedownsApart
    <2>3. \A r \in Releases : releaseAt'[r] \in ReleaseStamps
      BY <2>1, <2>2 DEF ReleaseStamps, TypeOK
    <2>4. QED
      BY <2>1, <2>2, <2>3, EndStamps, RewriteKeepsStamps, StampFacts
  <1>10. ASSUME NEW c \in Conns, WithdrawTracksByUploaderCommit(c)
         PROVE  StampsTellTakedownsApart'
    <2>1. /\ tracks' = Withdrawn(StillTheirs(c), tx[c].stamp, "purge")
          /\ UNCHANGED <<lastId, releaseAt, clock>> /\ End(c)
          /\ tx[c].op = "withdrawUploads"
      BY <1>10 DEF WithdrawTracksByUploaderCommit, WithdrawTargets, StillTheirs
    <2>2. /\ tx[c].stamp \in Stamps /\ tx[c].stamp # None
          /\ tx[c].stamp \notin ReleaseStamps /\ tx[c].stamp <= clock
      BY <2>1, TransactionFields DEF StampsTellTakedownsApart
    <2>3. \A r \in Releases : releaseAt'[r] \in ReleaseStamps
      BY <2>1 DEF ReleaseStamps
    <2>4. QED
      BY <2>1, <2>2, <2>3, EndStamps, RewriteKeepsStamps, StampFacts
  <1>11. ASSUME NEW c \in Conns, RestoreReleaseCommit(c)
         PROVE  StampsTellTakedownsApart'
    <2>1. /\ tracks' = Withdrawn(RestoredBy(c), None, "none")
          /\ releaseAt' = [releaseAt EXCEPT ![tx[c].release] = None]
          /\ UNCHANGED <<lastId, clock>> /\ End(c)
      BY <1>11 DEF RestoreReleaseCommit, Restored, RestoredBy
    <2>2. \A r \in Releases : releaseAt'[r] \in ReleaseStamps \cup {None}
      BY <2>1 DEF ReleaseStamps, TypeOK
    <2>3. None <= clock
      BY DEF TypeOK, Stamps, None
    <2>4. QED
      BY <2>1, <2>2, <2>3, EndStamps, RewriteKeepsStamps, StampFacts
  <1>12. ASSUME NEW c \in Conns, Rollback(c)
         PROVE  StampsTellTakedownsApart'
    <2>1. End(c) /\ UNCHANGED <<lastId, tracks, releaseAt, clock>>
      BY <1>12 DEF Rollback
    <2>2. \A r \in Releases : releaseAt'[r] \in ReleaseStamps
      BY <2>1 DEF ReleaseStamps
    <2>3. QED
      BY <2>1, <2>2, EndStamps, SameRowsKeepStamps
  <1>13. CASE UNCHANGED vars
    BY <1>13 DEF vars, StampsTellTakedownsApart, ReleaseStamps, Live, Ids
  <1>14. ASSUME NEW a \in Accounts, DeleteAccount(a)
         PROVE  StampsTellTakedownsApart'
    <2>1. /\ Ids' = Ids /\ clock' = clock /\ tx' = tx
          /\ \A t \in Ids : /\ tracks'[t].withdrawnAt = tracks[t].withdrawnAt
                            /\ tracks'[t].reason = tracks[t].reason
      BY <1>14, UnlinkedRows DEF DeleteAccount
    <2>2. ReleaseStamps' = ReleaseStamps
      BY <1>14 DEF DeleteAccount, ReleaseStamps
    <2>3. QED
      BY <2>1, <2>2, RowStamps, StampsStayApart
  <1>15. QED
    BY <1>1, <1>2, <1>3, <1>4, <1>5, <1>6, <1>7, <1>8, <1>9, <1>10, <1>11,
       <1>12, <1>13, <1>14 DEF Next, Statement, Supersede, Takedown

\* A release's stamp and a takedown's of its own are never the same.
THEOREM TakedownsStayApart == Spec => []StampsTellTakedownsApart
  <1>1. Init => StampsTellTakedownsApart
    BY StampFacts
    DEF Init, StampsTellTakedownsApart, ReleaseStamps, Ids, Idle, None
  <1>2. ChainInv /\ StampsTellTakedownsApart /\ [Next]_vars
          => StampsTellTakedownsApart'
    BY StampStep
  <1>3. QED
    BY <1>1, <1>2, ChainInvariant, PTL DEF Spec

\* Restoring a release leaves every takedown that was not the release's own.
THEOREM RestoreKeepsOwnTakedowns == Spec => RestoreReleaseKeepsOwnTakedowns
  <1>1. ASSUME ChainInv, StampsTellTakedownsApart, NEW c \in Conns,
               RestoreReleaseCommit(c), NEW t \in Ids,
               tracks[t].reason \in {"own", "purge"}
        PROVE  ~Live(t)'
    <2>1. tracks' = Withdrawn(RestoredBy(c), None, "none")
      BY <1>1 DEF RestoreReleaseCommit, Restored, RestoredBy
    <2>2. tracks[t].withdrawnAt # None /\ tracks[t].withdrawnAt \notin ReleaseStamps
      BY <1>1, RowStamps
    <2>3. tx[c].stamp \in ReleaseStamps
      BY <1>1 DEF RestoreReleaseCommit, ReleaseStamps
    <2>4. t \notin RestoredBy(c)
      BY <2>2, <2>3 DEF RestoredBy, RestoreTargets
    <2>5. tracks'[t] = tracks[t]
      BY <2>1, <2>4 DEF Withdrawn
    <2>6. QED
      BY <2>2, <2>5 DEF Live
  <1>2. ChainInv /\ StampsTellTakedownsApart /\ [Next]_vars
          => [\A c \in Conns : RestoreReleaseCommit(c) =>
                \A t \in Ids : tracks[t].reason \in {"own", "purge"}
                                 => ~Live(t)']_vars
    BY <1>1
  <1>3. QED
    BY <1>2, ChainInvariant, TakedownsStayApart, PTL
    DEF Spec, RestoreReleaseKeepsOwnTakedowns

(***************************************************************************)
(* What two heads of one chain need: SupersedeTrack locks the row it       *)
(* replaces and not the chain, so only two that overlap in one chain can   *)
(* draw the same revision number.                                          *)
(***************************************************************************)
\* No two connections supersede in the same chain at the same time.
SupersedesDoNotOverlap ==
  \A c, d \in Conns :
    /\ tx[c].op = "supersede" /\ tx[d].op = "supersede"
    /\ tracks[tx[c].parent].root = tracks[tx[d].parent].root
    => c = d

\* Then revision numbers are distinct in every chain, and an open supersede
\* has read the largest.
NumbersFit ==
  /\ \A t \in Ids : tracks[t].root \in Ids
  /\ \A t, u \in Ids : /\ tracks[t].root = tracks[u].root
                       /\ tracks[t].revision = tracks[u].revision
                       => t = u
  /\ \A c \in Conns : tx[c].op = "supersede" =>
       \A t \in Ids : tracks[t].root = tracks[tx[c].parent].root
                        => tracks[t].revision <= tx[c].max

LEMMA RewriteKeepsNumbers ==
  ASSUME ChainInv, NumbersFit, NEW targets, NEW stamp \in Stamps,
         NEW reason \in Reasons, tracks' = Withdrawn(targets, stamp, reason),
         lastId' = lastId,
         \A c \in Conns : tx'[c].op = "supersede" => tx'[c] = tx[c]
  PROVE  NumbersFit'
  <1>1. Ids' = Ids
    BY DEF Ids
  <1>2. \A t \in Ids : /\ tracks'[t].root = tracks[t].root
                       /\ tracks'[t].revision = tracks[t].revision
    BY RewrittenRows DEF ChainInv
  <1>3. \A c \in Conns : tx[c].op = "supersede" => tx[c].parent \in Ids
    BY DEF ChainInv, OpenSupersedesHoldTheirParent
  <1>4. QED
    BY <1>1, <1>2, <1>3 DEF NumbersFit

LEMMA SameRowsKeepNumbers ==
  ASSUME NumbersFit, UNCHANGED <<lastId, tracks>>,
         \A c \in Conns : tx'[c].op = "supersede" => tx'[c] = tx[c]
  PROVE  NumbersFit'
  BY DEF NumbersFit, Ids

LEMMA NumbersStep ==
  ASSUME ChainInv, NumbersFit, SupersedesDoNotOverlap, [Next]_vars
  PROVE  NumbersFit'
  <1> USE DEF ChainInv
  <1>1. ASSUME NEW r \in Releases, NEW a \in Accounts, NEW p \in Payloads,
               CreateSubtitleTrack(r, a, p)
        PROVE  NumbersFit'
    <2>1. FirstRevision(r, a, p) \in Row
      BY RevisionRows
    <2>2. Insert(FirstRevision(r, a, p)) /\ tx' = tx
      BY <1>1 DEF CreateSubtitleTrack, FirstRevision
    <2>3. /\ Ids' = Ids \cup {lastId + 1} /\ lastId + 1 \notin Ids
          /\ tracks'[lastId + 1] = FirstRevision(r, a, p)
          /\ \A t \in Ids : tracks'[t] = tracks[t]
      BY <2>1, <2>2, InsertedRows DEF Insert, Ids
    <2>4. \A c \in Conns : tx[c].op = "supersede" => tx[c].parent \in Ids
      BY DEF OpenSupersedesHoldTheirParent
    <2>5. FirstRevision(r, a, p).root = lastId + 1
      BY DEF FirstRevision
    <2>6. QED
      BY <2>2, <2>3, <2>4, <2>5 DEF NumbersFit
  <1>2. ASSUME NEW t \in Ids, WithdrawTrack(t)
        PROVE  NumbersFit'
    <2>1. /\ clock + 1 \in Stamps /\ lastId' = lastId /\ tx' = tx
          /\ tracks' = Withdrawn({t}, clock + 1, "own")
      BY <1>2, BoundsAssumption DEF WithdrawTrack, TypeOK, Stamps
    <2>2. QED
      BY <2>1, RewriteKeepsNumbers, StampFacts
  <1>3. ASSUME NEW t \in Ids, RestoreTrack(t)
        PROVE  NumbersFit'
    <2>1. /\ lastId' = lastId /\ tracks' = Withdrawn({t}, None, "none")
          /\ tx' = tx
      BY <1>3 DEF RestoreTrack, Restored
    <2>2. QED
      BY <2>1, RewriteKeepsNumbers, StampFacts
  <1>4. ASSUME NEW c \in Conns, NEW t \in Ids, NEW a \in Accounts,
               NEW p \in Payloads, SupersedeBegin(c, t, a, p)
        PROVE  NumbersFit'
    <2>1. PICK top \in Chain(tracks[t].root) :
            /\ \A u \in Chain(tracks[t].root) :
                 tracks[u].revision <= tracks[top].revision
            /\ Begin(c, [op |-> "supersede", parent |-> t,
                         max |-> tracks[top].revision, uploader |-> a,
                         payload |-> p])
      BY <1>4 DEF SupersedeBegin
    <2>2. /\ tx'[c].parent = t /\ tx'[c].max = tracks[top].revision
          /\ \A d \in Conns : d # c => tx'[d] = tx[d]
      BY <2>1, BegunTransaction
    <2>3. UNCHANGED <<lastId, tracks>>
      BY <1>4 DEF SupersedeBegin
    <2>4. \A u \in Ids : tracks[u].root = tracks[t].root
                           => tracks[u].revision <= tracks[top].revision
      BY <2>1 DEF Chain
    <2>5. QED
      BY <2>2, <2>3, <2>4 DEF NumbersFit, Ids
  <1>5. ASSUME NEW c \in Conns, SupersedeCommit(c)
        PROVE  NumbersFit'
    <2> DEFINE parent == tx[c].parent
               max == tx[c].max
    <2>1. parent \in Ids /\ tx[c].op = "supersede" /\ max \in Nat
      BY <1>5, TransactionFields
      DEF SupersedeCommit, OpenSupersedesHoldTheirParent
    <2>3. NextRevision(c) \in Row
      BY <2>1, RevisionRows
    <2>4. Insert(NextRevision(c)) /\ End(c)
      BY <1>5 DEF SupersedeCommit, NextRevision
    <2>5. /\ Ids' = Ids \cup {lastId + 1} /\ lastId + 1 \notin Ids
          /\ tracks'[lastId + 1] = NextRevision(c)
          /\ \A t \in Ids : tracks'[t] = tracks[t]
      BY <2>3, <2>4, InsertedRows DEF Insert, Ids
    <2>6. /\ NextRevision(c).root = tracks[parent].root
          /\ NextRevision(c).revision = max + 1
      BY DEF NextRevision
    <2>7. \A t \in Ids : tracks[t].root = tracks[parent].root
                           => tracks[t].revision # max + 1
      <3>1. ASSUME NEW t \in Ids, tracks[t].root = tracks[parent].root
            PROVE  tracks[t].revision # max + 1
        <4>1. tracks[t].revision \in Nat /\ tracks[t].revision <= max
          BY <2>1, <3>1 DEF NumbersFit, TypeOK, Row
        <4>2. QED
          BY <2>1, <4>1
      <3>2. QED
        BY <3>1
    <2>8. \A d \in Conns : tx'[d].op = "supersede" =>
            /\ tx'[d] = tx[d] /\ tx[d].parent \in Ids
            /\ tracks[tx[d].parent].root # tracks[parent].root
      <3>1. ASSUME NEW d \in Conns, tx'[d].op = "supersede"
            PROVE  tx'[d] = tx[d] /\ d # c
        BY <2>4, <3>1, EndedTransaction
      <3>2. QED
        BY <2>1, <3>1 DEF SupersedesDoNotOverlap, OpenSupersedesHoldTheirParent
    <2>9. /\ \A t \in Ids' : tracks'[t].root \in Ids'
          /\ \A t, u \in Ids' : /\ tracks'[t].root = tracks'[u].root
                                /\ tracks'[t].revision = tracks'[u].revision
                                => t = u
      BY <2>1, <2>5, <2>6, <2>7 DEF NumbersFit
    <2>10. \A d \in Conns : tx'[d].op = "supersede" =>
             \A t \in Ids' : tracks'[t].root = tracks'[tx'[d].parent].root
                               => tracks'[t].revision <= tx'[d].max
      BY <2>5, <2>6, <2>8 DEF NumbersFit
    <2>11. QED
      BY <2>9, <2>10 DEF NumbersFit
  <1>6. ASSUME NEW c \in Conns,
               \/ \E r \in Releases : \/ WithdrawReleaseBegin(c, r)
                                      \/ RestoreReleaseBegin(c, r)
               \/ \E a \in Accounts : WithdrawTracksByUploaderBegin(c, a)
        PROVE  NumbersFit'
    <2>1. CASE \E r \in Releases : WithdrawReleaseBegin(c, r)
      BY <2>1, BegunTransaction, SameRowsKeepNumbers DEF WithdrawReleaseBegin
    <2>2. CASE \E r \in Releases : RestoreReleaseBegin(c, r)
      BY <2>2, BegunTransaction, SameRowsKeepNumbers DEF RestoreReleaseBegin
    <2>3. CASE \E a \in Accounts : WithdrawTracksByUploaderBegin(c, a)
      BY <2>3, BegunTransaction, SameRowsKeepNumbers
      DEF WithdrawTracksByUploaderBegin
    <2>4. QED
      BY <1>6, <2>1, <2>2, <2>3
  <1>7. ASSUME NEW c \in Conns, WithdrawReleaseCommit(c)
        PROVE  NumbersFit'
    <2>1. /\ tracks' = Withdrawn(StillLive(c), tx[c].stamp, "release")
          /\ lastId' = lastId /\ End(c) /\ tx[c].op = "withdrawRelease"
      BY <1>7 DEF WithdrawReleaseCommit, WithdrawTargets, StillLive
    <2>2. QED
      BY <2>1, TransactionFields, EndedTransaction, RewriteKeepsNumbers,
         StampFacts
  <1>8. ASSUME NEW c \in Conns, WithdrawTracksByUploaderCommit(c)
        PROVE  NumbersFit'
    <2>1. /\ tracks' = Withdrawn(StillTheirs(c), tx[c].stamp, "purge")
          /\ lastId' = lastId /\ End(c) /\ tx[c].op = "withdrawUploads"
      BY <1>8 DEF WithdrawTracksByUploaderCommit, WithdrawTargets, StillTheirs
    <2>2. QED
      BY <2>1, TransactionFields, EndedTransaction, RewriteKeepsNumbers,
         StampFacts
  <1>9. ASSUME NEW c \in Conns, RestoreReleaseCommit(c)
        PROVE  NumbersFit'
    <2>1. /\ tracks' = Withdrawn(RestoredBy(c), None, "none")
          /\ lastId' = lastId /\ End(c)
      BY <1>9 DEF RestoreReleaseCommit, Restored, RestoredBy
    <2>2. QED
      BY <2>1, EndedTransaction, RewriteKeepsNumbers, StampFacts
  <1>10. ASSUME NEW c \in Conns, Rollback(c)
         PROVE  NumbersFit'
    BY <1>10, EndedTransaction, SameRowsKeepNumbers DEF Rollback
  <1>11. CASE UNCHANGED vars
    BY <1>11, SameRowsKeepNumbers DEF vars
  <1>12. ASSUME NEW a \in Accounts, DeleteAccount(a)
         PROVE  NumbersFit'
    <2>1. /\ Ids' = Ids /\ tx' = tx
          /\ \A t \in Ids : /\ tracks'[t].root = tracks[t].root
                            /\ tracks'[t].revision = tracks[t].revision
      BY <1>12, UnlinkedRows DEF DeleteAccount
    <2>2. \A c \in Conns : tx[c].op = "supersede" => tx[c].parent \in Ids
      BY DEF OpenSupersedesHoldTheirParent
    <2>3. QED
      BY <2>1, <2>2 DEF NumbersFit
  <1>13. QED
    BY <1>1, <1>2, <1>3, <1>4, <1>5, <1>6, <1>7, <1>8, <1>9, <1>10, <1>11,
       <1>12
    DEF Next, Statement, Supersede, Takedown

\* As long as supersedes do not overlap in a chain, a chain has one head,
\* whatever is withdrawn and restored around it.
THEOREM OneHeadWithoutOverlap ==
  Spec /\ []SupersedesDoNotOverlap => []OneHeadPerChain
  <1>1. Init => NumbersFit
    BY DEF Init, NumbersFit, Ids, Idle
  <1>2. ChainInv /\ NumbersFit /\ SupersedesDoNotOverlap /\ [Next]_vars
          => NumbersFit'
    BY NumbersStep
  <1>3. ChainInv /\ NumbersFit => OneHeadPerChain
    <2>1. SUFFICES ASSUME ChainInv, NumbersFit, NEW t \in Ids, NEW u \in Ids,
                          tracks[t].root = tracks[u].root, IsHead(t), IsHead(u)
                   PROVE  t = u
      BY DEF OneHeadPerChain
    <2>2. /\ t \in Chain(tracks[u].root) /\ Live(t)
          /\ u \in Chain(tracks[t].root) /\ Live(u)
      BY <2>1 DEF IsHead, Chain
    <2>3. /\ tracks[u].revision <= tracks[t].revision
          /\ tracks[t].revision <= tracks[u].revision
      BY <2>1, <2>2 DEF IsHead
    <2>4. tracks[t].revision \in Nat /\ tracks[u].revision \in Nat
      BY <2>1 DEF ChainInv, TypeOK, Row
    <2>5. QED
      BY <2>1, <2>3, <2>4 DEF NumbersFit
  <1>4. QED
    BY <1>1, <1>2, <1>3, ChainInvariant, PTL DEF Spec

(***************************************************************************)
(* What a restore that leaves tracks behind needs: the release's own stamp *)
(* is all RestoreRelease has to tell which tracks its withdrawal took      *)
(* down, so the stamp must not be another one by then.                     *)
(***************************************************************************)
\* A release is withdrawn only while it is live and no restore of it is open.
WithdrawalsStandApart ==
  \A c \in Conns : tx[c].op = "withdrawRelease" =>
    /\ releaseAt[tx[c].release] = None
    /\ \A d \in Conns :
         ~(tx[d].op = "restoreRelease" /\ tx[d].release = tx[c].release)

\* Then the tracks a release's withdrawal took down carry the release's stamp,
\* an open restore has read it, or finds the release restored already, and an
\* open withdrawal is about tracks of its release.
RestoresFit ==
  /\ \A t \in Ids : tracks[t].reason = "release" =>
       /\ releaseAt[tracks[t].release] # None
       /\ tracks[t].withdrawnAt = releaseAt[tracks[t].release]
  /\ \A c \in Conns :
       /\ tx[c].op = "restoreRelease" =>
            releaseAt[tx[c].release] \in {None, tx[c].stamp}
       /\ tx[c].op = "withdrawRelease" =>
            \A t \in tx[c].targets : t \in Ids /\ tracks[t].release = tx[c].release

\* Transactions on releases neither begin nor commit.
SameReleaseWork ==
  /\ releaseAt' = releaseAt
  /\ \A c \in Conns : tx'[c].op \in {"restoreRelease", "withdrawRelease"}
                         => tx'[c] = tx[c]

LEMMA RewriteKeepsRestores ==
  ASSUME ChainInv, RestoresFit, NEW targets, NEW stamp \in Stamps,
         NEW reason \in Reasons \ {"release"},
         tracks' = Withdrawn(targets, stamp, reason), lastId' = lastId,
         SameReleaseWork
  PROVE  RestoresFit'
  <1>1. Ids' = Ids
    BY DEF Ids
  <1>2. reason \in Reasons /\ reason # "release"
    OBVIOUS
  <1>3. \A t \in Ids : /\ tracks'[t].release = tracks[t].release
                       /\ t \in targets => tracks'[t].reason = reason
                       /\ t \notin targets => tracks'[t] = tracks[t]
    BY <1>2, RewrittenRows DEF ChainInv
  <1>4. QED
    BY <1>1, <1>2, <1>3 DEF RestoresFit, SameReleaseWork

LEMMA InsertKeepsRestores ==
  ASSUME ChainInv, RestoresFit, NEW row \in Row, row.reason = "none",
         Insert(row), SameReleaseWork
  PROVE  RestoresFit'
  <1>1. /\ Ids' = Ids \cup {lastId + 1}
        /\ tracks'[lastId + 1] = row
        /\ \A t \in Ids : tracks'[t] = tracks[t]
    BY InsertedRows DEF Insert, Ids, ChainInv
  <1>2. QED
    BY <1>1 DEF RestoresFit, SameReleaseWork

LEMMA SameRowsKeepRestores ==
  ASSUME RestoresFit, UNCHANGED <<lastId, tracks>>, SameReleaseWork
  PROVE  RestoresFit'
  BY DEF RestoresFit, Ids, SameReleaseWork

\* Another transaction begins, or one ends that changes no release.
LEMMA OtherWork ==
  ASSUME TypeOK, NEW c \in Conns, releaseAt' = releaseAt,
         \/ End(c)
         \/ \E t : Begin(c, t) /\ t.op \notin {"restoreRelease", "withdrawRelease"}
  PROVE  SameReleaseWork
  <1>1. CASE End(c)
    BY <1>1, EndedTransaction DEF SameReleaseWork
  <1>2. ASSUME NEW t, Begin(c, t), t.op \notin {"restoreRelease", "withdrawRelease"}
        PROVE  SameReleaseWork
    BY <1>2, BegunTransaction DEF SameReleaseWork
  <1>3. QED
    BY <1>1, <1>2

LEMMA WithdrawKeepsRestores ==
  ASSUME ChainInv, RestoresFit, WithdrawalsStandApart,
         NEW c \in Conns, WithdrawReleaseCommit(c)
  PROVE  RestoresFit'
  <1> USE DEF ChainInv
  <1> DEFINE r == tx[c].release
             s == tx[c].stamp
  <1>1. /\ tracks' = Withdrawn(StillLive(c), s, "release")
        /\ releaseAt' = [releaseAt EXCEPT ![r] = s]
        /\ lastId' = lastId /\ End(c) /\ tx[c].op = "withdrawRelease"
    BY DEF WithdrawReleaseCommit, WithdrawTargets, StillLive
  <1>2. r \in Releases /\ s \in Stamps /\ s # None
    BY <1>1, TransactionFields DEF OpenWithdrawalsAreStamped
  <1>3. /\ releaseAt'[r] = s
        /\ \A q \in Releases : q # r => releaseAt'[q] = releaseAt[q]
    BY <1>1, <1>2 DEF TypeOK
  <1>4. /\ Ids' = Ids
        /\ \A t \in Ids : /\ tracks[t].release \in Releases
                          /\ tracks'[t].release = tracks[t].release
                          /\ t \in StillLive(c) =>
                               tracks'[t].withdrawnAt = s
                          /\ t \notin StillLive(c) => tracks'[t] = tracks[t]
    <2>1. \A t \in Ids : tracks[t].release \in Releases
      BY DEF TypeOK, Row
    <2>2. "release" \in Reasons
      BY StampFacts
    <2>3. \A t \in Ids : /\ tracks'[t].release = tracks[t].release
                         /\ t \in StillLive(c) => tracks'[t].withdrawnAt = s
                         /\ t \notin StillLive(c) => tracks'[t] = tracks[t]
      BY <1>1, <1>2, <2>2, RewrittenRows
    <2>4. QED
      BY <1>1, <2>1, <2>3 DEF Ids
  <1>5. \A t \in Ids : tracks[t].reason = "release" => tracks[t].release # r
    BY <1>1 DEF RestoresFit, WithdrawalsStandApart
  <1>6. \A t \in StillLive(c) : t \in Ids /\ tracks[t].release = r
    BY <1>1 DEF RestoresFit, StillLive
  <1>7. ASSUME NEW t \in Ids, tracks'[t].reason = "release"
        PROVE  /\ releaseAt'[tracks'[t].release] # None
               /\ tracks'[t].withdrawnAt = releaseAt'[tracks'[t].release]
    <2>1. CASE t \in StillLive(c)
      BY <1>2, <1>3, <1>4, <1>6, <2>1
    <2>2. CASE t \notin StillLive(c)
      BY <1>3, <1>4, <1>5, <1>7, <2>2 DEF RestoresFit
    <2>3. QED
      BY <2>1, <2>2
  <1>8. ASSUME NEW d \in Conns, tx'[d].op = "restoreRelease"
        PROVE  releaseAt'[tx'[d].release] \in {None, tx'[d].stamp}
    <2>1. tx'[d] = tx[d] /\ tx[d].release \in Releases
      BY <1>1, <1>8, EndedTransaction, TransactionFields
    <2>2. tx[d].release # r
      BY <1>1, <1>8, <2>1 DEF WithdrawalsStandApart
    <2>3. QED
      BY <1>3, <1>8, <2>1, <2>2 DEF RestoresFit
  <1>9. ASSUME NEW d \in Conns, tx'[d].op = "withdrawRelease"
        PROVE  \A t \in tx'[d].targets : t \in Ids /\ tracks'[t].release = tx'[d].release
    <2>1. tx'[d] = tx[d]
      BY <1>1, <1>9, EndedTransaction
    <2>2. QED
      BY <1>4, <1>9, <2>1 DEF RestoresFit
  <1>10. QED
    BY <1>4, <1>7, <1>8, <1>9 DEF RestoresFit

LEMMA RestoreKeepsRestores ==
  ASSUME ChainInv, RestoresFit, NEW c \in Conns, RestoreReleaseCommit(c)
  PROVE  RestoresFit'
  <1> USE DEF ChainInv
  <1> DEFINE r == tx[c].release
             s == tx[c].stamp
  <1>1. /\ tracks' = Withdrawn(RestoredBy(c), None, "none")
        /\ releaseAt' = [releaseAt EXCEPT ![r] = None]
        /\ lastId' = lastId /\ End(c) /\ tx[c].op = "restoreRelease"
    BY DEF RestoreReleaseCommit, Restored, RestoredBy
  <1>2. r \in Releases
    BY <1>1, TransactionFields
  <1>3. /\ releaseAt'[r] = None
        /\ \A q \in Releases : q # r => releaseAt'[q] = releaseAt[q]
    BY <1>1, <1>2 DEF TypeOK
  <1>4. /\ Ids' = Ids
        /\ \A t \in Ids : /\ tracks[t].release \in Releases
                          /\ tracks'[t].release = tracks[t].release
                          /\ tracks'[t].reason = "release" =>
                               tracks'[t] = tracks[t] /\ t \notin RestoredBy(c)
    <2>1. \A t \in Ids : tracks[t].release \in Releases
      BY DEF TypeOK, Row
    <2>2. None \in Stamps /\ "none" \in Reasons
      BY StampFacts
    <2>3. \A t \in Ids : /\ tracks'[t].release = tracks[t].release
                         /\ t \in RestoredBy(c) => tracks'[t].reason = "none"
                         /\ t \notin RestoredBy(c) => tracks'[t] = tracks[t]
      BY <1>1, <2>2, RewrittenRows
    <2>4. QED
      BY <1>1, <2>1, <2>3 DEF Ids
  <1>5. ASSUME NEW t \in Ids, tracks'[t].reason = "release"
        PROVE  tracks[t].release # r
    <2>1. tracks[t].reason = "release" /\ t \notin RestoredBy(c)
      BY <1>4, <1>5
    <2>2. /\ releaseAt[tracks[t].release] # None
          /\ tracks[t].withdrawnAt = releaseAt[tracks[t].release]
          /\ releaseAt[r] \in {None, s}
      BY <1>1, <2>1 DEF RestoresFit
    <2>3. QED
      BY <2>1, <2>2 DEF RestoredBy, RestoreTargets
  <1>6. \A d \in Conns : tx'[d].op # "idle" =>
          tx'[d] = tx[d] /\ (tx[d].op = "restoreRelease" => tx[d].release \in Releases)
    BY <1>1, EndedTransaction, TransactionFields
  <1>7. \A d \in Conns : tx'[d].op = "restoreRelease" =>
          releaseAt'[tx'[d].release] \in {None, tx'[d].stamp}
    BY <1>3, <1>6 DEF RestoresFit
  <1>8. QED
    BY <1>3, <1>4, <1>5, <1>6, <1>7 DEF RestoresFit

LEMMA RestoresStep ==
  ASSUME ChainInv, RestoresFit, WithdrawalsStandApart, [Next]_vars
  PROVE  RestoresFit'
  <1> USE DEF ChainInv
  <1>1. ASSUME NEW r \in Releases, NEW a \in Accounts, NEW p \in Payloads,
               CreateSubtitleTrack(r, a, p)
        PROVE  RestoresFit'
    <2>1. FirstRevision(r, a, p) \in Row /\ FirstRevision(r, a, p).reason = "none"
      BY RevisionRows DEF FirstRevision
    <2>2. Insert(FirstRevision(r, a, p)) /\ SameReleaseWork
      BY <1>1 DEF CreateSubtitleTrack, FirstRevision, SameReleaseWork
    <2>3. QED
      BY <2>1, <2>2, InsertKeepsRestores
  <1>2. ASSUME NEW t \in Ids, WithdrawTrack(t)
        PROVE  RestoresFit'
    <2>1. /\ clock + 1 \in Stamps /\ lastId' = lastId
          /\ tracks' = Withdrawn({t}, clock + 1, "own")
      BY <1>2, BoundsAssumption DEF WithdrawTrack, TypeOK, Stamps
    <2>2. SameReleaseWork
      BY <1>2 DEF WithdrawTrack, SameReleaseWork
    <2>3. "own" \in Reasons \ {"release"}
      BY StampFacts
    <2>4. QED
      BY <2>1, <2>2, <2>3, RewriteKeepsRestores
  <1>3. ASSUME NEW t \in Ids, RestoreTrack(t)
        PROVE  RestoresFit'
    <2>1. /\ lastId' = lastId /\ tracks' = Withdrawn({t}, None, "none")
          /\ SameReleaseWork
      BY <1>3 DEF RestoreTrack, Restored, SameReleaseWork
    <2>2. QED
      BY <2>1, RewriteKeepsRestores, StampFacts
  <1>4. ASSUME NEW c \in Conns, NEW t \in Ids, NEW a \in Accounts,
               NEW p \in Payloads, SupersedeBegin(c, t, a, p)
        PROVE  RestoresFit'
    <2>1. PICK max : Begin(c, [op |-> "supersede", parent |-> t, max |-> max,
                               uploader |-> a, payload |-> p])
      BY <1>4 DEF SupersedeBegin
    <2>2. UNCHANGED <<lastId, tracks, releaseAt>>
      BY <1>4 DEF SupersedeBegin
    <2>3. SameReleaseWork
      BY <2>1, <2>2, OtherWork
    <2>4. QED
      BY <2>2, <2>3, SameRowsKeepRestores
  <1>5. ASSUME NEW c \in Conns, SupersedeCommit(c)
        PROVE  RestoresFit'
    <2>1. NextRevision(c) \in Row /\ NextRevision(c).reason = "none"
      BY <1>5, RevisionRows DEF SupersedeCommit, NextRevision
    <2>2. Insert(NextRevision(c)) /\ End(c) /\ releaseAt' = releaseAt
      BY <1>5 DEF SupersedeCommit, NextRevision
    <2>3. SameReleaseWork
      BY <2>2, OtherWork
    <2>4. QED
      BY <2>1, <2>2, <2>3, InsertKeepsRestores
  <1>6. ASSUME NEW c \in Conns, NEW r \in Releases, WithdrawReleaseBegin(c, r)
        PROVE  RestoresFit'
    <2>1. /\ tx'[c].op = "withdrawRelease" /\ tx'[c].release = r
          /\ tx'[c].targets = {t \in Ids : Live(t) /\ tracks[t].release = r}
          /\ \A d \in Conns : d # c => tx'[d] = tx[d]
          /\ UNCHANGED <<lastId, tracks, releaseAt>>
      BY <1>6, BegunTransaction DEF WithdrawReleaseBegin
    <2>2. QED
      BY <2>1 DEF RestoresFit, Ids
  <1>7. ASSUME NEW c \in Conns, NEW r \in Releases, RestoreReleaseBegin(c, r)
        PROVE  RestoresFit'
    <2>1. /\ tx'[c].op = "restoreRelease" /\ tx'[c].release = r
          /\ tx'[c].stamp = releaseAt[r]
          /\ \A d \in Conns : d # c => tx'[d] = tx[d]
          /\ UNCHANGED <<lastId, tracks, releaseAt>>
      BY <1>7, BegunTransaction DEF RestoreReleaseBegin
    <2>2. QED
      BY <2>1 DEF RestoresFit, Ids
  <1>8. ASSUME NEW c \in Conns,
               \/ \E a \in Accounts : WithdrawTracksByUploaderBegin(c, a)
               \/ Rollback(c)
        PROVE  RestoresFit'
    <2>1. UNCHANGED <<lastId, tracks, releaseAt>>
      BY <1>8 DEF WithdrawTracksByUploaderBegin, Rollback
    <2>2. \/ End(c)
          \/ \E t : Begin(c, t) /\ t.op \notin {"restoreRelease", "withdrawRelease"}
      <3>1. CASE Rollback(c)
        BY <3>1 DEF Rollback
      <3>2. CASE \E a \in Accounts : WithdrawTracksByUploaderBegin(c, a)
        BY <3>2 DEF WithdrawTracksByUploaderBegin
      <3>3. QED
        BY <1>8, <3>1, <3>2
    <2>3. SameReleaseWork
      BY <2>1, <2>2, OtherWork
    <2>4. QED
      BY <2>1, <2>3, SameRowsKeepRestores
  <1>9. ASSUME NEW c \in Conns, WithdrawTracksByUploaderCommit(c)
        PROVE  RestoresFit'
    <2>1. /\ tracks' = Withdrawn(StillTheirs(c), tx[c].stamp, "purge")
          /\ UNCHANGED <<lastId, releaseAt>> /\ End(c)
          /\ tx[c].op = "withdrawUploads"
      BY <1>9 DEF WithdrawTracksByUploaderCommit, WithdrawTargets, StillTheirs
    <2>2. SameReleaseWork
      BY <2>1, OtherWork
    <2>3. tx[c].stamp \in Stamps
      BY <2>1, TransactionFields
    <2>4. "purge" \in Reasons \ {"release"}
      BY StampFacts
    <2>5. QED
      BY <2>1, <2>2, <2>3, <2>4, RewriteKeepsRestores
  <1>10. CASE UNCHANGED vars
    BY <1>10, SameRowsKeepRestores DEF vars, SameReleaseWork
  <1>11. ASSUME NEW a \in Accounts, DeleteAccount(a)
         PROVE  RestoresFit'
    <2>1. /\ Ids' = Ids /\ UNCHANGED <<releaseAt, tx>>
          /\ \A t \in Ids : /\ tracks'[t].release = tracks[t].release
                            /\ tracks'[t].withdrawnAt = tracks[t].withdrawnAt
                            /\ tracks'[t].reason = tracks[t].reason
      BY <1>11, UnlinkedRows DEF DeleteAccount
    <2>2. QED
      BY <2>1 DEF RestoresFit
  <1>12. QED
    BY <1>1, <1>2, <1>3, <1>4, <1>5, <1>6, <1>7, <1>8, <1>9, <1>10, <1>11,
       WithdrawKeepsRestores, RestoreKeepsRestores
    DEF Next, Statement, Supersede, Takedown

\* A restore brings back everything its release's withdrawal took down, unless
\* the release was withdrawn once more before, or while a restore was open.
THEOREM RestoresAreComplete ==
  Spec /\ []WithdrawalsStandApart => []RestoreReleaseIsComplete
  <1>1. Init => RestoresFit
    BY DEF Init, RestoresFit, Ids, Idle
  <1>2. ChainInv /\ RestoresFit /\ WithdrawalsStandApart /\ [Next]_vars
          => RestoresFit'
    BY RestoresStep
  <1>3. RestoresFit => RestoreReleaseIsComplete
    BY DEF RestoresFit, RestoreReleaseIsComplete
  <1>4. QED
    BY <1>1, <1>2, <1>3, ChainInvariant, PTL DEF Spec
=============================================================================

--------------------------------- MODULE Votes ---------------------------------
(***************************************************************************)
(* Votes on tracks, and the deletion of an account, which takes its votes  *)
(* with it: store/vote.go, castVote and retractVote of api/votes.go, and   *)
(* DeleteAccount of store/account.go.                                      *)
(*                                                                         *)
(* Each is a transaction of several statements over rows it locks.  Tables *)
(* hold what is committed; tx[c] is the transaction connection c runs:     *)
(* where it is, the rows it has locked, and the writes that its commit     *)
(* makes visible to others.  A statement that needs a row another          *)
(* transaction has locked waits; PostgreSQL rolls one transaction of a     *)
(* circle of waiting ones back.                                            *)
(***************************************************************************)
EXTENDS Integers, FiniteSets

CONSTANTS
  Accounts,     \* everyone who has an account, at first
  Tracks,       \* track ids
  Uploaders,    \* who may have uploaded which track, at first
  Ballots,      \* the votes and retractions clients send, see Ballot
  Conns         \* database connections

None == 0

Vote == {1, -1}

Ballot == [account : Accounts, track : Tracks, vote : Vote \cup {None}]

ASSUME VotesAssumption ==
  /\ IsFiniteSet(Accounts) /\ None \notin Accounts
  /\ IsFiniteSet(Tracks) /\ Tracks \subseteq Nat
  /\ Uploaders \subseteq [Tracks -> Accounts \cup {None}]
  /\ Ballots \subseteq Ballot

VARIABLES
  accounts,     \* rows of accounts
  admins,       \* those with role 'admin'
  uploader,     \* uploader_id of each track, or None
  votes,        \* value of each account's vote on each track, or None
  tally,        \* subtitle_tracks.up and down
  tx            \* the transaction of each connection

tables == <<accounts, admins, uploader, votes, tally>>

vars == <<accounts, admins, uploader, votes, tally, tx>>

Tally == [up : Nat, down : Nat]

\* Mutant: the votes against are summed up, not counted.
Count_sum(row) ==
  [up   |-> Cardinality({a \in Accounts : row[a] = 1}),
   down |-> -Cardinality({a \in Accounts : row[a] = -1})]

Count(row) ==
  [up   |-> Cardinality({a \in Accounts : row[a] = 1}),
   down |-> Cardinality({a \in Accounts : row[a] = -1})]

Transaction ==
  [at : {"idle", "lockTrack", "write", "recount", "commit", "lockAccount",
         "lockAdmins", "unlink", "lockVoted"},
   account : Accounts \cup {None},
   vote : Vote \cup {None},         \* what it casts; None to retract
   does : {"vote", "delete"},       \* a DeleteAccount, or a vote
   tracks : SUBSET Tracks,          \* the tracks it counts the votes of
   todo : SUBSET Tracks,            \* the tracks its statement still locks
   others : SUBSET Accounts,        \* the admin rows it still locks
   trackLocks : SUBSET Tracks,      \* FOR UPDATE
   accountLocks : SUBSET Accounts,  \* FOR UPDATE
   keyShares : SUBSET Accounts,     \* KEY SHARE, by its new vote's reference
   written : SUBSET Tracks,         \* where it wrote or deleted its vote
   counts : [Tracks -> Tally]]

Zero == [t \in Tracks |-> [up |-> 0, down |-> 0]]

Begin(at, account, vote, does, tracks) ==
  [at |-> at, account |-> account, vote |-> vote, does |-> does,
   tracks |-> tracks, todo |-> {}, others |-> {}, trackLocks |-> {},
   accountLocks |-> {}, keyShares |-> {}, written |-> {}, counts |-> Zero]

Idle == Begin("idle", None, None, "vote", {})

At(c, where) == tx[c].at = where

Uploads(a) == {t \in Tracks : uploader[t] = a}

VotedBy(a) == {t \in Tracks : votes[t][a] # None}

Becomes(c, own) == tx' = [tx EXCEPT ![c] = own]

TrackFree(c, t) == \A d \in Conns \ {c} : t \notin tx[d].trackLocks

\* No other transaction has the account's row FOR UPDATE.
Unlocked(c, a) == \A d \in Conns \ {c} : a \notin tx[d].accountLocks

\* No other transaction has the account's row locked, even as a referenced key.
AccountFree(c, a) ==
  /\ Unlocked(c, a)
  /\ \A d \in Conns \ {c} : a \notin tx[d].keyShares

\* The votes a transaction sees: those committed and what it wrote itself.
View(own) ==
  [t \in Tracks |->
     IF t \in own.written
       THEN [votes[t] EXCEPT ![own.account] = own.vote] ELSE votes[t]]

Init ==
  /\ accounts = Accounts
  /\ admins \in SUBSET Accounts
  /\ uploader \in Uploaders
  /\ votes = [t \in Tracks |-> [a \in Accounts |-> None]]
  /\ tally = Zero
  /\ tx = [c \in Conns |-> Idle]

-----------------------------------------------------------------------------
\* castVote refuses the voter's own upload; retractVote does not look.
Cast(c, ballot) ==
  /\ At(c, "idle")
  /\ ballot.account \in accounts
  /\ ballot.vote # None => uploader[ballot.track] # ballot.account
  /\ Becomes(c, Begin("lockTrack", ballot.account, ballot.vote, "vote",
                      {ballot.track}))
  /\ UNCHANGED tables

\* Mutant: the votes of a track are counted without serializing on its row.
LockTrack_never(c) ==
  /\ At(c, "lockTrack")
  /\ Becomes(c, [tx[c] EXCEPT !.at = "write"])
  /\ UNCHANGED tables

\* SELECT 1 FROM subtitle_tracks WHERE id = $1 FOR UPDATE
LockTrack(c) ==
  /\ At(c, "lockTrack")
  /\ \A t \in tx[c].tracks : TrackFree(c, t)
  /\ Becomes(c, [tx[c] EXCEPT !.at = "write", !.trackLocks = tx[c].tracks])
  /\ UNCHANGED tables

\* Mutant: no reference ties a vote to its account.
WriteVote_unbound(c) ==
  /\ At(c, "write")
  /\ Becomes(c, [tx[c] EXCEPT !.at = "recount", !.written = tx[c].tracks])
  /\ UNCHANGED tables

\* INSERT INTO track_votes ... ON CONFLICT DO UPDATE, or DELETE.  A new row
\* refers to its account, so it waits for the account's row and needs it there.
WriteVote(c) ==
  /\ At(c, "write")
  /\ LET a == tx[c].account
         new == tx[c].vote # None /\ \E t \in tx[c].tracks : votes[t][a] = None
     IN /\ new => Unlocked(c, a) /\ a \in accounts
        /\ Becomes(c, [tx[c] EXCEPT !.at = "recount", !.written = tx[c].tracks,
                            !.keyShares = IF new THEN {a} ELSE {}])
  /\ UNCHANGED tables

\* recomputeVoteCounts for every track of the transaction.
RecomputeVoteCounts(c) ==
  /\ At(c, "recount")
  /\ Becomes(c, [tx[c] EXCEPT !.at = "commit",
              !.counts = [t \in Tracks |-> IF t \in tx[c].tracks
                                                THEN Count(View(tx[c])[t])
                                                ELSE Zero[t]]])
  /\ UNCHANGED tables

CommitTally(c) ==
  tally' = [t \in Tracks |-> IF t \in tx[c].tracks THEN tx[c].counts[t]
                                                   ELSE tally[t]]

CommitVote(c) ==
  /\ At(c, "commit")
  /\ tx[c].does = "vote"
  /\ votes' = View(tx[c])
  /\ CommitTally(c)
  /\ Becomes(c, Idle)
  /\ UNCHANGED <<accounts, admins, uploader>>

-----------------------------------------------------------------------------
DeleteAccount(c, a) ==
  /\ At(c, "idle")
  /\ a \in accounts
  /\ Becomes(c, Begin("lockAccount", a, None, "delete", {}))
  /\ UNCHANGED tables

\* SELECT role FROM accounts WHERE id = $1 FOR UPDATE
LockAccount(c) ==
  /\ At(c, "lockAccount")
  /\ LET a == tx[c].account IN
       /\ AccountFree(c, a)
       /\ a \in accounts
       /\ \/ /\ a \in admins
             /\ Becomes(c, [tx[c] EXCEPT !.at = "lockAdmins",
                              !.others = admins, !.accountLocks = {a}])
          \/ /\ a \notin admins
             /\ Becomes(c, [tx[c] EXCEPT !.at = "unlink",
                              !.todo = Uploads(a), !.accountLocks = {a}])
  /\ UNCHANGED tables

\* SELECT 1 FROM accounts WHERE role = 'admin' FOR UPDATE: row by row; a row
\* that is no administrator's any more when its lock is had is left out.
LockAdmin(c) ==
  /\ At(c, "lockAdmins")
  /\ \E a \in tx[c].others :
       /\ AccountFree(c, a)
       /\ Becomes(c, [tx[c] EXCEPT
            !.others = @ \ {a},
            !.accountLocks = IF a \in admins THEN @ \cup {a} ELSE @])
  /\ UNCHANGED tables

GoUnlink(c) ==
  Becomes(c, [tx[c] EXCEPT !.at = "unlink", !.todo = Uploads(tx[c].account)])

\* Mutant: the refusal returns and leaves its transaction open.
CountAdmins_leftOpen(c) ==
  /\ At(c, "lockAdmins")
  /\ tx[c].others = {}
  /\ Cardinality(tx[c].accountLocks) > 1
  /\ GoUnlink(c)
  /\ UNCHANGED tables

\* The rows locked are counted: the only administrator is refused.
CountAdmins(c) ==
  /\ At(c, "lockAdmins")
  /\ tx[c].others = {}
  /\ IF Cardinality(tx[c].accountLocks) > 1 THEN GoUnlink(c)
                                            ELSE Becomes(c, Idle)
  /\ UNCHANGED tables

GoLock(c, t) ==
  Becomes(c, [tx[c] EXCEPT !.todo = @ \ {t}, !.trackLocks = @ \cup {t}])

\* UPDATE subtitle_tracks SET uploader_id = NULL: row by row, in any order. The
\* same update withdraws a credit given to the uploader: that is a column of
\* TrackStore's rows, and DeleteAccountWithCredits of Ingest.
UnlinkTrack(c) ==
  /\ At(c, "unlink")
  /\ \E t \in tx[c].todo : TrackFree(c, t) /\ GoLock(c, t)
  /\ UNCHANGED tables

\* The tracks the account has voted on, found before any of them is locked.
FindVoted(c) ==
  /\ At(c, "unlink")
  /\ tx[c].todo = {}
  /\ LET voted == VotedBy(tx[c].account) IN
       Becomes(c, [tx[c] EXCEPT !.at = "lockVoted", !.tracks = voted,
                                !.todo = voted])
  /\ UNCHANGED tables

\* ... ORDER BY t.id FOR UPDATE
LockVoted(c) ==
  /\ At(c, "lockVoted")
  /\ \E t \in tx[c].todo :
       /\ \A u \in tx[c].todo : t <= u
       /\ TrackFree(c, t)
       /\ GoLock(c, t)
  /\ UNCHANGED tables

\* DELETE FROM track_votes WHERE account_id = $1
DeleteVotes(c) ==
  /\ At(c, "lockVoted")
  /\ tx[c].todo = {}
  /\ Becomes(c, [tx[c] EXCEPT !.at = "recount",
                              !.written = VotedBy(tx[c].account)])
  /\ UNCHANGED tables

\* DELETE FROM accounts, refused while a vote refers to the account; commit.
CommitDelete(c) ==
  /\ At(c, "commit")
  /\ tx[c].does = "delete"
  /\ LET a == tx[c].account IN
       /\ \A t \in Tracks : View(tx[c])[t][a] = None
       /\ accounts' = accounts \ {a}
       /\ admins' = admins \ {a}
       /\ uploader' = [t \in Tracks |-> IF uploader[t] = a THEN None
                                                           ELSE uploader[t]]
  /\ votes' = View(tx[c])
  /\ CommitTally(c)
  /\ Becomes(c, Idle)

-----------------------------------------------------------------------------
\* An administrator changes an account's role: one statement, which waits for
\* the row.  The administrator's own authority was checked some time before.
SetAccountRole(a) ==
  /\ a \in accounts
  /\ \A c \in Conns : a \notin tx[c].accountLocks
  /\ \/ admins' = admins \ {a}
     \/ admins' = admins \cup {a}
  /\ UNCHANGED <<accounts, uploader, votes, tally, tx>>

\* Any error, or a client that went away: everything is rolled back.
Rollback(c) ==
  /\ ~At(c, "idle")
  /\ Becomes(c, Idle)
  /\ UNCHANGED tables

\* The account's row has gone: not found, or a broken reference.
Refuse(c) ==
  /\ tx[c].account \notin accounts
  /\ \/ At(c, "lockAccount")
     \/ At(c, "write")
  /\ Rollback(c)

\* Those whose locks transaction c's statement may be waiting for.
WaitsFor(c) ==
  {d \in Conns \ {c} :
     \/ /\ At(c, "lockTrack")
        /\ tx[c].tracks \cap tx[d].trackLocks # {}
     \/ /\ tx[c].at \in {"unlink", "lockVoted"}
        /\ tx[c].todo \cap tx[d].trackLocks # {}
     \/ /\ At(c, "write")
        /\ tx[c].account \in tx[d].accountLocks
     \/ /\ tx[c].at \in {"lockAccount", "lockAdmins"}
        /\ LET wanted == IF At(c, "lockAccount") THEN {tx[c].account}
                                                 ELSE tx[c].others
           IN wanted \cap (tx[d].accountLocks \cup tx[d].keyShares) # {}}

\* Some of those who wait lead back to c, itself waiting.
Deadlocked(c) ==
  \E S \in SUBSET Conns :
    /\ c \in S
    /\ \A d \in S : WaitsFor(d) \cap S # {}

DeadlockVictim(c) == Deadlocked(c) /\ Rollback(c)

Statement(c) ==
  \/ LockTrack(c) \/ WriteVote(c) \/ RecomputeVoteCounts(c) \/ CommitVote(c)
  \/ LockAccount(c) \/ LockAdmin(c) \/ CountAdmins(c) \/ UnlinkTrack(c)
  \/ FindVoted(c) \/ LockVoted(c) \/ DeleteVotes(c) \/ CommitDelete(c)
  \/ Refuse(c)

Next ==
  \/ \E c \in Conns :
       \/ \E ballot \in Ballots : Cast(c, ballot)
       \/ \E a \in Accounts : DeleteAccount(c, a)
       \/ Statement(c)
       \/ DeadlockVictim(c)
       \/ Rollback(c)
  \/ \E a \in Accounts : SetAccountRole(a)

Spec == Init /\ [][Next]_vars

(***************************************************************************)
(* A statement that can run again and again does run: PostgreSQL hands a   *)
(* lock to those who wait for it in turn.  A deadlock is found by its      *)
(* timeout.  Nobody has to send a request, or to go away.                  *)
(***************************************************************************)
FairSpec ==
  Spec /\ \A c \in Conns : SF_vars(Statement(c)) /\ WF_vars(DeadlockVictim(c))

-----------------------------------------------------------------------------
\* The tables and the transactions have their types.
TypeOK ==
  /\ accounts \subseteq Accounts
  /\ admins \subseteq accounts
  /\ uploader \in [Tracks -> Accounts \cup {None}]
  /\ votes \in [Tracks -> [Accounts -> Vote \cup {None}]]
  /\ tally \in [Tracks -> Tally]
  /\ tx \in [Conns -> Transaction]

\* Votes and tracks refer to accounts that exist: no vote arrives after the
\* deletion of its account has looked for the votes it takes along.
RowsReferToAccounts ==
  \A t \in Tracks :
    /\ uploader[t] \in accounts \cup {None}
    /\ \A a \in Accounts \ accounts : votes[t][a] = None

\* A track's up and down are what its votes say, whoever votes, retracts and
\* deletes accounts at the same time (store/vote.go: "never drifts").
TallyMatchesVotes == \A t \in Tracks : tally[t] = Count(votes[t])

\* Every transaction ends, even when it meets others on the rows it locks.
TransactionsEnd == \A c \in Conns : ~At(c, "idle") ~> At(c, "idle")
=============================================================================

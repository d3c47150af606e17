------------------------------ MODULE VotesProofs ------------------------------
(***************************************************************************)
(* Theorems of Votes: types, references and tallies, for any number of     *)
(* accounts, tracks and connections.                                       *)
(***************************************************************************)
EXTENDS Votes, FiniteSetTheorems, TLAPS

\* Row locks exclude each other as PostgreSQL's lock modes do.
LocksExclude ==
  \A c, d \in Conns :
    c # d =>
      /\ tx[c].trackLocks \cap tx[d].trackLocks = {}
      /\ tx[c].accountLocks
           \cap (tx[d].accountLocks \cup tx[d].keyShares) = {}

\* A transaction has what it counts and writes locked.
HoldsItsRows(own) ==
  /\ own.does = "vote" /\ own.at \notin {"idle", "lockTrack"} =>
       own.tracks \subseteq own.trackLocks
  /\ own.does = "delete" =>
       /\ own.tracks \subseteq own.trackLocks \cup own.todo
       /\ own.at \in {"recount", "commit"} => own.todo = {}
       /\ own.at # "lockAccount" => own.account \in own.accountLocks
  /\ own.written \subseteq own.tracks
  /\ own.written # {} => own.at \in {"recount", "commit"}
  /\ own.at \in {"lockAccount", "lockAdmins", "unlink"} => own.tracks = {}

\* The account a vote is written for exists until the transaction ends, since
\* a vote that replaces none refers to it.
HoldsItsAccount(own) ==
  /\ own.does = "vote" => own.accountLocks = {}
  /\ own.does = "delete" => own.vote = None
  /\ own.keyShares \subseteq accounts
  /\ own.vote # None =>
       \A t \in own.written :
         \/ own.account \in own.keyShares
         \/ votes[t][own.account] # None

\* A deletion has found every vote of its account.
FindsItsVotes(own) ==
  own.does = "delete" /\ own.at \in {"lockVoted", "recount", "commit"} =>
    \A t \in Tracks : votes[t][own.account] # None => t \in own.tracks

\* What is about to be committed as a tally is what the votes will be.
CountsItsVotes(own) ==
  own.at = "commit" =>
    \A t \in own.tracks : own.counts[t] = Count(View(own)[t])

\* Each kind of transaction has its own statements.
RunsItsStatements(own) ==
  /\ own.at \in {"idle", "lockTrack", "write"} => own.does = "vote"
  /\ own.at \in {"lockAccount", "lockAdmins", "unlink", "lockVoted"} =>
       own.does = "delete"
  /\ own.at # "idle" => own.account \in Accounts

Sound(own) ==
  /\ HoldsItsRows(own)
  /\ HoldsItsAccount(own)
  /\ FindsItsVotes(own)
  /\ CountsItsVotes(own)
  /\ RunsItsStatements(own)

VotesInv ==
  /\ TypeOK
  /\ RowsReferToAccounts
  /\ TallyMatchesVotes
  /\ LocksExclude
  /\ \A c \in Conns : Sound(tx[c])

-----------------------------------------------------------------------------
LEMMA CountType ==
  ASSUME NEW row
  PROVE  Count(row) \in Tally
  <1> DEFINE S(v) == {a \in Accounts : row[a] = v}
  <1>1. ASSUME NEW v
        PROVE  IsFiniteSet(S(v))
    BY VotesAssumption, FS_Subset
  <1>2. Cardinality(S(1)) \in Nat /\ Cardinality(S(-1)) \in Nat
    BY <1>1, FS_CardinalityType
  <1>3. QED
    BY <1>2 DEF Count, Tally

LEMMA IdleIsSound ==
  Idle \in Transaction /\ Sound(Idle)
  <1>1. Zero \in [Tracks -> Tally]
    BY DEF Zero, Tally
  <1>2. Idle \in Transaction
    BY <1>1 DEF Idle, Begin, Transaction, Vote
  <1>3. QED
    BY <1>2 DEF Idle, Begin, Sound, HoldsItsRows, HoldsItsAccount,
             FindsItsVotes, CountsItsVotes,
             RunsItsStatements

\* A statement that only moves its own transaction on keeps the invariant if
\* it leaves that transaction sound and takes no row another one has locked.
LEMMA OwnStep ==
  ASSUME VotesInv, NEW c \in Conns, NEW own \in Transaction,
         Becomes(c, own), UNCHANGED tables, Sound(own),
         \A d \in Conns \ {c} :
           /\ own.trackLocks \cap tx[d].trackLocks = {}
           /\ own.accountLocks
                \cap (tx[d].accountLocks \cup tx[d].keyShares) = {}
           /\ own.keyShares \cap tx[d].accountLocks = {}
  PROVE  VotesInv'
  <1>1. /\ tx'[c] = own
        /\ \A d \in Conns \ {c} : tx'[d] = tx[d]
    BY DEF VotesInv, TypeOK, Becomes
  <1>2. TypeOK' /\ RowsReferToAccounts' /\ TallyMatchesVotes'
    BY DEF VotesInv, TypeOK, Becomes, tables, RowsReferToAccounts, TallyMatchesVotes
  <1>3. LocksExclude'
    BY <1>1 DEF VotesInv, LocksExclude
  <1>4. ASSUME NEW d \in Conns
        PROVE  Sound(tx[d])'
    <2>1. Sound(tx'[d])
      BY <1>1 DEF VotesInv
    <2>2. QED
      BY <2>1 DEF Sound, HoldsItsRows, HoldsItsAccount, FindsItsVotes, View,
               CountsItsVotes, RunsItsStatements, tables
  <1>5. QED
    BY <1>2, <1>3, <1>4 DEF VotesInv

\* The transactions that end without a write.
LEMMA EndStep ==
  ASSUME VotesInv, NEW c \in Conns, Becomes(c, Idle),
         UNCHANGED tables
  PROVE  VotesInv'
  <1>1. Idle.trackLocks = {} /\ Idle.accountLocks = {} /\ Idle.keyShares = {}
    BY DEF Idle, Begin
  <1>2. QED
    BY <1>1, IdleIsSound, OwnStep

-----------------------------------------------------------------------------
\* What the invariant says of one transaction and of its rivals.
LEMMA OwnFacts ==
  ASSUME VotesInv, NEW c \in Conns
  PROVE  /\ tx \in [Conns -> Transaction] /\ tx[c] \in Transaction
         /\ Sound(tx[c])
         /\ \A d \in Conns \ {c} :
              /\ tx[c].trackLocks \cap tx[d].trackLocks = {}
              /\ tx[c].accountLocks
                   \cap (tx[d].accountLocks \cup tx[d].keyShares) = {}
              /\ tx[c].keyShares \cap tx[d].accountLocks = {}
  BY DEF VotesInv, TypeOK, LocksExclude

LEMMA BeginSteps ==
  ASSUME VotesInv, NEW c \in Conns,
         \/ \E ballot \in Ballots : Cast(c, ballot)
         \/ \E a \in Accounts : DeleteAccount(c, a)
  PROVE  VotesInv'
  <1>1. ASSUME NEW own, own \in Transaction, Becomes(c, own),
               UNCHANGED tables, Sound(own), own.trackLocks = {},
               own.accountLocks = {}, own.keyShares = {}
        PROVE  VotesInv'
    BY <1>1, OwnStep
  <1>2. Zero \in [Tracks -> Tally]
    BY DEF Zero, Tally
  <1>3. ASSUME NEW ballot \in Ballots, Cast(c, ballot)
        PROVE  VotesInv'
    <2> DEFINE own == Begin("lockTrack", ballot.account, ballot.vote, "vote",
                            {ballot.track})
    <2>1. own \in Transaction
      BY <1>2, VotesAssumption DEF Begin, Transaction, Ballot
    <2>2. Sound(own)
      BY VotesAssumption DEF Begin, Ballot, Sound, HoldsItsRows,
         HoldsItsAccount, FindsItsVotes, CountsItsVotes,
         RunsItsStatements
    <2>3. QED
      BY <1>1, <1>3, <2>1, <2>2 DEF Cast, Begin, tables
  <1>4. ASSUME NEW a \in Accounts, DeleteAccount(c, a)
        PROVE  VotesInv'
    <2> DEFINE own == Begin("lockAccount", a, None, "delete", {})
    <2>1. own \in Transaction
      BY <1>2 DEF Begin, Transaction
    <2>2. Sound(own)
      BY DEF Begin, Sound, HoldsItsRows, HoldsItsAccount, FindsItsVotes,
         CountsItsVotes, RunsItsStatements
    <2>3. QED
      BY <1>1, <1>4, <2>1, <2>2 DEF DeleteAccount, Begin, tables
  <1>5. QED
    BY <1>3, <1>4

LEMMA LockTrackStep ==
  ASSUME VotesInv, NEW c \in Conns, LockTrack(c)
  PROVE  VotesInv'
  <1> DEFINE own == [tx[c] EXCEPT !.at = "write", !.trackLocks = tx[c].tracks]
  <1>1. own \in Transaction /\ Becomes(c, own)
    BY OwnFacts DEF LockTrack, Transaction
  <1>2. Sound(own)
    BY OwnFacts DEF LockTrack, At, Transaction, Sound, HoldsItsRows, HoldsItsAccount,
       FindsItsVotes, CountsItsVotes, RunsItsStatements
  <1>3. \A d \in Conns \ {c} : own.trackLocks \cap tx[d].trackLocks = {}
    BY OwnFacts DEF LockTrack, TrackFree, Transaction
  <1>4. own.accountLocks = tx[c].accountLocks /\ own.keyShares = tx[c].keyShares
    BY OwnFacts DEF Transaction
  <1>5. UNCHANGED tables
    BY DEF LockTrack, tables
  <1>6. QED
    BY <1>1, <1>2, <1>3, <1>4, <1>5, OwnFacts, OwnStep

LEMMA WriteVoteStep ==
  ASSUME VotesInv, NEW c \in Conns, WriteVote(c)
  PROVE  VotesInv'
  <1> DEFINE a == tx[c].account
             new == tx[c].vote # None /\ \E t \in tx[c].tracks : votes[t][a] = None
             shares == IF new THEN {a} ELSE {}
             own == [tx[c] EXCEPT !.at = "recount", !.written = tx[c].tracks,
                                  !.keyShares = shares]
  <1>1. a \in Accounts /\ tx[c].does = "vote" /\ tx[c].accountLocks = {}
    BY OwnFacts DEF WriteVote, At, Sound, RunsItsStatements, HoldsItsAccount
  <1>2. own \in Transaction /\ Becomes(c, own)
    <2>1. shares \in SUBSET Accounts
      BY <1>1
    <2>2. Becomes(c, own)
      BY DEF WriteVote
    <2>3. tx[c] \in Transaction
      BY OwnFacts
    <2> HIDE DEF shares
    <2>4. own \in Transaction
      BY <2>1, <2>3 DEF Transaction
    <2>5. QED
      BY <2>2, <2>4
  <1>3. Sound(own)
    <2>1. HoldsItsAccount(own)
      BY <1>1, OwnFacts DEF WriteVote, Transaction, HoldsItsAccount
    <2>2. QED
      BY <1>1, <2>1, OwnFacts DEF WriteVote, At, Transaction, Sound,
         HoldsItsRows, FindsItsVotes, CountsItsVotes,
         RunsItsStatements
  <1>4. \A d \in Conns \ {c} : own.keyShares \cap tx[d].accountLocks = {}
    BY <1>1, OwnFacts DEF WriteVote, Unlocked, Transaction
  <1>5. own.accountLocks = {} /\ own.trackLocks = tx[c].trackLocks
    BY <1>1, OwnFacts DEF Transaction
  <1>6. UNCHANGED tables
    BY DEF WriteVote, tables
  <1> HIDE DEF own
  <1>7. QED
    BY <1>2, <1>3, <1>4, <1>5, <1>6, OwnFacts, OwnStep

LEMMA RecomputeStep ==
  ASSUME VotesInv, NEW c \in Conns, RecomputeVoteCounts(c)
  PROVE  VotesInv'
  <1> DEFINE counts == [t \in Tracks |-> IF t \in tx[c].tracks
                                           THEN Count(View(tx[c])[t])
                                           ELSE Zero[t]]
             own == [tx[c] EXCEPT !.at = "commit", !.counts = counts]
  <1>1. counts \in [Tracks -> Tally]
    BY CountType DEF Zero, Tally
  <1>2. own \in Transaction /\ Becomes(c, own)
    <2>1. tx[c] \in Transaction
      BY OwnFacts
    <2>2. Becomes(c, own)
      BY DEF RecomputeVoteCounts
    <2> HIDE DEF counts
    <2>3. own \in Transaction
      BY <1>1, <2>1 DEF Transaction
    <2>4. QED
      BY <2>2, <2>3
  <1>3. Sound(own)
    <2>1. View(own) = View(tx[c])
      BY OwnFacts DEF View, Transaction
    <2>2. CountsItsVotes(own)
      BY <2>1, OwnFacts DEF CountsItsVotes, Transaction
    <2>3. QED
      BY <2>2, OwnFacts DEF RecomputeVoteCounts, At, Transaction, Sound,
         HoldsItsRows, HoldsItsAccount, FindsItsVotes,
         RunsItsStatements
  <1>4. /\ own.trackLocks = tx[c].trackLocks
        /\ own.accountLocks = tx[c].accountLocks
        /\ own.keyShares = tx[c].keyShares
    BY OwnFacts DEF Transaction
  <1>5. UNCHANGED tables
    BY DEF RecomputeVoteCounts, tables
  <1> HIDE DEF own
  <1>6. QED
    BY <1>2, <1>3, <1>4, <1>5, OwnFacts, OwnStep

LEMMA LockAccountStep ==
  ASSUME VotesInv, NEW c \in Conns, LockAccount(c)
  PROVE  VotesInv'
  <1> DEFINE a == tx[c].account
  <1>1. /\ a \in Accounts /\ tx[c].does = "delete" /\ tx[c].vote = None
        /\ tx[c].written = {} /\ At(c, "lockAccount")
    BY OwnFacts DEF LockAccount, At, Sound, RunsItsStatements, HoldsItsAccount,
       HoldsItsRows
  <1>2. \A d \in Conns \ {c} : {a} \cap (tx[d].accountLocks \cup tx[d].keyShares) = {}
    BY DEF LockAccount, AccountFree, Unlocked
  <1>3. UNCHANGED tables
    BY DEF LockAccount
  <1>4. tx[c] \in Transaction /\ Sound(tx[c]) /\ admins \subseteq Accounts
    BY OwnFacts DEF VotesInv, TypeOK
  <1>5. CASE a \in admins
    <2> DEFINE own == [tx[c] EXCEPT !.at = "lockAdmins", !.others = admins,
                                    !.accountLocks = {a}]
    <2>1. own \in Transaction /\ Becomes(c, own)
      BY <1>1, <1>4, <1>5 DEF LockAccount, Transaction
    <2>2. Sound(own)
      BY <1>1, <1>4, <1>5 DEF At, Transaction, Sound, HoldsItsRows,
         HoldsItsAccount, FindsItsVotes, CountsItsVotes,
         RunsItsStatements
    <2>3. /\ own.trackLocks = tx[c].trackLocks /\ own.accountLocks = {a}
          /\ own.keyShares = tx[c].keyShares
      BY <1>4 DEF Transaction
    <2> HIDE DEF own
    <2>4. QED
      BY <1>2, <1>3, <2>1, <2>2, <2>3, OwnFacts, OwnStep
  <1>6. CASE a \notin admins
    <2> DEFINE own == [tx[c] EXCEPT !.at = "unlink", !.todo = Uploads(a),
                                    !.accountLocks = {a}]
    <2>1. Uploads(a) \in SUBSET Tracks
      BY DEF Uploads
    <2>2. own \in Transaction
      BY <1>1, <1>4, <2>1 DEF Transaction
    <2>3. tx[c].tracks = {}
      BY <1>1, <1>4 DEF Sound, HoldsItsRows, At
    <2>4. Sound(own)
      BY <1>1, <1>4, <1>6 DEF At, Transaction, Sound, HoldsItsRows,
         HoldsItsAccount, FindsItsVotes, CountsItsVotes,
         RunsItsStatements
    <2>5. /\ own.trackLocks = tx[c].trackLocks /\ own.accountLocks = {a}
          /\ own.keyShares = tx[c].keyShares
      BY <1>4 DEF Transaction
    <2>6. Becomes(c, own)
      BY <1>6 DEF LockAccount
    <2> HIDE DEF own
    <2>7. QED
      BY <1>2, <1>3, <2>2, <2>4, <2>5, <2>6, OwnFacts, OwnStep
  <1>7. QED
    BY <1>5, <1>6

LEMMA LockAdminStep ==
  ASSUME VotesInv, NEW c \in Conns, LockAdmin(c)
  PROVE  VotesInv'
  <1>1. tx[c] \in Transaction /\ Sound(tx[c]) /\ At(c, "lockAdmins")
    BY OwnFacts DEF LockAdmin
  <1>2. UNCHANGED tables
    BY DEF LockAdmin
  <1>3. PICK a \in tx[c].others :
          /\ AccountFree(c, a)
          /\ Becomes(c, [tx[c] EXCEPT
               !.others = @ \ {a},
               !.accountLocks = IF a \in admins THEN @ \cup {a} ELSE @])
    BY DEF LockAdmin
  <1> DEFINE locks == IF a \in admins THEN tx[c].accountLocks \cup {a}
                                      ELSE tx[c].accountLocks
             own == [tx[c] EXCEPT !.others = @ \ {a}, !.accountLocks = locks]
  <1>4. a \in Accounts /\ tx[c].does = "delete"
    BY <1>1 DEF Transaction, Sound, RunsItsStatements, At
  <1>5. /\ locks \in SUBSET Accounts /\ tx[c].accountLocks \subseteq locks
        /\ locks \subseteq tx[c].accountLocks \cup {a}
        /\ tx[c].accountLocks \subseteq admins => locks \subseteq admins
    BY <1>1, <1>4 DEF Transaction
  <1>6. Becomes(c, own)
    BY <1>3
  <1> HIDE DEF locks
  <1>7. own \in Transaction
    BY <1>1, <1>5 DEF Transaction
  <1>8. Sound(own)
    BY <1>1, <1>4, <1>5 DEF At, Transaction, Sound, HoldsItsRows,
       HoldsItsAccount, FindsItsVotes, CountsItsVotes,
       RunsItsStatements
  <1>9. /\ own.trackLocks = tx[c].trackLocks /\ own.accountLocks = locks
        /\ own.keyShares = tx[c].keyShares
    BY <1>1 DEF Transaction
  <1>10. \A d \in Conns \ {c} : locks \cap (tx[d].accountLocks \cup tx[d].keyShares) = {}
    BY <1>3, <1>5, OwnFacts DEF AccountFree, Unlocked
  <1> HIDE DEF own
  <1>11. QED
    BY <1>2, <1>6, <1>7, <1>8, <1>9, <1>10, OwnFacts, OwnStep

LEMMA CountAdminsStep ==
  ASSUME VotesInv, NEW c \in Conns, CountAdmins(c)
  PROVE  VotesInv'
  <1>1. UNCHANGED tables
    BY DEF CountAdmins
  <1>2. CASE ~(Cardinality(tx[c].accountLocks) > 1)
    BY <1>1, <1>2, EndStep DEF CountAdmins
  <1>3. CASE Cardinality(tx[c].accountLocks) > 1
    <2> DEFINE own == [tx[c] EXCEPT !.at = "unlink",
                                    !.todo = Uploads(tx[c].account)]
    <2>1. tx[c] \in Transaction /\ Sound(tx[c]) /\ At(c, "lockAdmins")
      BY OwnFacts DEF CountAdmins
    <2>2. Uploads(tx[c].account) \in SUBSET Tracks
      BY DEF Uploads
    <2>3. own \in Transaction
      BY <2>1, <2>2 DEF Transaction
    <2>4. tx[c].accountLocks # {tx[c].account}
      <3>1. Cardinality({tx[c].account}) = 1
        BY FS_Singleton
      <3>2. QED
        BY <1>3, <3>1
    <2>5. Sound(own)
      BY <2>1, <2>4 DEF At, Transaction, Sound, HoldsItsRows,
         HoldsItsAccount, FindsItsVotes, CountsItsVotes,
         RunsItsStatements
    <2>6. /\ own.trackLocks = tx[c].trackLocks
          /\ own.accountLocks = tx[c].accountLocks
          /\ own.keyShares = tx[c].keyShares
      BY <2>1 DEF Transaction
    <2>7. Becomes(c, own)
      BY <1>3 DEF CountAdmins, GoUnlink
    <2> HIDE DEF own
    <2>8. QED
      BY <1>1, <2>3, <2>5, <2>6, <2>7, OwnFacts, OwnStep
  <1>4. QED
    BY <1>2, <1>3

\* Both statements that lock tracks one by one.
LEMMA LockingStep ==
  ASSUME VotesInv, NEW c \in Conns, NEW t \in tx[c].todo,
         tx[c].at \in {"unlink", "lockVoted"}, TrackFree(c, t), GoLock(c, t),
         UNCHANGED tables
  PROVE  VotesInv'
  <1> DEFINE own == [tx[c] EXCEPT !.todo = @ \ {t}, !.trackLocks = @ \cup {t}]
  <1>1. tx[c] \in Transaction /\ Sound(tx[c])
    BY OwnFacts
  <1>2. own \in Transaction
    BY <1>1 DEF Transaction
  <1>3. Becomes(c, own)
    BY DEF GoLock
  <1>4. Sound(own)
    BY <1>1 DEF Transaction, Sound, HoldsItsRows,
       HoldsItsAccount, FindsItsVotes, CountsItsVotes,
       RunsItsStatements
  <1>5. /\ own.trackLocks = tx[c].trackLocks \cup {t}
        /\ own.accountLocks = tx[c].accountLocks
        /\ own.keyShares = tx[c].keyShares
    BY <1>1 DEF Transaction
  <1>6. \A d \in Conns \ {c} : own.trackLocks \cap tx[d].trackLocks = {}
    BY <1>5, OwnFacts DEF TrackFree
  <1> HIDE DEF own
  <1>7. QED
    BY <1>2, <1>3, <1>4, <1>5, <1>6, OwnFacts, OwnStep

LEMMA FindVotedStep ==
  ASSUME VotesInv, NEW c \in Conns, FindVoted(c)
  PROVE  VotesInv'
  <1> DEFINE voted == VotedBy(tx[c].account)
             own == [tx[c] EXCEPT !.at = "lockVoted", !.tracks = voted,
                                  !.todo = voted]
  <1>1. tx[c] \in Transaction /\ Sound(tx[c]) /\ At(c, "unlink")
    BY OwnFacts DEF FindVoted
  <1>2. /\ voted \in SUBSET Tracks
        /\ \A t \in Tracks : votes[t][tx[c].account] # None => t \in voted
    BY DEF VotedBy
  <1>3. Becomes(c, own) /\ UNCHANGED tables
    BY DEF FindVoted
  <1> HIDE DEF voted
  <1>4. own \in Transaction
    BY <1>1, <1>2 DEF Transaction
  <1>5. Sound(own)
    BY <1>1, <1>2 DEF At, Transaction, Sound, HoldsItsRows,
       HoldsItsAccount, FindsItsVotes, CountsItsVotes,
       RunsItsStatements
  <1>6. /\ own.trackLocks = tx[c].trackLocks
        /\ own.accountLocks = tx[c].accountLocks
        /\ own.keyShares = tx[c].keyShares
    BY <1>1 DEF Transaction
  <1> HIDE DEF own
  <1>7. QED
    BY <1>3, <1>4, <1>5, <1>6, OwnFacts, OwnStep

LEMMA DeleteVotesStep ==
  ASSUME VotesInv, NEW c \in Conns, DeleteVotes(c)
  PROVE  VotesInv'
  <1> DEFINE voted == VotedBy(tx[c].account)
             own == [tx[c] EXCEPT !.at = "recount", !.written = voted]
  <1>1. /\ tx[c] \in Transaction /\ Sound(tx[c])
        /\ At(c, "lockVoted") /\ tx[c].todo = {}
    BY OwnFacts DEF DeleteVotes
  <1>2. voted \in SUBSET Tracks /\ voted \subseteq tx[c].tracks
    BY <1>1 DEF VotedBy, Sound, RunsItsStatements, FindsItsVotes, At
  <1>3. Becomes(c, own) /\ UNCHANGED tables
    BY DEF DeleteVotes
  <1> HIDE DEF voted
  <1>4. own \in Transaction
    BY <1>1, <1>2 DEF Transaction
  <1>5. Sound(own)
    BY <1>1, <1>2 DEF At, Transaction, Sound, HoldsItsRows,
       HoldsItsAccount, FindsItsVotes, CountsItsVotes,
       RunsItsStatements
  <1>6. /\ own.trackLocks = tx[c].trackLocks
        /\ own.accountLocks = tx[c].accountLocks
        /\ own.keyShares = tx[c].keyShares
    BY <1>1 DEF Transaction
  <1> HIDE DEF own
  <1>7. QED
    BY <1>3, <1>4, <1>5, <1>6, OwnFacts, OwnStep

-----------------------------------------------------------------------------
\* What a commit writes: tallies that fit the votes, on tracks it has locked.
LEMMA CommitFacts ==
  ASSUME VotesInv, NEW c \in Conns, At(c, "commit"), votes' = View(tx[c]),
         CommitTally(c), Becomes(c, Idle)
  PROVE  /\ votes' \in [Tracks -> [Accounts -> Vote \cup {None}]]
         /\ tally' \in [Tracks -> Tally]
         /\ tx' \in [Conns -> Transaction]
         /\ TallyMatchesVotes'
         /\ LocksExclude'
         /\ tx'[c] = Idle /\ \A d \in Conns \ {c} : tx'[d] = tx[d]
         /\ \A d \in Conns \ {c} : \A t \in tx[d].trackLocks :
              votes'[t] = votes[t]
         /\ \A t \in Tracks, a \in Accounts :
              a # tx[c].account \/ t \notin tx[c].written =>
                votes'[t][a] = votes[t][a]
         /\ \A t \in tx[c].written : votes'[t][tx[c].account] = tx[c].vote
  <1>1. /\ tx[c] \in Transaction /\ Sound(tx[c])
        /\ votes \in [Tracks -> [Accounts -> Vote \cup {None}]]
        /\ tally \in [Tracks -> Tally] /\ tx \in [Conns -> Transaction]
    BY OwnFacts DEF VotesInv, TypeOK
  <1>2. /\ tx[c].account \in Accounts
        /\ tx[c].written \subseteq tx[c].tracks
        /\ tx[c].tracks \subseteq tx[c].trackLocks
        /\ tx[c].written \subseteq Tracks
    BY <1>1 DEF Sound, RunsItsStatements, HoldsItsRows, At, Transaction
  <1>3. \A t \in Tracks :
          /\ t \in tx[c].written =>
               votes'[t] = [votes[t] EXCEPT ![tx[c].account] = tx[c].vote]
          /\ t \notin tx[c].written => votes'[t] = votes[t]
    BY DEF View
  <1>4. votes' \in [Tracks -> [Accounts -> Vote \cup {None}]]
    <2>1. tx[c].vote \in Vote \cup {None}
      BY <1>1 DEF Transaction
    <2>2. ASSUME NEW t \in Tracks
          PROVE  votes'[t] \in [Accounts -> Vote \cup {None}]
      <3>1. votes[t] \in [Accounts -> Vote \cup {None}]
        BY <1>1
      <3>2. [votes[t] EXCEPT ![tx[c].account] = tx[c].vote]
              \in [Accounts -> Vote \cup {None}]
        BY <1>2, <2>1, <3>1
      <3>3. QED
        BY <1>3, <3>1, <3>2
    <2>3. DOMAIN votes' = Tracks /\ votes' = [t \in Tracks |-> votes'[t]]
      BY DEF View
    <2>4. QED
      BY <2>2, <2>3
  <1>5. tally' \in [Tracks -> Tally]
    BY <1>1 DEF CommitTally, Transaction
  <1>6. /\ tx' \in [Conns -> Transaction] /\ tx'[c] = Idle
        /\ \A d \in Conns \ {c} : tx'[d] = tx[d]
    BY <1>1, IdleIsSound DEF Becomes
  <1>7. TallyMatchesVotes'
    <2>1. ASSUME NEW t \in Tracks
          PROVE  tally'[t] = Count(votes'[t])
      <3>1. CASE t \in tx[c].tracks
        BY <1>1, <3>1 DEF CommitTally, Sound, CountsItsVotes, At
      <3>2. CASE t \notin tx[c].tracks
        BY <1>2, <1>3, <3>2 DEF CommitTally, VotesInv, TallyMatchesVotes
      <3>3. QED
        BY <3>1, <3>2
    <2>2. QED
      BY <2>1 DEF TallyMatchesVotes, Count
  <1>8. LocksExclude'
    <2>1. Idle.trackLocks = {} /\ Idle.accountLocks = {} /\ Idle.keyShares = {}
      BY DEF Idle, Begin
    <2>2. QED
      BY <1>6, <2>1 DEF VotesInv, LocksExclude
  <1>9. \A d \in Conns \ {c} : \A t \in tx[d].trackLocks : votes'[t] = votes[t]
    <2>1. \A d \in Conns : tx[d].trackLocks \subseteq Tracks
      BY <1>1 DEF Transaction
    <2>2. QED
      BY <1>2, <1>3, <2>1, OwnFacts
  <1>10. /\ \A t \in Tracks, a \in Accounts :
              a # tx[c].account \/ t \notin tx[c].written =>
                votes'[t][a] = votes[t][a]
         /\ \A t \in tx[c].written : votes'[t][tx[c].account] = tx[c].vote
    <2>1. ASSUME NEW t \in Tracks
          PROVE  /\ \A a \in Accounts :
                      a # tx[c].account \/ t \notin tx[c].written =>
                        votes'[t][a] = votes[t][a]
                 /\ t \in tx[c].written =>
                      votes'[t][tx[c].account] = tx[c].vote
      <3>1. votes[t] \in [Accounts -> Vote \cup {None}]
        BY <1>1
      <3>2. CASE t \in tx[c].written
        BY <1>2, <1>3, <3>1, <3>2
      <3>3. CASE t \notin tx[c].written
        BY <1>3, <3>3
      <3>4. QED
        BY <3>2, <3>3
    <2>2. QED
      BY <1>2, <2>1
  <1>11. QED
    BY <1>4, <1>5, <1>6, <1>7, <1>8, <1>9, <1>10

LEMMA CommitVoteStep ==
  ASSUME VotesInv, NEW c \in Conns, CommitVote(c)
  PROVE  VotesInv'
  <1> DEFINE a == tx[c].account
             Wrote(t) == t \in tx[c].written
  <1>1. /\ At(c, "commit") /\ votes' = View(tx[c]) /\ CommitTally(c)
        /\ Becomes(c, Idle) /\ UNCHANGED <<accounts, admins, uploader>>
    BY DEF CommitVote
  <1>2. /\ tx[c] \in Transaction /\ Sound(tx[c]) /\ tx[c].does = "vote"
        /\ a \in Accounts /\ tx[c].written \subseteq Tracks
        /\ tx[c].keyShares \subseteq accounts
        /\ tx \in [Conns -> Transaction]
        /\ \A d \in Conns : tx[d] \in Transaction /\ Sound(tx[d])
    BY <1>1, OwnFacts DEF CommitVote, Sound, RunsItsStatements, At, Transaction,
       HoldsItsAccount
  <1>3. TypeOK'
    BY <1>1, CommitFacts DEF VotesInv, TypeOK
  <1>4. \* A vote that was not there before is held by its reference.
        \A t \in Tracks, b \in Accounts :
          votes'[t][b] # None /\ votes[t][b] = None =>
            b = a /\ a \in tx[c].keyShares
    <2>1. ASSUME NEW t \in Tracks, NEW b \in Accounts, votes'[t][b] # None,
                 votes[t][b] = None
          PROVE  b = a /\ a \in tx[c].keyShares
      <3>1. b = a /\ t \in tx[c].written
        BY <1>1, <2>1, CommitFacts
      <3>2. tx[c].vote # None
        BY <1>1, <2>1, <3>1, CommitFacts
      <3>3. QED
        BY <1>2, <2>1, <3>1, <3>2 DEF Sound, HoldsItsAccount
    <2>2. QED
      BY <2>1
  <1>5. RowsReferToAccounts'
    <2>1. ASSUME NEW t \in Tracks, NEW b \in Accounts \ accounts
          PROVE  votes'[t][b] = None
      BY <1>2, <1>4 DEF VotesInv, RowsReferToAccounts
    <2>2. QED
      BY <1>1, <2>1 DEF VotesInv, RowsReferToAccounts
  <1>6. ASSUME NEW d \in Conns \ {c}
        PROVE  Sound(tx[d])'
    <2>1. /\ tx'[d] = tx[d] /\ Sound(tx[d]) /\ tx[d] \in Transaction
          /\ \A t \in tx[d].trackLocks : votes'[t] = votes[t]
      BY <1>1, <1>2, CommitFacts
    <2>2. tx[d].at = "commit" => tx[d].tracks \subseteq tx[d].trackLocks
      BY <2>1 DEF Sound, HoldsItsRows, Transaction
    <2>3. tx[d].written \subseteq tx[d].trackLocks
      BY <2>1 DEF Sound, HoldsItsRows, Transaction
    <2>4. HoldsItsAccount(tx[d])'
      BY <1>1, <2>1, <2>3 DEF Sound, HoldsItsAccount
    <2>5. FindsItsVotes(tx[d])'
      <3>1. ASSUME tx[d].does = "delete", NEW t \in Tracks,
                   tx[d].at \in {"lockVoted", "recount", "commit"},
                   votes'[t][tx[d].account] # None
            PROVE  t \in tx[d].tracks
        <4>1. tx[d].account \in tx[d].accountLocks /\ tx[d].account \in Accounts
          BY <2>1, <3>1 DEF Sound, HoldsItsRows, Transaction, RunsItsStatements
        <4>2. tx[d].account \notin tx[c].keyShares
          BY <4>1, OwnFacts
        <4>3. votes[t][tx[d].account] # None
          BY <1>4, <3>1, <4>1, <4>2
        <4>4. QED
          BY <2>1, <3>1, <4>3 DEF Sound, FindsItsVotes
      <3>2. QED
        BY <2>1, <3>1 DEF FindsItsVotes
    <2>6. CountsItsVotes(tx[d])'
      <3>1. ASSUME tx[d].at = "commit", NEW t \in tx[d].tracks
            PROVE  tx[d].counts[t] = Count(View(tx[d])[t])'
        <4>1. t \in Tracks /\ votes'[t] = votes[t]
          BY <2>1, <2>2, <3>1 DEF Transaction
        <4>2. View(tx[d])'[t] = View(tx[d])[t]
          BY <2>1, <4>1 DEF View
        <4>3. QED
          BY <2>1, <3>1, <4>2 DEF Sound, CountsItsVotes, Count
      <3>2. QED
        BY <2>1, <3>1 DEF CountsItsVotes
    <2>7. QED
      BY <1>1, <2>1, <2>4, <2>5, <2>6 DEF Sound, HoldsItsRows, RunsItsStatements
  <1>7. Sound(tx[c])'
    BY <1>1, CommitFacts DEF Idle, Begin, Sound, HoldsItsRows,
       HoldsItsAccount, FindsItsVotes, CountsItsVotes,
       RunsItsStatements
  <1>8. QED
    BY <1>1, <1>3, <1>5, <1>6, <1>7, CommitFacts DEF VotesInv

LEMMA CommitDeleteStep ==
  ASSUME VotesInv, NEW c \in Conns, CommitDelete(c)
  PROVE  VotesInv'
  <1> DEFINE a == tx[c].account
  <1>1. /\ At(c, "commit") /\ votes' = View(tx[c]) /\ CommitTally(c)
        /\ Becomes(c, Idle) /\ accounts' = accounts \ {a}
        /\ admins' = admins \ {a}
        /\ \A t \in Tracks : votes'[t][a] = None
        /\ uploader' = [t \in Tracks |-> IF uploader[t] = a THEN None
                                                            ELSE uploader[t]]
    BY DEF CommitDelete
  <1>2. /\ tx[c] \in Transaction /\ Sound(tx[c]) /\ tx[c].does = "delete"
        /\ a \in Accounts /\ a \in tx[c].accountLocks
        /\ tx \in [Conns -> Transaction]
        /\ \A d \in Conns : tx[d] \in Transaction /\ Sound(tx[d])
    BY <1>1, OwnFacts DEF CommitDelete, Sound, RunsItsStatements, At, Transaction,
       HoldsItsRows
  <1>3. TypeOK'
    BY <1>1, CommitFacts DEF VotesInv, TypeOK
  <1>4. \A t \in Tracks, b \in Accounts :
          b # a => votes'[t][b] = votes[t][b]
    BY <1>1, CommitFacts
  <1>5. RowsReferToAccounts'
    BY <1>1, <1>4 DEF VotesInv, RowsReferToAccounts, None
  <1>6. ASSUME NEW d \in Conns \ {c}
        PROVE  Sound(tx[d])'
    <2>1. /\ tx'[d] = tx[d] /\ Sound(tx[d]) /\ tx[d] \in Transaction
          /\ \A t \in tx[d].trackLocks : votes'[t] = votes[t]
      BY <1>1, <1>2, CommitFacts
    <2>2. a \notin tx[d].accountLocks /\ a \notin tx[d].keyShares
      BY <1>2, OwnFacts
    <2>3. tx[d].at = "commit" => tx[d].tracks \subseteq tx[d].trackLocks
      BY <2>1 DEF Sound, HoldsItsRows, Transaction
    <2>4. tx[d].written \subseteq tx[d].trackLocks
      BY <2>1 DEF Sound, HoldsItsRows, Transaction
    <2>5. HoldsItsAccount(tx[d])'
      BY <1>1, <2>1, <2>2, <2>4 DEF Sound, HoldsItsAccount
    <2>6. FindsItsVotes(tx[d])'
      <3>1. ASSUME tx[d].does = "delete", NEW t \in Tracks,
                   tx[d].at \in {"lockVoted", "recount", "commit"},
                   votes'[t][tx[d].account] # None
            PROVE  t \in tx[d].tracks
        <4>1. tx[d].account \in Accounts
          BY <2>1, <3>1 DEF Sound, RunsItsStatements
        <4>2. votes[t][tx[d].account] # None
          BY <1>1, <1>4, <3>1, <4>1
        <4>3. QED
          BY <2>1, <3>1, <4>2 DEF Sound, FindsItsVotes
      <3>2. QED
        BY <2>1, <3>1 DEF FindsItsVotes
    <2>7. CountsItsVotes(tx[d])'
      <3>1. ASSUME tx[d].at = "commit", NEW t \in tx[d].tracks
            PROVE  tx[d].counts[t] = Count(View(tx[d])[t])'
        <4>1. t \in Tracks /\ votes'[t] = votes[t]
          BY <2>1, <2>3, <3>1 DEF Transaction
        <4>2. View(tx[d])'[t] = View(tx[d])[t]
          BY <2>1, <4>1 DEF View
        <4>3. QED
          BY <2>1, <3>1, <4>2 DEF Sound, CountsItsVotes, Count
      <3>2. QED
        BY <2>1, <3>1 DEF CountsItsVotes
    <2>8. QED
      BY <2>1, <2>5, <2>6, <2>7 DEF Sound, HoldsItsRows,
         RunsItsStatements
  <1>7. Sound(tx[c])'
    <2>1. tx'[c] = Idle
      BY <1>1, CommitFacts
    <2>2. QED
      BY <2>1 DEF Idle, Begin, Sound, HoldsItsRows,
         HoldsItsAccount, FindsItsVotes, CountsItsVotes,
         RunsItsStatements
  <1>8. QED
    BY <1>1, <1>3, <1>5, <1>6, <1>7, CommitFacts DEF VotesInv

LEMMA SetAccountRoleStep ==
  ASSUME VotesInv, NEW a \in Accounts, SetAccountRole(a)
  PROVE  VotesInv'
  <1>1. /\ UNCHANGED <<accounts, uploader, votes, tally, tx>>
        /\ a \in accounts
        /\ admins' = admins \ {a} \/ admins' = admins \cup {a}
    BY DEF SetAccountRole
  <1>2. TypeOK' /\ RowsReferToAccounts' /\ TallyMatchesVotes' /\ LocksExclude'
    BY <1>1 DEF VotesInv, TypeOK, RowsReferToAccounts, TallyMatchesVotes,
                LocksExclude
  <1>3. ASSUME NEW c \in Conns
        PROVE  Sound(tx[c])'
    <2>1. tx'[c] = tx[c] /\ Sound(tx[c])
      BY <1>1 DEF SetAccountRole, VotesInv
    <2>2. QED
      BY <1>1, <2>1 DEF Sound, HoldsItsRows, HoldsItsAccount,
         FindsItsVotes, CountsItsVotes, View, RunsItsStatements
  <1>4. QED
    BY <1>2, <1>3 DEF VotesInv

LEMMA InitInv ==
  ASSUME Init
  PROVE  VotesInv
  <1>1. /\ accounts = Accounts /\ admins \subseteq Accounts
        /\ uploader \in [Tracks -> Accounts \cup {None}]
        /\ votes = [t \in Tracks |-> [a \in Accounts |-> None]]
        /\ tally = Zero /\ tx = [c \in Conns |-> Idle]
    BY VotesAssumption DEF Init
  <1>2. TypeOK
    BY <1>1, IdleIsSound DEF TypeOK, Zero, Tally
  <1>3. RowsReferToAccounts
    BY <1>1 DEF RowsReferToAccounts
  <1>4. TallyMatchesVotes
    <2>1. ASSUME NEW t \in Tracks
          PROVE  Count(votes[t]) = [up |-> 0, down |-> 0]
      <3>1. /\ {a \in Accounts : votes[t][a] = 1} = {}
            /\ {a \in Accounts : votes[t][a] = -1} = {}
        BY <1>1 DEF None
      <3>2. QED
        BY <3>1, FS_EmptySet DEF Count
    <2>2. QED
      BY <1>1, <2>1 DEF TallyMatchesVotes, Zero
  <1>5. LocksExclude
    BY <1>1 DEF LocksExclude, Idle, Begin
  <1>6. QED
    BY <1>1, <1>2, <1>3, <1>4, <1>5, IdleIsSound DEF VotesInv

LEMMA NextInv ==
  ASSUME VotesInv, [Next]_vars
  PROVE  VotesInv'
  <1>1. ASSUME NEW c \in Conns, Rollback(c)
        PROVE  VotesInv'
    BY <1>1, EndStep DEF Rollback
  <1>2. ASSUME NEW c \in Conns, Statement(c)
        PROVE  VotesInv'
    <2>1. CASE LockTrack(c)
      BY <2>1, LockTrackStep
    <2>2. CASE WriteVote(c)
      BY <2>2, WriteVoteStep
    <2>3. CASE RecomputeVoteCounts(c)
      BY <2>3, RecomputeStep
    <2>4. CASE CommitVote(c)
      BY <2>4, CommitVoteStep
    <2>5. CASE LockAccount(c)
      BY <2>5, LockAccountStep
    <2>6. CASE LockAdmin(c)
      BY <2>6, LockAdminStep
    <2>7. CASE CountAdmins(c)
      BY <2>7, CountAdminsStep
    <2>8. CASE UnlinkTrack(c)
      BY <2>8, LockingStep DEF UnlinkTrack, At
    <2>9. CASE FindVoted(c)
      BY <2>9, FindVotedStep
    <2>10. CASE LockVoted(c)
      BY <2>10, LockingStep DEF LockVoted, At
    <2>11. CASE DeleteVotes(c)
      BY <2>11, DeleteVotesStep
    <2>12. CASE CommitDelete(c)
      BY <2>12, CommitDeleteStep
    <2>13. CASE Refuse(c)
      BY <1>1, <2>13 DEF Refuse
    <2>14. QED
      BY <1>2, <2>1, <2>2, <2>3, <2>4, <2>5, <2>6, <2>7, <2>8, <2>9, <2>10,
         <2>11, <2>12, <2>13 DEF Statement
  <1>3. CASE UNCHANGED vars
    <2>1. (TypeOK /\ RowsReferToAccounts /\ TallyMatchesVotes /\ LocksExclude)'
      BY <1>3 DEF vars, VotesInv, TypeOK, RowsReferToAccounts,
         TallyMatchesVotes, Count, LocksExclude
    <2>2. ASSUME NEW c \in Conns
          PROVE  Sound(tx[c])'
      <3>1. tx' = tx /\ UNCHANGED tables /\ Sound(tx[c])
        BY <1>3 DEF vars, tables, VotesInv
      <3>2. QED
        BY <3>1 DEF tables, Sound, HoldsItsRows, HoldsItsAccount,
           FindsItsVotes, CountsItsVotes,
           RunsItsStatements, View
    <2>3. QED
      BY <2>1, <2>2 DEF VotesInv
  <1>4. QED
    BY <1>1, <1>2, <1>3, BeginSteps, SetAccountRoleStep DEF Next, DeadlockVictim

THEOREM VotesInvariant == Spec => []VotesInv
  BY InitInv, NextInv, PTL DEF Spec

\* Types are kept by every statement of every transaction.
THEOREM VotesTypeCorrect == Spec => []TypeOK
  <1>1. VotesInv => TypeOK
    BY DEF VotesInv
  <1>2. QED
    BY <1>1, VotesInvariant, PTL

\* The tallies are exact: a count is made with the track's row locked, and
\* what it counts is what its own commit makes the votes.
THEOREM TalliesAreExact == Spec => []TallyMatchesVotes
  <1>1. VotesInv => TallyMatchesVotes
    BY DEF VotesInv
  <1>2. QED
    BY <1>1, VotesInvariant, PTL

\* No vote and no track refers to an account that has been deleted.
THEOREM NothingRefersToTheDeleted == Spec => []RowsReferToAccounts
  <1>1. VotesInv => RowsReferToAccounts
    BY DEF VotesInv
  <1>2. QED
    BY <1>1, VotesInvariant, PTL
=============================================================================

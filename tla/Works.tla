------------------------------- MODULE Works -------------------------------
(* Works, the advisory groups of releases: LinkReleases and UnlinkRelease
   (internal/store/work.go) as the transactions they are, statement by
   statement, on PostgreSQL at READ COMMITTED: row locks, what a statement
   sees, the foreign key from releases to works, deadlock victims.  The
   derivation that follows a commit is in module Metadata. *)
EXTENDS Naturals, FiniteSets

CONSTANTS Links,          \* the connections linking or unlinking at a time
          Grouped,        \* release ids
          Groupings,      \* the works the database may start with, none of one release
          MaxTx           \* bound: transactions begun

ASSUME WorksConstants ==
  /\ Grouped \subseteq Nat \ {0} /\ IsFiniteSet(Grouped)
  /\ Groupings \subseteq [Grouped -> 0..Cardinality(Grouped)] /\ MaxTx \in Nat
  /\ \A g \in Groupings : \A r \in Grouped : g[r] # 0 => \E s \in Grouped \ {r} : g[s] = g[r]

VARIABLES
  work,      \* releases.work_id, 0 when NULL (committed)
  works,     \* the works table (committed)
  nextWork,  \* its sequence
  tx,        \* [Links -> the transaction there]
  txs,       \* transactions begun
  raced      \* works whose members changed around an unlink's count

worksVars == <<work, works, nextWork, tx, txs, raced>>

(* A transaction rewrites the rows in `rows`, all to work_id = into; it may
   insert the work `into` (made) and delete the work `drop` (gone). *)
NoTx == [op |-> "none", pc |-> "idle", a |-> 0, b |-> 0, wa |-> 0, wb |-> 0, locks |-> {},
         rows |-> {}, into |-> 0, made |-> FALSE, drop |-> 0, gone |-> FALSE, targets |-> {}]

WorkOf(c, r) == IF r \in tx[c].rows THEN tx[c].into ELSE work[r]
Seen(c, w) == {r \in Grouped : WorkOf(c, r) = w}

RowFree(c, r) == \A d \in Links \ {c} : r \notin tx[d].locks

\* The foreign key: who writes a work_id holds its work, who deletes it must not.
Shares(d, w) == tx[d].rows # {} /\ tx[d].into = w
Deletes(d, w) == tx[d].gone /\ tx[d].drop = w
WorkFree(c, w) == \A d \in Links \ {c} : ~Shares(d, w) /\ ~Deletes(d, w)

Becomes(c, t) == tx' = [tx EXCEPT ![c] = t]
Only(c, t) == Becomes(c, t) /\ UNCHANGED <<work, works, nextWork, txs, raced>>
AtTx(c, pc) == tx[c].pc = pc

Lower(a, b) == IF a < b THEN a ELSE b
Higher(a, b) == IF a < b THEN b ELSE a

BeginTx(c, t) ==
  /\ AtTx(c, "idle") /\ txs < MaxTx
  /\ Becomes(c, t) /\ txs' = txs + 1
  /\ UNCHANGED <<work, works, nextWork, raced>>

LinkReleases(c, a, b) ==
  /\ a # b
  /\ BeginTx(c, [NoTx EXCEPT !.op = "link", !.pc = "lockLo", !.a = a, !.b = b])

UnlinkRelease(c, a) == BeginTx(c, [NoTx EXCEPT !.op = "unlink", !.pc = "lock", !.a = a])

\* A mutant of the next: the work is read and the row not locked.
LockRow_read(c, r, pc, next) ==
  /\ AtTx(c, pc)
  /\ Only(c, [tx[c] EXCEPT !.pc = next, !.wa = IF r = tx[c].a THEN work[r] ELSE @,
                                         !.wb = IF r = tx[c].b THEN work[r] ELSE @])

\* SELECT work_id ... FOR UPDATE, in the order of the ids.
LockRow(c, r, pc, next) ==
  /\ AtTx(c, pc) /\ RowFree(c, r)
  /\ Only(c, [tx[c] EXCEPT !.pc = next, !.locks = @ \cup {r},
                           !.wa = IF r = tx[c].a THEN work[r] ELSE @,
                           !.wb = IF r = tx[c].b THEN work[r] ELSE @])

LockLo(c) == LockRow(c, Lower(tx[c].a, tx[c].b), "lockLo", "lockHi")
LockHi(c) == LockRow(c, Higher(tx[c].a, tx[c].b), "lockHi", "choose")
LockOne(c) == LockRow(c, tx[c].a, "lock", "leave")

(* ---- linking ---- *)

\* Neither has a work: one is inserted.
Create(c) ==
  /\ AtTx(c, "choose") /\ tx[c].wa = 0 /\ tx[c].wb = 0
  /\ Becomes(c, [tx[c] EXCEPT !.pc = "set", !.into = nextWork, !.made = TRUE])
  /\ nextWork' = nextWork + 1
  /\ UNCHANGED <<work, works, txs, raced>>

\* One has: the other joins it.
Join(c) ==
  /\ AtTx(c, "choose") /\ tx[c].wa # tx[c].wb
  /\ tx[c].wa = 0 \/ tx[c].wb = 0
  /\ Only(c, [tx[c] EXCEPT !.pc = "set", !.into = IF tx[c].wa = 0 THEN tx[c].wb ELSE tx[c].wa])

\* They share one: nothing to do.
AlreadyLinked(c) ==
  /\ AtTx(c, "choose") /\ tx[c].wa = tx[c].wb /\ tx[c].wa # 0
  /\ Only(c, NoTx)

\* Both have: the smaller is to be absorbed.
Size(c) ==
  /\ AtTx(c, "choose") /\ tx[c].wa # tx[c].wb /\ tx[c].wa # 0 /\ tx[c].wb # 0
  /\ LET larger == Cardinality(Seen(c, tx[c].wb)) > Cardinality(Seen(c, tx[c].wa))
     IN Only(c, [tx[c] EXCEPT !.pc = "find", !.into = IF larger THEN tx[c].wb ELSE tx[c].wa,
                                             !.drop = IF larger THEN tx[c].wa ELSE tx[c].wb])

\* UPDATE releases ... WHERE work_id = drop: the rows the statement finds,
\* then each of them as it can be locked, if it is still in that work.
FindRows(c) ==
  /\ AtTx(c, "find")
  /\ Only(c, [tx[c] EXCEPT !.pc = "move", !.targets = Seen(c, tx[c].drop)])

MoveRow(c, r) ==
  /\ AtTx(c, "move") /\ r \in tx[c].targets /\ RowFree(c, r)
  /\ Only(c, IF work[r] = tx[c].drop
             THEN [tx[c] EXCEPT !.targets = @ \ {r}, !.locks = @ \cup {r}, !.rows = @ \cup {r}]
             ELSE [tx[c] EXCEPT !.targets = @ \ {r}])

\* DELETE FROM works: it waits for whoever writes that work_id, and for the
\* rows that still have it; what is left of them refuses it.
Referring(c, w) == {r \in Grouped : work[r] = w /\ r \notin tx[c].rows}

DropWork(c) ==
  /\ AtTx(c, "move") /\ tx[c].targets = {} /\ WorkFree(c, tx[c].drop)
  /\ \A r \in Referring(c, tx[c].drop) : RowFree(c, r)
  /\ Only(c, IF Referring(c, tx[c].drop) # {} THEN NoTx
             ELSE [tx[c] EXCEPT !.gone = TRUE, !.pc = IF tx[c].op = "link" THEN "set" ELSE "commit"])

\* UPDATE ... WHERE id IN (a, b), if the work is there to refer to.
SetBoth(c) ==
  /\ AtTx(c, "set")
  /\ \A d \in Links \ {c} : ~Deletes(d, tx[c].into)
  /\ Only(c, IF tx[c].made \/ tx[c].into \in works
             THEN [tx[c] EXCEPT !.pc = "commit", !.rows = @ \cup {tx[c].a, tx[c].b}]
             ELSE NoTx)

(* ---- unlinking ---- *)

\* An ungrouped release is left alone.
Leave(c) ==
  /\ AtTx(c, "leave")
  /\ Only(c, IF tx[c].wa = 0 THEN NoTx
             ELSE [tx[c] EXCEPT !.pc = "count", !.rows = {tx[c].a}, !.into = 0, !.drop = tx[c].wa])

Leaving(d, w) == tx[d].op = "unlink" /\ tx[d].rows # {} /\ tx[d].drop = w

\* A mutant of the next: a work of one is kept.
CountLeft_one(c) ==
  /\ AtTx(c, "count")
  /\ Becomes(c, [tx[c] EXCEPT !.pc = IF Cardinality(Seen(c, tx[c].drop)) < 1 THEN "find" ELSE "commit"])
  /\ raced' = IF \E d \in Links \ {c} : Leaving(d, tx[c].drop)
              THEN raced \cup {tx[c].drop} ELSE raced
  /\ UNCHANGED <<work, works, nextWork, txs>>

\* Fewer than two are left: the work is dissolved.
CountLeft(c) ==
  /\ AtTx(c, "count")
  /\ Becomes(c, [tx[c] EXCEPT !.pc = IF Cardinality(Seen(c, tx[c].drop)) < 2 THEN "find" ELSE "commit"])
  /\ raced' = IF \E d \in Links \ {c} : Leaving(d, tx[c].drop)
              THEN raced \cup {tx[c].drop} ELSE raced
  /\ UNCHANGED <<work, works, nextWork, txs>>

(* ---- ends ---- *)

Commit(c) ==
  /\ AtTx(c, "commit")
  /\ work' = [r \in Grouped |-> WorkOf(c, r)]
  /\ works' = (works \cup (IF tx[c].made THEN {tx[c].into} ELSE {})) \ (IF tx[c].gone THEN {tx[c].drop} ELSE {})
  /\ Becomes(c, NoTx)
  /\ raced' = raced \cup {w \in works : Shares(c, w) /\ \E d \in Links : Leaving(d, w) /\ tx[d].pc \in {"find", "move"}}
  /\ UNCHANGED <<nextWork, txs>>

\* An error, a lost connection, or the deadlock detector's choice.
Abort(c) ==
  /\ ~AtTx(c, "idle")
  /\ Only(c, NoTx)

WorksInit ==
  /\ work \in Groupings
  /\ works = {work[r] : r \in Grouped} \ {0}
  /\ nextWork = Cardinality(Grouped) + 1
  /\ tx = [c \in Links |-> NoTx] /\ txs = 0 /\ raced = {}

WorksNext ==
  \E c \in Links :
    \/ \E a \in Grouped : UnlinkRelease(c, a) \/ \E b \in Grouped : LinkReleases(c, a, b)
    \/ LockLo(c) \/ LockHi(c) \/ LockOne(c)
    \/ Create(c) \/ Join(c) \/ AlreadyLinked(c) \/ Size(c)
    \/ FindRows(c) \/ (\E r \in Grouped : MoveRow(c, r)) \/ DropWork(c) \/ SetBoth(c)
    \/ Leave(c) \/ CountLeft(c)
    \/ Commit(c) \/ Abort(c)

WorksSpec == WorksInit /\ [][WorksNext]_worksVars

(* ---- properties ---- *)

Transaction == [op : {"none", "link", "unlink"},
                pc : {"idle", "lockLo", "lockHi", "lock", "choose", "find", "move", "set", "leave", "count", "commit"},
                a : Grouped \cup {0}, b : Grouped \cup {0}, wa : Nat, wb : Nat,
                locks : SUBSET Grouped, rows : SUBSET Grouped, into : Nat, made : BOOLEAN,
                drop : Nat, gone : BOOLEAN, targets : SUBSET Grouped]

WorksTypeOK ==
  /\ work \in [Grouped -> Nat] /\ works \subseteq Nat /\ nextWork \in Nat
  /\ tx \in [Links -> Transaction] /\ txs \in 0..MaxTx /\ raced \subseteq Nat

Together(r, s) == work[r] = work[s] /\ work[r] # 0

\* Whatever runs beside it, a link takes whole groups along: two releases of
\* one work are parted only by the unlinking of one of them (LinkReleases:
\* "repeatedly linking never fragments a set"), or when an unlink dissolves a
\* work that a link enlarged after it was counted.
OnlyUnlinkParts ==
  [][work' # work => \A r, s \in Grouped :
       r # s /\ Together(r, s) /\ ~(work'[r] = work'[s] /\ work'[r] # 0) =>
         \E c \in Links : /\ tx[c].op = "unlink" /\ tx'[c] = NoTx
                          /\ tx[c].a \in {r, s} \/ (tx[c].gone /\ tx[c].drop = work[r] /\ work[r] \in raced)]_worksVars

\* A work has members enough to be one, unless two unlinks counted what the
\* other was about to leave (UnlinkRelease).
NoLonelyWork ==
  \A w \in works \ raced : Cardinality({r \in Grouped : work[r] = w}) >= 2

\* Every release's work is there, and the works of running transactions are
\* not deleted under them: the foreign key never has to refuse an honest link.
WorksAreThere == \A r \in Grouped : work[r] # 0 => work[r] \in works
=============================================================================

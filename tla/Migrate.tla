------------------------------ MODULE Migrate ------------------------------
(* Opening the store: every process of a node (serve, the commands, replicas
   of different builds) applies the migrations it embeds before it does
   anything else (store/migrate.go, store/store.go Open).  One session-level
   advisory lock serialises them; the migrations themselves run on other
   connections of the pool, one transaction each, so a session that dies
   takes the lock away from a process that goes on migrating. *)
EXTENDS Naturals, FiniteSets

CONSTANTS Replicas,     \* the processes that open the store
          Known,        \* [Replicas -> how many migrations its build embeds]
          Newest,       \* the highest of them
          Nobody,       \* no replica
          MaxOpens      \* bound: times the store is opened

ASSUME MigrateConstants ==
  /\ Newest \in Nat /\ Known \in [Replicas -> 0..Newest]
  /\ Nobody \notin Replicas /\ MaxOpens \in Nat

VARIABLES
  recorded,   \* schema_migrations, committed
  ran,        \* [migration -> how often its statements were committed]
  holder,     \* whose session holds the advisory lock
  opener,     \* [Replicas -> the Open under way there]
  turnedAway, \* replicas whose Open failed on what another one had recorded
  opens,      \* times the store was opened
  cut         \* a lock's session died under a process that went on

migrateVars == <<recorded, ran, holder, opener, turnedAway, opens, cut>>

Versions == 1..Newest

\* Where an Open is, and the migration it is at.
NotOpen == [at |-> "off", next |-> 1]
Stages == {"off", "waiting", "checking", "applying", "recording", "committing", "open", "failed"}

MoveTo(p, at) == opener' = [opener EXCEPT ![p].at = at]

\* Open: the pool, and Migrate's own connection.
Open(p) ==
  /\ opener[p].at \in {"off", "failed"} /\ opens < MaxOpens
  /\ opener' = [opener EXCEPT ![p] = [NotOpen EXCEPT !.at = "waiting"]]
  /\ opens' = opens + 1
  /\ UNCHANGED <<recorded, ran, holder, turnedAway, cut>>

\* A mutant of the next: nobody is waited for.
AdvisoryLock_free(p) ==
  /\ opener[p].at = "waiting"
  /\ holder' = p /\ MoveTo(p, "checking")
  /\ UNCHANGED <<recorded, ran, turnedAway, opens, cut>>

\* pg_advisory_lock, waited for without a statement timeout.
AdvisoryLock(p) ==
  /\ opener[p].at = "waiting" /\ holder = Nobody
  /\ holder' = p /\ MoveTo(p, "checking")
  /\ UNCHANGED <<recorded, ran, turnedAway, opens, cut>>

Unlocked(p) == IF holder = p THEN Nobody ELSE holder

\* migrationApplied: a migration that is recorded is passed over.
PassOver(p) ==
  /\ opener[p].at = "checking" /\ opener[p].next <= Known[p]
  /\ opener[p].next \in recorded
  /\ opener' = [opener EXCEPT ![p].next = @ + 1]
  /\ UNCHANGED <<recorded, ran, holder, turnedAway, opens, cut>>

NotApplied(p) ==
  /\ opener[p].at = "checking" /\ opener[p].next <= Known[p]
  /\ opener[p].next \notin recorded
  /\ MoveTo(p, "applying")
  /\ UNCHANGED <<recorded, ran, holder, turnedAway, opens, cut>>

\* All that this build knows are there.
Migrated(p) ==
  /\ opener[p].at = "checking" /\ opener[p].next > Known[p]
  /\ MoveTo(p, "open") /\ holder' = Unlocked(p)
  /\ UNCHANGED <<recorded, ran, turnedAway, opens, cut>>

\* applyMigration: its statements, in a transaction.
Apply(p) ==
  /\ opener[p].at = "applying"
  /\ MoveTo(p, "recording")
  /\ UNCHANGED <<recorded, ran, holder, turnedAway, opens, cut>>

\* INSERT INTO schema_migrations: it waits for another transaction that
\* inserted the version and fails once that is committed.
Waits(p) == \E q \in Replicas \ {p} :
              opener[q].at = "committing" /\ opener[q].next = opener[p].next

Record(p) ==
  /\ opener[p].at = "recording" /\ ~Waits(p)
  /\ IF opener[p].next \in recorded
     THEN MoveTo(p, "failed") /\ holder' = Unlocked(p) /\ turnedAway' = turnedAway \cup {p}
     ELSE MoveTo(p, "committing") /\ UNCHANGED <<holder, turnedAway>>
  /\ UNCHANGED <<recorded, ran, opens, cut>>

\* The commit takes effect; its answer may be lost.
CommitMigration(p, heard) ==
  /\ opener[p].at = "committing"
  /\ recorded' = recorded \cup {opener[p].next}
  /\ ran' = [ran EXCEPT ![opener[p].next] = @ + 1]
  /\ IF heard
     THEN opener' = [opener EXCEPT ![p] = [at |-> "checking", next |-> @.next + 1]] /\ UNCHANGED holder
     ELSE MoveTo(p, "failed") /\ holder' = Unlocked(p)
  /\ UNCHANGED <<turnedAway, opens, cut>>

\* A mutant of the next: the statements stay when they were not recorded.
OpenFails_kept(p) ==
  /\ opener[p].at \notin {"off", "open", "failed"}
  /\ MoveTo(p, "failed") /\ holder' = Unlocked(p)
  /\ ran' = IF opener[p].at = "recording" THEN [ran EXCEPT ![opener[p].next] = @ + 1] ELSE ran
  /\ UNCHANGED <<recorded, turnedAway, opens, cut>>

\* An error, the 30 seconds of a command, a killed process: what is open is
\* rolled back, and the lock dies with its session.
OpenFails(p) ==
  /\ opener[p].at \notin {"off", "open", "failed"}
  /\ MoveTo(p, "failed") /\ holder' = Unlocked(p)
  /\ UNCHANGED <<recorded, ran, turnedAway, opens, cut>>

\* The session of the lock alone is lost: the process does not notice.
SessionCut(p) ==
  /\ holder = p /\ holder' = Nobody /\ cut' = TRUE
  /\ UNCHANGED <<recorded, ran, opener, turnedAway, opens>>

CloseStore(p) ==
  /\ opener[p].at = "open" /\ MoveTo(p, "off")
  /\ UNCHANGED <<recorded, ran, holder, turnedAway, opens, cut>>

\* A node of any age: the migrations of some build are there.
MigrateInit ==
  /\ \E n \in 0..Newest : recorded = 1..n
  /\ ran = [m \in Versions |-> IF m \in recorded THEN 1 ELSE 0]
  /\ holder = Nobody /\ opener = [p \in Replicas |-> NotOpen]
  /\ turnedAway = {} /\ opens = 0 /\ cut = FALSE

OpenStep(p) ==
  \/ AdvisoryLock(p) \/ PassOver(p) \/ NotApplied(p) \/ Migrated(p) \/ Apply(p) \/ Record(p)
  \/ \E heard \in BOOLEAN : CommitMigration(p, heard)

MigrateNext ==
  \E p \in Replicas : Open(p) \/ OpenStep(p) \/ OpenFails(p) \/ SessionCut(p) \/ CloseStore(p)

MigrateSpec == MigrateInit /\ [][MigrateNext]_migrateVars

(* ---- properties ---- *)

MigrateTypeOK ==
  /\ recorded \subseteq Versions /\ ran \in [Versions -> Nat]
  /\ holder \in Replicas \cup {Nobody}
  /\ opener \in [Replicas -> [at : Stages, next : 1..(Newest + 1)]]
  /\ turnedAway \subseteq Replicas
  /\ opens \in 0..MaxOpens /\ cut \in BOOLEAN

\* Each migration's statements are committed once, with its record, and in
\* the order of the names, whoever migrates, fails, crashes or loses the lock
\* beside it (applyMigration: "never leaves the migration half-applied and
\* half-recorded").
RunOnceInOrder ==
  /\ \A m \in Versions : ran[m] = IF m \in recorded THEN 1 ELSE 0
  /\ \A m \in recorded : 1..m \subseteq recorded

\* A store that is open has every migration its build embeds.
OpenIsMigrated == \A p \in Replicas : opener[p].at = "open" => 1..Known[p] \subseteq recorded

\* As long as no session of the lock dies early, nobody who opens the store is
\* turned away for what another one applied (Migrate: "the loser hits a
\* duplicate-key error on schema_migrations and crash-loops").
NoneRefused == turnedAway # {} => cut

MigrationsHold == RunOnceInOrder /\ OpenIsMigrated /\ NoneRefused
=============================================================================

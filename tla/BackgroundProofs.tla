--------------------------- MODULE BackgroundProofs ---------------------------
(***************************************************************************)
(* Theorems of what runs beside the requests: Stats, Sweep, Plugin and     *)
(* Migrate; and of the behaviours of MCBackground, which play one of them. *)
(* They hold for any requests, releases, library, settings, replicas and   *)
(* migrations, any mixture of builds, and any number of days, sweeps and   *)
(* processes.                                                              *)
(***************************************************************************)
EXTENDS MCBackground, WellFoundedInduction, TLAPS

\* Every set of numbers has a least one: the day a prune keeps, the candidate a
\* sweep takes next, the scene a batch starts with.
LEMMA LeastIs ==
  ASSUME NEW S \in SUBSET Nat, S # {}
  PROVE  \E r \in S : \A q \in S : r <= q
  <1>1. PICK R : R = {ss \in Nat \X Nat : ss[1] < ss[2]}
    OBVIOUS
  <1>2. IsWellFoundedOn(R, Nat)
    BY <1>1, NatLessThanWellFounded DEF OpToRel
  <1>3. PICK x \in S : \A y \in S : ~ (<<y, x>> \in R)
    BY <1>2, WFMin
  <1>4. \A y \in S : ~ (y < x)
    BY <1>1, <1>3
  <1> QED
    BY <1>4

-----------------------------------------------------------------------------
(* Migrate *)
Migrating == {"checking", "applying", "recording", "committing"}
Missing == {"applying", "recording", "committing"}

\* What holds of an Open under way at p: it starts at the first migration, everything before its migration is
\* there, what it is about to record is one its build embeds and, once it has
\* inserted the record, is not recorded by anyone else.
Sound(p, own) ==
  /\ own.at = "waiting" => own.next = 1
  /\ own.at \in Migrating => \A m \in Versions : m < own.next => m \in recorded
  /\ own.at \in Missing => own.next <= Known[p] /\ own.next \in Versions
  /\ own.at = "committing" => own.next \notin recorded
  /\ own.at = "open" => \A m \in Versions : m <= Known[p] => m \in recorded

\* The lock, while no session of it has been cut.
Guarded(p, own) ==
  ~cut => /\ own.at \in Migrating => holder = p
          /\ own.at \in Missing => own.next \notin recorded

OneRecords ==
  \A p, q \in Replicas :
    p # q /\ opener[p].at = "committing" /\ opener[q].at = "committing" =>
      opener[p].next # opener[q].next

InOrder == \A m \in recorded : \A k \in Versions : k < m => k \in recorded

Once == \A m \in Versions : ran[m] = IF m \in recorded THEN 1 ELSE 0

MigrateInv ==
  /\ MigrateTypeOK /\ Once /\ InOrder /\ OneRecords /\ NoneRefused
  /\ \A p \in Replicas : Sound(p, opener[p]) /\ Guarded(p, opener[p])

-----------------------------------------------------------------------------
LEMMA Numbers ==
  /\ Newest \in Nat /\ Nobody \notin Replicas /\ MaxOpens \in Nat
  /\ \A p \in Replicas : Known[p] \in Nat /\ Known[p] <= Newest
  BY MigrateConstants

\* What moves only the Open of p on, to a record of its own that is sound, and
\* leaves the tables alone keeps the invariant, provided the lock stays with
\* those who rely on it.
LEMMA OwnStep ==
  ASSUME MigrateInv, NEW p \in Replicas, NEW own,
         own \in [at : Stages, next : 1..(Newest + 1)],
         opener' = [opener EXCEPT ![p] = own],
         UNCHANGED <<recorded, ran, cut>>,
         turnedAway' \subseteq Replicas, NoneRefused', opens' \in 0..MaxOpens,
         holder' \in Replicas \cup {Nobody},
         Sound(p, own),
         ~cut /\ own.at \in Migrating => holder' = p,
         ~cut /\ own.at \in Missing => own.next \notin recorded,
         \A q \in Replicas \ {p} : ~cut /\ opener[q].at \in Migrating => holder' = holder,
         own.at = "committing" =>
           \A q \in Replicas \ {p} : opener[q].at = "committing" => opener[q].next # own.next
  PROVE  MigrateInv'
  <1>1. opener'[p] = own /\ \A q \in Replicas \ {p} : opener'[q] = opener[q]
    BY DEF MigrateInv, MigrateTypeOK
  <1>2. MigrateTypeOK'
    BY DEF MigrateInv, MigrateTypeOK
  <1>3. Once' /\ InOrder'
    BY DEF MigrateInv, Once, InOrder
  <1>4. OneRecords'
    BY <1>1 DEF MigrateInv, OneRecords
  <1>5. \A q \in Replicas : Sound(q, opener[q])'
    BY <1>1 DEF MigrateInv, Sound
  <1>6. \A q \in Replicas : Guarded(q, opener[q])'
    BY <1>1 DEF MigrateInv, Guarded
  <1>7. QED
    BY <1>2, <1>3, <1>4, <1>5, <1>6 DEF MigrateInv

LEMMA OwnTyped ==
  ASSUME MigrateInv, NEW p \in Replicas
  PROVE  /\ opener[p] \in [at : Stages, next : 1..(Newest + 1)]
         /\ opener[p].at \in Stages /\ opener[p].next \in 1..(Newest + 1)
         /\ opener[p] = [at |-> opener[p].at, next |-> opener[p].next]
         /\ Sound(p, opener[p]) /\ Guarded(p, opener[p])
         /\ holder \in Replicas \cup {Nobody}
  BY DEF MigrateInv, MigrateTypeOK

\* Only one migrates under an uncut lock.
LEMMA OneMigrates ==
  ASSUME MigrateInv, ~cut, NEW p \in Replicas, NEW q \in Replicas \ {p},
         holder = p \/ holder = Nobody
  PROVE  opener[q].at \notin Migrating
  BY Numbers DEF MigrateInv, Guarded

\* An Open that ends, however it does.
LEMMA EndStep ==
  ASSUME MigrateInv, NEW p \in Replicas, NEW at \in {"failed", "open", "off"},
         MoveTo(p, at), holder' \in {holder, Nobody}, holder' = holder \/ holder = p,
         UNCHANGED <<recorded, ran, opens, cut>>, turnedAway' \subseteq Replicas, NoneRefused',
         at = "open" => \A m \in Versions : m <= Known[p] => m \in recorded
  PROVE  MigrateInv'
  <1> DEFINE own == [at |-> at, next |-> opener[p].next]
  <1>1. opener' = [opener EXCEPT ![p] = own]
    <2>1. opener[p] = [at |-> opener[p].at, next |-> opener[p].next]
      BY OwnTyped
    <2>2. [opener[p] EXCEPT !.at = at] = own
      BY <2>1
    <2>3. QED
      BY <2>2 DEF MoveTo
  <1>2. own \in [at : Stages, next : 1..(Newest + 1)] /\ own.at = at
    BY OwnTyped DEF Stages
  <1>3. Sound(p, own)
    BY <1>2 DEF Sound, Migrating, Missing
  <1>4. holder' \in Replicas \cup {Nobody}
    BY OwnTyped
  <1>5. \A q \in Replicas \ {p} : ~cut /\ opener[q].at \in Migrating => holder' = holder
    BY OneMigrates
  <1>6. opens' \in 0..MaxOpens
    BY DEF MigrateInv, MigrateTypeOK
  <1>7. own.at \notin Migrating /\ own.at \notin Missing /\ own.at # "committing"
    BY <1>2 DEF Migrating, Missing
  <1> HIDE DEF own
  <1>8. QED
    BY <1>1, <1>2, <1>3, <1>4, <1>5, <1>6, <1>7, OwnStep

-----------------------------------------------------------------------------
LEMMA OpenKeeps ==
  ASSUME MigrateInv, NEW p \in Replicas, Open(p)
  PROVE  MigrateInv'
  <1> DEFINE own == [at |-> "waiting", next |-> 1]
  <1>1. opener' = [opener EXCEPT ![p] = own]
    <2>1. [NotOpen EXCEPT !.at = "waiting"] = own
      BY DEF NotOpen
    <2>2. QED
      BY <2>1 DEF Open
  <1>2. own \in [at : Stages, next : 1..(Newest + 1)] /\ own.at = "waiting"
    BY Numbers DEF Stages
  <1>3. Sound(p, own)
    BY <1>2 DEF Sound, Migrating, Missing
  <1>4. opens' \in 0..MaxOpens /\ NoneRefused' /\ turnedAway' \subseteq Replicas
    BY Numbers DEF Open, MigrateInv, MigrateTypeOK, NoneRefused
  <1>5. own.at \notin Migrating /\ own.at \notin Missing /\ own.at # "committing"
    BY <1>2 DEF Migrating, Missing
  <1>6. holder' = holder /\ holder' \in Replicas \cup {Nobody} /\ UNCHANGED <<recorded, ran, cut>>
    BY OwnTyped DEF Open
  <1> HIDE DEF own
  <1>7. QED
    BY <1>1, <1>2, <1>3, <1>4, <1>5, <1>6, OwnStep


\* What takes p's Open on within its migrations, keeping the lock.
LEMMA GoOn ==
  ASSUME MigrateInv, NEW p \in Replicas, NEW at \in Migrating, NEW next \in 1..(Newest + 1),
         opener' = [opener EXCEPT ![p] = [at |-> at, next |-> next]],
         UNCHANGED <<recorded, ran, holder, turnedAway, opens, cut>>,
         opener[p].at \in Migrating,
         \A m \in Versions : m < next => m \in recorded,
         at \in Missing => next <= Known[p] /\ next \in Versions,
         ~(at = "committing" /\ next \in recorded),
         ~cut /\ at \in Missing => next \notin recorded,
         \A q \in Replicas \ {p} : ~(at = "committing" /\ opener[q].at = "committing" /\ opener[q].next = next)
  PROVE  MigrateInv'
  <1> DEFINE own == [at |-> at, next |-> next]
  <1>1. own \in [at : Stages, next : 1..(Newest + 1)] /\ own.at = at /\ own.next = next
    BY DEF Stages, Migrating
  <1>2. Sound(p, own)
    BY <1>1 DEF Sound, Migrating
  <1>3. ~cut /\ own.at \in Migrating => holder' = p
    BY OwnTyped DEF Guarded
  <1>4. NoneRefused' /\ turnedAway' \subseteq Replicas /\ opens' \in 0..MaxOpens
    BY DEF MigrateInv, MigrateTypeOK, NoneRefused
  <1>5. holder' \in Replicas \cup {Nobody} /\ opener' = [opener EXCEPT ![p] = own]
    BY OwnTyped
  <1> HIDE DEF own
  <1>6. QED
    BY <1>1, <1>2, <1>3, <1>4, <1>5, OwnStep

\* The record a step leaves at p.
LEMMA Recast ==
  ASSUME MigrateInv, NEW p \in Replicas, NEW at
  PROVE  /\ MoveTo(p, at) => opener' = [opener EXCEPT ![p] = [at |-> at, next |-> opener[p].next]]
         /\ [opener EXCEPT ![p].next = @ + 1]
              = [opener EXCEPT ![p] = [at |-> opener[p].at, next |-> opener[p].next + 1]]
  <1>1. opener[p] = [at |-> opener[p].at, next |-> opener[p].next]
    BY OwnTyped
  <1>2. [opener[p] EXCEPT !.at = at] = [at |-> at, next |-> opener[p].next]
    BY <1>1
  <1>3. [opener[p] EXCEPT !.next = @ + 1] = [at |-> opener[p].at, next |-> opener[p].next + 1]
    BY <1>1
  <1>4. QED
    BY <1>2, <1>3 DEF MoveTo

LEMMA AdvisoryLockKeeps ==
  ASSUME MigrateInv, NEW p \in Replicas, AdvisoryLock(p)
  PROVE  MigrateInv'
  <1> DEFINE own == [at |-> "checking", next |-> opener[p].next]
  <1>1. opener' = [opener EXCEPT ![p] = own]
    BY Recast DEF AdvisoryLock
  <1>2. own \in [at : Stages, next : 1..(Newest + 1)] /\ own.at = "checking" /\ own.next = 1
    BY OwnTyped DEF Stages, Sound, AdvisoryLock
  <1>3. Sound(p, own)
    BY <1>2, Numbers DEF Sound, Missing, Versions
  <1>4. \A q \in Replicas \ {p} : ~cut => opener[q].at \notin Migrating
    BY OneMigrates DEF AdvisoryLock
  <1>5. NoneRefused' /\ turnedAway' \subseteq Replicas /\ opens' \in 0..MaxOpens
    BY DEF AdvisoryLock, MigrateInv, MigrateTypeOK, NoneRefused
  <1>6. holder' = p /\ UNCHANGED <<recorded, ran, cut>>
    BY DEF AdvisoryLock
  <1>7. own.at \notin Missing /\ own.at # "committing"
    BY <1>2 DEF Missing
  <1> HIDE DEF own
  <1>8. QED
    BY <1>1, <1>2, <1>3, <1>4, <1>5, <1>6, <1>7, OwnStep

LEMMA OwnNumbers ==
  ASSUME MigrateInv, NEW p \in Replicas
  PROVE  /\ Newest \in Nat /\ Known[p] \in Nat /\ Known[p] <= Newest
         /\ opener[p].next \in Nat /\ opener[p].next >= 1 /\ opener[p].next <= Newest + 1
         /\ \A m \in Versions : m \in Nat /\ m >= 1 /\ m <= Newest
         /\ \A m \in Nat : m >= 1 /\ m <= Newest => m \in Versions
  <1>1. Newest \in Nat /\ Known[p] \in Nat /\ Known[p] <= Newest
    BY Numbers
  <1>2. opener[p].next \in 1..(Newest + 1)
    BY OwnTyped
  <1>3. QED
    BY <1>1, <1>2 DEF Versions

LEMMA PassOverKeeps ==
  ASSUME MigrateInv, NEW p \in Replicas, PassOver(p)
  PROVE  MigrateInv'
  <1>1. opener' = [opener EXCEPT ![p] = [at |-> "checking", next |-> opener[p].next + 1]]
    BY Recast DEF PassOver
  <1>2. opener[p].next + 1 \in 1..(Newest + 1)
    BY OwnNumbers DEF PassOver
  <1>3. \A m \in Versions : m < opener[p].next + 1 => m \in recorded
    <2>1. \A m \in Versions : m < opener[p].next => m \in recorded
      BY OwnTyped DEF PassOver, Sound, Migrating
    <2>2. QED
      BY <2>1, OwnNumbers DEF PassOver
  <1>4. "checking" \in Migrating /\ "checking" \notin Missing /\ opener[p].at \in Migrating
    BY DEF PassOver, Migrating, Missing
  <1>5. UNCHANGED <<recorded, ran, holder, turnedAway, opens, cut>>
    BY DEF PassOver
  <1>6. QED
    BY <1>1, <1>2, <1>3, <1>4, <1>5, GoOn

LEMMA NotAppliedKeeps ==
  ASSUME MigrateInv, NEW p \in Replicas, NotApplied(p)
  PROVE  MigrateInv'
  <1>1. opener' = [opener EXCEPT ![p] = [at |-> "applying", next |-> opener[p].next]]
    BY Recast DEF NotApplied
  <1>2. opener[p].next \in 1..(Newest + 1) /\ opener[p].next \in Versions /\ opener[p].next <= Known[p]
    BY OwnNumbers DEF NotApplied
  <1>3. \A m \in Versions : m < opener[p].next => m \in recorded
    BY OwnTyped DEF NotApplied, Sound, Migrating
  <1>4. "applying" \in Migrating /\ "applying" # "committing" /\ opener[p].at \in Migrating /\ opener[p].next \notin recorded
    BY DEF NotApplied, Migrating
  <1>5. UNCHANGED <<recorded, ran, holder, turnedAway, opens, cut>>
    BY DEF NotApplied
  <1>6. QED
    BY <1>1, <1>2, <1>3, <1>4, <1>5, GoOn

LEMMA MigratedKeeps ==
  ASSUME MigrateInv, NEW p \in Replicas, Migrated(p)
  PROVE  MigrateInv'
  <1>1. \A m \in Versions : m <= Known[p] => m \in recorded
    <2>1. \A m \in Versions : m < opener[p].next => m \in recorded
      BY OwnTyped DEF Migrated, Sound, Migrating
    <2>2. QED
      BY <2>1, OwnNumbers DEF Migrated
  <1>2. MoveTo(p, "open") /\ holder' \in {holder, Nobody} /\ (holder' = holder \/ holder = p)
    BY DEF Migrated, Unlocked
  <1>3. NoneRefused' /\ turnedAway' \subseteq Replicas
    BY DEF Migrated, MigrateInv, MigrateTypeOK, NoneRefused
  <1>4. UNCHANGED <<recorded, ran, opens, cut>>
    BY DEF Migrated
  <1>5. QED
    BY <1>1, <1>2, <1>3, <1>4, EndStep

LEMMA ApplyKeeps ==
  ASSUME MigrateInv, NEW p \in Replicas, Apply(p)
  PROVE  MigrateInv'
  <1>1. opener' = [opener EXCEPT ![p] = [at |-> "recording", next |-> opener[p].next]]
    BY Recast DEF Apply
  <1>2. opener[p].next \in 1..(Newest + 1) /\ opener[p].next \in Versions /\ opener[p].next <= Known[p]
    BY OwnTyped DEF Apply, Sound, Missing
  <1>3. \A m \in Versions : m < opener[p].next => m \in recorded
    BY OwnTyped DEF Apply, Sound, Migrating
  <1>4. "recording" \in Migrating /\ "recording" # "committing" /\ opener[p].at \in Migrating
    BY DEF Apply, Migrating
  <1>5. ~cut => opener[p].next \notin recorded
    BY OwnTyped DEF Apply, Guarded, Missing
  <1>6. UNCHANGED <<recorded, ran, holder, turnedAway, opens, cut>>
    BY DEF Apply
  <1>7. QED
    BY <1>1, <1>2, <1>3, <1>4, <1>5, <1>6, GoOn

LEMMA RecordKeeps ==
  ASSUME MigrateInv, NEW p \in Replicas, Record(p)
  PROVE  MigrateInv'
  <1>1. CASE opener[p].next \in recorded
    <2>1. cut
      BY <1>1, OwnTyped DEF Record, Guarded, Missing
    <2>2. MoveTo(p, "failed") /\ holder' \in {holder, Nobody} /\ (holder' = holder \/ holder = p)
      BY <1>1 DEF Record, Unlocked
    <2>3. NoneRefused' /\ turnedAway' \subseteq Replicas
      BY <1>1, <2>1 DEF Record, MigrateInv, MigrateTypeOK, NoneRefused
    <2>4. UNCHANGED <<recorded, ran, opens, cut>>
      BY DEF Record
    <2>5. QED
      BY <2>2, <2>3, <2>4, EndStep
  <1>2. CASE opener[p].next \notin recorded
    <2>1. opener' = [opener EXCEPT ![p] = [at |-> "committing", next |-> opener[p].next]]
      BY <1>2, Recast DEF Record
    <2>2. opener[p].next \in 1..(Newest + 1) /\ opener[p].next \in Versions /\ opener[p].next <= Known[p]
      BY OwnTyped DEF Record, Sound, Missing
    <2>3. \A m \in Versions : m < opener[p].next => m \in recorded
      BY OwnTyped DEF Record, Sound, Migrating
    <2>4. "committing" \in Migrating /\ opener[p].at \in Migrating
      BY DEF Record, Migrating
    <2>5. \A q \in Replicas \ {p} : opener[q].at = "committing" => opener[q].next # opener[p].next
      BY DEF Record, Waits
    <2>6. UNCHANGED <<recorded, ran, holder, turnedAway, opens, cut>>
      BY <1>2 DEF Record
    <2>7. QED
      BY <1>2, <2>1, <2>2, <2>3, <2>4, <2>5, <2>6, GoOn
  <1>3. QED
    BY <1>1, <1>2

\* The one step that changes the tables: p records m.
LEMMA Recorded ==
  ASSUME MigrateInv, NEW p \in Replicas, NEW m \in Versions, NEW own,
         own \in [at : Stages, next : 1..(Newest + 1)],
         opener[p].at = "committing", opener[p].next = m,
         opener' = [opener EXCEPT ![p] = own],
         own.at \in {"checking", "failed"}, own.at = "checking" => own.next = m + 1,
         recorded' = recorded \cup {m}, ran' = [ran EXCEPT ![m] = @ + 1],
         holder' \in {holder, Nobody}, holder' = holder \/ (holder = p /\ own.at = "failed"),
         UNCHANGED <<turnedAway, opens, cut>>
  PROVE  MigrateInv'
  <1>1. m \notin recorded /\ m <= Known[p] /\ \A k \in Versions : k < m => k \in recorded
    BY OwnTyped DEF Sound, Migrating, Missing
  <1>2. opener'[p] = own /\ \A q \in Replicas \ {p} : opener'[q] = opener[q]
    BY DEF MigrateInv, MigrateTypeOK
  <1>3. MigrateTypeOK'
    BY DEF MigrateInv, MigrateTypeOK
  <1>4. Once'
    BY <1>1 DEF MigrateInv, MigrateTypeOK, Once
  <1>5. InOrder'
    BY <1>1 DEF MigrateInv, InOrder
  <1>6. OneRecords'
    BY <1>2 DEF MigrateInv, OneRecords
  <1>7. ASSUME NEW q \in Replicas
        PROVE  Sound(q, opener[q])'
    <2>1. CASE q = p
      <3>1. \A k \in Versions : k < m + 1 => k \in recorded'
        BY <1>1, OwnNumbers
      <3>2. QED
        BY <1>2, <2>1, <3>1 DEF Sound, Missing, Migrating
    <2>2. CASE q # p
      <3>1. opener[q].at = "committing" => opener[q].next # m
        BY <2>2 DEF MigrateInv, OneRecords
      <3>2. Sound(q, opener[q])
        BY OwnTyped
      <3>3. QED
        BY <1>2, <2>2, <3>1, <3>2 DEF Sound
    <2>3. QED
      BY <2>1, <2>2
  <1>8. ASSUME NEW q \in Replicas
        PROVE  Guarded(q, opener[q])'
    <2>1. ASSUME ~cut
          PROVE  holder = p /\ \A r \in Replicas \ {p} : opener[r].at \notin Migrating
      BY <2>1, OwnTyped, OneMigrates DEF Guarded, Migrating
    <2>2. own.at \notin Missing /\ (own.at \in Migrating => holder' = holder)
          /\ \A r \in Missing : r \in Migrating
      BY DEF Missing, Migrating
    <2>3. CASE q = p
      BY <1>2, <2>1, <2>2, <2>3 DEF Guarded
    <2>4. CASE q # p
      BY <1>2, <2>1, <2>2, <2>4 DEF Guarded
    <2>5. QED
      BY <2>3, <2>4
  <1>9. NoneRefused'
    BY DEF MigrateInv, NoneRefused
  <1>10. QED
    BY <1>3, <1>4, <1>5, <1>6, <1>7, <1>8, <1>9 DEF MigrateInv

LEMMA CommitKeeps ==
  ASSUME MigrateInv, NEW p \in Replicas, NEW heard \in BOOLEAN, CommitMigration(p, heard)
  PROVE  MigrateInv'
  <1>1. opener[p].next \in Versions /\ opener[p].at = "committing"
    BY OwnTyped DEF CommitMigration, Sound, Missing
  <1>2. /\ recorded' = recorded \cup {opener[p].next} /\ ran' = [ran EXCEPT ![opener[p].next] = @ + 1]
        /\ UNCHANGED <<turnedAway, opens, cut>>
    BY DEF CommitMigration
  <1>3. CASE heard
    <2> DEFINE own == [at |-> "checking", next |-> opener[p].next + 1]
    <2>1. opener' = [opener EXCEPT ![p] = own] /\ holder' = holder
      BY <1>3 DEF CommitMigration
    <2>2. own \in [at : Stages, next : 1..(Newest + 1)] /\ own.at = "checking"
          /\ own.next = opener[p].next + 1
      BY <1>1, OwnNumbers DEF Stages
    <2> HIDE DEF own
    <2>3. QED
      BY <1>1, <1>2, <2>1, <2>2, Recorded
  <1>4. CASE ~heard
    <2> DEFINE own == [at |-> "failed", next |-> opener[p].next]
    <2>1. opener' = [opener EXCEPT ![p] = own]
      BY <1>4, Recast DEF CommitMigration
    <2>2. own \in [at : Stages, next : 1..(Newest + 1)] /\ own.at = "failed"
      BY OwnTyped DEF Stages
    <2>3. holder' \in {holder, Nobody} /\ (holder' = holder \/ holder = p)
      BY <1>4 DEF CommitMigration, Unlocked
    <2> HIDE DEF own
    <2>4. QED
      BY <1>1, <1>2, <2>1, <2>2, <2>3, Recorded
  <1>5. QED
    BY <1>3, <1>4

LEMMA OpenFailsKeeps ==
  ASSUME MigrateInv, NEW p \in Replicas, OpenFails(p)
  PROVE  MigrateInv'
  <1>1. MoveTo(p, "failed") /\ holder' \in {holder, Nobody} /\ (holder' = holder \/ holder = p)
    BY DEF OpenFails, Unlocked
  <1>2. NoneRefused' /\ turnedAway' \subseteq Replicas
    BY DEF OpenFails, MigrateInv, MigrateTypeOK, NoneRefused
  <1>3. UNCHANGED <<recorded, ran, opens, cut>>
    BY DEF OpenFails
  <1>4. QED
    BY <1>1, <1>2, <1>3, EndStep

LEMMA CloseKeeps ==
  ASSUME MigrateInv, NEW p \in Replicas, CloseStore(p)
  PROVE  MigrateInv'
  <1>1. MoveTo(p, "off") /\ holder' = holder
    BY DEF CloseStore
  <1>2. NoneRefused' /\ turnedAway' \subseteq Replicas
    BY DEF CloseStore, MigrateInv, MigrateTypeOK, NoneRefused
  <1>3. UNCHANGED <<recorded, ran, opens, cut>>
    BY DEF CloseStore
  <1>4. QED
    BY <1>1, <1>2, <1>3, EndStep

LEMMA CutKeeps ==
  ASSUME MigrateInv, NEW p \in Replicas, SessionCut(p)
  PROVE  MigrateInv'
  BY DEF SessionCut, MigrateInv, MigrateTypeOK, Once, InOrder, OneRecords, NoneRefused, Sound, Guarded

LEMMA MigrateStep ==
  ASSUME MigrateInv, [MigrateNext]_migrateVars
  PROVE  MigrateInv'
  <1>1. CASE UNCHANGED migrateVars
    BY <1>1 DEF migrateVars, MigrateInv, MigrateTypeOK, Once, InOrder, OneRecords, NoneRefused, Sound, Guarded
  <1>2. CASE MigrateNext
    <2>1. PICK p \in Replicas : Open(p) \/ OpenStep(p) \/ OpenFails(p) \/ SessionCut(p) \/ CloseStore(p)
      BY <1>2 DEF MigrateNext
    <2>2. CASE Open(p)
      BY <2>2, OpenKeeps
    <2>3. CASE OpenFails(p)
      BY <2>3, OpenFailsKeeps
    <2>4. CASE SessionCut(p)
      BY <2>4, CutKeeps
    <2>5. CASE CloseStore(p)
      BY <2>5, CloseKeeps
    <2>6. CASE OpenStep(p)
      BY <2>6, AdvisoryLockKeeps, PassOverKeeps, NotAppliedKeeps, MigratedKeeps, ApplyKeeps,
         RecordKeeps, CommitKeeps DEF OpenStep
    <2>7. QED
      BY <2>1, <2>2, <2>3, <2>4, <2>5, <2>6
  <1>3. QED
    BY <1>1, <1>2

LEMMA MigrateStart ==
  MigrateInit => MigrateInv
  <1> SUFFICES ASSUME MigrateInit
               PROVE  MigrateInv
    OBVIOUS
  <1>1. PICK n \in 0..Newest : recorded = 1..n
    BY DEF MigrateInit
  <1>2. NotOpen \in [at : Stages, next : 1..(Newest + 1)] /\ NotOpen.at = "off"
    BY Numbers DEF NotOpen, Stages
  <1>3. opener = [p \in Replicas |-> NotOpen] /\ holder = Nobody /\ turnedAway = {} /\ opens = 0 /\ cut = FALSE
        /\ ran = [m \in Versions |-> IF m \in recorded THEN 1 ELSE 0]
    BY DEF MigrateInit
  <1>4. MigrateTypeOK
    <2>1. recorded \subseteq Versions /\ 0 \in 0..MaxOpens /\ {0, 1} \subseteq Nat
      BY <1>1, Numbers DEF Versions
    <2>2. ran \in [Versions -> Nat]
      BY <1>3
    <2>3. QED
      BY <1>2, <1>3, <2>1, <2>2 DEF MigrateTypeOK
  <1>5. Once /\ InOrder /\ NoneRefused
    BY <1>1, <1>3, Numbers DEF Once, InOrder, NoneRefused, Versions
  <1>6. \A p \in Replicas : opener[p].at = "off"
    BY <1>2, <1>3
  <1>7. OneRecords /\ \A p \in Replicas : Sound(p, opener[p]) /\ Guarded(p, opener[p])
    BY <1>6 DEF OneRecords, Sound, Guarded, Migrating, Missing
  <1>8. QED
    BY <1>4, <1>5, <1>7 DEF MigrateInv

\* The inductive invariant, of every behaviour.
THEOREM MigrateInvariant == MigrateSpec => []MigrateInv
  <1>1. MigrateInv /\ [MigrateNext]_migrateVars => MigrateInv'
    BY MigrateStep
  <1>2. QED
    BY <1>1, MigrateStart, PTL DEF MigrateSpec

\* Every migration's statements are committed exactly once, with their record
\* and in the order of the names; a store that is open has all its build
\* embeds; and nobody is turnedAway while the lock's sessions live (Migrate,
\* applyMigration, Open).
THEOREM SchemaIsSound == MigrateSpec => []MigrationsHold
  <1>1. MigrateInv => MigrationsHold
    <2> SUFFICES ASSUME MigrateInv
                 PROVE  MigrationsHold
      OBVIOUS
    <2>1. \A m \in recorded : 1..m \subseteq recorded
      BY Numbers DEF MigrateInv, MigrateTypeOK, InOrder, Versions
    <2>2. OpenIsMigrated
      BY Numbers DEF MigrateInv, Sound, OpenIsMigrated, Versions
    <2>3. QED
      BY <2>1, <2>2 DEF MigrationsHold, RunOnceInOrder, MigrateInv, Once
  <1>2. QED
    BY <1>1, MigrateInvariant, PTL

\* The variables have their types.
THEOREM MigrateTypes == MigrateSpec => []MigrateTypeOK
  <1>1. MigrateInv => MigrateTypeOK
    BY DEF MigrateInv
  <1>2. QED
    BY <1>1, MigrateInvariant, PTL

-----------------------------------------------------------------------------
(* Stats *)
Tallied == [Keys -> Nat]

\* The final flush is on, or over, and the database has accepted it so far.
Final == last /\ ~refused /\ http # "down"

\* What the flush has already taken out of memory and not put back.
Emptied == IF run = "swap" THEN Counters \ swaps
           ELSE IF run \in {"merge", "days"} THEN Counters ELSE Keys

\* What is counted waits in memory or in the flush that took it out; where no
\* flush holds anything, delta says so; and what the final flush has taken out
\* came in again only after the signal.
StatsInv ==
  /\ StatsTypeOK
  /\ last => ctxDone
  /\ run = "wait" => ~last
  /\ run = "ended" => last \/ http = "down"
  /\ http = "down" => run = "ended"
  /\ run \in {"wait", "days", "prune", "ended"} => \A k \in Keys : delta[k] = 0
  /\ run = "swap" => \A k \in swaps \cup Days : delta[k] = 0
  /\ Final => \A k \in Emptied : mem[k] <= late[k]

-----------------------------------------------------------------------------
LEMMA KeysAre ==
  /\ Counters \subseteq Keys /\ Days \subseteq Keys /\ \A k \in Keys : k \in Counters \/ k \in Days
  /\ \A k \in Counters : k \notin Days
  /\ \A d \in 0..MaxDay : Day(d) \in Days
  BY DEF Keys, Counters, Days, Day, Views, Lookups, Hits

LEMMA CounterIs ==
  ASSUME today \in 0..MaxDay, NEW what \in {"views", "lookups", "hits", "download"}
  PROVE  CounterOf(what) \in Keys
  <1>1. Views \in Keys /\ Lookups \in Keys /\ Hits \in Keys /\ Day(today) \in Keys
    BY KeysAre DEF Counters
  <1> QED
    BY <1>1 DEF CounterOf

LEMMA NothingIs ==
  /\ Nothing \in Tallied /\ \A k \in Keys : Nothing[k] = 0
  /\ \A f \in Tallied : (\A k \in Keys : f[k] = 0) => f = Nothing
  BY DEF Nothing, Tallied

LEMMA Sums ==
  ASSUME NEW f \in Tallied, NEW g \in Tallied
  PROVE  Plus(f, g) \in Tallied /\ \A k \in Keys : Plus(f, g)[k] = f[k] + g[k]
  BY DEF Plus, Tallied

LEMMA Parts ==
  ASSUME NEW f \in Tallied, NEW S
  PROVE  Only(f, S) \in Tallied /\ \A k \in Keys : Only(f, S)[k] = IF k \in S THEN f[k] ELSE 0
  BY DEF Only, Tallied

LEMMA StatsTyped ==
  StatsTypeOK <=>
    /\ open \subseteq served /\ served \subseteq Requests
    /\ todo \in [Requests -> SUBSET {"views", "lookups", "hits", "download"}]
    /\ http \in {"serving", "draining", "drained", "failed", "down"}
    /\ ctxDone \in BOOLEAN /\ last \in BOOLEAN /\ refused \in BOOLEAN
    /\ run \in {"wait", "swap", "merge", "days", "mergeDays", "prune", "ended"}
    /\ swaps \subseteq Counters
    /\ mem \in Tallied /\ delta \in Tallied /\ stored \in Tallied
    /\ late \in Tallied /\ doubt \in Tallied
    /\ today \in 0..MaxDay
  BY DEF StatsTypeOK, Tallied

LEMMA StatsTypedNext ==
  ASSUME open' \subseteq served', served' \subseteq Requests,
         todo' \in [Requests -> SUBSET {"views", "lookups", "hits", "download"}],
         http' \in {"serving", "draining", "drained", "failed", "down"},
         ctxDone' \in BOOLEAN, last' \in BOOLEAN, refused' \in BOOLEAN,
         run' \in {"wait", "swap", "merge", "days", "mergeDays", "prune", "ended"},
         swaps' \subseteq Counters,
         mem' \in Tallied, delta' \in Tallied, stored' \in Tallied,
         late' \in Tallied, doubt' \in Tallied, today' \in 0..MaxDay
  PROVE  StatsTypeOK'
  BY DEF StatsTypeOK, Tallied, Keys, Counters, Days, Day, Views, Lookups, Hits

LEMMA StatsStart == StatsInit => StatsInv
  <1> SUFFICES ASSUME StatsInit PROVE StatsInv
    OBVIOUS
  <1>1. StatsTypeOK
    <2>1. 0 \in 0..MaxDay
      BY StatsConstants
    <2>2. PICK n \in Tallied : n = Nothing
      BY NothingIs
    <2> QED
      BY <2>1, <2>2, StatsTyped DEF StatsInit
  <1>2. run = "wait" /\ ~ last /\ delta = Nothing /\ http = "serving"
    BY DEF StatsInit
  <1> QED
    BY <1>1, <1>2, NothingIs DEF StatsInv, Final

-----------------------------------------------------------------------------
\* A step that leaves the counts, Run and the ghosts alone.
LEMMA ServerStep ==
  ASSUME StatsInv, open' \subseteq served', served' \subseteq Requests,
         todo' \in [Requests -> SUBSET {"views", "lookups", "hits", "download"}],
         http' \in {"serving", "draining", "drained", "failed", "down"},
         (http' = "down") <=> (http = "down"),
         ctxDone' \in BOOLEAN, ctxDone => ctxDone', today' \in 0..MaxDay,
         UNCHANGED <<runVars, mem, delta, stored, ghostVars>>
  PROVE  StatsInv'
  <1>1. StatsTypeOK'
    BY StatsTyped, StatsTypedNext DEF StatsInv, runVars, ghostVars
  <1> QED
    BY <1>1 DEF StatsInv, Final, Emptied, runVars, ghostVars

LEMMA AcceptStep ==
  ASSUME StatsInv, NEW r \in Requests, NEW work \in Work[r], Accept(r, work)
  PROVE  StatsInv'
  <1>1. work \in SUBSET {"views", "lookups", "hits", "download"}
    BY StatsConstants
  <1> QED
    BY <1>1, ServerStep, StatsTyped DEF StatsInv, Accept, serverVars

LEMMA CountStep ==
  ASSUME StatsInv, NEW r \in Requests, NEW what \in {"views", "lookups", "hits", "download"},
         Count(r, what)
  PROVE  StatsInv'
  <1>1. PICK k \in Keys : k = CounterOf(what)
    BY CounterIs DEF StatsInv, StatsTypeOK
  <1>2. /\ mem' = [mem EXCEPT ![k] = @ + 1]
        /\ late' = IF ctxDone THEN [late EXCEPT ![k] = @ + 1] ELSE late
        /\ todo' = [todo EXCEPT ![r] = @ \ {what}]
        /\ UNCHANGED <<open, served, serverVars, runVars, delta, stored, today, doubt>>
    BY <1>1 DEF Count
  <1>3. mem \in Tallied /\ late \in Tallied
    BY StatsTyped DEF StatsInv
  <1>4. mem' \in Tallied /\ \A j \in Keys : mem'[j] = IF j = k THEN mem[j] + 1 ELSE mem[j]
    BY <1>2, <1>3 DEF Tallied
  <1>5. /\ late' \in Tallied
        /\ ctxDone => \A j \in Keys : late'[j] = IF j = k THEN late[j] + 1 ELSE late[j]
    BY <1>2, <1>3 DEF Tallied
  <1>6. StatsTypeOK'
    BY <1>2, <1>4, <1>5, StatsTyped, StatsTypedNext DEF StatsInv, serverVars, runVars
  <1>7. ASSUME Final, NEW j \in Emptied
        PROVE  mem'[j] <= late'[j]
    <2>1. ctxDone /\ mem[j] <= late[j] /\ j \in Keys
      BY <1>7, KeysAre DEF StatsInv, Final, Emptied
    <2> QED
      BY <1>3, <1>4, <1>5, <2>1 DEF Tallied
  <1>8. Final' = Final /\ Emptied' = Emptied
    BY <1>2 DEF Final, Emptied, serverVars, runVars
  <1> QED
    BY <1>2, <1>6, <1>7, <1>8 DEF StatsInv, serverVars, runVars

LEMMA WakeStep ==
  ASSUME StatsInv, NEW done \in BOOLEAN, Wake(done)
  PROVE  StatsInv'
  <1>1. /\ run = "wait" /\ (done => ctxDone)
        /\ run' = "swap" /\ last' = done /\ swaps' = Counters
        /\ UNCHANGED <<open, todo, served, http, ctxDone, refused, mem, delta, stored, today, late, doubt>>
    BY DEF Wake, requestVars, serverVars, ghostVars
  <1>2. StatsTypeOK'
    BY <1>1, StatsTyped, StatsTypedNext DEF StatsInv
  <1>3. \A k \in Keys : delta[k] = 0
    BY <1>1 DEF StatsInv
  <1> QED
    BY <1>1, <1>2, <1>3, KeysAre DEF StatsInv, Final, Emptied

LEMMA SwapStep ==
  ASSUME StatsInv, NEW k \in Counters, Swap(k)
  PROVE  StatsInv'
  <1>1. /\ run = "swap" /\ k \in swaps /\ swaps' = swaps \ {k}
        /\ delta' = [delta EXCEPT ![k] = mem[k]] /\ mem' = [mem EXCEPT ![k] = 0]
        /\ run' = IF swaps # {k} THEN "swap" ELSE IF delta' = Nothing THEN "days" ELSE "merge"
        /\ UNCHANGED <<open, todo, served, http, ctxDone, last, refused, stored, today, late, doubt>>
    BY DEF Swap, requestVars, serverVars, ghostVars
  <1>2. mem \in Tallied /\ delta \in Tallied /\ k \in Keys /\ late \in Tallied
    BY StatsTyped, KeysAre DEF StatsInv
  <1>3. /\ delta' \in Tallied /\ mem' \in Tallied
        /\ \A j \in Keys : delta'[j] = IF j = k THEN mem[j] ELSE delta[j]
        /\ \A j \in Keys : mem'[j] = IF j = k THEN 0 ELSE mem[j]
    BY <1>1, <1>2 DEF Tallied
  <1>4. StatsTypeOK'
    BY <1>1, <1>3, StatsTyped, StatsTypedNext DEF StatsInv
  <1>5. \A j \in Keys : late[j] \in Nat
    BY <1>2 DEF Tallied
  <1>6. run' = "days" => \A j \in Keys : delta'[j] = 0
    BY <1>1, NothingIs
  <1>7. run' = "swap" => \A j \in swaps' \cup Days : delta'[j] = 0
    BY <1>1, <1>3, KeysAre DEF StatsInv, StatsTypeOK
  <1>8. ASSUME Final', NEW j \in Emptied'
        PROVE  mem'[j] <= late'[j]
    <2>1. j \in Counters
      BY <1>1, <1>8 DEF Emptied
    <2>2. j = k \/ j \in Counters \ swaps
      BY <1>1, <1>8, <2>1 DEF Emptied
    <2>3. j # k => mem[j] <= late[j]
      BY <1>1, <1>8, <2>2 DEF StatsInv, Final, Emptied
    <2> QED
      BY <1>1, <1>3, <1>5, <2>1, <2>3, KeysAre
  <1> QED
    BY <1>1, <1>4, <1>6, <1>7, <1>8 DEF StatsInv

LEMMA SwapDaysStep ==
  ASSUME StatsInv, SwapDays
  PROVE  StatsInv'
  <1>1. /\ run = "days" /\ delta' = Only(mem, Days) /\ mem' = Only(mem, Counters)
        /\ run' = IF delta' = Nothing THEN "prune" ELSE "mergeDays"
        /\ UNCHANGED <<open, todo, served, http, ctxDone, last, swaps, refused, stored, today, late, doubt>>
    BY DEF SwapDays, requestVars, serverVars, ghostVars
  <1>2. mem \in Tallied /\ late \in Tallied
    BY StatsTyped DEF StatsInv
  <1>3. /\ delta' \in Tallied /\ mem' \in Tallied
        /\ \A j \in Keys : mem'[j] = IF j \in Counters THEN mem[j] ELSE 0
    BY <1>1, <1>2, Parts
  <1>4. StatsTypeOK'
    BY <1>1, <1>3, StatsTyped, StatsTypedNext DEF StatsInv
  <1>5. \A j \in Keys : late[j] \in Nat
    BY <1>2 DEF Tallied
  <1>6. run' = "prune" => \A j \in Keys : delta'[j] = 0
    BY <1>1, NothingIs
  <1>7. ASSUME Final', NEW j \in Emptied'
        PROVE  mem'[j] <= late'[j]
    <2>1. j \in Keys
      BY <1>1, <1>7 DEF Emptied
    <2>2. j \in Counters => mem[j] <= late[j]
      BY <1>1, <1>7 DEF StatsInv, Final, Emptied
    <2> QED
      BY <1>1, <1>3, <1>5, <2>1, <2>2
  <1> QED
    BY <1>1, <1>4, <1>6, <1>7 DEF StatsInv

\* The end of a merge, whatever came of it: if it failed, the final flush is
\* known to have been refused.
LEMMA MergeEnds ==
  ASSUME StatsInv, Merging, mem' \in Tallied, delta' = Nothing, stored' \in Tallied,
         doubt' \in Tallied, run' = AfterMerge, refused' \in BOOLEAN,
         last /\ ~ refused' => ~ refused /\ mem' = mem,
         UNCHANGED <<requestVars, serverVars, last, swaps, today, late>>
  PROVE  StatsInv'
  <1>1. /\ run \in {"merge", "mergeDays"} /\ run' = IF run = "merge" THEN "days" ELSE "prune"
        /\ UNCHANGED <<open, todo, served, http, ctxDone>>
    BY DEF Merging, AfterMerge, requestVars, serverVars
  <1>2. delta' \in Tallied /\ \A k \in Keys : delta'[k] = 0
    BY NothingIs
  <1>3. StatsTypeOK'
    BY <1>1, <1>2, StatsTyped, StatsTypedNext DEF StatsInv
  <1>4. ASSUME Final', NEW j \in Emptied'
        PROVE  mem'[j] <= late'[j]
    BY <1>1, <1>4 DEF StatsInv, Final, Emptied
  <1> QED
    BY <1>1, <1>2, <1>3, <1>4 DEF StatsInv

LEMMA MergeStep ==
  ASSUME StatsInv, MergeOK \/ MergeFails \/ MergeUnsure
  PROVE  StatsInv'
  <1>1. /\ mem \in Tallied /\ delta \in Tallied /\ stored \in Tallied /\ doubt \in Tallied
        /\ refused \in BOOLEAN /\ last \in BOOLEAN
    BY StatsTyped DEF StatsInv
  <1>2. /\ Plus(mem, delta) \in Tallied /\ Plus(stored, delta) \in Tallied
        /\ Plus(doubt, delta) \in Tallied
    BY <1>1, Sums
  <1>3. CASE MergeOK
    BY <1>1, <1>2, <1>3, MergeEnds DEF MergeOK, ghostVars
  <1>4. CASE MergeFails
    BY <1>1, <1>2, <1>4, MergeEnds DEF MergeFails, ghostVars
  <1>5. CASE MergeUnsure
    BY <1>1, <1>2, <1>5, MergeEnds DEF MergeUnsure
  <1> QED
    BY <1>3, <1>4, <1>5

LEMMA PruneIs ==
  ASSUME StatsInv, PruneDownloads
  PROVE  /\ stored' \in Tallied
         /\ \A k \in Keys : stored'[k] = stored[k] \/ (k \in Days /\ stored'[k] = 0)
  <1>1. stored \in Tallied
    BY StatsTyped DEF StatsInv
  <1>2. \/ stored' = stored
        \/ stored' = [k \in Keys |-> IF \E d \in 0..MaxDay : k = Day(d) /\ d + Retention < today
                                     THEN 0 ELSE stored[k]]
    BY DEF PruneDownloads
  <1>3. \A k \in Keys : (\E d \in 0..MaxDay : k = Day(d) /\ d + Retention < today) => k \in Days
    BY KeysAre
  <1> QED
    BY <1>1, <1>2, <1>3 DEF Tallied

LEMMA PruneStep ==
  ASSUME StatsInv, PruneDownloads
  PROVE  StatsInv'
  <1>1. /\ run = "prune" /\ run' = IF last THEN "ended" ELSE "wait"
        /\ UNCHANGED <<open, todo, served, http, ctxDone, last, swaps, refused, mem, delta, today, late, doubt>>
    BY DEF PruneDownloads, requestVars, serverVars, ghostVars
  <1>2. StatsTypeOK'
    BY <1>1, PruneIs, StatsTyped, StatsTypedNext DEF StatsInv
  <1> QED
    BY <1>1, <1>2 DEF StatsInv, Final, Emptied

LEMMA ProcessEndsStep ==
  ASSUME StatsInv, ProcessEnds
  PROVE  StatsInv'
  <1>1. /\ http' = "down" /\ ctxDone' = TRUE /\ open' = {} /\ todo' = [r \in Requests |-> {}]
        /\ run' = "ended" /\ swaps' = {} /\ mem' = Nothing /\ delta' = Nothing
        /\ UNCHANGED <<served, last, refused, stored, today, late, doubt>>
    BY DEF ProcessEnds
  <1>2. StatsTypeOK'
    BY <1>1, NothingIs, StatsTyped, StatsTypedNext DEF StatsInv
  <1> QED
    BY <1>1, <1>2, NothingIs DEF StatsInv, Final

LEMMA RestartStep ==
  ASSUME StatsInv, Restart
  PROVE  StatsInv'
  <1>1. /\ http = "down" /\ http' = "serving" /\ ctxDone' = FALSE
        /\ run' = "wait" /\ last' = FALSE /\ refused' = FALSE /\ late' = Nothing
        /\ UNCHANGED <<open, todo, served, swaps, mem, delta, stored, today, doubt>>
    BY DEF Restart, requestVars
  <1>2. StatsTypeOK'
    BY <1>1, NothingIs, StatsTyped, StatsTypedNext DEF StatsInv
  <1> QED
    BY <1>1, <1>2 DEF StatsInv, Final

LEMMA StatsStep == StatsInv /\ [StatsNext]_statsVars => StatsInv'
  <1> SUFFICES ASSUME StatsInv, [StatsNext]_statsVars PROVE StatsInv'
    OBVIOUS
  <1>1. ASSUME NEW r \in Requests, Answer(r)
        PROVE  StatsInv'
    BY <1>1, ServerStep, StatsTyped DEF StatsInv, Answer, serverVars
  <1>2. CASE Signal \/ ListenFails
    BY <1>2, ServerStep, StatsTyped DEF StatsInv, Signal, ListenFails, requestVars
  <1>3. ASSUME NEW timeout \in BOOLEAN, ShutdownReturns(timeout)
        PROVE  StatsInv'
    BY <1>3, ServerStep, StatsTyped DEF StatsInv, ShutdownReturns, requestVars
  <1>4. CASE DayPasses
    <2>1. today' \in 0..MaxDay
      BY <1>4, StatsConstants DEF StatsInv, StatsTypeOK, DayPasses
    <2> QED
      BY <1>4, <2>1, ServerStep, StatsTyped DEF StatsInv, DayPasses, requestVars, serverVars
  <1>5. CASE Exit \/ Crash
    BY <1>5, ProcessEndsStep DEF Exit, Crash
  <1>6. CASE UNCHANGED statsVars
    BY <1>6, ServerStep, StatsTyped DEF StatsInv, statsVars, requestVars, serverVars
  <1> QED
    BY <1>1, <1>2, <1>3, <1>4, <1>5, <1>6, AcceptStep, CountStep, WakeStep, SwapStep,
       SwapDaysStep, MergeStep, PruneStep, RestartStep DEF StatsNext

\* What was counted before the signal is stored when Run has ended, unless the
\* database refused its last flush.
THEOREM EarlierCountsAreFlushed == StatsSpec => [](StatsTypeOK /\ EarlierCountsFlushed)
  <1>1. StatsInv => StatsTypeOK /\ EarlierCountsFlushed
    <2> SUFFICES ASSUME StatsInv, run = "ended", http # "down", ~refused, NEW k \in Keys
                 PROVE  mem[k] + delta[k] <= late[k]
      BY DEF StatsInv, EarlierCountsFlushed
    <2>1. Final /\ Emptied = Keys /\ delta[k] = 0
      BY DEF StatsInv, Final, Emptied
    <2>2. mem[k] <= late[k] /\ mem[k] \in Nat /\ late[k] \in Nat
      BY <2>1, StatsTyped DEF StatsInv, Tallied
    <2> QED
      BY <2>1, <2>2
  <1> QED
    BY <1>1, StatsStart, StatsStep, PTL DEF StatsSpec

\* No request counts into what the final flush has already taken out: not the
\* counter it has swapped, nor the downloads once their map is taken.
NoneCountedBehind ==
  [][\A r \in Requests, what \in {"views", "lookups", "hits", "download"} :
       last /\ CounterOf(what) \in Emptied => ~ Count(r, what)]_statsVars

\* What the final flush has taken out stays out.
LastFlushStands == Final => \A k \in Emptied : mem[k] = 0

LEMMA LastFlushKept ==
  ASSUME StatsInv, LastFlushStands, [StatsNext]_statsVars,
         [\A r \in Requests, what \in {"views", "lookups", "hits", "download"} :
            last /\ CounterOf(what) \in Emptied => ~ Count(r, what)]_statsVars
  PROVE  LastFlushStands'
  <1>1. mem \in Tallied
    BY StatsTyped DEF StatsInv
  <1>2. CASE UNCHANGED <<mem, run, last, swaps, refused>> /\ (http' = "down" <=> http = "down")
    BY <1>2 DEF LastFlushStands, Final, Emptied
  <1>3. ASSUME NEW r \in Requests, NEW what \in {"views", "lookups", "hits", "download"}, Count(r, what)
        PROVE  LastFlushStands'
    <2>1. PICK k \in Keys : k = CounterOf(what)
      BY CounterIs DEF StatsInv, StatsTypeOK
    <2>2. /\ mem' = [mem EXCEPT ![k] = @ + 1] /\ todo' # todo
          /\ UNCHANGED <<http, run, last, swaps, refused>>
      BY <1>3, <2>1, StatsTyped DEF Count, serverVars, runVars, StatsInv
    <2>3. last => k \notin Emptied
      BY <1>3, <2>1, <2>2 DEF statsVars, requestVars
    <2>4. \A j \in Keys : j # k => mem'[j] = mem[j]
      BY <1>1, <2>2 DEF Tallied
    <2>5. Final' = Final /\ Emptied' = Emptied /\ Emptied \subseteq Keys
      BY <2>2, KeysAre DEF Final, Emptied
    <2> QED
      BY <2>3, <2>4, <2>5 DEF LastFlushStands, Final
  <1>4. ASSUME NEW done \in BOOLEAN, Wake(done)
        PROVE  LastFlushStands'
    BY <1>4 DEF Wake, LastFlushStands, Emptied
  <1>5. ASSUME NEW k \in Counters, Swap(k)
        PROVE  LastFlushStands'
    <2>1. /\ run = "swap" /\ k \in swaps /\ swaps' = swaps \ {k} /\ mem' = [mem EXCEPT ![k] = 0]
          /\ run' = (IF swaps # {k} THEN "swap" ELSE IF delta' = Nothing THEN "days" ELSE "merge")
          /\ UNCHANGED <<http, last, refused>>
      BY <1>5 DEF Swap, serverVars
    <2>2. k \in Keys /\ \A j \in Keys : mem'[j] = IF j = k THEN 0 ELSE mem[j]
      BY <1>1, <2>1, KeysAre DEF Tallied
    <2>3. Emptied' \subseteq (Counters \ swaps) \cup {k} /\ Emptied = Counters \ swaps
      BY <2>1 DEF Emptied
    <2> QED
      BY <2>1, <2>2, <2>3, KeysAre DEF LastFlushStands, Final
  <1>6. CASE SwapDays
    <2>1. /\ run = "days" /\ mem' = Only(mem, Counters) /\ UNCHANGED <<http, last, refused>>
          /\ run' \in {"prune", "mergeDays"}
      BY <1>6 DEF SwapDays, serverVars
    <2>2. \A j \in Keys : mem'[j] = IF j \in Counters THEN mem[j] ELSE 0
      BY <1>1, <2>1, Parts
    <2>3. Emptied = Counters /\ Emptied' = Keys
      BY <2>1 DEF Emptied
    <2> QED
      BY <2>1, <2>2, <2>3 DEF LastFlushStands, Final
  <1>7. CASE MergeOK
    <2>1. /\ run \in {"merge", "mergeDays"} /\ run' = (IF run = "merge" THEN "days" ELSE "prune")
          /\ UNCHANGED <<mem, http, last, refused>>
      BY <1>7 DEF MergeOK, Merging, AfterMerge, serverVars
    <2> QED
      BY <2>1 DEF LastFlushStands, Final, Emptied
  <1>8. CASE MergeFails \/ MergeUnsure
    BY <1>8 DEF MergeFails, MergeUnsure, LastFlushStands, Final
  <1>9. CASE PruneDownloads
    <2>1. run = "prune" /\ run' \in {"ended", "wait"} /\ UNCHANGED <<mem, http, last, refused>>
      BY <1>9 DEF PruneDownloads, serverVars
    <2> QED
      BY <2>1 DEF LastFlushStands, Final, Emptied
  <1>10. CASE Exit \/ Crash \/ Restart
    BY <1>10 DEF Exit, Crash, ProcessEnds, Restart, LastFlushStands, Final
  <1>11. ASSUME NEW r \in Requests, (\E work \in Work[r] : Accept(r, work)) \/ Answer(r)
         PROVE  LastFlushStands'
    BY <1>2, <1>11 DEF Accept, Answer, serverVars, runVars
  <1>12. CASE Signal \/ ListenFails \/ DayPasses \/ \E timeout \in BOOLEAN : ShutdownReturns(timeout)
    BY <1>2, <1>12 DEF Signal, ListenFails, DayPasses, ShutdownReturns, serverVars, runVars
  <1>13. CASE UNCHANGED statsVars
    BY <1>2, <1>13 DEF statsVars, serverVars, runVars
  <1> QED
    BY <1>3, <1>4, <1>5, <1>6, <1>7, <1>8, <1>9, <1>10, <1>11, <1>12, <1>13 DEF StatsNext

\* What an orderly end loses though the database took its last flush was counted
\* behind that flush, by a request the drain was still waiting for: Run flushes
\* when the context is cancelled, not when the drain is over.  While nothing is
\* counted behind it, nothing is left in memory.
THEOREM OnlyCountsBehindTheLastFlushAreLost ==
  StatsSpec /\ NoneCountedBehind =>
    [](run = "ended" /\ http # "down" /\ ~ refused => \A k \in Keys : mem[k] + delta[k] = 0)
  <1>1. StatsInit => LastFlushStands
    BY DEF StatsInit, LastFlushStands, Final
  <1>2. StatsInv /\ LastFlushStands /\ [StatsNext]_statsVars
        /\ [\A r \in Requests, what \in {"views", "lookups", "hits", "download"} :
              last /\ CounterOf(what) \in Emptied => ~ Count(r, what)]_statsVars
        => LastFlushStands'
    BY LastFlushKept
  <1>3. StatsInv /\ LastFlushStands =>
          (run = "ended" /\ http # "down" /\ ~ refused => \A k \in Keys : mem[k] + delta[k] = 0)
    <2> SUFFICES ASSUME StatsInv, LastFlushStands, run = "ended", http # "down", ~ refused, NEW k \in Keys
                 PROVE  mem[k] + delta[k] = 0
      OBVIOUS
    <2>1. Final /\ Emptied = Keys /\ delta[k] = 0
      BY DEF StatsInv, Final, Emptied
    <2> QED
      BY <2>1 DEF LastFlushStands
  <1> QED
    BY <1>1, <1>2, <1>3, StatsStart, StatsStep, PTL DEF StatsSpec, NoneCountedBehind

-----------------------------------------------------------------------------
\* The counts in the process, in memory or in a flush: what waits in the tally.
held == Plus(mem, delta)

\* The tally's actions over the counts of the process.
Tallying ==
  \/ UNCHANGED <<held, stored, doubt>>
  \/ \E k \in Keys : held' = [held EXCEPT ![k] = @ + 1] /\ UNCHANGED <<stored, doubt>>
  \/ /\ held' \in Tallied /\ stored' \in Tallied
     /\ \A k \in Keys : /\ stored'[k] >= stored[k]
                        /\ held'[k] + stored'[k] = held[k] + stored[k]
     /\ UNCHANGED doubt
  \/ /\ stored' \in Tallied /\ doubt' \in Tallied
     /\ \A k \in Keys : /\ stored'[k] >= stored[k]
                        /\ stored'[k] - stored[k] <= held[k]
                        /\ doubt'[k] = doubt[k] + (stored'[k] - stored[k])
     /\ UNCHANGED held
  \/ held' = Nothing /\ UNCHANGED <<stored, doubt>>
  \/ /\ stored' \in Tallied
     /\ \A k \in Keys : \/ stored'[k] = stored[k]
                        \/ k \in Days /\ stored'[k] = 0
     /\ UNCHANGED <<held, doubt>>

LEMMA TallyingIs == Tallying => [Abstract!TallyNext]_(Abstract!tallyVars)
  BY DEF Tallying, held, Tallied, Nothing, Abstract!TallyNext, Abstract!CountOne, Abstract!Keep,
     Abstract!KeepUnsure, Abstract!Forget, Abstract!Expire, Abstract!Tallies, Abstract!tallyVars

LEMMA HeldIs ==
  ASSUME mem \in Tallied, delta \in Tallied
  PROVE  held \in Tallied /\ \A k \in Keys : held[k] = mem[k] + delta[k]
  BY Sums DEF held

LEMMA HeldNext ==
  ASSUME mem' \in Tallied, delta' \in Tallied
  PROVE  held' \in Tallied /\ \A k \in Keys : held'[k] = mem'[k] + delta'[k]
  BY DEF held, Plus, Tallied, Keys, Counters, Days, Day, Views, Lookups, Hits

\* A step that only moves counts between memory and a flush.
LEMMA OnlyMoved ==
  ASSUME StatsInv, mem' \in Tallied, delta' \in Tallied,
         \A k \in Keys : mem'[k] + delta'[k] = mem[k] + delta[k], UNCHANGED <<stored, doubt>>
  PROVE  Tallying
  <1>1. /\ held \in Tallied /\ \A k \in Keys : held[k] = mem[k] + delta[k]
        /\ held' \in Tallied /\ \A k \in Keys : held'[k] = mem'[k] + delta'[k]
    BY HeldIs, HeldNext, StatsTyped DEF StatsInv
  <1>2. held' = held
    BY <1>1 DEF Tallied
  <1> QED
    BY <1>2 DEF Tallying

LEMMA SwapMoves ==
  ASSUME StatsInv, \/ \E k \in Counters : Swap(k)
                   \/ SwapDays
                   \/ MergeFails
  PROVE  Tallying
  <1>1. mem \in Tallied /\ delta \in Tallied /\ \A k \in Keys : mem[k] \in Nat /\ delta[k] \in Nat
    BY StatsTyped DEF StatsInv, Tallied
  <1>2. ASSUME NEW k \in Counters, Swap(k)
        PROVE  Tallying
    <2>1. /\ run = "swap" /\ k \in swaps
          /\ delta' = [delta EXCEPT ![k] = mem[k]] /\ mem' = [mem EXCEPT ![k] = 0]
          /\ UNCHANGED <<stored, doubt>>
      BY <1>2 DEF Swap, ghostVars
    <2>2. delta[k] = 0 /\ k \in Keys
      BY <2>1, KeysAre DEF StatsInv
    <2>3. /\ delta' \in Tallied /\ mem' \in Tallied
          /\ \A j \in Keys : mem'[j] + delta'[j] = mem[j] + delta[j]
      BY <1>1, <2>1, <2>2 DEF Tallied
    <2> QED
      BY <2>1, <2>3, OnlyMoved
  <1>3. CASE SwapDays
    <2>1. /\ run = "days" /\ delta' = Only(mem, Days) /\ mem' = Only(mem, Counters)
          /\ UNCHANGED <<stored, doubt>>
      BY <1>3 DEF SwapDays, ghostVars
    <2>2. \A k \in Keys : delta[k] = 0
      BY <2>1 DEF StatsInv
    <2>3. /\ delta' \in Tallied /\ mem' \in Tallied
          /\ \A j \in Keys : /\ delta'[j] = IF j \in Days THEN mem[j] ELSE 0
                             /\ mem'[j] = IF j \in Counters THEN mem[j] ELSE 0
      BY <1>1, <2>1, Parts
    <2>4. \A j \in Keys : mem'[j] + delta'[j] = mem[j] + delta[j]
      BY <1>1, <2>2, <2>3, KeysAre
    <2> QED
      BY <2>1, <2>3, <2>4, OnlyMoved
  <1>4. CASE MergeFails
    <2>1. mem' = Plus(mem, delta) /\ delta' = Nothing /\ UNCHANGED <<stored, doubt>>
      BY <1>4 DEF MergeFails, ghostVars
    <2>2. /\ mem' \in Tallied /\ delta' \in Tallied
          /\ \A j \in Keys : mem'[j] = mem[j] + delta[j] /\ delta'[j] = 0
      BY <1>1, <2>1, Sums, NothingIs
    <2>3. \A j \in Keys : mem'[j] + delta'[j] = mem[j] + delta[j]
      BY <1>1, <2>2
    <2> QED
      BY <2>1, <2>2, <2>3, OnlyMoved
  <1> QED
    BY <1>2, <1>3, <1>4

LEMMA MergeKeeps ==
  ASSUME StatsInv, MergeOK \/ MergeUnsure
  PROVE  Tallying
  <1>1. /\ mem \in Tallied /\ delta \in Tallied /\ stored \in Tallied /\ doubt \in Tallied
        /\ \A k \in Keys : mem[k] \in Nat /\ delta[k] \in Nat /\ stored[k] \in Nat /\ doubt[k] \in Nat
    BY StatsTyped DEF StatsInv, Tallied
  <1>2. held \in Tallied /\ \A k \in Keys : held[k] = mem[k] + delta[k]
    BY <1>1, HeldIs
  <1>3. stored' = Plus(stored, delta) /\ delta' = Nothing
    BY DEF MergeOK, MergeUnsure
  <1>4. /\ stored' \in Tallied /\ \A k \in Keys : stored'[k] = stored[k] + delta[k]
        /\ delta' \in Tallied /\ \A k \in Keys : delta'[k] = 0
    BY <1>1, <1>3, Sums, NothingIs
  <1>5. CASE MergeOK
    <2>1. mem' = mem /\ doubt' = doubt
      BY <1>5 DEF MergeOK, ghostVars
    <2>2. held' \in Tallied /\ \A k \in Keys : held'[k] = mem[k] + 0
      BY <1>1, <1>4, <2>1, HeldNext
    <2>3. \A k \in Keys : /\ stored'[k] >= stored[k]
                          /\ held'[k] + stored'[k] = held[k] + stored[k]
      BY <1>1, <1>2, <1>4, <2>2
    <2> QED
      BY <1>4, <2>1, <2>2, <2>3 DEF Tallying
  <1>6. CASE MergeUnsure
    <2>1. doubt' = Plus(doubt, delta) /\ mem' = Plus(mem, delta)
      BY <1>6 DEF MergeUnsure
    <2>2. /\ doubt' \in Tallied /\ \A k \in Keys : doubt'[k] = doubt[k] + delta[k]
          /\ mem' \in Tallied /\ \A k \in Keys : mem'[k] = mem[k] + delta[k]
      BY <1>1, <2>1, Sums
    <2>3. held' \in Tallied /\ \A k \in Keys : held'[k] = mem'[k] + 0
      BY <1>4, <2>2, HeldNext
    <2>4. \A k \in Keys : held'[k] = held[k]
      BY <1>1, <1>2, <2>2, <2>3
    <2>5. held' = held
      BY <1>2, <2>3, <2>4 DEF Tallied
    <2>6. \A k \in Keys : /\ stored'[k] >= stored[k]
                          /\ stored'[k] - stored[k] <= held[k]
                          /\ doubt'[k] = doubt[k] + (stored'[k] - stored[k])
      BY <1>1, <1>2, <1>4, <2>2
    <2> QED
      BY <1>4, <2>2, <2>5, <2>6 DEF Tallying
  <1> QED
    BY <1>5, <1>6

LEMMA CountAdds ==
  ASSUME StatsInv, NEW r \in Requests, NEW what \in {"views", "lookups", "hits", "download"},
         Count(r, what)
  PROVE  Tallying
  <1>1. PICK k \in Keys : k = CounterOf(what)
    BY CounterIs DEF StatsInv, StatsTypeOK
  <1>2. mem' = [mem EXCEPT ![k] = @ + 1] /\ UNCHANGED <<delta, stored, doubt>>
    BY <1>1 DEF Count
  <1>3. /\ mem \in Tallied /\ delta \in Tallied /\ \A j \in Keys : mem[j] \in Nat /\ delta[j] \in Nat
    BY StatsTyped DEF StatsInv, Tallied
  <1>4. /\ mem' \in Tallied /\ \A j \in Keys : mem'[j] = IF j = k THEN mem[j] + 1 ELSE mem[j]
        /\ delta' \in Tallied /\ \A j \in Keys : delta'[j] = delta[j]
    BY <1>2, <1>3 DEF Tallied
  <1>5. /\ held \in Tallied /\ \A j \in Keys : held[j] = mem[j] + delta[j]
        /\ held' \in Tallied /\ \A j \in Keys : held'[j] = mem'[j] + delta'[j]
    BY <1>3, <1>4, HeldIs, HeldNext
  <1>6. \A j \in Keys : held'[j] = IF j = k THEN held[j] + 1 ELSE held[j]
    BY <1>3, <1>4, <1>5
  <1>7. held' = [held EXCEPT ![k] = @ + 1]
    BY <1>5, <1>6 DEF Tallied
  <1> QED
    BY <1>2, <1>7 DEF Tallying

LEMMA ProcessForgets ==
  ASSUME ProcessEnds
  PROVE  Tallying
  <1>1. mem' = Nothing /\ delta' = Nothing /\ UNCHANGED <<stored, doubt>>
    BY DEF ProcessEnds
  <1>2. /\ mem' \in Tallied /\ delta' \in Tallied
        /\ \A k \in Keys : mem'[k] = 0 /\ delta'[k] = 0
    BY <1>1, NothingIs
  <1>3. held' \in Tallied /\ \A k \in Keys : held'[k] = 0 + 0
    BY <1>2, HeldNext
  <1>4. held' = Nothing
    BY <1>3, NothingIs
  <1> QED
    BY <1>1, <1>4 DEF Tallying

LEMMA PruneExpires ==
  ASSUME StatsInv, PruneDownloads
  PROVE  Tallying
  <1>1. UNCHANGED <<mem, delta, doubt>>
    BY DEF PruneDownloads, ghostVars
  <1>2. held' = held
    BY <1>1 DEF held, Plus, Keys, Counters, Days, Day, Views, Lookups, Hits
  <1> QED
    BY <1>1, <1>2, PruneIs DEF Tallying

LEMMA CountsUntouched ==
  ASSUME UNCHANGED <<mem, delta, stored, doubt>>
  PROVE  Tallying
  <1>1. held' = held
    BY DEF held, Plus, Keys, Counters, Days, Day, Views, Lookups, Hits
  <1> QED
    BY <1>1 DEF Tallying

LEMMA StatsImplement == StatsInv /\ [StatsNext]_statsVars => [Abstract!TallyNext]_(Abstract!tallyVars)
  <1> SUFFICES ASSUME StatsInv, [StatsNext]_statsVars PROVE Tallying
    BY TallyingIs
  <1>1. CASE UNCHANGED <<mem, delta, stored, doubt>>
    BY <1>1, CountsUntouched
  <1>2. CASE \/ \E r \in Requests : (\E work \in Work[r] : Accept(r, work)) \/ Answer(r)
             \/ \E done \in BOOLEAN : Wake(done)
             \/ Signal \/ ListenFails \/ Restart \/ DayPasses
             \/ \E timeout \in BOOLEAN : ShutdownReturns(timeout)
             \/ UNCHANGED statsVars
    <2>1. UNCHANGED <<mem, delta, stored, doubt>>
      BY <1>2 DEF Accept, Answer, Wake, Signal, ListenFails, Restart, DayPasses, ShutdownReturns,
         statsVars, ghostVars
    <2> QED
      BY <2>1, CountsUntouched
  <1>3. CASE Exit \/ Crash
    BY <1>3, ProcessForgets DEF Exit, Crash
  <1> QED
    BY <1>2, <1>3, CountAdds, SwapMoves, MergeKeeps, PruneExpires DEF StatsNext

LEMMA TallyStart == StatsInit => Abstract!TallyInit
  <1> SUFFICES ASSUME StatsInit PROVE Abstract!TallyInit
    OBVIOUS
  <1>1. mem = Nothing /\ delta = Nothing /\ stored = Nothing /\ doubt = Nothing
    BY DEF StatsInit
  <1>2. held \in Tallied /\ \A k \in Keys : held[k] = 0 + 0
    BY <1>1, NothingIs, HeldIs
  <1>3. held = Nothing
    BY <1>2, NothingIs
  <1> QED
    BY <1>1, <1>3 DEF Abstract!TallyInit, held, Nothing

\* Each count waits in memory or in a flush, is stored once but for a commit whose
\* answer was lost, and is forgotten only with its process.
THEOREM StatsAreATally == StatsSpec => StatsRefinesTally
  <1>1. StatsInv /\ [StatsNext]_statsVars => [Abstract!TallyNext]_(Abstract!tallyVars)
    BY StatsImplement
  <1> QED
    BY <1>1, StatsStart, StatsStep, TallyStart, PTL DEF StatsSpec, StatsRefinesTally, Abstract!TallySpec

-----------------------------------------------------------------------------
(* Sweep *)
\* Ids are numbers: of several there is a lowest.
SweepRecord ==
  [at : {"off", "next", "oshash", "phash", "name", "attach", "propose", "record"},
   left : SUBSET Releases, opts : [skip : SUBSET Releases, dry : BOOLEAN, proposes : BOOLEAN],
   retries : 0..MaxRetries, outcome : Outcomes]

\* A release the sweep is at has what its outcome says, or will have it before
\* that is recorded.
Earned(k, r) ==
  /\ k.at = "propose" => k.outcome \in {"fingerprint", "proposed"}
  /\ k.at \in {"attach", "propose"} => ~ k.opts.dry
  /\ k.at \in {"propose", "record"} /\ ~ k.opts.dry /\ k.outcome = "fingerprint" =>
       r \in identified \cup unlinked
  /\ k.at = "record" /\ ~ k.opts.dry /\ k.outcome = "proposed" => r \in suggested

SweepInv ==
  /\ SweepTypeOK /\ sweep \in SweepRecord /\ MatchesAreKept
  /\ Earned(sweep, Candidate)

-----------------------------------------------------------------------------
LEMMA CandidateIs ==
  ASSUME sweep \in SweepRecord, sweep.left # {}
  PROVE  Candidate \in sweep.left /\ Candidate \in Releases
  <1>1. sweep.left \in SUBSET Nat /\ sweep.left \subseteq Releases
    BY SweepConstants DEF SweepRecord
  <1> QED
    BY <1>1, LeastIs DEF Candidate

LEMMA NoSweepIs == NoSweep \in SweepRecord /\ NoSweep.at = "off" /\ NoSweep.left = {}
  BY SweepConstants DEF NoSweep, SweepRecord, Outcomes

\* A step of the sweep to the record k.
LEMMA SweepMoves ==
  ASSUME SweepInv, NEW k \in SweepRecord, sweep' = k,
         k.at \notin {"off", "next"} => k.left = sweep.left /\ k.left # {},
         withdrawn' = withdrawn, unlinked' = unlinked,
         identified \subseteq identified', identified' \subseteq Releases,
         suggested \subseteq suggested', suggested' \subseteq Releases,
         lookup' = lookup, sweeps' \in 0..MaxSweeps,
         /\ k.at = "propose" => k.outcome \in {"fingerprint", "proposed"}
         /\ k.at \in {"attach", "propose"} => ~ k.opts.dry
         /\ k.at \in {"propose", "record"} /\ ~ k.opts.dry /\ k.outcome = "fingerprint" =>
              Candidate \in identified' \cup unlinked
         /\ k.at = "record" /\ ~ k.opts.dry /\ k.outcome = "proposed" => Candidate \in suggested'
  PROVE  SweepInv'
  <1>1. SweepTypeOK' /\ (sweep \in SweepRecord)'
    BY DEF SweepInv, SweepTypeOK, SweepRecord, Outcomes
  <1>2. MatchesAreKept'
    BY DEF SweepInv, MatchesAreKept
  <1>3. k.at \notin {"off", "next"} => Candidate' = Candidate
    BY DEF Candidate
  <1>4. Earned(sweep, Candidate)'
    BY <1>3 DEF Earned
  <1> QED
    BY <1>1, <1>2, <1>4 DEF SweepInv

LEMMA SweepTyped ==
  ASSUME SweepInv
  PROVE  /\ sweep \in SweepRecord /\ withdrawn \subseteq Releases /\ identified \subseteq Releases
         /\ suggested \subseteq Releases /\ unlinked \subseteq Releases
         /\ lookup \in [Releases -> Outcomes \cup {"never"}]
         /\ sweep.at \notin {"off", "next"} => sweep.left # {}
         /\ sweeps \in 0..MaxSweeps
  BY DEF SweepInv, SweepTypeOK

LEMMA StopStep ==
  ASSUME SweepInv, sweep' = NoSweep, UNCHANGED <<tables, unlinked>>, sweeps' = sweeps
  PROVE  SweepInv'
  BY SweepTyped, NoSweepIs, SweepMoves DEF tables

LEMMA RunBackfillStep ==
  ASSUME SweepInv, NEW opts \in SweepOptions, RunBackfill(opts)
  PROVE  SweepInv'
  <1>1. PICK n \in 1..Cardinality(Releases) :
          sweep' = [NoSweep EXCEPT !.at = "next", !.opts = opts,
                                   !.left = {r \in StashBoxSweepCandidates :
                                               Cardinality({q \in StashBoxSweepCandidates : q < r}) < n}]
    BY DEF RunBackfill
  <1>2. PICK left \in SUBSET Releases :
          left = {r \in StashBoxSweepCandidates :
                    Cardinality({q \in StashBoxSweepCandidates : q < r}) < n}
    BY DEF StashBoxSweepCandidates
  <1>3. PICK k : k = [NoSweep EXCEPT !.at = "next", !.opts = opts, !.left = left] /\ sweep' = k
    BY <1>1, <1>2
  <1>4. opts \in [skip : SUBSET Releases, dry : BOOLEAN, proposes : BOOLEAN]
    BY SweepConstants
  <1>5. k \in SweepRecord /\ k.at = "next"
    BY <1>3, <1>4, NoSweepIs DEF SweepRecord
  <1>6. sweeps' \in 0..MaxSweeps
    BY SweepTyped, SweepConstants DEF RunBackfill
  <1> QED
    BY <1>3, <1>5, <1>6, SweepTyped, SweepMoves DEF RunBackfill, tables

\* What Goto and Found make of the running command.
LEMMA GotoIs ==
  ASSUME sweep \in SweepRecord, NEW at \in {"next", "oshash", "phash", "name", "attach"}, Goto(at)
  PROVE  \E k \in SweepRecord :
           /\ sweep' = k /\ k.at = at /\ k.left = sweep.left /\ k.opts = sweep.opts
  <1>1. PICK k : k = [sweep EXCEPT !.at = at] /\ sweep' = k
    BY DEF Goto
  <1>2. k \in SweepRecord /\ k.at = at /\ k.left = sweep.left /\ k.opts = sweep.opts
    BY <1>1 DEF SweepRecord
  <1> QED
    BY <1>1, <1>2

LEMMA FoundIs ==
  ASSUME sweep \in SweepRecord, NEW outcome \in Outcomes, Found(outcome)
  PROVE  \E k \in SweepRecord :
           /\ sweep' = k /\ k.at = "record" /\ k.left = sweep.left /\ k.opts = sweep.opts
           /\ k.outcome = outcome
  <1>1. PICK k : k = [sweep EXCEPT !.at = "record", !.outcome = outcome, !.retries = 0] /\ sweep' = k
    BY DEF Found
  <1>2. 0 \in 0..MaxRetries
    BY SweepConstants
  <1>3. /\ k \in SweepRecord /\ k.at = "record" /\ k.left = sweep.left /\ k.opts = sweep.opts
        /\ k.outcome = outcome
    BY <1>1, <1>2 DEF SweepRecord
  <1> QED
    BY <1>1, <1>3

\* An outcome that claims nothing, or claims what is there, is recorded soundly.
LEMMA FoundStep ==
  ASSUME SweepInv, sweep.left # {}, NEW outcome \in Outcomes, Found(outcome),
         withdrawn' = withdrawn, unlinked' = unlinked,
         identified \subseteq identified', identified' \subseteq Releases,
         suggested \subseteq suggested', suggested' \subseteq Releases,
         lookup' = lookup, sweeps' = sweeps,
         ~ sweep.opts.dry /\ outcome = "fingerprint" => Candidate \in identified' \cup unlinked,
         ~ sweep.opts.dry /\ outcome = "proposed" => Candidate \in suggested'
  PROVE  SweepInv'
  <1>1. PICK k \in SweepRecord : /\ sweep' = k /\ k.at = "record" /\ k.left = sweep.left
                                 /\ k.opts = sweep.opts /\ k.outcome = outcome
    BY SweepTyped, FoundIs
  <1> QED
    BY <1>1, SweepTyped, SweepMoves

LEMMA GotoStep ==
  ASSUME SweepInv, sweep.left # {}, NEW at \in {"next", "oshash", "phash", "name", "attach"}, Goto(at),
         at = "attach" => ~ sweep.opts.dry, UNCHANGED <<tables, sweeps, unlinked>>
  PROVE  SweepInv'
  <1>1. PICK k \in SweepRecord : sweep' = k /\ k.at = at /\ k.left = sweep.left /\ k.opts = sweep.opts
    BY SweepTyped, GotoIs
  <1> QED
    BY <1>1, SweepTyped, SweepMoves DEF tables

LEMMA NextCandidateStep ==
  ASSUME SweepInv, NextCandidate
  PROVE  SweepInv'
  <1>1. "skipped" \in Outcomes
    BY DEF Outcomes
  <1>2. CASE sweep.left = {}
    BY <1>2, StopStep DEF NextCandidate
  <1>3. CASE sweep.left # {} /\ Candidate \in sweep.opts.skip
    BY <1>1, <1>3, FoundStep, SweepTyped DEF NextCandidate, tables
  <1>4. CASE sweep.left # {} /\ Candidate \notin sweep.opts.skip
    BY <1>4, GotoStep DEF NextCandidate
  <1> QED
    BY <1>2, <1>3, <1>4

LEMMA MisfortuneStep ==
  ASSUME SweepInv, NEW answer \in Answers, Misfortune(answer), sweep.left # {},
         UNCHANGED <<tables, sweeps, unlinked>>
  PROVE  SweepInv'
  <1>1. CASE sweep' = NoSweep
    BY <1>1, StopStep
  <1>2. CASE sweep' = [sweep EXCEPT !.at = "next", !.retries = @ + 1] /\ ~ (sweep.retries + 1 > MaxRetries)
    <2>1. PICK k : k = [sweep EXCEPT !.at = "next", !.retries = sweep.retries + 1] /\ sweep' = k
      BY <1>2
    <2>2. sweep.retries + 1 \in 0..MaxRetries
      BY <1>2, SweepTyped, SweepConstants DEF SweepRecord
    <2>3. k \in SweepRecord /\ k.at = "next"
      BY <2>1, <2>2, SweepTyped DEF SweepRecord
    <2> QED
      BY <2>1, <2>3, SweepTyped, SweepMoves DEF tables
  <1>3. CASE Found("error")
    <2>1. "error" \in Outcomes
      BY DEF Outcomes
    <2> QED
      BY <1>3, <2>1, FoundStep, SweepTyped DEF tables
  <1> QED
    BY <1>1, <1>2, <1>3 DEF Misfortune

LEMMA AskBoxStep ==
  ASSUME SweepInv, NEW answer \in Answers, FindByFingerprint(answer) \/ SearchScene(answer)
  PROVE  SweepInv'
  <1>1. /\ sweep.at \notin {"off", "next"} /\ sweep.left # {} /\ UNCHANGED <<tables, sweeps, unlinked>>
        /\ sweep.opts.dry \in BOOLEAN
    BY SweepTyped DEF FindByFingerprint, SearchScene, SweepRecord
  <1>2. "fingerprint" \in Outcomes /\ "none" \in Outcomes /\ "proposed" \in Outcomes
    BY DEF Outcomes
  <1>3. CASE Misfortune(answer)
    BY <1>1, <1>3, MisfortuneStep
  <1>4. CASE FindByFingerprint(answer) /\ ~ Misfortune(answer)
    <2>1. \/ sweep.opts.dry /\ Found("fingerprint")
          \/ ~ sweep.opts.dry /\ Goto("attach")
          \/ Goto("phash") \/ Goto("name") \/ Found("none")
      BY <1>4 DEF FindByFingerprint
    <2> QED
      BY <1>1, <1>2, <2>1, GotoStep, FoundStep, SweepTyped DEF tables
  <1>5. CASE SearchScene(answer) /\ ~ Misfortune(answer)
    <2>1. \/ sweep.opts.dry /\ Found("proposed")
          \/ Found("none")
          \/ ~ sweep.opts.dry /\ sweep' = [sweep EXCEPT !.at = "propose", !.outcome = "proposed"]
      BY <1>5 DEF SearchScene
    <2>2. CASE ~ sweep.opts.dry /\ sweep' = [sweep EXCEPT !.at = "propose", !.outcome = "proposed"]
      <3>1. PICK k : k = [sweep EXCEPT !.at = "propose", !.outcome = "proposed"] /\ sweep' = k
        BY <2>2
      <3>2. /\ k \in SweepRecord /\ k.at = "propose" /\ k.left = sweep.left /\ k.opts = sweep.opts
            /\ k.outcome = "proposed"
        BY <1>2, <3>1, SweepTyped DEF SweepRecord
      <3> QED
        BY <1>1, <2>2, <3>1, <3>2, SweepTyped, SweepMoves DEF tables
    <2> QED
      BY <1>1, <1>2, <2>1, <2>2, FoundStep, SweepTyped DEF tables
  <1> QED
    BY <1>3, <1>4, <1>5

LEMMA AttachStep ==
  ASSUME SweepInv, NEW ok \in BOOLEAN, AddReleaseStashIDs(ok)
  PROVE  SweepInv'
  <1>1. /\ sweep.at = "attach" /\ sweep.left # {} /\ ~ sweep.opts.dry
        /\ UNCHANGED <<withdrawn, suggested, lookup, sweeps, unlinked>>
    BY SweepTyped DEF AddReleaseStashIDs, SweepInv, Earned
  <1>2. Candidate \in Releases
    BY <1>1, CandidateIs, SweepTyped
  <1>3. /\ identified \subseteq identified' /\ identified' \subseteq Releases
        /\ ok => Candidate \in identified'
    BY <1>2, SweepTyped DEF AddReleaseStashIDs
  <1>4. "error" \in Outcomes /\ "fingerprint" \in Outcomes
    BY DEF Outcomes
  <1>5. CASE ~ ok
    BY <1>1, <1>3, <1>4, <1>5, FoundStep, SweepTyped DEF AddReleaseStashIDs
  <1>6. CASE ok /\ ~ sweep.opts.proposes
    BY <1>1, <1>3, <1>4, <1>6, FoundStep, SweepTyped DEF AddReleaseStashIDs
  <1>7. CASE ok /\ sweep.opts.proposes
    <2>1. PICK k : k = [sweep EXCEPT !.at = "propose", !.outcome = "fingerprint"] /\ sweep' = k
      BY <1>7 DEF AddReleaseStashIDs
    <2>2. /\ k \in SweepRecord /\ k.at = "propose" /\ k.left = sweep.left /\ k.opts = sweep.opts
          /\ k.outcome = "fingerprint"
      BY <1>4, <2>1, SweepTyped DEF SweepRecord
    <2> QED
      BY <1>1, <1>3, <1>7, <2>1, <2>2, SweepTyped, SweepMoves
  <1> QED
    BY <1>5, <1>6, <1>7

LEMMA ProposeStep ==
  ASSUME SweepInv, NEW ok \in BOOLEAN, ProposeScene(ok)
  PROVE  SweepInv'
  <1>1. /\ sweep.at = "propose" /\ sweep.left # {} /\ ~ sweep.opts.dry
        /\ sweep.outcome \in {"fingerprint", "proposed"}
        /\ sweep.outcome = "fingerprint" => Candidate \in identified \cup unlinked
        /\ UNCHANGED <<withdrawn, identified, lookup, sweeps, unlinked>>
    BY SweepTyped DEF ProposeScene, SweepInv, Earned
  <1>2. Candidate \in Releases
    BY <1>1, CandidateIs, SweepTyped
  <1>3. suggested \subseteq suggested' /\ suggested' \subseteq Releases
    BY <1>2, SweepTyped DEF ProposeScene
  <1>4. "error" \in Outcomes /\ sweep.outcome \in Outcomes
    BY <1>1 DEF Outcomes
  <1>5. CASE ok
    BY <1>1, <1>3, <1>4, <1>5, FoundStep, SweepTyped DEF ProposeScene
  <1>6. CASE ~ ok
    BY <1>1, <1>3, <1>4, <1>6, FoundStep, SweepTyped DEF ProposeScene
  <1> QED
    BY <1>5, <1>6

LEMMA RecordStep ==
  ASSUME SweepInv, NEW ok \in BOOLEAN, RecordStashBoxLookup(ok)
  PROVE  SweepInv'
  <1>1. /\ sweep.at = "record" /\ UNCHANGED <<withdrawn, identified, suggested, sweeps, unlinked>>
    BY DEF RecordStashBoxLookup
  <1>2. PICK k : /\ k = IF ok THEN [sweep EXCEPT !.at = "next", !.left = sweep.left \ {Candidate}]
                        ELSE NoSweep
                 /\ sweep' = k
    BY DEF RecordStashBoxLookup
  <1>3. k \in SweepRecord /\ k.at \in {"off", "next"}
    BY <1>2, NoSweepIs, SweepTyped DEF SweepRecord
  <1>4. PICK outcome \in Outcomes : outcome = sweep.outcome
    BY SweepTyped DEF SweepRecord
  <1>5. lookup' = lookup \/ (~ sweep.opts.dry /\ lookup' = [lookup EXCEPT ![Candidate] = outcome])
    BY <1>4 DEF RecordStashBoxLookup
  <1>6. /\ lookup' \in [Releases -> Outcomes \cup {"never"}]
        /\ \A r \in Releases :
             \/ lookup'[r] = lookup[r]
             \/ r = Candidate /\ ~ sweep.opts.dry /\ lookup'[r] = outcome
    BY <1>5, SweepTyped
  <1>7. SweepTypeOK' /\ (sweep \in SweepRecord)'
    BY <1>1, <1>2, <1>3, <1>6 DEF SweepInv, SweepTypeOK, SweepRecord, Outcomes
  <1>8. MatchesAreKept'
    BY <1>1, <1>4, <1>6 DEF SweepInv, MatchesAreKept, Earned
  <1>9. Earned(sweep, Candidate)'
    BY <1>2, <1>3 DEF Earned
  <1> QED
    BY <1>7, <1>8, <1>9 DEF SweepInv

\* What moderators and uploads do leaves the ids that were removed on record.
LEMMA OthersStep ==
  ASSUME SweepInv, NEW r \in Releases,
         RemoveReleaseStashID(r) \/ UploadStashID(r) \/ SetWithdrawn(r)
  PROVE  SweepInv'
  <1>1. /\ UNCHANGED <<suggested, lookup, sweep, sweeps>>
        /\ withdrawn' \subseteq Releases /\ identified' \subseteq Releases /\ unlinked' \subseteq Releases
        /\ identified \cup unlinked \subseteq identified' \cup unlinked'
    BY SweepTyped DEF RemoveReleaseStashID, UploadStashID, SetWithdrawn
  <1>2. SweepTypeOK' /\ (sweep \in SweepRecord)'
    BY <1>1 DEF SweepInv, SweepTypeOK, SweepRecord, Outcomes
  <1>3. MatchesAreKept'
    BY <1>1 DEF SweepInv, MatchesAreKept
  <1>4. Candidate' = Candidate
    BY <1>1 DEF Candidate
  <1>5. Earned(sweep, Candidate)'
    BY <1>1, <1>4 DEF SweepInv, Earned
  <1> QED
    BY <1>2, <1>3, <1>5 DEF SweepInv

LEMMA SweepStart == SweepInit => SweepInv
  <1> SUFFICES ASSUME SweepInit PROVE SweepInv
    OBVIOUS
  <1>1. sweep \in SweepRecord /\ sweep.at = "off" /\ sweep.left = {}
    BY NoSweepIs DEF SweepInit
  <1>2. 0 \in 0..MaxSweeps
    BY SweepConstants
  <1>3. SweepTypeOK
    BY <1>1, <1>2 DEF SweepInit, SweepTypeOK, SweepRecord
  <1>4. MatchesAreKept /\ Earned(sweep, Candidate)
    BY <1>1 DEF SweepInit, MatchesAreKept, Earned
  <1> QED
    BY <1>1, <1>3, <1>4 DEF SweepInv

LEMMA SweepIdle ==
  ASSUME SweepInv, UNCHANGED sweepVars
  PROVE  SweepInv'
  <1>1. Candidate' = Candidate
    BY DEF sweepVars, Candidate
  <1> QED
    BY <1>1 DEF SweepInv, sweepVars, SweepTypeOK, SweepRecord, Outcomes, MatchesAreKept, Earned

LEMMA SweepStepKeeps == SweepInv /\ [SweepNext]_sweepVars => SweepInv'
  <1> SUFFICES ASSUME SweepInv, [SweepNext]_sweepVars PROVE SweepInv'
    OBVIOUS
  <1>1. CASE StopSweep
    BY <1>1, StopStep DEF StopSweep
  <1>2. CASE SweepStep
    BY <1>2, NextCandidateStep, AskBoxStep, AttachStep, ProposeStep, RecordStep DEF SweepStep
  <1>3. ASSUME NEW r \in Touched, RemoveReleaseStashID(r) \/ UploadStashID(r) \/ SetWithdrawn(r)
        PROVE  SweepInv'
    <2>1. r \in Releases
      BY SweepConstants
    <2> QED
      BY <1>3, <2>1, OthersStep
  <1> QED
    BY <1>1, <1>2, <1>3, RunBackfillStep, SweepIdle DEF SweepNext

\* A match that was recorded is a match that was kept, wherever sweeps stopped.
THEOREM SweepsKeepMatches == SweepSpec => [](SweepTypeOK /\ MatchesAreKept)
  <1>1. SweepInv => SweepTypeOK /\ MatchesAreKept
    BY DEF SweepInv
  <1> QED
    BY <1>1, SweepStart, SweepStepKeeps, PTL DEF SweepSpec

-----------------------------------------------------------------------------
(* Plugin *)
Hashable == Scenes \ Unhashed
Modes == {"download", "push", "contribute"}
Places == {"off", "page", "lookup", "scene", "next", "fetch", "stat", "write", "rename", "upload", "send"}
AtCaption == {"fetch", "stat", "write", "rename", "upload"}

ProcRecord ==
  [at : Places, mode : Modes \cup {"none"}, dry : BOOLEAN, scenes : SUBSET Scenes,
   batch : SUBSET Hashable, scene : Scenes \cup {0}, langs : SUBSET Langs,
   lang : Langs \cup {"none"}, tries : 0..MaxAttempts, temp : {"none", "part", "whole"},
   body : {"none", "mine", "served"}, late : BOOLEAN, replace : BOOLEAN, wanted : SUBSET Langs]

\* A process k, when captions are as d says: it works on a scene that can have a
\* caption, uploads what it read of a file that was there, moves a whole file into place, and does not replace the user's
\* caption unless it was told to or the caption came after its look.
Careful(k, d) ==
  /\ k.at # "off" => k.mode \in Modes
  /\ k.at \in AtCaption \cup {"next"} => k.scene \in Hashable
  /\ k.at \in AtCaption => k.lang \in Langs
  /\ k.at = "rename" => k.temp = "whole"
  /\ k.at = "upload" => k.body # "none"
  /\ k.at \in {"write", "rename"} => k.replace \/ k.late \/ d[<<k.scene, k.lang>>] # "mine"

PluginInv ==
  /\ disk \in [Captions -> {"none", "mine", "served"}]
  /\ received \subseteq Captions \X {"mine", "served"} /\ described \subseteq Hashable
  /\ proc \in [Procs -> ProcRecord]
  /\ \A p \in Procs : Careful(proc[p], disk)
  /\ processes \in 0..MaxProcesses

-----------------------------------------------------------------------------
LEMMA PluginTyped == PluginInv => PluginTypeOK
  BY DEF PluginInv, PluginTypeOK, ProcRecord, Places, Hashable

LEMMA NoProcessIs == NoProcess \in ProcRecord /\ \A d : Careful(NoProcess, d)
  <1>1. 0 \in 0..MaxAttempts
    BY PluginConstants
  <1>2. NoProcess \in ProcRecord
    BY <1>1 DEF NoProcess, ProcRecord, Places, Modes
  <1>3. NoProcess.at = "off"
    BY DEF NoProcess
  <1> QED
    BY <1>2, <1>3 DEF Careful, AtCaption

LEMMA FirstIs ==
  ASSUME NEW S \in SUBSET Scenes, S # {}
  PROVE  First(S) \in S
  BY LeastIs, PluginConstants DEF First

\* A step of the process p to the record k, captions being left alone.
LEMMA ProcMoves ==
  ASSUME PluginInv, NEW p \in Procs, NEW k \in ProcRecord, Careful(k, disk),
         proc' = [proc EXCEPT ![p] = k], disk' = disk,
         received' \subseteq Captions \X {"mine", "served"}, described' \subseteq Hashable,
         processes' \in 0..MaxProcesses
  PROVE  PluginInv'
  <1>1. proc' \in [Procs -> ProcRecord] /\ \A q \in Procs : Careful(proc'[q], disk')
    BY DEF PluginInv
  <1>2. (proc \in [Procs -> ProcRecord])'
    BY <1>1 DEF ProcRecord, Places, Hashable, Modes, Procs
  <1>3. (\A q \in Procs : Careful(proc[q], disk))'
    BY <1>1 DEF Careful, Procs, Modes, AtCaption, Hashable
  <1>4. (/\ disk \in [Captions -> {"none", "mine", "served"}]
         /\ received \subseteq Captions \X {"mine", "served"} /\ described \subseteq Hashable
         /\ processes \in 0..MaxProcesses)'
    BY DEF PluginInv, Captions, Hashable
  <1> QED
    BY <1>2, <1>3, <1>4 DEF PluginInv

LEMMA PluginHas ==
  ASSUME PluginInv, NEW p \in Procs
  PROVE  /\ proc[p] \in ProcRecord /\ Careful(proc[p], disk)
         /\ received \subseteq Captions \X {"mine", "served"} /\ described \subseteq Hashable
         /\ processes \in 0..MaxProcesses /\ disk \in [Captions -> {"none", "mine", "served"}]
         /\ proc \in [Procs -> ProcRecord]
  BY DEF PluginInv

-----------------------------------------------------------------------------
LEMMA StartTaskStep ==
  ASSUME PluginInv, NEW mode \in Modes, NEW dry \in BOOLEAN, NEW s \in Settings,
         StartTask(mode, dry, s)
  PROVE  PluginInv'
  <1>1. "task" \in Procs
    BY DEF Procs
  <1>2. s.languages \in SUBSET Langs /\ s.replace \in BOOLEAN
    BY PluginConstants
  <1>3. PICK wanted \in SUBSET Langs : wanted = IF s.all THEN Langs ELSE s.languages
    BY <1>2
  <1>4. PICK k : /\ k = [NoProcess EXCEPT !.at = "page", !.mode = mode, !.dry = dry,
                                          !.scenes = Scenes, !.replace = s.replace,
                                          !.wanted = wanted]
                 /\ proc' = [proc EXCEPT !["task"] = k]
    BY <1>3 DEF StartTask
  <1>5. k \in ProcRecord /\ k.at = "page" /\ k.mode = mode
    BY <1>2, <1>4, NoProcessIs DEF ProcRecord, Places
  <1>6. Careful(k, disk)
    BY <1>5 DEF Careful, AtCaption
  <1>7. processes' \in 0..MaxProcesses
    BY <1>1, PluginHas, PluginConstants DEF StartTask
  <1> QED
    BY <1>1, <1>4, <1>5, <1>6, <1>7, PluginHas, ProcMoves DEF StartTask

LEMMA PanelDownloadStep ==
  ASSUME PluginInv, NEW c \in Captions, NEW overwrite \in BOOLEAN,
         PanelDownload(c[1], c[2], overwrite)
  PROVE  PluginInv'
  <1>1. "panel" \in Procs
    BY DEF Procs
  <1>2. c[1] \in Hashable /\ c[2] \in Langs /\ c[1] \in Scenes
    BY DEF Captions, Hashable
  <1>3. PICK k : /\ k = [NoProcess EXCEPT !.at = "fetch", !.mode = "download", !.scene = c[1],
                                          !.lang = c[2], !.replace = overwrite,
                                          !.tries = MaxAttempts]
                 /\ proc' = [proc EXCEPT !["panel"] = k]
    BY DEF PanelDownload
  <1>4. MaxAttempts \in 0..MaxAttempts
    BY PluginConstants
  <1>5. k \in ProcRecord /\ k.at = "fetch" /\ k.mode = "download" /\ k.scene = c[1] /\ k.lang = c[2]
    BY <1>2, <1>3, <1>4, NoProcessIs DEF ProcRecord, Places, Modes
  <1>6. Careful(k, disk)
    BY <1>2, <1>5 DEF Careful, Modes
  <1>7. processes' \in 0..MaxProcesses
    BY <1>1, PluginHas, PluginConstants DEF PanelDownload
  <1> QED
    BY <1>1, <1>3, <1>5, <1>6, <1>7, PluginHas, ProcMoves DEF PanelDownload

LEMMA PanelPushStep ==
  ASSUME PluginInv, NEW scene \in Hashable, NEW s \in Settings, PanelPush(scene, s)
  PROVE  PluginInv'
  <1>1. "panel" \in Procs
    BY DEF Procs
  <1>2. PICK k : /\ k = [NoProcess EXCEPT !.at = "page", !.mode = "push", !.scenes = {scene}]
                 /\ proc' = [proc EXCEPT !["panel"] = k]
    BY DEF PanelPush
  <1>3. k \in ProcRecord /\ k.at = "page" /\ k.mode = "push"
    BY <1>2, NoProcessIs DEF ProcRecord, Places, Modes, Hashable
  <1>4. Careful(k, disk)
    BY <1>3 DEF Careful, AtCaption, Modes
  <1>5. processes' \in 0..MaxProcesses
    BY <1>1, PluginHas, PluginConstants DEF PanelPush
  <1> QED
    BY <1>1, <1>2, <1>3, <1>4, <1>5, PluginHas, ProcMoves DEF PanelPush

LEMMA NextPageStep ==
  ASSUME PluginInv, NEW p \in Procs, NEW ok \in BOOLEAN, NextPage(p, ok)
  PROVE  PluginInv'
  <1> DEFINE own == proc[p]
  <1>1. own \in ProcRecord /\ own.at = "page" /\ own.mode \in Modes
    BY PluginHas DEF NextPage, Careful
  <1>2. PICK page \in SUBSET Scenes : page = Page(own.scenes)
    BY <1>1 DEF Page, ProcRecord
  <1>3. PICK at : at = CASE page \subseteq Unhashed -> "page"
                         [] own.mode = "download" -> "lookup"
                         [] own.mode = "push" -> "scene"
                         [] own.mode = "contribute" -> IF own.dry THEN "page" ELSE "send"
    OBVIOUS
  <1>4. at \in {"page", "lookup", "scene", "send"}
    BY <1>1, <1>3 DEF Modes
  <1>5. CASE ~ok \/ page = {}
    <2>1. PICK k : k = NoProcess /\ proc' = [proc EXCEPT ![p] = k]
      BY <1>2, <1>5 DEF NextPage
    <2> QED
      BY <2>1, NoProcessIs, PluginHas, ProcMoves DEF NextPage
  <1>6. CASE ~ (~ok \/ page = {})
    <2>1. PICK k : /\ k = [own EXCEPT !.scenes = own.scenes \ page, !.batch = page \ Unhashed,
                                      !.tries = 0, !.at = at]
                   /\ proc' = [proc EXCEPT ![p] = k]
      BY <1>2, <1>3, <1>6 DEF NextPage
    <2>2. 0 \in 0..MaxAttempts
      BY PluginConstants
    <2>3. k \in ProcRecord /\ k.at = at /\ k.mode = own.mode
      BY <1>1, <1>2, <1>4, <2>1, <2>2 DEF ProcRecord, Places, Hashable
    <2>4. Careful(k, disk)
      BY <1>1, <1>4, <2>3 DEF Careful, AtCaption
    <2> QED
      BY <2>1, <2>3, <2>4, PluginHas, ProcMoves DEF NextPage
  <1> QED
    BY <1>5, <1>6

\* What an attempt makes of the process.
LEMMA AttemptIs ==
  ASSUME PluginInv, NEW p \in Procs, NEW answer \in Results,
         NEW done \in ProcRecord, Careful(done, disk),
         NEW givenUp \in ProcRecord, Careful(givenUp, disk)
  PROVE  /\ Attempt(p, answer, done, givenUp) \in ProcRecord
         /\ Careful(Attempt(p, answer, done, givenUp), disk)
  <1>1. 0 \in 0..MaxAttempts
    BY PluginConstants
  <1>2. ASSUME NEW r \in ProcRecord, Careful(r, disk), NEW n \in 0..MaxAttempts,
               NEW k, k = [r EXCEPT !.tries = n]
        PROVE  k \in ProcRecord /\ Careful(k, disk)
    <2>1. /\ k \in ProcRecord /\ k.at = r.at /\ k.mode = r.mode /\ k.scene = r.scene /\ k.lang = r.lang
          /\ k.temp = r.temp /\ k.body = r.body /\ k.replace = r.replace /\ k.late = r.late
      BY <1>2 DEF ProcRecord
    <2> QED
      BY <1>2, <2>1 DEF Careful
  <1>3. PICK k : k = Attempt(p, answer, done, givenUp)
    OBVIOUS
  <1>4. CASE answer = "ok"
    <2>1. k = [done EXCEPT !.tries = 0]
      BY <1>3, <1>4 DEF Attempt
    <2> QED
      BY <1>1, <1>2, <1>3, <2>1
  <1>5. CASE answer = "limited" /\ proc[p].tries < MaxAttempts
    <2>1. PICK n : n = proc[p].tries + 1
      OBVIOUS
    <2>2. n \in 0..MaxAttempts
      BY <1>5, <2>1, PluginHas, PluginConstants DEF ProcRecord
    <2>3. k = [proc[p] EXCEPT !.tries = n]
      BY <1>3, <1>5, <2>1 DEF Attempt
    <2> QED
      BY <1>2, <1>3, <2>2, <2>3, PluginHas
  <1>6. CASE answer # "ok" /\ ~ (answer = "limited" /\ proc[p].tries < MaxAttempts)
    <2>1. k = [givenUp EXCEPT !.tries = 0]
      BY <1>3, <1>6 DEF Attempt
    <2> QED
      BY <1>1, <1>2, <1>3, <2>1
  <1> QED
    BY <1>4, <1>5, <1>6

\* A process that has merely got further.
LEMMA GotFurther ==
  ASSUME PluginInv, NEW p \in Procs, proc[p].at # "off",
         NEW at \in {"page", "scene", "stat", "next"},
         at \in {"stat", "next"} => proc[p].at \in AtCaption,
         NEW k, k = [proc[p] EXCEPT !.at = at]
  PROVE  k \in ProcRecord /\ Careful(k, disk)
  <1>1. k \in ProcRecord /\ k.at = at /\ k.mode = proc[p].mode /\ k.scene = proc[p].scene
        /\ k.lang = proc[p].lang
    BY PluginHas DEF ProcRecord, Places
  <1>2. Careful(k, disk)
    BY <1>1, PluginHas DEF Careful, AtCaption
  <1> QED
    BY <1>1, <1>2

LEMMA FinishedIs ==
  ASSUME PluginInv, NEW p \in Procs, proc[p].at \in AtCaption
  PROVE  Finished(p) \in ProcRecord /\ \A d : Careful(Finished(p), d)
  <1>1. PICK k : k = Finished(p)
    OBVIOUS
  <1>2. CASE k = NoProcess
    BY <1>1, <1>2, NoProcessIs
  <1>3. CASE k = [proc[p] EXCEPT !.at = "next", !.temp = "none", !.body = "none"]
    <2> DEFINE own == proc[p]
    <2>0. own \in ProcRecord
      BY PluginHas
    <2> HIDE DEF own
    <2>1. k \in ProcRecord /\ k.at = "next" /\ k.mode = own.mode /\ k.scene = own.scene
      BY <1>3, <2>0 DEF ProcRecord, Places, own
    <2>2. \A d : Careful(k, d)
      BY <2>1, PluginHas DEF Careful, AtCaption, own
    <2> QED
      BY <1>1, <2>1, <2>2
  <1> QED
    BY <1>1, <1>2, <1>3 DEF Finished

LEMMA LookupBatchStep ==
  ASSUME PluginInv, NEW p \in Procs, NEW answer \in Results, LookupBatch(p, answer)
  PROVE  PluginInv'
  <1>1. PICK done, givenUp : /\ done = [proc[p] EXCEPT !.at = "scene"]
                             /\ givenUp = [proc[p] EXCEPT !.at = "page"]
    OBVIOUS
  <1>2. PICK k : k = Attempt(p, answer, done, givenUp) /\ proc' = [proc EXCEPT ![p] = k]
    BY <1>1 DEF LookupBatch
  <1>3. proc[p].at = "lookup"
    BY DEF LookupBatch
  <1>4. done \in ProcRecord /\ Careful(done, disk) /\ givenUp \in ProcRecord /\ Careful(givenUp, disk)
    BY <1>1, <1>3, GotFurther
  <1>5. k \in ProcRecord /\ Careful(k, disk)
    BY <1>2, <1>4, AttemptIs
  <1> QED
    BY <1>2, <1>5, PluginHas, ProcMoves DEF LookupBatch

LEMMA FetchTrackStep ==
  ASSUME PluginInv, NEW p \in Procs, NEW answer \in Results, FetchTrack(p, answer)
  PROVE  PluginInv'
  <1>1. PICK done, givenUp : done = [proc[p] EXCEPT !.at = "stat"] /\ givenUp = Finished(p)
    OBVIOUS
  <1>2. PICK k : k = Attempt(p, answer, done, givenUp) /\ proc' = [proc EXCEPT ![p] = k]
    BY <1>1 DEF FetchTrack
  <1>3. proc[p].at = "fetch" /\ proc[p].at \in AtCaption
    BY DEF FetchTrack, AtCaption
  <1>4. done \in ProcRecord /\ Careful(done, disk)
    BY <1>1, <1>3, GotFurther
  <1>5. givenUp \in ProcRecord /\ Careful(givenUp, disk)
    BY <1>1, <1>3, FinishedIs
  <1>6. k \in ProcRecord /\ Careful(k, disk)
    BY <1>2, <1>4, <1>5, AttemptIs
  <1> QED
    BY <1>2, <1>6, PluginHas, ProcMoves DEF FetchTrack

LEMMA NextSceneStep ==
  ASSUME PluginInv, NEW p \in Procs, NextScene(p)
  PROVE  PluginInv'
  <1> DEFINE own == proc[p]
  <1>1. own \in ProcRecord /\ own.at = "scene" /\ own.mode \in Modes
    BY PluginHas DEF NextScene, Careful
  <1>2. CASE own.batch = {}
    <2>1. PICK k : k = [own EXCEPT !.at = "page"] /\ proc' = [proc EXCEPT ![p] = k]
      BY <1>2 DEF NextScene
    <2>2. k \in ProcRecord /\ Careful(k, disk)
      BY <1>1, <2>1, GotFurther
    <2> QED
      BY <2>1, <2>2, PluginHas, ProcMoves DEF NextScene
  <1>3. CASE own.batch # {}
    <2>1. PICK s : s = First(own.batch)
      OBVIOUS
    <2>2. s \in Hashable /\ own.batch \in SUBSET Hashable
      BY <1>1, <1>3, <2>1, FirstIs DEF ProcRecord, Hashable
    <2>3. PICK langs : langs = IF own.mode = "download" THEN Offers[s] \cap own.wanted
                               ELSE {l \in Langs : disk[<<s, l>>] # "none"}
      OBVIOUS
    <2>4. langs \in SUBSET Langs
      BY <1>1, <2>3 DEF ProcRecord
    <2>5. PICK k : /\ k = [own EXCEPT !.at = "next", !.batch = own.batch \ {s}, !.scene = s,
                                      !.langs = langs]
                   /\ proc' = [proc EXCEPT ![p] = k]
      BY <1>3, <2>1, <2>3 DEF NextScene
    <2>6. k \in ProcRecord /\ k.at = "next" /\ k.mode = own.mode /\ k.scene = s
      BY <1>1, <2>2, <2>4, <2>5 DEF ProcRecord, Places, Hashable
    <2>7. Careful(k, disk)
      BY <1>1, <2>2, <2>6 DEF Careful, AtCaption
    <2> QED
      BY <2>5, <2>6, <2>7, PluginHas, ProcMoves DEF NextScene
  <1> QED
    BY <1>2, <1>3

LEMMA NextCaptionStep ==
  ASSUME PluginInv, NEW p \in Procs, NextCaption(p)
  PROVE  PluginInv'
  <1> DEFINE own == proc[p]
  <1>1. own \in ProcRecord /\ own.at = "next" /\ own.mode \in Modes /\ own.scene \in Hashable
    BY PluginHas DEF NextCaption, Careful
  <1>2. UNCHANGED <<disk, received, described, processes>>
    BY DEF NextCaption
  <1>3. CASE MoveOn(p, "scene")
    <2>1. PICK k : k = [own EXCEPT !.at = "scene"] /\ proc' = [proc EXCEPT ![p] = k]
      BY <1>3, PluginHas DEF MoveOn
    <2>2. k \in ProcRecord /\ Careful(k, disk)
      BY <1>1, <2>1, GotFurther
    <2> QED
      BY <1>2, <2>1, <2>2, PluginHas, ProcMoves
  <1>4. CASE ~ MoveOn(p, "scene")
    <2>1. PICK l \in own.langs, at \in {"next", "fetch", "upload"} :
            /\ at = "upload" => disk[<<own.scene, l>>] # "none"
            /\ proc' = [proc EXCEPT ![p] =
                 [own EXCEPT !.langs = own.langs \ {l}, !.lang = l, !.at = at,
                             !.body = IF at = "upload" THEN disk[<<own.scene, l>>] ELSE "none"]]
      BY <1>4 DEF NextCaption
    <2>0. PICK body : body = IF at = "upload" THEN disk[<<own.scene, l>>] ELSE "none"
      OBVIOUS
    <2>5. body \in {"none", "mine", "served"} /\ (at = "upload" => body # "none")
      <3>1. <<own.scene, l>> \in Captions
        BY <1>1 DEF ProcRecord, Captions, Hashable
      <3> QED
        BY <2>0, <2>1, <3>1, PluginHas
    <2>2. PICK k : /\ k = [own EXCEPT !.langs = own.langs \ {l}, !.lang = l, !.at = at, !.body = body]
                   /\ proc' = [proc EXCEPT ![p] = k]
      BY <2>0, <2>1
    <2>3. /\ k \in ProcRecord /\ k.at = at /\ k.mode = own.mode /\ k.scene = own.scene
          /\ k.lang = l /\ l \in Langs /\ k.body = body
      BY <1>1, <2>2, <2>5 DEF ProcRecord, Places
    <2>4. Careful(k, disk)
      BY <1>1, <2>3, <2>5 DEF Careful
    <2> QED
      BY <1>2, <2>2, <2>3, <2>4, PluginHas, ProcMoves
  <1> QED
    BY <1>3, <1>4

LEMMA StatSidecarStep ==
  ASSUME PluginInv, NEW p \in Procs, StatSidecar(p)
  PROVE  PluginInv'
  <1> DEFINE own == proc[p]
  <1>1. own \in ProcRecord /\ own.at = "stat" /\ own.at \in AtCaption /\ Careful(own, disk)
    BY PluginHas DEF StatSidecar, AtCaption
  <1>2. CASE disk[Caption(p)] # "none" /\ ~ own.replace
    <2>1. PICK k : k = Finished(p) /\ proc' = [proc EXCEPT ![p] = k]
      BY <1>2 DEF StatSidecar
    <2>2. k \in ProcRecord /\ Careful(k, disk)
      BY <1>1, <2>1, FinishedIs
    <2> QED
      BY <2>1, <2>2, PluginHas, ProcMoves DEF StatSidecar
  <1>3. CASE ~ (disk[Caption(p)] # "none" /\ ~ own.replace)
    <2>1. PICK k : /\ k = [own EXCEPT !.at = "write", !.temp = "part", !.late = FALSE]
                   /\ proc' = [proc EXCEPT ![p] = k]
      BY <1>3 DEF StatSidecar
    <2>2. /\ k \in ProcRecord /\ k.at = "write" /\ k.mode = own.mode /\ k.scene = own.scene
          /\ k.lang = own.lang /\ k.replace = own.replace
      BY <1>1, <2>1 DEF ProcRecord, Places
    <2>3. own.replace \/ disk[<<own.scene, own.lang>>] = "none"
      BY <1>3 DEF Caption
    <2>4. Careful(k, disk)
      BY <1>1, <2>2, <2>3 DEF Careful, AtCaption
    <2> QED
      BY <2>1, <2>2, <2>4, PluginHas, ProcMoves DEF StatSidecar
  <1> QED
    BY <1>2, <1>3

LEMMA WriteTempStep ==
  ASSUME PluginInv, NEW p \in Procs, NEW ok \in BOOLEAN, WriteTemp(p, ok)
  PROVE  PluginInv'
  <1> DEFINE own == proc[p]
  <1>1. own \in ProcRecord /\ own.at = "write" /\ own.at \in AtCaption /\ Careful(own, disk)
    BY PluginHas DEF WriteTemp, AtCaption
  <1>2. CASE ~ ok
    <2>1. PICK k : k = Finished(p) /\ proc' = [proc EXCEPT ![p] = k]
      BY <1>2 DEF WriteTemp
    <2>2. k \in ProcRecord /\ Careful(k, disk)
      BY <1>1, <2>1, FinishedIs
    <2> QED
      BY <2>1, <2>2, PluginHas, ProcMoves DEF WriteTemp
  <1>3. CASE ok
    <2>1. PICK k : /\ k = [own EXCEPT !.at = "rename", !.temp = "whole"]
                   /\ proc' = [proc EXCEPT ![p] = k]
      BY <1>3 DEF WriteTemp
    <2>2. /\ k \in ProcRecord /\ k.at = "rename" /\ k.mode = own.mode /\ k.scene = own.scene
          /\ k.lang = own.lang /\ k.replace = own.replace /\ k.late = own.late /\ k.temp = "whole"
      BY <1>1, <2>1 DEF ProcRecord, Places
    <2>3. Careful(k, disk)
      BY <1>1, <2>2 DEF Careful, AtCaption
    <2> QED
      BY <2>1, <2>2, <2>3, PluginHas, ProcMoves DEF WriteTemp
  <1> QED
    BY <1>2, <1>3

LEMMA RenameTempStep ==
  ASSUME PluginInv, NEW p \in Procs, NEW ok \in BOOLEAN, RenameTemp(p, ok)
  PROVE  PluginInv'
  <1>1. /\ proc[p].at \in AtCaption /\ proc[p].temp = "whole"
        /\ UNCHANGED <<received, described, processes>>
    BY PluginHas DEF RenameTemp, AtCaption, Careful
  <1>2. PICK k : k = Finished(p) /\ proc' = [proc EXCEPT ![p] = k]
    BY DEF RenameTemp
  <1>3. disk' = disk \/ disk' = [disk EXCEPT ![Caption(p)] = "served"]
    BY <1>1 DEF RenameTemp
  <1>4. k \in ProcRecord /\ \A d : Careful(k, d)
    BY <1>1, <1>2, FinishedIs
  <1>5. /\ disk' \in [Captions -> {"none", "mine", "served"}]
        /\ \A c \in Captions : disk'[c] = "mine" => disk[c] = "mine"
    BY <1>3, PluginHas
  <1>6. \A q \in Procs : Careful(proc[q], disk')
    <2> SUFFICES ASSUME NEW q \in Procs PROVE Careful(proc[q], disk')
      OBVIOUS
    <2>1. proc[q] \in ProcRecord /\ Careful(proc[q], disk)
      BY PluginHas
    <2>2. proc[q].at \in AtCaption => <<proc[q].scene, proc[q].lang>> \in Captions
      BY <2>1 DEF Careful, Captions, Hashable
    <2> QED
      BY <1>5, <2>1, <2>2 DEF Careful, AtCaption
  <1>7. proc' \in [Procs -> ProcRecord] /\ \A q \in Procs : Careful(proc'[q], disk')
    BY <1>2, <1>4, <1>6, PluginHas
  <1>8. (proc \in [Procs -> ProcRecord])'
    BY <1>7 DEF ProcRecord, Places, Hashable, Modes, Procs
  <1>9. (\A q \in Procs : Careful(proc[q], disk))'
    BY <1>7 DEF Careful, Procs, Modes, AtCaption, Hashable
  <1>10. (/\ disk \in [Captions -> {"none", "mine", "served"}]
          /\ received \subseteq Captions \X {"mine", "served"} /\ described \subseteq Hashable
          /\ processes \in 0..MaxProcesses)'
    BY <1>1, <1>5 DEF PluginInv, Captions, Hashable
  <1> QED
    BY <1>8, <1>9, <1>10 DEF PluginInv

LEMMA UploadSidecarStep ==
  ASSUME PluginInv, NEW p \in Procs, NEW answer \in Results, UploadSidecar(p, answer)
  PROVE  PluginInv'
  <1>1. proc[p].at \in AtCaption /\ UNCHANGED <<disk, described, processes>>
    BY DEF UploadSidecar, AtCaption
  <1>2. PICK done : done = Finished(p)
    OBVIOUS
  <1>3. done \in ProcRecord /\ Careful(done, disk)
    BY <1>1, <1>2, FinishedIs
  <1>4. PICK k : k = Attempt(p, answer, done, done) /\ proc' = [proc EXCEPT ![p] = k]
    BY <1>2 DEF UploadSidecar
  <1>5. k \in ProcRecord /\ Careful(k, disk)
    BY <1>3, <1>4, AttemptIs
  <1>6. received' \subseteq Captions \X {"mine", "served"}
    <2>1. Caption(p) \in Captions
      BY <1>1, PluginHas DEF Careful, Caption, Captions, Hashable
    <2>2. <<Caption(p), proc[p].body>> \in Captions \X {"mine", "served"}
      BY <2>1, PluginHas DEF UploadSidecar, Careful, ProcRecord
    <2>3. received' = received \/ received' = received \cup {<<Caption(p), proc[p].body>>}
      BY DEF UploadSidecar
    <2> QED
      BY <2>2, <2>3, PluginHas
  <1> QED
    BY <1>1, <1>4, <1>5, <1>6, PluginHas, ProcMoves

LEMMA SendMetadataStep ==
  ASSUME PluginInv, NEW p \in Procs, NEW answer \in Results, SendMetadata(p, answer)
  PROVE  PluginInv'
  <1> DEFINE own == proc[p]
  <1>1. own \in ProcRecord /\ own.at = "send" /\ own.mode \in Modes
    BY PluginHas DEF SendMetadata, Careful
  <1>2. PICK k : k = [own EXCEPT !.at = "page", !.batch = {}] /\ proc' = [proc EXCEPT ![p] = k]
    BY DEF SendMetadata
  <1>3. k \in ProcRecord /\ k.at = "page" /\ k.mode = own.mode
    BY <1>1, <1>2 DEF ProcRecord, Places
  <1>4. Careful(k, disk)
    BY <1>1, <1>3 DEF Careful, AtCaption
  <1>5. described' \subseteq Hashable
    BY <1>1, PluginHas DEF SendMetadata, ProcRecord
  <1> QED
    BY <1>2, <1>3, <1>4, <1>5, PluginHas, ProcMoves DEF SendMetadata

LEMMA StopTaskStep ==
  ASSUME PluginInv, NEW p \in Procs, StopTask(p)
  PROVE  PluginInv'
  <1>1. PICK k : k = NoProcess /\ proc' = [proc EXCEPT ![p] = k]
    BY DEF StopTask
  <1> QED
    BY <1>1, NoProcessIs, PluginHas, ProcMoves DEF StopTask

LEMMA UserEditsStep ==
  ASSUME PluginInv, NEW c \in Captions, NEW what \in {"none", "mine"}, UserEdits(c, what)
  PROVE  PluginInv'
  <1>1. /\ disk' = [disk EXCEPT ![c] = what] /\ UNCHANGED <<received, described, processes>>
        /\ proc' = [p \in Procs |-> IF Caption(p) = c /\ proc[p].at \in {"write", "rename"}
                                    THEN [proc[p] EXCEPT !.late = TRUE] ELSE proc[p]]
    BY DEF UserEdits
  <1>2. disk' \in [Captions -> {"none", "mine", "served"}] /\ \A d \in Captions : d # c => disk'[d] = disk[d]
    BY <1>1 DEF PluginInv
  <1>3. ASSUME NEW q \in Procs
        PROVE  proc'[q] \in ProcRecord /\ Careful(proc'[q], disk')
    <2>1. proc[q] \in ProcRecord /\ Careful(proc[q], disk)
      BY PluginHas
    <2>2. proc[q].at \in AtCaption => Caption(q) \in Captions /\ Caption(q) = <<proc[q].scene, proc[q].lang>>
      BY <2>1 DEF Careful, Caption, Captions, Hashable
    <2>3. CASE Caption(q) = c /\ proc[q].at \in {"write", "rename"}
      <3>1. PICK k : k = [proc[q] EXCEPT !.late = TRUE] /\ proc'[q] = k
        BY <1>1, <2>3
      <3>2. /\ k \in ProcRecord /\ k.at = proc[q].at /\ k.mode = proc[q].mode /\ k.scene = proc[q].scene
            /\ k.lang = proc[q].lang /\ k.temp = proc[q].temp /\ k.body = proc[q].body /\ k.late
        BY <2>1, <3>1 DEF ProcRecord
      <3>3. Careful(k, disk')
        BY <2>1, <3>2 DEF Careful
      <3> QED
        BY <3>1, <3>2, <3>3
    <2>4. CASE ~ (Caption(q) = c /\ proc[q].at \in {"write", "rename"})
      <3>1. proc'[q] = proc[q]
        BY <1>1, <2>4
      <3>2. proc[q].at \in {"write", "rename"} =>
              disk'[<<proc[q].scene, proc[q].lang>>] = disk[<<proc[q].scene, proc[q].lang>>]
        BY <1>2, <2>2, <2>4 DEF AtCaption
      <3>3. Careful(proc[q], disk')
        BY <2>1, <3>2 DEF Careful
      <3> QED
        BY <2>1, <3>1, <3>3
    <2> QED
      BY <2>3, <2>4
  <1>4. proc' \in [Procs -> ProcRecord]
    BY <1>1, <1>3
  <1>5. (proc \in [Procs -> ProcRecord])'
    BY <1>4 DEF ProcRecord, Places, Hashable, Modes, Procs
  <1>6. (\A q \in Procs : Careful(proc[q], disk))'
    BY <1>3 DEF Careful, Procs, Modes, AtCaption, Hashable
  <1>7. (/\ disk \in [Captions -> {"none", "mine", "served"}]
         /\ received \subseteq Captions \X {"mine", "served"} /\ described \subseteq Hashable
         /\ processes \in 0..MaxProcesses)'
    BY <1>1, <1>2 DEF PluginInv, Captions, Hashable
  <1> QED
    BY <1>5, <1>6, <1>7 DEF PluginInv

LEMMA PluginStart == PluginInit => PluginInv
  <1> SUFFICES ASSUME PluginInit PROVE PluginInv
    OBVIOUS
  <1>1. 0 \in 0..MaxProcesses
    BY PluginConstants
  <1>2. proc \in [Procs -> ProcRecord] /\ \A p \in Procs : Careful(proc[p], disk)
    BY NoProcessIs DEF PluginInit
  <1> QED
    BY <1>1, <1>2 DEF PluginInit, PluginInv

LEMMA PluginIdle ==
  ASSUME PluginInv, UNCHANGED pluginVars
  PROVE  PluginInv'
  <1>1. "task" \in Procs
    BY DEF Procs
  <1>2. PICK k : k = proc["task"]
    OBVIOUS
  <1>3. proc' = [proc EXCEPT !["task"] = k]
    BY <1>1, <1>2, PluginHas DEF pluginVars
  <1> QED
    BY <1>1, <1>2, <1>3, PluginHas, ProcMoves DEF pluginVars

LEMMA PluginStep == PluginInv /\ [PluginNext]_pluginVars => PluginInv'
  <1> SUFFICES ASSUME PluginInv, [PluginNext]_pluginVars PROVE PluginInv'
    OBVIOUS
  <1>1. ASSUME NEW p \in Procs, ProcStep(p)
        PROVE  PluginInv'
    BY <1>1, NextPageStep, WriteTempStep, RenameTempStep, LookupBatchStep, FetchTrackStep,
       UploadSidecarStep, SendMetadataStep, NextSceneStep, NextCaptionStep, StatSidecarStep
       DEF ProcStep
  <1>2. CASE \E mode \in {"download", "push", "contribute"}, dry \in BOOLEAN, s \in Settings :
               StartTask(mode, dry, s)
    BY <1>2, StartTaskStep DEF Modes
  <1>3. CASE \E scene \in Scenes \ Unhashed, s \in Settings : PanelPush(scene, s)
    BY <1>3, PanelPushStep DEF Hashable
  <1> QED
    BY <1>1, <1>2, <1>3, PanelDownloadStep, StopTaskStep, UserEditsStep, PluginIdle DEF PluginNext

\* What the plugin's processes are at has its type.
THEOREM PluginStaysTyped == PluginSpec => []PluginTypeOK
  BY PluginStart, PluginStep, PluginTyped, PTL DEF PluginSpec

\* A step that replaces a caption of the user's is the rename of a process that
\* was told to, or that looked before the caption was saved.
LEMMA CaptionStays ==
  ASSUME PluginInv, [PluginNext]_pluginVars, NEW c \in Captions, disk[c] = "mine", disk'[c] = "served"
  PROVE  \E p \in Procs : Caption(p) = c /\ (proc[p].replace \/ proc[p].late)
  <1>1. disk' # disk
    OBVIOUS
  <1>2. ~ \E d \in Captions, what \in {"none", "mine"} : UserEdits(d, what)
    BY PluginHas DEF UserEdits, PluginInv
  <1>3. PICK p \in Procs, ok \in BOOLEAN : RenameTemp(p, ok)
    BY <1>1, <1>2 DEF PluginNext, pluginVars, StartTask, PanelDownload, PanelPush, ProcStep, StopTask,
       NextPage, WriteTemp, LookupBatch, FetchTrack, UploadSidecar, SendMetadata, NextScene,
       NextCaption, StatSidecar
  <1>4. disk' = [disk EXCEPT ![Caption(p)] = IF proc[p].temp = "whole" THEN "served" ELSE "torn"]
    BY <1>1, <1>3 DEF RenameTemp
  <1>5. Caption(p) = c
    BY <1>4 DEF PluginInv
  <1>6. proc[p].replace \/ proc[p].late
    BY <1>3, <1>5, PluginHas DEF RenameTemp, Careful, Caption
  <1> QED
    BY <1>5, <1>6

\* A caption of the user's is replaced only on purpose, or when it came after the
\* plugin's own look at the disk.
THEOREM CaptionsStay == PluginSpec => HandMadeCaptionsStay
  <1>1. PluginInv /\ [PluginNext]_pluginVars =>
          [\A c \in Captions : disk[c] = "mine" /\ disk'[c] = "served" =>
             \E p \in Procs : Caption(p) = c /\ (proc[p].replace \/ proc[p].late)]_pluginVars
    BY CaptionStays
  <1> QED
    BY <1>1, PluginStart, PluginStep, PTL DEF PluginSpec, HandMadeCaptionsStay

-----------------------------------------------------------------------------
(* Together.                                                               *)

\* A behaviour of the composition is one of every part.
LEMMA PartsRun ==
  BackgroundSpec => StatsSpec /\ SweepSpec /\ PluginSpec /\ MigrateSpec
  <1>1. BackgroundInit => StatsInit /\ SweepInit /\ PluginInit /\ MigrateInit
    BY DEF BackgroundInit
  <1>2. [BackgroundNext]_backgroundVars => [StatsNext]_statsVars
    BY DEF BackgroundNext, backgroundVars, InStats, InSweep, InPlugin, InMigrate
  <1>3. [BackgroundNext]_backgroundVars => [SweepNext]_sweepVars
    BY DEF BackgroundNext, backgroundVars, InStats, InSweep, InPlugin, InMigrate
  <1>4. [BackgroundNext]_backgroundVars => [PluginNext]_pluginVars
    BY DEF BackgroundNext, backgroundVars, InStats, InSweep, InPlugin, InMigrate
  <1>5. [BackgroundNext]_backgroundVars => [MigrateNext]_migrateVars
    BY DEF BackgroundNext, backgroundVars, InStats, InSweep, InPlugin, InMigrate
  <1> QED
    BY <1>1, <1>2, <1>3, <1>4, <1>5, PTL
       DEF BackgroundSpec, StatsSpec, SweepSpec, PluginSpec, MigrateSpec

\* Every variable of every part keeps its type.
THEOREM BackgroundTyped == BackgroundSpec => []BackgroundTypeOK
  BY PartsRun, EarlierCountsAreFlushed, SweepsKeepMatches, PluginStaysTyped, MigrateTypes, PTL
     DEF BackgroundTypeOK

\* Whatever step a sweep or an upgrade is stopped at, matches that were recorded
\* stay with their release and the schema stays sound.
THEOREM StopsAreSafe == BackgroundSpec => []StopsLeaveNoHalves
  BY PartsRun, SweepsKeepMatches, SchemaIsSound, PTL DEF StopsLeaveNoHalves

\* What was counted before the signal is in the database once the final flush is
\* over; flushing is a tally of what was counted; and the plugin replaces a
\* caption of the user's only on purpose, or when it came after its look.
THEOREM BackgroundPromises ==
  BackgroundSpec => []EarlierCountsFlushed /\ StatsRefinesTally /\ HandMadeCaptionsStay
  BY PartsRun, EarlierCountsAreFlushed, StatsAreATally, CaptionsStay, PTL
=============================================================================

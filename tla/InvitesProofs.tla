----------------------------- MODULE InvitesProofs -----------------------------
(***************************************************************************)
(* Theorems of Invites, for any number of names, codes and connections.    *)
(***************************************************************************)
EXTENDS Invites, FiniteSetTheorems, TLAPS

tables == <<accounts, joinedBy, invites, rest>>

\* Row locks exclude each other: a code's, a new name's, a minting account's.
Excludes(own, other) ==
  /\ own.at \in {"insert", "commit"} /\ other.at \in {"insert", "commit"} =>
       own.code # other.code
  /\ own.at = "commit" /\ other.at = "commit" => own.account # other.account
  /\ own.at \in {"count", "mint"} /\ other.at \in {"count", "mint"} =>
       own.account # other.account

LocksExclude == \A c, d \in Conns : c # d => Excludes(tx[c], tx[d])

\* The code a redemption has locked is enabled, and has a use left.
HoldsItsCode(own) ==
  own.at \in {"insert", "commit"} =>
    /\ own.code \in DOMAIN invites
    /\ invites[own.code].state = "enabled"
    /\ invites[own.code].uses = own.uses
    /\ invites[own.code].max # Unlimited => own.uses < invites[own.code].max

HoldsItsName(own) == own.at = "commit" => own.account \notin accounts

\* Nothing an account's locked mint has counted has grown since.
KeepsItsBudget(own) ==
  own.at = "mint" =>
    /\ Cardinality(Minted(own.account)) < Earned(own.uploads)
    /\ Cardinality(UnusedActive(own.account, Expired)) < InvitesCap

\* What was past its time still is.
KnowsExpired(own) == own.expired \subseteq Expired

Sound(own) ==
  /\ HoldsItsCode(own)
  /\ HoldsItsName(own)
  /\ KeepsItsBudget(own)
  /\ KnowsExpired(own)

JoinersAreRegistered ==
  \A a \in Names : joinedBy[a] # None => a \in accounts /\ joinedBy[a] \in DOMAIN invites

InvitesInv ==
  /\ TypeOK
  /\ UsesAreRegistrations
  /\ JoinersAreRegistered
  /\ LocksExclude
  /\ \A c \in Conns : Sound(tx[c])

-----------------------------------------------------------------------------
LEMMA IdleIsSound ==
  Idle \in Transaction /\ WellFormed(Idle) /\ Sound(Idle)
  <1>1. Idle \in Transaction
    BY DEF Idle, Transaction
  <1>2. QED
    BY <1>1 DEF Idle, WellFormed, Sound, HoldsItsCode, HoldsItsName,
             KeepsItsBudget, KnowsExpired

LEMMA IdleExcludes ==
  ASSUME NEW other
  PROVE  Excludes(Idle, other)
  BY DEF Excludes, Idle

LEMMA FiniteSets ==
  ASSUME TypeOK, NEW a, NEW E
  PROVE  /\ IsFiniteSet(Minted(a)) /\ IsFiniteSet(UnusedActive(a, E))
         /\ Cardinality(Minted(a)) \in Nat
         /\ Cardinality(UnusedActive(a, E)) \in Nat
  <1>1. Minted(a) \subseteq Codes /\ UnusedActive(a, E) \subseteq Codes
    BY DEF TypeOK, Minted, UnusedActive
  <1>2. IsFiniteSet(Minted(a)) /\ IsFiniteSet(UnusedActive(a, E))
    BY <1>1, InvitesAssumption, FS_Subset
  <1>3. QED
    BY <1>2, FS_CardinalityType

\* A statement that only moves its own transaction on keeps the invariant if
\* it leaves that transaction sound and takes no row another one has locked.
LEMMA OwnStep ==
  ASSUME InvitesInv, NEW c \in Conns, NEW own \in Transaction,
         Becomes(c, own), UNCHANGED tables, WellFormed(own), Sound(own),
         \A d \in Conns \ {c} : Excludes(own, tx[d])
  PROVE  InvitesInv'
  <1>1. /\ tx'[c] = own
        /\ \A d \in Conns \ {c} : tx'[d] = tx[d]
    BY DEF InvitesInv, TypeOK, Becomes
  <1>2. tx' \in [Conns -> Transaction]
    BY DEF InvitesInv, TypeOK, Becomes
  <1>3. \A d \in Conns : WellFormed(tx'[d]) /\ Sound(tx'[d])
    BY <1>1 DEF InvitesInv, TypeOK
  <1>4. TypeOK'
    BY <1>2, <1>3 DEF InvitesInv, TypeOK, tables, rest, WellFormed
  <1>5. UsesAreRegistrations' /\ JoinersAreRegistered'
    BY DEF InvitesInv, UsesAreRegistrations, JoinersAreRegistered, tables
  <1>6. \A d \in Conns \ {c} : Excludes(tx[d], own)
    BY DEF Excludes
  <1>7. LocksExclude'
    BY <1>1, <1>6 DEF InvitesInv, LocksExclude, Excludes
  <1>8. ASSUME NEW d \in Conns
        PROVE  Sound(tx[d])'
    BY <1>3 DEF Sound, HoldsItsCode, HoldsItsName, KeepsItsBudget,
             KnowsExpired, Minted, UnusedActive, Redeemable, Expired, tables
  <1>9. QED
    BY <1>4, <1>5, <1>7, <1>8 DEF InvitesInv

\* The transactions that end without a write.
LEMMA EndStep ==
  ASSUME InvitesInv, NEW c \in Conns, Becomes(c, Idle), UNCHANGED tables
  PROVE  InvitesInv'
  <1>1. \A d \in Conns \ {c} : Excludes(Idle, tx[d])
    BY IdleExcludes
  <1>2. QED
    BY <1>1, IdleIsSound, OwnStep

-----------------------------------------------------------------------------
TablesOK ==
  /\ accounts \subseteq Names
  /\ disabled \subseteq accounts
  /\ joinedBy \in [Names -> Codes \cup {None}]
  /\ uploads \in [Creators -> 0 .. MaxUploads]
  /\ DOMAIN invites \subseteq Codes
  /\ invites \in [DOMAIN invites -> Invite]

\* A statement that changes tables, and its own transaction to Idle at most.
LEMMA TableStep ==
  ASSUME InvitesInv, TablesOK', UsesAreRegistrations', JoinersAreRegistered',
         tx' \in [Conns -> Transaction],
         \A d \in Conns : tx'[d] = tx[d] \/ tx'[d] = Idle,
         \A d \in Conns : tx'[d] = tx[d] => Sound(tx[d])'
  PROVE  InvitesInv'
  <1>1. \A d \in Conns : WellFormed(tx'[d])
    BY IdleIsSound DEF InvitesInv, TypeOK
  <1>2. TypeOK'
    BY <1>1 DEF TypeOK, TablesOK, WellFormed
  <1>3. \A d, e \in Conns : d # e => Excludes(tx'[d], tx'[e])
    BY DEF InvitesInv, LocksExclude, Excludes, Idle
  <1>4. LocksExclude'
    BY <1>3 DEF LocksExclude, Excludes
  <1>5. ASSUME NEW d \in Conns
        PROVE  Sound(tx[d])'
    <2>1. CASE tx'[d] = tx[d]
      BY <2>1 DEF Sound, HoldsItsCode, HoldsItsName, KeepsItsBudget,
               KnowsExpired, Minted, UnusedActive, Redeemable, Expired
    <2>2. CASE tx'[d] = Idle
      BY <2>2 DEF Idle, Sound, HoldsItsCode, HoldsItsName, KeepsItsBudget,
               KnowsExpired
    <2>3. QED
      BY <2>1, <2>2
  <1>6. QED
    BY <1>2, <1>4, <1>5 DEF InvitesInv

\* The rows of invites change, and only towards codes that are used up.
Closes ==
  /\ DOMAIN invites' = DOMAIN invites
  /\ \A k \in DOMAIN invites :
       /\ invites'[k].creator = invites[k].creator
       /\ invites'[k].max = invites[k].max
       /\ invites'[k].uses >= invites[k].uses
       /\ invites'[k].state = "enabled" => invites[k].state = "enabled"
       /\ invites[k].expires = "past" => invites'[k].expires = "past"

\* Such a change leaves every account's budget at least as large.
LEMMA ClosingKeepsBudgets ==
  ASSUME TypeOK, TablesOK', Closes
  PROVE  /\ Expired \subseteq Expired'
         /\ \A own : KeepsItsBudget(own) => KeepsItsBudget(own)'
         /\ \A own : KnowsExpired(own) => KnowsExpired(own)'
  <1>1. Expired \subseteq Expired'
    BY DEF Closes, Expired
  <1>2. ASSUME NEW a
        PROVE  /\ Minted(a)' = Minted(a)
               /\ UnusedActive(a, Expired)' \subseteq UnusedActive(a, Expired)
    <2>1. Minted(a)' = Minted(a)
      BY DEF Closes, Minted
    <2>2. ASSUME NEW k \in UnusedActive(a, Expired)'
          PROVE  k \in UnusedActive(a, Expired)
      <3>1. k \in Minted(a) /\ k \in DOMAIN invites /\ k \in DOMAIN invites'
        BY <2>1, <2>2 DEF UnusedActive, Minted, Closes
      <3>2. /\ invites'[k].state = "enabled" /\ k \notin Expired'
            /\ invites'[k].max = Unlimited \/ invites'[k].uses < invites'[k].max
        BY <2>2 DEF UnusedActive, Redeemable
      <3>3. invites[k] \in Invite /\ invites'[k] \in Invite
        BY <3>1 DEF TypeOK, TablesOK
      <3>4. Redeemable(k, Expired)
        BY <1>1, <3>1, <3>2, <3>3 DEF Closes, Redeemable, Invite, Unlimited
      <3>5. QED
        BY <3>1, <3>4 DEF UnusedActive
    <2>3. QED
      BY <2>1, <2>2
  <1>3. ASSUME NEW own, KeepsItsBudget(own), own.at = "mint"
        PROVE  /\ Cardinality(Minted(own.account))' < Earned(own.uploads)
               /\ Cardinality(UnusedActive(own.account, Expired))' < InvitesCap
    <2> DEFINE U == UnusedActive(own.account, Expired)
    <2>1. IsFiniteSet(U) /\ Cardinality(U) \in Nat
      BY FiniteSets
    <2>2. Cardinality(U') <= Cardinality(U) /\ Cardinality(U') \in Nat
      <3>1. U' \subseteq U
        BY <1>2
      <3>2. QED
        BY <2>1, <3>1, FS_Subset, FS_CardinalityType
    <2>3. Cardinality(U) < InvitesCap
      BY <1>3 DEF KeepsItsBudget
    <2>4. Cardinality(U') < InvitesCap
      BY <2>1, <2>2, <2>3, InvitesAssumption
    <2>5. QED
      BY <1>2, <1>3, <2>4 DEF KeepsItsBudget
  <1>4. QED
    BY <1>1, <1>3 DEF KeepsItsBudget, KnowsExpired

LEMMA NewInviteKeepsBudgets ==
  ASSUME TypeOK, NEW k \in Codes, NEW a, NEW max, NEW expires,
         NewInvite(k, a, max, expires)
  PROVE  /\ Expired \subseteq Expired'
         /\ \A b : b # a => /\ Minted(b)' = Minted(b)
                            /\ UnusedActive(b, Expired)' = UnusedActive(b, Expired)
         /\ Minted(a)' = Minted(a) \cup {k} /\ k \notin Minted(a)
         /\ UnusedActive(a, Expired)' \subseteq UnusedActive(a, Expired) \cup {k}
  <1>1. /\ k \notin DOMAIN invites
        /\ DOMAIN invites' = DOMAIN invites \cup {k}
        /\ \A j \in DOMAIN invites : invites'[j] = invites[j]
        /\ invites'[k].creator = a
    BY DEF NewInvite
  <1>2. Expired \subseteq Expired' /\ Expired' \subseteq Expired \cup {k}
    BY <1>1 DEF Expired
  <1>3. \A b : b # a => Minted(b)' = Minted(b)
    BY <1>1 DEF Minted
  <1>4. Minted(a)' = Minted(a) \cup {k} /\ k \notin Minted(a)
    BY <1>1 DEF Minted
  <1>5. \A j \in DOMAIN invites : Redeemable(j, Expired)' <=> Redeemable(j, Expired)
    BY <1>1, <1>2 DEF Redeemable
  <1>6. \A b : b # a => UnusedActive(b, Expired)' = UnusedActive(b, Expired)
    BY <1>3, <1>5 DEF UnusedActive, Minted
  <1>7. UnusedActive(a, Expired)' \subseteq UnusedActive(a, Expired) \cup {k}
    BY <1>1, <1>4, <1>5 DEF UnusedActive, Minted
  <1>8. QED
    BY <1>2, <1>3, <1>4, <1>6, <1>7

-----------------------------------------------------------------------------
LEMMA RegisterStep ==
  ASSUME InvitesInv, NEW c \in Conns, NEW a \in Names, NEW k \in Codes \cup {None},
         Register(c, a, k)
  PROVE  InvitesInv'
  <1> DEFINE own == IF k = None
                      THEN [Idle EXCEPT !.at = "register", !.account = a]
                      ELSE [Idle EXCEPT !.at = "redeem", !.account = a, !.code = k,
                                        !.expired = Expired, !.barred = disabled]
  <1>1. Becomes(c, own) /\ UNCHANGED tables
    BY DEF Register, tables
  <1>2. Expired \subseteq Codes /\ disabled \subseteq Names
    BY DEF InvitesInv, TypeOK, Expired
  <1>3. own \in Transaction
    BY <1>2 DEF Idle, Transaction
  <1>4. WellFormed(own)
    BY InvitesAssumption DEF Idle, WellFormed
  <1>5. Sound(own)
    BY DEF Idle, Sound, HoldsItsCode, HoldsItsName, KeepsItsBudget, KnowsExpired
  <1>6. \A d \in Conns \ {c} : Excludes(own, tx[d])
    BY DEF Idle, Excludes
  <1> HIDE DEF own
  <1>7. QED
    BY <1>1, <1>3, <1>4, <1>5, <1>6, OwnStep

LEMMA RedeemCodeStep ==
  ASSUME InvitesInv, NEW c \in Conns, RedeemCode(c)
  PROVE  InvitesInv'
  <1> DEFINE k == tx[c].code
             own == [tx[c] EXCEPT !.at = "insert", !.uses = invites[k].uses]
  <1>1. Becomes(c, own) /\ UNCHANGED tables /\ At(c, "redeem")
    BY DEF RedeemCode, tables
  <1>2. tx[c] \in Transaction /\ WellFormed(tx[c]) /\ Sound(tx[c])
    BY DEF InvitesInv, TypeOK
  <1>3. k \in DOMAIN invites /\ Redeemable(k, tx[c].expired) /\ CodeFree(k)
    BY DEF RedeemCode, Accepted
  <1>4. invites[k] \in Invite
    BY <1>3 DEF InvitesInv, TypeOK
  <1>5. own \in Transaction
    BY <1>2, <1>4 DEF Transaction, Invite
  <1>6. WellFormed(own)
    BY <1>1, <1>2, <1>5 DEF WellFormed, At, Transaction
  <1>7. HoldsItsCode(own)
    BY <1>2, <1>3, <1>4 DEF HoldsItsCode, Redeemable, Transaction, Invite
  <1>8. Sound(own)
    BY <1>1, <1>2, <1>7 DEF Sound, HoldsItsName, KeepsItsBudget, KnowsExpired,
             At, Transaction
  <1>9. \A d \in Conns \ {c} : Excludes(own, tx[d])
    BY <1>2, <1>3 DEF Excludes, CodeFree, Redeeming, Transaction
  <1> HIDE DEF own
  <1>10. QED
    BY <1>1, <1>5, <1>6, <1>8, <1>9, OwnStep

LEMMA CodeInvalidStep ==
  ASSUME InvitesInv, NEW c \in Conns, CodeInvalid(c)
  PROVE  InvitesInv'
  <1> DEFINE own == [Idle EXCEPT !.at = "register", !.account = tx[c].account]
  <1>1. /\ Becomes(c, own) \/ Becomes(c, Idle)
        /\ UNCHANGED tables /\ At(c, "redeem")
    BY DEF CodeInvalid, tables
  <1>2. tx[c] \in Transaction /\ WellFormed(tx[c])
    BY DEF InvitesInv, TypeOK
  <1>3. own \in Transaction
    BY <1>2 DEF Idle, Transaction
  <1>4. WellFormed(own)
    BY <1>1, <1>2 DEF WellFormed, Idle, At
  <1>5. Sound(own)
    BY DEF Idle, Sound, HoldsItsCode, HoldsItsName, KeepsItsBudget, KnowsExpired
  <1>6. \A d \in Conns \ {c} : Excludes(own, tx[d])
    BY DEF Idle, Excludes
  <1> HIDE DEF own
  <1>7. CASE Becomes(c, own)
    BY <1>1, <1>3, <1>4, <1>5, <1>6, <1>7, OwnStep
  <1>8. CASE Becomes(c, Idle)
    BY <1>1, <1>8, EndStep
  <1>9. QED
    BY <1>1, <1>7, <1>8

LEMMA InsertAccountStep ==
  ASSUME InvitesInv, NEW c \in Conns, InsertAccount(c)
  PROVE  InvitesInv'
  <1> DEFINE own == [tx[c] EXCEPT !.at = "commit"]
  <1>1. Becomes(c, own) /\ UNCHANGED tables /\ At(c, "insert")
    BY DEF InsertAccount, tables
  <1>2. tx[c] \in Transaction /\ WellFormed(tx[c]) /\ Sound(tx[c])
    BY DEF InvitesInv, TypeOK
  <1>3. own \in Transaction
    BY <1>2 DEF Transaction
  <1>4. WellFormed(own)
    BY <1>1, <1>2 DEF WellFormed, At, Transaction
  <1>5. HoldsItsCode(own)
    BY <1>1, <1>2 DEF Sound, HoldsItsCode, At, Transaction
  <1>6. HoldsItsName(own)
    BY <1>2 DEF InsertAccount, HoldsItsName, Transaction
  <1>7. Sound(own)
    BY <1>2, <1>5, <1>6 DEF Sound, KeepsItsBudget, KnowsExpired, Transaction
  <1>8. ASSUME NEW d \in Conns \ {c}
        PROVE  Excludes(own, tx[d])
    <2>1. Excludes(tx[c], tx[d])
      BY <1>8 DEF InvitesInv, LocksExclude
    <2>2. ~(tx[d].at = "commit" /\ tx[d].account = tx[c].account)
      BY DEF InsertAccount, NameFree, At
    <2>3. QED
      BY <1>1, <1>2, <2>1, <2>2 DEF Excludes, At, Transaction
  <1> HIDE DEF own
  <1>9. QED
    BY <1>1, <1>3, <1>4, <1>7, <1>8, OwnStep

LEMMA CommitRedemptionStep ==
  ASSUME InvitesInv, NEW c \in Conns, CommitRedemption(c)
  PROVE  InvitesInv'
  <1> DEFINE own == tx[c]
             k == own.code
             J(j) == {a \in Names : joinedBy[a] = j}
             J1(j) == {a \in Names : joinedBy'[a] = j}
  <1>1. own \in Transaction /\ WellFormed(own) /\ Sound(own) /\ own.at = "commit"
    BY DEF InvitesInv, TypeOK, CommitRedemption, At
  <1>2. /\ k \in DOMAIN invites
        /\ invites[k].state = "enabled"
        /\ invites[k].uses = own.uses
        /\ invites[k].max # Unlimited => own.uses < invites[k].max
        /\ own.account \notin accounts
    BY <1>1 DEF Sound, HoldsItsCode, HoldsItsName
  <1>3. own.account \in Names /\ own.uses \in Nat /\ k \in Codes
    BY <1>1, <1>2 DEF WellFormed, Transaction, InvitesInv, TypeOK
  <1>4. invites[k] \in Invite
    BY <1>2 DEF InvitesInv, TypeOK
  <1>5. /\ DOMAIN invites' = DOMAIN invites
        /\ invites'[k] = [creator |-> invites[k].creator, max |-> invites[k].max,
                          uses |-> own.uses + 1, state |-> invites[k].state,
                          expires |-> invites[k].expires]
        /\ \A j \in DOMAIN invites \ {k} : invites'[j] = invites[j]
        /\ accounts' = accounts \cup {own.account}
        /\ joinedBy' = [joinedBy EXCEPT ![own.account] = k]
        /\ disabled' = disabled /\ uploads' = uploads
        /\ Becomes(c, Idle)
    BY <1>2 DEF CommitRedemption, rest
  <1>6. invites'[k] \in Invite
    BY <1>3, <1>4, <1>5 DEF Invite
  <1>7. invites' \in [DOMAIN invites' -> Invite]
    BY <1>5, <1>6 DEF InvitesInv, TypeOK, CommitRedemption
  <1>8. TablesOK'
    BY <1>3, <1>5, <1>7 DEF InvitesInv, TypeOK, TablesOK
  <1>9. Closes
    BY <1>2, <1>4, <1>5 DEF InvitesInv, TypeOK, Closes, Invite
  <1>10. JoinersAreRegistered'
    BY <1>2, <1>3, <1>5 DEF InvitesInv, TypeOK, JoinersAreRegistered
  <1>11. joinedBy[own.account] = None /\ None \notin Codes
    BY <1>2, <1>3, InvitesAssumption DEF InvitesInv, JoinersAreRegistered
  <1>12. J1(k) = J(k) \cup {own.account} /\ own.account \notin J(k)
    BY <1>3, <1>5, <1>11 DEF InvitesInv, TypeOK
  <1>13. Cardinality(J1(k)) = own.uses + 1
    <2>1. IsFiniteSet(J(k))
      BY InvitesAssumption, FS_Subset
    <2>2. Cardinality(J(k)) = own.uses
      BY <1>2 DEF InvitesInv, UsesAreRegistrations
    <2>3. Cardinality(J(k) \cup {own.account}) = Cardinality(J(k)) + 1
      BY <1>12, <2>1, FS_AddElement
    <2>4. QED
      BY <1>12, <2>2, <2>3
  <1>14. \A j \in DOMAIN invites \ {k} : J1(j) = J(j)
    BY <1>3, <1>5, <1>11 DEF InvitesInv, TypeOK
  <1>15. UsesAreRegistrations'
    <2>1. SUFFICES ASSUME NEW j \in DOMAIN invites'
                   PROVE  /\ invites'[j].uses = Cardinality(J1(j))
                          /\ invites'[j].max # Unlimited =>
                               invites'[j].uses <= invites'[j].max
      BY DEF UsesAreRegistrations
    <2>2. CASE j = k
      BY <1>2, <1>3, <1>4, <1>5, <1>13, <2>2 DEF Invite, Unlimited
    <2>3. CASE j # k
      BY <1>5, <1>14, <2>3 DEF InvitesInv, UsesAreRegistrations
    <2>4. QED
      BY <2>2, <2>3
  <1>16. /\ tx' \in [Conns -> Transaction]
         /\ tx'[c] = Idle
         /\ \A d \in Conns \ {c} : tx'[d] = tx[d]
    BY <1>5, IdleIsSound DEF InvitesInv, TypeOK, Becomes
  <1>17. ASSUME NEW d \in Conns, tx'[d] = tx[d]
         PROVE  Sound(tx[d])'
    <2>1. d # c
      BY <1>1, <1>16, <1>17 DEF Idle
    <2>2. Sound(tx[d]) /\ Excludes(tx[d], tx[c])
      BY <2>1 DEF InvitesInv, LocksExclude
    <2>3. HoldsItsCode(tx[d])'
      BY <1>1, <1>5, <1>17, <2>2 DEF Sound, HoldsItsCode, Excludes
    <2>4. HoldsItsName(tx[d])'
      BY <1>1, <1>5, <1>17, <2>2 DEF Sound, HoldsItsName, Excludes
    <2>5. KeepsItsBudget(tx[d])' /\ KnowsExpired(tx[d])'
      <3>1. KeepsItsBudget(tx[d]) /\ KnowsExpired(tx[d]) /\ TypeOK
        BY <2>2 DEF Sound, InvitesInv
      <3>2. QED
        BY <1>8, <1>9, <1>17, <3>1, ClosingKeepsBudgets DEF KeepsItsBudget, KnowsExpired
    <2>6. QED
      BY <2>3, <2>4, <2>5 DEF Sound
  <1> HIDE DEF own, k, J, J1
  <1>18. QED
    BY <1>8, <1>10, <1>15, <1>16, <1>17, TableStep

LEMMA CreateAccountStep ==
  ASSUME InvitesInv, NEW c \in Conns, CreateAccount(c)
  PROVE  InvitesInv'
  <1>1. tx[c] \in Transaction /\ WellFormed(tx[c]) /\ At(c, "register")
    BY DEF InvitesInv, TypeOK, CreateAccount
  <1>2. tx[c].account \in Names
    BY <1>1 DEF WellFormed, At, Transaction
  <1>3. /\ accounts' = accounts \cup {tx[c].account}
        /\ UNCHANGED <<joinedBy, invites, disabled, uploads>>
        /\ Becomes(c, Idle)
    BY DEF CreateAccount, rest
  <1>4. TablesOK'
    BY <1>2, <1>3 DEF InvitesInv, TypeOK, TablesOK
  <1>5. UsesAreRegistrations' /\ JoinersAreRegistered'
    BY <1>3 DEF InvitesInv, UsesAreRegistrations, JoinersAreRegistered
  <1>6. /\ tx' \in [Conns -> Transaction]
        /\ tx'[c] = Idle
        /\ \A d \in Conns \ {c} : tx'[d] = tx[d]
    BY <1>3, IdleIsSound DEF InvitesInv, TypeOK, Becomes
  <1>7. ASSUME NEW d \in Conns, tx'[d] = tx[d]
        PROVE  Sound(tx[d])'
    <2>1. Sound(tx[d])
      BY DEF InvitesInv
    <2>2. HoldsItsName(tx[d])'
      <3>1. d # c
        BY <1>1, <1>6, <1>7 DEF Idle, At
      <3>2. ~(tx[d].at = "commit" /\ tx[d].account = tx[c].account)
        BY <3>1 DEF CreateAccount, NameFree, At
      <3>3. QED
        BY <1>3, <1>7, <2>1, <3>2 DEF Sound, HoldsItsName
    <2>3. HoldsItsCode(tx[d])' /\ KeepsItsBudget(tx[d])' /\ KnowsExpired(tx[d])'
      BY <1>3, <1>7, <2>1 DEF Sound, HoldsItsCode, KeepsItsBudget, KnowsExpired,
               Minted, UnusedActive, Redeemable, Expired
    <2>4. QED
      BY <2>2, <2>3 DEF Sound
  <1>8. QED
    BY <1>4, <1>5, <1>6, <1>7, TableStep

LEMMA CreateInviteWithinBudgetStep ==
  ASSUME InvitesInv, NEW c \in Conns, NEW a \in Creators,
         CreateInviteWithinBudget(c, a)
  PROVE  InvitesInv'
  <1> DEFINE own == [Idle EXCEPT !.at = "lock", !.account = a, !.expired = Expired]
  <1>1. Becomes(c, own) /\ UNCHANGED tables
    BY DEF CreateInviteWithinBudget, tables
  <1>2. Expired \subseteq Codes
    BY DEF InvitesInv, TypeOK, Expired
  <1>3. own \in Transaction
    BY <1>2, InvitesAssumption DEF Idle, Transaction
  <1>4. WellFormed(own)
    BY InvitesAssumption DEF Idle, WellFormed
  <1>5. Sound(own)
    BY DEF Idle, Sound, HoldsItsCode, HoldsItsName, KeepsItsBudget, KnowsExpired
  <1>6. \A d \in Conns \ {c} : Excludes(own, tx[d])
    BY DEF Idle, Excludes
  <1> HIDE DEF own
  <1>7. QED
    BY <1>1, <1>3, <1>4, <1>5, <1>6, OwnStep

LEMMA LockBudgetStep ==
  ASSUME InvitesInv, NEW c \in Conns, LockBudget(c)
  PROVE  InvitesInv'
  <1> DEFINE own == [tx[c] EXCEPT !.at = "count"]
  <1>1. Becomes(c, own) /\ UNCHANGED tables /\ At(c, "lock")
    BY DEF LockBudget, tables
  <1>2. tx[c] \in Transaction /\ WellFormed(tx[c]) /\ Sound(tx[c])
    BY DEF InvitesInv, TypeOK
  <1>3. own \in Transaction
    BY <1>2 DEF Transaction
  <1>4. WellFormed(own)
    BY <1>1, <1>2 DEF WellFormed, At, Transaction
  <1>5. Sound(own)
    BY <1>2 DEF Sound, HoldsItsCode, HoldsItsName, KeepsItsBudget, KnowsExpired,
             Transaction
  <1>6. \A d \in Conns \ {c} : Excludes(own, tx[d])
    BY <1>2 DEF LockBudget, AccountFree, Excludes, Transaction
  <1> HIDE DEF own
  <1>7. QED
    BY <1>1, <1>3, <1>4, <1>5, <1>6, OwnStep

LEMMA CountBudgetStep ==
  ASSUME InvitesInv, NEW c \in Conns, CountBudget(c)
  PROVE  InvitesInv'
  <1> DEFINE a == tx[c].account
             own == [tx[c] EXCEPT !.at = "mint", !.uploads = uploads[a]]
  <1>1. UNCHANGED tables /\ At(c, "count")
    BY DEF CountBudget, tables
  <1>2. tx[c] \in Transaction /\ WellFormed(tx[c]) /\ Sound(tx[c])
    BY DEF InvitesInv, TypeOK
  <1>3. a \in Creators /\ uploads[a] \in Nat
    BY <1>1, <1>2, InvitesAssumption DEF WellFormed, At, InvitesInv, TypeOK
  <1>4. CASE Becomes(c, Idle)
    BY <1>1, <1>4, EndStep
  <1>5. CASE /\ Becomes(c, own)
             /\ WithinBudget(uploads[a], Cardinality(Minted(a)),
                             Cardinality(UnusedActive(a, tx[c].expired)))
    <2>1. own \in Transaction
      BY <1>2, <1>3 DEF Transaction
    <2>2. WellFormed(own)
      BY <1>1, <1>2 DEF WellFormed, At, Transaction
    <2>3. Cardinality(UnusedActive(a, Expired)) < InvitesCap
      <3>1. UnusedActive(a, Expired) \subseteq UnusedActive(a, tx[c].expired)
        BY <1>2 DEF Sound, KnowsExpired, UnusedActive, Redeemable
      <3>2. /\ IsFiniteSet(UnusedActive(a, tx[c].expired))
            /\ Cardinality(UnusedActive(a, tx[c].expired)) \in Nat
            /\ Cardinality(UnusedActive(a, Expired)) \in Nat
        BY FiniteSets DEF InvitesInv
      <3>3. Cardinality(UnusedActive(a, Expired))
              <= Cardinality(UnusedActive(a, tx[c].expired))
        BY <3>1, <3>2, FS_Subset
      <3>4. InvitesCap > Cardinality(UnusedActive(a, tx[c].expired))
        BY <1>5 DEF WithinBudget
      <3>5. QED
        BY <3>2, <3>3, <3>4, InvitesAssumption
    <2>4. Cardinality(Minted(a)) < Earned(uploads[a])
      <3>1. Earned(uploads[a]) > Cardinality(Minted(a))
        BY <1>5 DEF WithinBudget
      <3>2. Earned(uploads[a]) \in Int
        BY <1>3, InvitesAssumption DEF Earned
      <3>3. Cardinality(Minted(a)) \in Nat
        BY FiniteSets DEF InvitesInv
      <3>4. QED
        BY <3>1, <3>2, <3>3
    <2>5. own.account = a /\ own.uploads = uploads[a] /\ own.at = "mint"
          /\ own.expired = tx[c].expired
      BY <1>2 DEF Transaction
    <2>6. Sound(own)
      BY <1>2, <2>3, <2>4, <2>5 DEF Sound, HoldsItsCode, HoldsItsName,
               KeepsItsBudget, KnowsExpired
    <2>7. ASSUME NEW d \in Conns \ {c}
          PROVE  Excludes(own, tx[d])
      <3>1. Excludes(tx[c], tx[d])
        BY DEF InvitesInv, LocksExclude
      <3>2. QED
        BY <1>1, <2>5, <3>1 DEF Excludes, At
    <2> HIDE DEF own
    <2>8. QED
      BY <1>1, <1>5, <2>1, <2>2, <2>6, <2>7, OwnStep
  <1>6. QED
    BY <1>4, <1>5 DEF CountBudget

LEMMA NewInviteStep ==
  ASSUME InvitesInv, NEW k \in Codes, NEW a \in Creators,
         NEW max \in 1 .. MaxUses \cup {Unlimited}, NEW expires \in {"never", "later"},
         NewInvite(k, a, max, expires),
         UNCHANGED <<accounts, joinedBy, rest>>,
         tx' \in [Conns -> Transaction],
         \A d \in Conns : tx'[d] = tx[d] \/ tx'[d] = Idle,
         \A d \in Conns : tx'[d] = tx[d] /\ tx[d].at = "mint" => tx[d].account # a
  PROVE  InvitesInv'
  <1>1. /\ k \notin DOMAIN invites
        /\ DOMAIN invites' = DOMAIN invites \cup {k}
        /\ \A j \in DOMAIN invites : invites'[j] = invites[j]
        /\ invites'[k] = [creator |-> a, max |-> max, uses |-> 0,
                          state |-> "enabled", expires |-> expires]
        /\ UNCHANGED <<accounts, joinedBy, disabled, uploads>>
    BY DEF NewInvite, rest
  <1>2. invites'[k] \in Invite
    BY <1>1 DEF Invite
  <1>3. invites' \in [DOMAIN invites' -> Invite]
    BY <1>1, <1>2 DEF InvitesInv, TypeOK, NewInvite
  <1>4. TablesOK'
    BY <1>1, <1>3 DEF InvitesInv, TypeOK, TablesOK
  <1>5. JoinersAreRegistered'
    BY <1>1 DEF InvitesInv, JoinersAreRegistered
  <1>6. UsesAreRegistrations'
    <2>1. {b \in Names : joinedBy[b] = k} = {}
      BY <1>1, InvitesAssumption DEF InvitesInv, JoinersAreRegistered
    <2>2. Cardinality({b \in Names : joinedBy[b] = k}) = 0
      BY <2>1, FS_EmptySet
    <2>3. max # Unlimited => 0 <= max
      BY InvitesAssumption DEF Unlimited
    <2>4. ASSUME NEW j \in DOMAIN invites'
          PROVE  /\ invites'[j].uses = Cardinality({b \in Names : joinedBy[b] = j})
                 /\ invites'[j].max # Unlimited => invites'[j].uses <= invites'[j].max
      <3>1. CASE j = k
        BY <1>1, <2>2, <2>3, <3>1
      <3>2. CASE j # k
        BY <1>1, <3>2 DEF InvitesInv, UsesAreRegistrations
      <3>3. QED
        BY <3>1, <3>2
    <2>5. joinedBy' = joinedBy
      BY <1>1
    <2>6. QED
      BY <2>4, <2>5 DEF UsesAreRegistrations
  <1>7. ASSUME NEW d \in Conns, tx'[d] = tx[d]
        PROVE  Sound(tx[d])'
    <2>1. Sound(tx[d])
      BY DEF InvitesInv
    <2>2. /\ Expired \subseteq Expired'
          /\ \A b : b # a => /\ Minted(b)' = Minted(b)
                             /\ UnusedActive(b, Expired)' = UnusedActive(b, Expired)
      BY NewInviteKeepsBudgets DEF InvitesInv
    <2>3. HoldsItsCode(tx[d])' /\ HoldsItsName(tx[d])'
      BY <1>1, <1>7, <2>1 DEF Sound, HoldsItsCode, HoldsItsName
    <2>4. KnowsExpired(tx[d])'
      BY <1>7, <2>1, <2>2 DEF Sound, KnowsExpired
    <2>5. KeepsItsBudget(tx[d])'
      <3> DEFINE b == tx[d].account
      <3>1. SUFFICES ASSUME tx[d].at = "mint"
                     PROVE  KeepsItsBudget(tx[d])'
        BY <1>7 DEF KeepsItsBudget
      <3>2. b # a
        BY <1>7, <3>1
      <3>3. b' = b
        BY <1>7
      <3>4. Minted(b)' = Minted(b) /\ UnusedActive(b, Expired)' = UnusedActive(b, Expired)
        BY <1>7, <2>2, <3>2, <3>3 DEF Minted, UnusedActive
      <3>5. QED
        BY <1>7, <2>1, <3>1, <3>4 DEF Sound, KeepsItsBudget
    <2>6. QED
      BY <2>3, <2>4, <2>5 DEF Sound
  <1>8. QED
    BY <1>4, <1>5, <1>6, <1>7, TableStep

LEMMA MintInviteStep ==
  ASSUME InvitesInv, NEW c \in Conns, NEW k \in Codes, MintInvite(c, k)
  PROVE  InvitesInv'
  <1> DEFINE a == tx[c].account
  <1>1. tx[c] \in Transaction /\ WellFormed(tx[c]) /\ At(c, "mint")
    BY DEF InvitesInv, TypeOK, MintInvite
  <1>2. a \in Creators
    BY <1>1 DEF WellFormed, At
  <1>3. 1 \in 1 .. MaxUses \cup {Unlimited}
    BY InvitesAssumption
  <1>4. /\ NewInvite(k, a, 1, "never")
        /\ UNCHANGED <<accounts, joinedBy, rest>> /\ Becomes(c, Idle)
    BY DEF MintInvite
  <1>5. /\ tx' \in [Conns -> Transaction]
        /\ tx'[c] = Idle
        /\ \A d \in Conns \ {c} : tx'[d] = tx[d]
    BY <1>4, IdleIsSound DEF InvitesInv, TypeOK, Becomes
  <1>6. \A d \in Conns : tx'[d] = tx[d] \/ tx'[d] = Idle
    BY <1>5
  <1>7. ASSUME NEW d \in Conns, tx'[d] = tx[d], tx[d].at = "mint"
        PROVE  tx[d].account # a
    <2>1. d # c
      BY <1>5, <1>7 DEF Idle
    <2>2. Excludes(tx[d], tx[c])
      BY <2>1 DEF InvitesInv, LocksExclude
    <2>3. QED
      BY <1>1, <1>7, <2>2 DEF Excludes, At
  <1> HIDE DEF a
  <1>8. QED
    BY <1>2, <1>3, <1>4, <1>5, <1>6, <1>7, NewInviteStep

LEMMA CreateInviteStep ==
  ASSUME InvitesInv, NEW k \in Codes, NEW a \in Creators,
         NEW max \in 1 .. MaxUses \cup {Unlimited}, NEW expires \in {"never", "later"},
         CreateInvite(k, a, max, expires)
  PROVE  InvitesInv'
  <1>1. /\ NewInvite(k, a, max, expires)
        /\ UNCHANGED <<accounts, joinedBy, rest>> /\ tx' = tx
    BY DEF CreateInvite
  <1>2. tx' \in [Conns -> Transaction]
    BY <1>1 DEF InvitesInv, TypeOK
  <1>3. \A d \in Conns : tx[d].at = "mint" => tx[d].account # a
    BY DEF CreateInvite, AccountFree
  <1>4. QED
    BY <1>1, <1>2, <1>3, NewInviteStep

\* A row nobody redeems is closed, in part or in full.
LEMMA CloseStep ==
  ASSUME InvitesInv, NEW k \in DOMAIN invites, NEW row \in Invite,
         invites' = [invites EXCEPT ![k] = row],
         row.creator = invites[k].creator, row.max = invites[k].max,
         row.uses = invites[k].uses,
         row.state = "enabled" => invites[k].state = "enabled",
         invites[k].expires = "past" => row.expires = "past",
         CodeFree(k) \/ row.state = invites[k].state,
         UNCHANGED <<accounts, joinedBy, rest, tx>>
  PROVE  InvitesInv'
  <1>1. /\ DOMAIN invites' = DOMAIN invites
        /\ invites'[k] = row
        /\ \A j \in DOMAIN invites \ {k} : invites'[j] = invites[j]
        /\ UNCHANGED <<accounts, joinedBy, disabled, uploads, tx>>
    BY DEF rest
  <1>2. invites' \in [DOMAIN invites' -> Invite]
    BY <1>1 DEF InvitesInv, TypeOK
  <1>3. TablesOK'
    BY <1>1, <1>2 DEF InvitesInv, TypeOK, TablesOK
  <1>4. \A j \in DOMAIN invites : invites[j].uses \in Nat
    BY DEF InvitesInv, TypeOK, Invite
  <1>5. Closes
    BY <1>1, <1>4 DEF Closes
  <1>6. UsesAreRegistrations' /\ JoinersAreRegistered'
    BY <1>1 DEF InvitesInv, UsesAreRegistrations, JoinersAreRegistered
  <1>7. tx' \in [Conns -> Transaction]
    BY <1>1 DEF InvitesInv, TypeOK
  <1>8. ASSUME NEW d \in Conns
        PROVE  Sound(tx[d])'
    <2>1. Sound(tx[d]) /\ TypeOK
      BY DEF InvitesInv
    <2>2. HoldsItsCode(tx[d])' /\ HoldsItsName(tx[d])'
      BY <1>1, <2>1 DEF Sound, HoldsItsCode, HoldsItsName, CodeFree, Redeeming
    <2>3. KeepsItsBudget(tx[d])' /\ KnowsExpired(tx[d])'
      BY <1>1, <1>3, <1>5, <2>1, ClosingKeepsBudgets
         DEF Sound, KeepsItsBudget, KnowsExpired
    <2>4. QED
      BY <2>2, <2>3 DEF Sound
  <1>9. QED
    BY <1>1, <1>3, <1>6, <1>7, <1>8, TableStep

LEMMA DisableInviteStep ==
  ASSUME InvitesInv, NEW k \in Codes, DisableInvite(k)
  PROVE  InvitesInv'
  <1> DEFINE row == [creator |-> invites[k].creator, max |-> invites[k].max,
                     uses |-> invites[k].uses, state |-> "disabled",
                     expires |-> invites[k].expires]
  <1>1. /\ k \in DOMAIN invites /\ CodeFree(k)
        /\ invites' = [invites EXCEPT ![k] = row]
        /\ UNCHANGED <<accounts, joinedBy, rest, tx>>
    BY DEF DisableInvite
  <1>2. invites[k] \in Invite
    BY <1>1 DEF InvitesInv, TypeOK
  <1>3. row \in Invite
    BY <1>2 DEF Invite
  <1>4. /\ row.creator = invites[k].creator /\ row.max = invites[k].max
        /\ row.uses = invites[k].uses /\ row.state = "disabled"
        /\ row.expires = invites[k].expires
    OBVIOUS
  <1> HIDE DEF row
  <1>5. QED
    BY <1>1, <1>3, <1>4, CloseStep

LEMMA ExpireStep ==
  ASSUME InvitesInv, NEW k \in Codes, Expire(k)
  PROVE  InvitesInv'
  <1> DEFINE row == [creator |-> invites[k].creator, max |-> invites[k].max,
                     uses |-> invites[k].uses, state |-> invites[k].state,
                     expires |-> "past"]
  <1>1. /\ k \in DOMAIN invites
        /\ invites' = [invites EXCEPT ![k] = row]
        /\ UNCHANGED <<accounts, joinedBy, rest, tx>>
    BY DEF Expire
  <1>2. invites[k] \in Invite
    BY <1>1 DEF InvitesInv, TypeOK
  <1>3. row \in Invite
    BY <1>2 DEF Invite
  <1>4. /\ row.creator = invites[k].creator /\ row.max = invites[k].max
        /\ row.uses = invites[k].uses /\ row.state = invites[k].state
        /\ row.expires = "past"
    OBVIOUS
  <1> HIDE DEF row
  <1>5. QED
    BY <1>1, <1>3, <1>4, CloseStep

\* What changes around the invites.
LEMMA AroundStep ==
  ASSUME InvitesInv, TablesOK', UNCHANGED <<accounts, joinedBy, invites, tx>>
  PROVE  InvitesInv'
  <1>1. TypeOK'
    BY DEF InvitesInv, TypeOK, TablesOK, WellFormed
  <1>2. UsesAreRegistrations' /\ JoinersAreRegistered' /\ LocksExclude'
    BY DEF InvitesInv, UsesAreRegistrations, JoinersAreRegistered, LocksExclude,
           Excludes
  <1>3. \A d \in Conns : Sound(tx[d])'
    BY DEF InvitesInv, Sound, HoldsItsCode, HoldsItsName, KeepsItsBudget,
           KnowsExpired, Minted, UnusedActive, Redeemable, Expired
  <1>4. QED
    BY <1>1, <1>2, <1>3 DEF InvitesInv

LEMMA InvitesStep ==
  InvitesInv /\ [Next]_vars => InvitesInv'
  <1> SUFFICES ASSUME InvitesInv, [Next]_vars
               PROVE  InvitesInv'
    OBVIOUS
  <1>1. ASSUME NEW c \in Conns,
               \/ \E a \in Names, k \in Codes \cup {None} : Register(c, a, k)
               \/ RedeemCode(c) \/ CodeInvalid(c)
               \/ InsertAccount(c) \/ NameTaken(c) \/ CommitRedemption(c)
               \/ CreateAccount(c)
               \/ \E a \in Creators : CreateInviteWithinBudget(c, a)
               \/ LockBudget(c) \/ CountBudget(c)
               \/ \E k \in Codes : MintInvite(c, k)
               \/ Rollback(c)
        PROVE  InvitesInv'
    <2>1. CASE \E a \in Names, k \in Codes \cup {None} : Register(c, a, k)
      BY <2>1, RegisterStep
    <2>2. CASE RedeemCode(c)
      BY <2>2, RedeemCodeStep
    <2>3. CASE CodeInvalid(c)
      BY <2>3, CodeInvalidStep
    <2>4. CASE InsertAccount(c)
      BY <2>4, InsertAccountStep
    <2>5. CASE NameTaken(c) \/ Rollback(c)
      <3>1. Becomes(c, Idle) /\ UNCHANGED tables
        BY <2>5 DEF NameTaken, Rollback, tables
      <3>2. QED
        BY <3>1, EndStep
    <2>6. CASE CommitRedemption(c)
      BY <2>6, CommitRedemptionStep
    <2>7. CASE CreateAccount(c)
      BY <2>7, CreateAccountStep
    <2>8. CASE \E a \in Creators : CreateInviteWithinBudget(c, a)
      BY <2>8, CreateInviteWithinBudgetStep
    <2>9. CASE LockBudget(c)
      BY <2>9, LockBudgetStep
    <2>10. CASE CountBudget(c)
      BY <2>10, CountBudgetStep
    <2>11. CASE \E k \in Codes : MintInvite(c, k)
      BY <2>11, MintInviteStep
    <2>12. QED
      BY <1>1, <2>1, <2>2, <2>3, <2>4, <2>5, <2>6, <2>7, <2>8, <2>9, <2>10, <2>11
  <1>2. ASSUME NEW k \in Codes,
               \E a \in Creators, max \in 1 .. MaxUses \cup {Unlimited},
                  expires \in {"never", "later"} : CreateInvite(k, a, max, expires)
        PROVE  InvitesInv'
    BY <1>2, CreateInviteStep
  <1>3. ASSUME NEW k \in Codes, DisableInvite(k) \/ Expire(k)
        PROVE  InvitesInv'
    BY <1>3, DisableInviteStep, ExpireStep
  <1>4. ASSUME NEW a \in Creators, SetAccountDisabled(a) \/ CountUpload(a)
        PROVE  InvitesInv'
    <2>1. UNCHANGED <<accounts, joinedBy, invites, tx>>
      BY <1>4 DEF SetAccountDisabled, CountUpload
    <2>2. TablesOK'
      BY <1>4 DEF InvitesInv, TypeOK, TablesOK, SetAccountDisabled, CountUpload
    <2>3. QED
      BY <2>1, <2>2, AroundStep
  <1>5. CASE UNCHANGED vars
    <2>1. TablesOK'
      BY <1>5 DEF InvitesInv, TypeOK, TablesOK, vars
    <2>2. QED
      BY <1>5, <2>1, AroundStep DEF vars
  <1>6. QED
    BY <1>1, <1>2, <1>3, <1>4, <1>5 DEF Next

\* The inductive invariant holds from the start.
THEOREM InvitesInvariant == Spec => []InvitesInv
  <1>1. Init => InvitesInv
    <2> SUFFICES ASSUME Init
                 PROVE  InvitesInv
      OBVIOUS
    <2>1. DOMAIN invites = {} /\ \A c \in Conns : tx[c] = Idle
      BY DEF Init
    <2>2. tx \in [Conns -> Transaction]
      BY IdleIsSound DEF Init
    <2>3. TypeOK
      BY <2>1, <2>2, IdleIsSound, InvitesAssumption DEF Init, TypeOK
    <2>4. UsesAreRegistrations /\ JoinersAreRegistered
      BY <2>1 DEF Init, UsesAreRegistrations, JoinersAreRegistered
    <2>5. LocksExclude
      BY <2>1, IdleExcludes DEF LocksExclude
    <2>6. \A c \in Conns : Sound(tx[c])
      BY <2>1, IdleIsSound
    <2>7. QED
      BY <2>3, <2>4, <2>5, <2>6 DEF InvitesInv
  <1>2. QED
    BY <1>1, InvitesStep, PTL DEF Spec

-----------------------------------------------------------------------------
\* The tables and every connection's transaction keep their types.
THEOREM InvitesTypeCorrect == Spec => []TypeOK
  <1>1. InvitesInv => TypeOK
    BY DEF InvitesInv
  <1>2. QED
    BY <1>1, InvitesInvariant, PTL

\* A code's uses are the accounts registered with it, and at most max_uses.
THEOREM UsesAreExact == Spec => []UsesAreRegistrations
  <1>1. InvitesInv => UsesAreRegistrations
    BY DEF InvitesInv
  <1>2. QED
    BY <1>1, InvitesInvariant, PTL

\* A revoked code registers nobody any more, not even a registration under way.
THEOREM RevocationHolds == Spec => RevokedCodesStayUnused
  <1> DEFINE Stays == \A k \in DOMAIN invites :
                        invites[k].state = "disabled" =>
                          invites'[k].state = "disabled"
                          /\ invites'[k].uses = invites[k].uses
  <1>1. InvitesInv /\ [Next]_vars => [Stays]_vars
    <2> SUFFICES ASSUME InvitesInv, Next
                 PROVE  Stays
      BY DEF vars
    <2>1. CASE UNCHANGED invites
      BY <2>1
    <2>2. ASSUME NEW c \in Conns, CommitRedemption(c)
          PROVE  Stays
      <3>1. /\ tx[c].code \in DOMAIN invites
            /\ invites[tx[c].code].state = "enabled"
        BY <2>2 DEF InvitesInv, Sound, HoldsItsCode, CommitRedemption, At
      <3>2. \A j \in DOMAIN invites \ {tx[c].code} : invites'[j] = invites[j]
        BY <2>2 DEF CommitRedemption
      <3>3. QED
        BY <3>1, <3>2
    <2>3. ASSUME NEW k, NEW a, NEW max, NEW expires, NewInvite(k, a, max, expires)
          PROVE  Stays
      BY <2>3 DEF NewInvite
    <2>4. ASSUME NEW k \in Codes, DisableInvite(k) \/ Expire(k)
          PROVE  Stays
      <3>1. /\ k \in DOMAIN invites
            /\ invites'[k].uses = invites[k].uses
            /\ invites[k].state = "disabled" => invites'[k].state = "disabled"
            /\ \A j \in DOMAIN invites \ {k} : invites'[j] = invites[j]
        BY <2>4 DEF DisableInvite, Expire
      <3>2. QED
        BY <3>1
    <2>5. QED
      BY <2>1, <2>2, <2>3, <2>4
         DEF Next, Register, RedeemCode, CodeInvalid, InsertAccount, NameTaken,
             CreateAccount, CreateInviteWithinBudget, LockBudget, CountBudget,
             MintInvite, CreateInvite, SetAccountDisabled, CountUpload, Rollback
  <1>2. QED
    BY <1>1, InvitesInvariant, PTL DEF Spec, RevokedCodesStayUnused

\* However many of an account's requests mint at once, each leaves it within
\* what it has earned and within the cap on unused codes.
THEOREM BudgetsHold == Spec => MintsStayWithinBudget
  <1> DEFINE Within ==
        \A c \in Conns, a \in Creators :
          At(c, "mint") /\ tx[c].account = a /\ invites' # invites /\ tx'[c] # tx[c] =>
            /\ Cardinality(UnusedActive(a, Expired)') <= InvitesCap
            /\ Cardinality(Minted(a)') <= Earned(tx[c].uploads)
  <1>1. InvitesInv /\ InvitesInv' /\ [Next]_vars => [Within]_vars
    <2> SUFFICES ASSUME InvitesInv, InvitesInv', Next,
                        NEW c \in Conns, NEW a \in Creators,
                        At(c, "mint"), tx[c].account = a,
                        invites' # invites, tx'[c] # tx[c]
                 PROVE  /\ Cardinality(UnusedActive(a, Expired)') <= InvitesCap
                        /\ Cardinality(Minted(a)') <= Earned(tx[c].uploads)
      BY DEF vars
    <2>1. PICK k \in Codes : MintInvite(c, k)
      <3>1. ASSUME NEW d \in Conns, d # c, NEW own, Becomes(d, own)
            PROVE  tx'[c] = tx[c]
        BY <3>1 DEF Becomes, InvitesInv, TypeOK
      <3>2. ~CommitRedemption(c)
        BY DEF CommitRedemption, At
      <3>3. ~ \E d \in Conns : d # c /\ CommitRedemption(d)
        BY <3>1 DEF CommitRedemption
      <3>4. ~ \E d \in Conns, k \in Codes : d # c /\ MintInvite(d, k)
        BY <3>1 DEF MintInvite
      <3>5. QED
        BY <3>2, <3>3, <3>4
           DEF Next, Register, RedeemCode, CodeInvalid, InsertAccount, NameTaken,
               CreateAccount, CreateInviteWithinBudget, LockBudget, CountBudget,
               CreateInvite, DisableInvite, Expire, SetAccountDisabled, CountUpload,
               Rollback
    <2> DEFINE U == UnusedActive(a, Expired)
               M == Minted(a)
    <2>2. /\ Cardinality(M) < Earned(tx[c].uploads)
          /\ Cardinality(U) < InvitesCap
      BY DEF InvitesInv, Sound, KeepsItsBudget, At
    <2>3. NewInvite(k, a, 1, "never")
      BY <2>1 DEF MintInvite
    <2>4. M' = M \cup {k} /\ k \notin M /\ U' \subseteq U \cup {k}
      BY <2>3, NewInviteKeepsBudgets DEF InvitesInv
    <2>5. /\ IsFiniteSet(M) /\ Cardinality(M) \in Nat
          /\ IsFiniteSet(U) /\ Cardinality(U) \in Nat
      BY FiniteSets DEF InvitesInv
    <2>6. Cardinality(U') <= Cardinality(U) + 1 /\ Cardinality(U') \in Nat
      <3>1. IsFiniteSet(U \cup {k})
        BY <2>5, FS_AddElement
      <3>2. Cardinality(U \cup {k}) <= Cardinality(U) + 1
            /\ Cardinality(U \cup {k}) \in Nat
        BY <2>5, FS_AddElement, FS_CardinalityType, <3>1
      <3>3. /\ Cardinality(U') <= Cardinality(U \cup {k})
            /\ Cardinality(U') \in Nat
        BY <2>4, <3>1, FS_Subset, FS_CardinalityType
      <3>4. QED
        BY <2>5, <3>2, <3>3
    <2>7. Cardinality(M') = Cardinality(M) + 1
      BY <2>4, <2>5, FS_AddElement
    <2>8. Earned(tx[c].uploads) \in Int
      BY InvitesAssumption DEF Earned, InvitesInv, TypeOK, Transaction
    <2>9. QED
      BY <2>2, <2>5, <2>6, <2>7, <2>8, InvitesAssumption
  <1>2. QED
    BY <1>1, InvitesInvariant, PTL DEF Spec, MintsStayWithinBudget
=============================================================================

-------------------------------- MODULE Invites --------------------------------
(***************************************************************************)
(* Invite codes: minting them within an account's budget, redeeming them   *)
(* on registration, revoking them (store/invite.go, register of            *)
(* api/accounts.go, the invite handlers of api/session.go and api/admin.go). *)
(*                                                                         *)
(* Minting and redeeming are transactions of several statements.  A        *)
(* redemption holds its code's row, a mint its account's; the new account  *)
(* of a redemption refers to the code's creator, which waits for a mint    *)
(* of that creator's, and a mint waits for it.                             *)
(***************************************************************************)
EXTENDS Integers, FiniteSets

CONSTANTS
  Names,          \* names accounts may have
  Members,        \* those registered at first
  Creators,       \* bound on whose codes there are: some names
  Codes,          \* invite codes, each generated at most once
  Conns,          \* database connections
  InvitesInitial, InvitesPerUploads, InvitesCap,  \* MOANSUBS_INVITES_*
  OpenRegistration,  \* whether an invalid code is no obstacle
  MaxUploads,     \* bound on an account's uploads
  MaxUses         \* bound on an operator's max_uses

None == 0

Unlimited == -1

ASSUME InvitesAssumption ==
  /\ IsFiniteSet(Names) /\ Members \cup Creators \subseteq Names /\ None \notin Names
  /\ IsFiniteSet(Codes) /\ None \notin Codes
  /\ InvitesInitial \in Int /\ InvitesPerUploads \in Int /\ InvitesCap \in Int
  /\ OpenRegistration \in BOOLEAN
  /\ MaxUploads \in Nat /\ MaxUses \in Nat \ {0}

VARIABLES
  accounts,     \* names registered
  disabled,     \* those of disabled accounts
  joinedBy,     \* the code each account registered with, or None
  uploads,      \* how many visible tracks each creator has uploaded
  invites,      \* rows of invites, by code
  tx            \* the transaction of each connection

vars == <<accounts, disabled, joinedBy, uploads, invites, tx>>

Invite ==
  [creator : Creators, max : 1 .. MaxUses \cup {Unlimited}, uses : Nat,
   state : {"enabled", "disabled"},
   expires : {"never", "later", "past"}]

Transaction ==
  [at : {"idle", "redeem", "insert", "register", "commit", "lock", "count", "mint"},
   account : Names \cup {None},  \* who registers, or mints
   code : Codes \cup {None},     \* the code given, or None
   expired : SUBSET Codes,       \* codes past their time by the transaction's now()
   barred : SUBSET Names,        \* disabled accounts, as its statement reads them
   uses : Nat,                   \* the code's uses before this one
   uploads : Nat]                \* what the budget was counted from

Idle == [at |-> "idle", account |-> None, code |-> None, expired |-> {},
         barred |-> {}, uses |-> 0, uploads |-> 0]

At(c, where) == tx[c].at = where

Becomes(c, own) == tx' = [tx EXCEPT ![c] = own]

rest == <<disabled, uploads>>

-----------------------------------------------------------------------------
\* The codes past their time now, as expires_at > now() has it.
Expired == {k \in DOMAIN invites : invites[k].expires = "past"}

\* The redemption gate, and what the budget counts as an unused code, to a
\* transaction for which the codes of expired are past their time.
Redeemable(k, expired) ==
  /\ invites[k].state = "enabled"
  /\ k \notin expired
  /\ invites[k].max = Unlimited \/ invites[k].uses < invites[k].max

\* What a redemption's UPDATE finds: the code's row as it is, the creator as he
\* was when the statement began.
Accepted(own) ==
  /\ own.code \in DOMAIN invites
  /\ Redeemable(own.code, own.expired)
  /\ invites[own.code].creator \notin own.barred

Minted(a) == {k \in DOMAIN invites : invites[k].creator = a}

UnusedActive(a, expired) == {k \in Minted(a) : Redeemable(k, expired)}

\* inviteBudgetArithmetic
Earned(n) ==
  InvitesInitial + (IF InvitesPerUploads > 0 THEN n \div InvitesPerUploads ELSE 0)

\* available > 0
WithinBudget(n, minted, active) == Earned(n) > minted /\ InvitesCap > active

\* The row of invite k is a redemption's until it commits.
Redeeming(c, k) == tx[c].at \in {"insert", "commit"} /\ tx[c].code = k

CodeFree(k) == \A c \in Conns : ~Redeeming(c, k)

\* A new name is its inserter's until it commits: others wait.
NameFree(a) == \A c \in Conns : ~(At(c, "commit") /\ tx[c].account = a)

\* A mint holds its account's row; new rows that refer to the account wait.
AccountFree(a) ==
  \A c \in Conns : ~(tx[c].at \in {"count", "mint"} /\ tx[c].account = a)

\* Nobody's new row refers to the account.
Unreferred(a) ==
  \A c \in Conns : ~(At(c, "commit") /\ tx[c].code # None
                     /\ invites[tx[c].code].creator = a)

Init ==
  /\ accounts = Members
  /\ disabled = {}
  /\ joinedBy = [a \in Names |-> None]
  /\ uploads = [a \in Creators |-> 0]
  /\ invites = [k \in {} |-> None]
  /\ tx = [c \in Conns |-> Idle]

-----------------------------------------------------------------------------
\* register, with a code or without one; a node that is not open asks for one.
Register(c, a, k) ==
  /\ At(c, "idle")
  /\ k = None => OpenRegistration
  /\ Becomes(c, IF k = None
                  THEN [Idle EXCEPT !.at = "register", !.account = a]
                  ELSE [Idle EXCEPT !.at = "redeem", !.account = a, !.code = k,
                                    !.expired = Expired, !.barred = disabled])
  /\ UNCHANGED <<accounts, joinedBy, invites, rest>>

\* Mutant: the code is looked up first, and redeemed whatever became of it.
RedeemCode_unchecked(c) ==
  /\ At(c, "redeem")
  /\ LET k == tx[c].code IN
       /\ k \in DOMAIN invites /\ CodeFree(k)
       /\ Becomes(c, [tx[c] EXCEPT !.at = "insert", !.uses = invites[k].uses])
  /\ UNCHANGED <<accounts, joinedBy, invites, rest>>

\* UPDATE invites SET uses = uses + 1 WHERE ...: the row as the last redemption
\* or revocation of the code left it.
RedeemCode(c) ==
  /\ At(c, "redeem")
  /\ LET k == tx[c].code IN
       /\ Accepted(tx[c]) /\ CodeFree(k)
       /\ Becomes(c, [tx[c] EXCEPT !.at = "insert", !.uses = invites[k].uses])
  /\ UNCHANGED <<accounts, joinedBy, invites, rest>>

\* Mutant: the code that was not valid is kept.
CodeInvalid_kept(c) ==
  /\ At(c, "redeem")
  /\ CodeFree(tx[c].code) /\ ~Accepted(tx[c])
  /\ Becomes(c, IF OpenRegistration THEN [tx[c] EXCEPT !.at = "register"] ELSE Idle)
  /\ UNCHANGED <<accounts, joinedBy, invites, rest>>

\* No row was updated: refused, or on an open node registered all the same.
CodeInvalid(c) ==
  /\ At(c, "redeem")
  /\ CodeFree(tx[c].code) /\ ~Accepted(tx[c])
  /\ Becomes(c, IF OpenRegistration
                  THEN [Idle EXCEPT !.at = "register", !.account = tx[c].account]
                  ELSE Idle)
  /\ UNCHANGED <<accounts, joinedBy, invites, rest>>

\* INSERT INTO accounts, in a redemption's transaction: it waits for another
\* insert of the name, and its reference for a mint of the code's creator.
InsertAccount(c) ==
  /\ At(c, "insert")
  /\ tx[c].account \notin accounts /\ NameFree(tx[c].account)
  /\ AccountFree(invites[tx[c].code].creator)
  /\ Becomes(c, [tx[c] EXCEPT !.at = "commit"])
  /\ UNCHANGED <<accounts, joinedBy, invites, rest>>

\* Mutant: the use is counted by a statement of its own, the account lost.
NameTaken_keepsUse(c) ==
  /\ At(c, "insert")
  /\ tx[c].account \in accounts
  /\ invites' = [invites EXCEPT ![tx[c].code].uses = @ + 1]
  /\ Becomes(c, Idle)
  /\ UNCHANGED <<accounts, joinedBy, rest>>

\* The name is taken: the transaction is rolled back, its use of the code too.
NameTaken(c) ==
  /\ tx[c].at \in {"insert", "register"}
  /\ tx[c].account \in accounts
  /\ Becomes(c, Idle)
  /\ UNCHANGED <<accounts, joinedBy, invites, rest>>

CommitRedemption(c) ==
  /\ At(c, "commit")
  /\ LET own == tx[c] IN
       /\ invites' = [invites EXCEPT ![own.code] =
                        [creator |-> @.creator, max |-> @.max,
                         uses |-> own.uses + 1,
                         state |-> @.state, expires |-> @.expires]]
       /\ accounts' = accounts \cup {own.account}
       /\ joinedBy' = [joinedBy EXCEPT ![own.account] = own.code]
  /\ Becomes(c, Idle)
  /\ UNCHANGED rest

\* CreateAccount, without a code: one statement.
CreateAccount(c) ==
  /\ At(c, "register")
  /\ tx[c].account \notin accounts /\ NameFree(tx[c].account)
  /\ accounts' = accounts \cup {tx[c].account}
  /\ Becomes(c, Idle)
  /\ UNCHANGED <<joinedBy, invites, rest>>

-----------------------------------------------------------------------------
\* handleCreateInvite: an account's own code.
CreateInviteWithinBudget(c, a) ==
  /\ At(c, "idle")
  /\ a \in accounts \ disabled
  /\ Becomes(c, [Idle EXCEPT !.at = "lock", !.account = a, !.expired = Expired])
  /\ UNCHANGED <<accounts, joinedBy, invites, rest>>

\* Mutant: the account's row is not locked.
LockBudget_never(c) ==
  /\ At(c, "lock")
  /\ Becomes(c, [tx[c] EXCEPT !.at = "count"])
  /\ UNCHANGED <<accounts, joinedBy, invites, rest>>

\* SELECT id FROM accounts WHERE id = $1 FOR UPDATE
LockBudget(c) ==
  /\ At(c, "lock")
  /\ AccountFree(tx[c].account) /\ Unreferred(tx[c].account)
  /\ Becomes(c, [tx[c] EXCEPT !.at = "count"])
  /\ UNCHANGED <<accounts, joinedBy, invites, rest>>

\* inviteBudgetCounts, inviteBudgetArithmetic
CountBudget(c) ==
  /\ At(c, "count")
  /\ LET a == tx[c].account IN
       Becomes(c, IF WithinBudget(uploads[a], Cardinality(Minted(a)),
                                  Cardinality(UnusedActive(a, tx[c].expired)))
                    THEN [tx[c] EXCEPT !.at = "mint", !.uploads = uploads[a]]
                    ELSE Idle)
  /\ UNCHANGED <<accounts, joinedBy, invites, rest>>

NewInvite(k, a, max, expires) ==
  /\ k \notin DOMAIN invites
  /\ invites' = [j \in DOMAIN invites \cup {k} |->
                   IF j = k THEN [creator |-> a, max |-> max, uses |-> 0,
                                  state |-> "enabled", expires |-> expires]
                            ELSE invites[j]]

MintInvite(c, k) ==
  /\ At(c, "mint")
  /\ NewInvite(k, tx[c].account, 1, "never")
  /\ Becomes(c, Idle)
  /\ UNCHANGED <<accounts, joinedBy, rest>>

\* CreateInvite: the operator's or an administrator's, beyond any budget.
CreateInvite(k, a, max, expires) ==
  /\ a \in accounts
  /\ AccountFree(a)
  /\ NewInvite(k, a, max, expires)
  /\ UNCHANGED <<accounts, joinedBy, rest, tx>>

\* DisableInvite, by the code's creator or an administrator.
DisableInvite(k) ==
  /\ k \in DOMAIN invites /\ CodeFree(k)
  /\ invites[k].state # "disabled"
  /\ invites' = [invites EXCEPT ![k] =
                   [creator |-> @.creator, max |-> @.max, uses |-> @.uses,
                    state |-> "disabled", expires |-> @.expires]]
  /\ UNCHANGED <<accounts, joinedBy, rest, tx>>

-----------------------------------------------------------------------------
\* What happens around the invites.
Expire(k) ==
  /\ k \in DOMAIN invites
  /\ invites[k].expires = "later"
  /\ invites' = [invites EXCEPT ![k] =
                   [creator |-> @.creator, max |-> @.max, uses |-> @.uses,
                    state |-> @.state, expires |-> "past"]]
  /\ UNCHANGED <<accounts, joinedBy, rest, tx>>

SetAccountDisabled(a) ==
  /\ a \in accounts
  /\ AccountFree(a)
  /\ \/ disabled' = disabled \cup {a}
     \/ disabled' = disabled \ {a}
  /\ UNCHANGED <<accounts, joinedBy, uploads, invites, tx>>

\* A track of the account's is stored, withdrawn or restored.
CountUpload(a) ==
  /\ a \in accounts
  /\ \E n \in 0 .. MaxUploads : uploads' = [uploads EXCEPT ![a] = n]
  /\ UNCHANGED <<accounts, joinedBy, disabled, invites, tx>>

\* Any error, deadlocks among them, or a client that went away.
Rollback(c) ==
  /\ ~At(c, "idle")
  /\ Becomes(c, Idle)
  /\ UNCHANGED <<accounts, joinedBy, invites, rest>>

Next ==
  \/ \E c \in Conns :
       \/ \E a \in Names, k \in Codes \cup {None} : Register(c, a, k)
       \/ RedeemCode(c) \/ CodeInvalid(c)
       \/ InsertAccount(c) \/ NameTaken(c) \/ CommitRedemption(c)
       \/ CreateAccount(c)
       \/ \E a \in Creators : CreateInviteWithinBudget(c, a)
       \/ LockBudget(c) \/ CountBudget(c)
       \/ \E k \in Codes : MintInvite(c, k)
       \/ Rollback(c)
  \/ \E k \in Codes :
       \/ \E a \in Creators, max \in 1 .. MaxUses \cup {Unlimited},
            expires \in {"never", "later"} : CreateInvite(k, a, max, expires)
       \/ DisableInvite(k)
       \/ Expire(k)
  \/ \E a \in Creators : SetAccountDisabled(a) \/ CountUpload(a)

Spec == Init /\ [][Next]_vars

-----------------------------------------------------------------------------
\* A transaction carries a code while it redeems one; only creators mint.
WellFormed(own) ==
  /\ own.account = None <=> own.at = "idle"
  /\ own.code # None <=> own.at \in {"redeem", "insert", "commit"}
  /\ own.at \in {"lock", "count", "mint"} => own.account \in Creators

\* The tables and every connection's transaction have their types.
TypeOK ==
  /\ accounts \subseteq Names
  /\ disabled \subseteq accounts
  /\ joinedBy \in [Names -> Codes \cup {None}]
  /\ uploads \in [Creators -> 0 .. MaxUploads]
  /\ DOMAIN invites \subseteq Codes
  /\ invites \in [DOMAIN invites -> Invite]
  /\ tx \in [Conns -> Transaction]
  /\ \A c \in Conns : WellFormed(tx[c])

\* A code's uses are the accounts registered with it, at most max_uses: a
\* registration that fails uses no code up, and of two redemptions of the last
\* use one is refused (createInvitedAccount's comment).
UsesAreRegistrations ==
  \A k \in DOMAIN invites :
    /\ invites[k].uses = Cardinality({a \in Names : joinedBy[a] = k})
    /\ invites[k].max # Unlimited => invites[k].uses <= invites[k].max

\* Once DisableInvite has answered, the code registers nobody, not even a
\* registration that was under way.
RevokedCodesStayUnused ==
  [][\A k \in DOMAIN invites :
       invites[k].state = "disabled" =>
         invites'[k].state = "disabled" /\ invites'[k].uses = invites[k].uses]_vars

\* A code an account mints for itself leaves it within the cap on unused codes
\* and within what the uploads it was counted from have earned, however many
\* requests of the account arrive at once (CreateInviteWithinBudget).
MintsStayWithinBudget ==
  [][\A c \in Conns, a \in Creators :
       At(c, "mint") /\ tx[c].account = a /\ invites' # invites /\ tx'[c] # tx[c] =>
         /\ Cardinality(UnusedActive(a, Expired)') <= InvitesCap
         /\ Cardinality(Minted(a)') <= Earned(tx[c].uploads)]_vars
=============================================================================

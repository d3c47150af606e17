------------------------------ MODULE Accounts ------------------------------
(***************************************************************************)
(* Accounts, roles and browser sessions: store/account.go,                 *)
(* store/session.go, the handlers of api/session.go, api/admin.go,         *)
(* api/account_delete.go and api/auth.go, the commands of                  *)
(* cmd/moansubs/account.go and the bootstrap of cmd/moansubs/serve.go.     *)
(*                                                                         *)
(* Every handler authenticates first and writes in later statements, so a  *)
(* request is a record that several steps advance.  PurgeAccount and       *)
(* DeleteAccount are transactions: a row they have written or selected FOR *)
(* UPDATE is held until they end, and who needs it waits.  A name stands   *)
(* for its account: a deleted name is not registered again here.           *)
(***************************************************************************)
EXTENDS Naturals, FiniteSets

CONSTANTS
  Members,          \* account names
  Boot,             \* the name bootstrapAdmin creates
  Founders,         \* the administrators the node starts with
  Calls,            \* requests and commands in flight at once
  Given,            \* the roles an administrator or the operator hands out
  MaxSessions,      \* bound: sessions ever issued
  Changing,         \* bound: the members whose password is changed
  MaxPasswords      \* bound: passwords one account has had

ASSUME MembersAssumption ==
  /\ IsFiniteSet(Members) /\ Boot \in Members /\ Founders \subseteq Members
  /\ Given \subseteq {"user", "mod", "admin"} /\ "user" \in Given
  /\ MaxSessions \in Nat /\ MaxPasswords \in Nat \ {0} /\ Changing \subseteq Members

VARIABLES
  row,        \* accounts: name -> its row, role "none" before and "gone" after
  sessions,   \* the rows of sessions
  issued,     \* sessions ever issued: the last id
  stray,      \* ghost: sessions a revocation has a known cause to miss
  call        \* the requests and commands in flight

accountVars == <<row, sessions, issued, stray, call>>

Roles == {"user", "mod", "admin"}

\* Its password: how many it has had, 0 for an account of the API alone.
Row(role, password) == [role |-> role, disabled |-> FALSE, password |-> password]

\* The calls that write an account, and the steps of a call.
Deeds == {"login", "password", "set-password", "disable", "enable", "purge",
          "role", "delete", "bootstrap"}
Stages == {"write", "sessions", "commit", "count", "counting", "erase"}

NoCall == [deed |-> "none", of |-> Boot, at |-> "write", session |-> 0,
           password |-> 0, role |-> "user", todo |-> {}, held |-> {}, ids |-> {}]

AccountsTypeOK ==
  /\ row \in [Members -> [role : Roles \cup {"none", "gone"}, disabled : BOOLEAN,
                          password : 0..MaxPasswords]]
  /\ sessions \subseteq [id : 1..MaxSessions, account : Members,
                         password : 0..MaxPasswords]
  /\ issued \in 0..MaxSessions
  /\ stray \subseteq 1..MaxSessions
  /\ call \in [Calls -> [deed : Deeds \cup {"none"}, of : Members, at : Stages,
                         session : 0..MaxSessions, password : 0..MaxPasswords,
                         role : Roles, todo : SUBSET Members,
                         held : SUBSET Members, ids : SUBSET (1..MaxSessions)]]

AccountsInit ==
  /\ row = [a \in Members |-> IF a \in Founders THEN Row("admin", 1) ELSE Row("none", 0)]
  /\ sessions = {} /\ issued = 0 /\ stray = {}
  /\ call = [c \in Calls |-> NoCall]

-----------------------------------------------------------------------------
(* Rows and who holds them.                                                *)

Exists(a) == row[a].role \in Roles
Admins == {a \in Members : row[a].role = "admin"}
SessionsOf(a) == {s \in sessions : s.account = a}
Ids(S) == {s.id : s \in S}

\* FOR UPDATE: the row under deletion and the administrators counted so far.
\* A foreign key check on the row waits for these.
Locked(c) ==
  IF call[c].deed = "delete" /\ call[c].at \in {"count", "counting", "erase"}
  THEN {call[c].of} \cup call[c].held ELSE {}

\* PurgeAccount has updated the row: writers wait, foreign keys do not.
Updated(c) ==
  IF call[c].deed = "purge" /\ call[c].at = "commit" THEN {call[c].of} ELSE {}

Unlocked(a, c) == \A d \in Calls \ {c} : a \notin Locked(d)
Writable(a, c) == Unlocked(a, c) /\ \A d \in Calls \ {c} : a \notin Updated(d)

On(c, deed, at) == call[c].deed = deed /\ call[c].at = at
Begin(c, k) == call[c].deed = "none" /\ call' = [call EXCEPT ![c] = k]
Proceed(c, at) == call' = [call EXCEPT ![c].at = at]
End(c) == call' = [call EXCEPT ![c] = NoCall]

-----------------------------------------------------------------------------
(* Who may ask.                                                            *)

\* authenticateWeb and requireRole: the cookie's session joins its account,
\* which must not be disabled.
Authenticated(s, roles) ==
  /\ s \in sessions
  /\ Exists(s.account) /\ ~ row[s.account].disabled
  /\ row[s.account].role \in roles

\* HashPassword and VerifyPassword: the current password and no other, and
\* none when none was set.
VerifyPassword(a, typed) == typed > 0 /\ typed = row[a].password

VerifyAccountPassword(a, typed) == Exists(a) /\ VerifyPassword(a, typed)

Asked(deed, a) == [NoCall EXCEPT !.deed = deed, !.of = a]
Start(c, k) == Begin(c, k) /\ UNCHANGED <<row, sessions, issued, stray>>

\* An administrator's form about an account that is there.
AdminForm(c, s, k) == Authenticated(s, {"admin"}) /\ Exists(k.of) /\ Start(c, k)

\* Nobody disables the own account; enabling it does not ask.
AdminSetDisabled(c, s, deed, a) ==
  /\ deed = "disable" => a # s.account
  /\ AdminForm(c, s, Asked(deed, a))

HandleAdminAccountPurge(c, s, a) == a # s.account /\ AdminForm(c, s, Asked("purge", a))

HandleAdminAccountRole(c, s, a, r) ==
  a # s.account /\ AdminForm(c, s, [Asked("role", a) EXCEPT !.role = r])

\* POST /me/password, the current password typed: its session is to be kept.
HandleChangePassword(c, s, typed) ==
  /\ Authenticated(s, Roles) /\ VerifyAccountPassword(s.account, typed)
  /\ Start(c, [Asked("password", s.account) EXCEPT !.session = s.id])

\* POST /me/delete, the current password typed.
HandleDeleteAccount(c, s, typed) ==
  /\ Authenticated(s, Roles) /\ VerifyAccountPassword(s.account, typed)
  /\ Start(c, Asked("delete", s.account))

\* POST /login: the password is verified, then the account is seen enabled.
HandleLogin(c, a, typed) ==
  /\ VerifyAccountPassword(a, typed) /\ ~ row[a].disabled
  /\ Start(c, [Asked("login", a) EXCEPT !.password = typed])

\* moansubs account ...: the operator is asked for nothing.
AccountDisableCmd(c, deed, a) == Start(c, Asked(deed, a))
AccountPurgeCmd(c, a) == Exists(a) /\ Start(c, Asked("purge", a))
AccountRoleCmd(c, a, r) == Start(c, [Asked("role", a) EXCEPT !.role = r])
AccountSetPasswordCmd(c, a) == Start(c, Asked("set-password", a))

\* bootstrapAdmin: no administrator, and the name is free.
HasNoAdmin(c) ==
  /\ Admins = {} /\ ~ Exists(Boot)
  /\ Begin(c, Asked("bootstrap", Boot))
  /\ UNCHANGED <<row, sessions, issued, stray>>

-----------------------------------------------------------------------------
(* Sessions.                                                               *)

\* The insert checks the foreign key only: an account disabled, or a password
\* changed, since the password was verified gets its session all the same.
CreateSession(c) ==
  LET a == call[c].of IN
  /\ On(c, "login", "write") /\ Unlocked(a, c)
  /\ IF Exists(a)
     THEN /\ issued < MaxSessions
          /\ issued' = issued + 1
          /\ sessions' = sessions \cup
               {[id |-> issued + 1, account |-> a, password |-> call[c].password]}
          /\ stray' = IF row[a].disabled \/ row[a].password # call[c].password
                      THEN stray \cup {issued + 1} ELSE stray
     ELSE UNCHANGED <<issued, sessions, stray>>
  /\ End(c) /\ UNCHANGED row

\* POST /logout, or the session expires (and a later login sweeps its row).
SessionEnds(s) ==
  /\ s \in sessions
  /\ sessions' = sessions \ {s} /\ stray' = stray \ {s.id}
  /\ UNCHANGED <<row, issued, call>>

DeleteSessionsForAccount(c) ==
  LET S == SessionsOf(call[c].of) IN
  /\ On(c, "disable", "sessions")
  /\ sessions' = sessions \ S /\ stray' = stray \ Ids(S)
  /\ End(c) /\ UNCHANGED <<row, issued>>

\* A mutant of the next: only the session that made the change is deleted.
DeleteOtherSessions_own(c) ==
  LET S == {s \in SessionsOf(call[c].of) : s.id = call[c].session} IN
  /\ On(c, "password", "sessions")
  /\ sessions' = sessions \ S
  /\ stray' = (stray \ Ids(S)) \cup (Ids(sessions) \cap {call[c].session})
  /\ End(c) /\ UNCHANGED <<row, issued>>

\* The session that made the change stays, that one and no other.
DeleteOtherSessions(c) ==
  LET S == {s \in SessionsOf(call[c].of) : s.id # call[c].session} IN
  /\ On(c, "password", "sessions")
  /\ sessions' = sessions \ S
  /\ stray' = (stray \ Ids(S)) \cup (Ids(sessions) \cap {call[c].session})
  /\ End(c) /\ UNCHANGED <<row, issued>>

-----------------------------------------------------------------------------
(* Single statements on the account's row.                                 *)

\* A name that is free; a taken one is ErrNameTaken.
CreateAccount(a, password) ==
  /\ row[a].role = "none"
  /\ row' = [row EXCEPT ![a] = Row("user", password)]
  /\ UNCHANGED <<sessions, issued, stray, call>>

\* The register page asks for a password, moansubs account create and the API
\* make an account of the API alone.
HandleRegisterSubmit(a) == CreateAccount(a, 1)
AccountCreateCmd(a) == CreateAccount(a, 0)

\* One transaction; a name taken meanwhile is ErrNameTaken.
CreateAdminAccount(c) ==
  /\ On(c, "bootstrap", "write")
  /\ row' = IF row[Boot].role = "none" THEN [row EXCEPT ![Boot] = Row("admin", 1)] ELSE row
  /\ End(c) /\ UNCHANGED <<sessions, issued, stray>>

\* An UPDATE by name: it waits for whoever holds the row and finds nothing
\* when the row is gone.
Write(c, deeds) ==
  call[c].deed \in deeds /\ call[c].at = "write" /\ Writable(call[c].of, c)

SetAccountDisabled(c) ==
  LET a == call[c].of IN
  /\ Write(c, {"disable", "enable"})
  /\ IF Exists(a)
     THEN /\ row' = [row EXCEPT ![a].disabled = (call[c].deed = "disable")]
          /\ IF call[c].deed = "disable" THEN Proceed(c, "sessions") ELSE End(c)
     ELSE End(c) /\ UNCHANGED row
  /\ UNCHANGED <<sessions, issued, stray>>

SetAccountRole(c) ==
  LET a == call[c].of IN
  /\ Write(c, {"role"})
  /\ row' = IF Exists(a) THEN [row EXCEPT ![a].role = call[c].role] ELSE row
  /\ End(c) /\ UNCHANGED <<sessions, issued, stray>>

\* The operator's set-password deletes no session.
SetAccountPassword(c) ==
  LET a == call[c].of IN
  /\ Write(c, {"password", "set-password"})
  /\ IF Exists(a)
     THEN /\ a \in Changing /\ row[a].password < MaxPasswords
          /\ row' = [row EXCEPT ![a].password = @ + 1]
          /\ IF call[c].deed = "password"
             THEN Proceed(c, "sessions") /\ UNCHANGED stray
             ELSE End(c) /\ stray' = stray \cup Ids(SessionsOf(a))
     ELSE End(c) /\ UNCHANGED <<row, stray>>
  /\ UNCHANGED <<sessions, issued>>

-----------------------------------------------------------------------------
(* Transactions.                                                           *)

\* PurgeAccount's statements: the sessions it deletes are those it sees; the
\* ghost `session' is the last one issued by then.
PurgeAccount(c) ==
  LET a == call[c].of IN
  /\ Write(c, {"purge"})
  /\ call' = [call EXCEPT ![c].at = "commit", ![c].ids = Ids(SessionsOf(a)),
                          ![c].session = issued]
  /\ UNCHANGED <<row, sessions, issued, stray>>

CommitPurge(c) ==
  LET a == call[c].of
      S == {s \in sessions : s.id \in call[c].ids} IN
  /\ On(c, "purge", "commit")
  /\ row' = IF Exists(a) THEN [row EXCEPT ![a].disabled = TRUE] ELSE row
  /\ sessions' = sessions \ S
  /\ stray' = (stray \ Ids(S)) \cup {id \in Ids(SessionsOf(a)) : id > call[c].session}
  /\ End(c) /\ UNCHANGED issued

\* DeleteAccount: SELECT role ... FOR UPDATE on the own row.
LockAccount(c) ==
  LET a == call[c].of IN
  /\ Write(c, {"delete"})
  /\ IF Exists(a) THEN Proceed(c, IF row[a].role = "admin" THEN "count" ELSE "erase")
     ELSE End(c)
  /\ UNCHANGED <<row, sessions, issued, stray>>

\* The statement that counts the administrators: it sees those there are now
\* and locks them one by one, in the order the table holds them.
CountAdmins(c) ==
  /\ On(c, "delete", "count")
  /\ call' = [call EXCEPT ![c].at = "counting", ![c].todo = Admins]
  /\ UNCHANGED <<row, sessions, issued, stray>>

\* A row that is no administrator any more once its lock is free is skipped.
LockAdmin(c, b) ==
  /\ On(c, "delete", "counting") /\ b \in call[c].todo /\ Writable(b, c)
  /\ call' = [call EXCEPT ![c].todo = @ \ {b},
                          ![c].held = IF b \in Admins THEN @ \cup {b} ELSE @]
  /\ UNCHANGED <<row, sessions, issued, stray>>

\* A mutant of the next: one administrator is enough.
AdminsCounted_one(c) ==
  /\ On(c, "delete", "counting") /\ call[c].todo = {}
  /\ IF Cardinality(call[c].held) < 1 THEN End(c) ELSE Proceed(c, "erase")
  /\ UNCHANGED <<row, sessions, issued, stray>>

AdminsCounted(c) ==
  /\ On(c, "delete", "counting") /\ call[c].todo = {}
  /\ IF Cardinality(call[c].held) <= 1 THEN End(c) ELSE Proceed(c, "erase")
  /\ UNCHANGED <<row, sessions, issued, stray>>

\* The delete and its cascade, and the commit.
EraseAccount(c) ==
  LET a == call[c].of
      S == SessionsOf(a) IN
  /\ On(c, "delete", "erase")
  /\ row' = [row EXCEPT ![a].role = "gone"]
  /\ sessions' = sessions \ S /\ stray' = stray \ Ids(S)
  /\ End(c) /\ UNCHANGED issued

\* The client goes away, the database fails, a deadlock is broken or the
\* process dies: a transaction is rolled back, statements done stay done.
Abandon(c) ==
  /\ call[c].deed # "none"
  /\ stray' = IF call[c].at = "sessions"
              THEN stray \cup Ids(SessionsOf(call[c].of)) ELSE stray
  /\ End(c) /\ UNCHANGED <<row, sessions, issued>>

-----------------------------------------------------------------------------
Ask(c) ==
  \/ \E s \in sessions, a \in Members :
       \/ \E deed \in {"disable", "enable"} : AdminSetDisabled(c, s, deed, a)
       \/ HandleAdminAccountPurge(c, s, a)
       \/ \E r \in Given : HandleAdminAccountRole(c, s, a, r)
  \/ \E s \in sessions, typed \in 1..MaxPasswords :
       HandleChangePassword(c, s, typed) \/ HandleDeleteAccount(c, s, typed)
  \/ \E a \in Members :
       \/ \E typed \in 1..MaxPasswords : HandleLogin(c, a, typed)
       \/ \E deed \in {"disable", "enable"} : AccountDisableCmd(c, deed, a)
       \/ AccountPurgeCmd(c, a)
       \/ \E r \in Given : AccountRoleCmd(c, a, r)
       \/ AccountSetPasswordCmd(c, a)
  \/ HasNoAdmin(c)

Statement(c) ==
  \/ CreateSession(c)
  \/ DeleteSessionsForAccount(c)
  \/ DeleteOtherSessions(c)
  \/ CreateAdminAccount(c)
  \/ SetAccountDisabled(c)
  \/ SetAccountRole(c)
  \/ SetAccountPassword(c)
  \/ PurgeAccount(c)
  \/ CommitPurge(c)
  \/ LockAccount(c)
  \/ CountAdmins(c)
  \/ \E b \in Members : LockAdmin(c, b)
  \/ AdminsCounted(c)
  \/ EraseAccount(c)
  \/ Abandon(c)

AccountsNext ==
  \/ \E c \in Calls : Ask(c) \/ Statement(c)
  \/ \E s \in sessions : SessionEnds(s)
  \/ \E a \in Members : HandleRegisterSubmit(a) \/ AccountCreateCmd(a)

AccountsSpec == AccountsInit /\ [][AccountsNext]_accountVars

-----------------------------------------------------------------------------
(* Properties.                                                             *)

\* Deleting accounts never takes the last administrator, however many of them
\* delete themselves at once and whatever demotions run beside
\* (store/account.go DeleteAccount locks every administrator's row).
DeletionLeavesAnAdmin ==
  [][ (\E a \in Members : row[a].role = "admin" /\ row'[a].role = "gone")
      => \E b \in Members : row'[b].role = "admin" ]_accountVars

\* A session of a disabled account, or one opened with an old password, is
\* one that its deletion is still to reach, or one with a cause to have
\* slipped past it: a login verified earlier (its row is inserted after the
\* account's row was written, or after the purge's deletion looked), a
\* deletion that failed, the browser that changed the password, or the
\* operator's set-password (store/session.go).  `stray' collects these causes
\* and never what a deletion happens to leave.
Reached(s) ==
  \E c \in Calls : call[c].of = s.account /\ call[c].at = "sessions"

RevokedSessionsEnd ==
  \A s \in sessions :
    row[s.account].disabled \/ s.password # row[s.account].password
    => s.id \in stray \/ Reached(s)
=============================================================================

------------------------------ MODULE Accounts ------------------------------
(***************************************************************************)
(* auth.Service and the handlers around it: first-run setup, users, and    *)
(* the sessions that refresh tokens carry.  A request is a process: what   *)
(* it read from the database may have changed when it writes, and SQLite   *)
(* orders single statements only.  Names, addresses and passwords are      *)
(* left out: whoever may log in knows the password.                        *)
(***************************************************************************)
EXTENDS Naturals, FiniteSets

CONSTANTS
  Users,          \* ids of users; an id is given once (AUTOINCREMENT)
  DefaultUser,    \* the user that the environment variables may name
  Nobody,         \* stands for no user, no request
  Calls,          \* concurrent requests of this instance
  MaxTokens,      \* refresh tokens an instance issues
  MaxChanges,     \* password changes of an instance
  MaxBoots,       \* restarts
  AcFaults        \* "revoke": the database may refuse to drop tokens that are to be revoked

ASSUME AccountsAssumption ==
  /\ MaxTokens \in Nat /\ MaxChanges \in Nat /\ MaxBoots \in Nat
  /\ DefaultUser \in Users /\ Nobody \notin Users \cup Calls
  /\ AcFaults \subseteq {"revoke"}

VARIABLES
  users,          \* the table users: [state, admin]
  refreshTokens,  \* the table refresh_tokens: [id, user, since, excused]
  ttl,            \* what is left of each token ever issued
  lastToken,      \* tokens issued so far; 32 random bytes do not repeat
  changes,        \* how often a password change of each user dropped the tokens
  access,         \* users who hold an access token that has not expired
  call,           \* what each request is doing
  setupMu,        \* the request that holds Handlers.setupMu, or Nobody
  boot,           \* start-up: "bootstrap", "promote", then "up"
  boots,          \* restarts so far
  successors      \* how many tokens each token was exchanged for, and dropped

acVars == <<users, refreshTokens, ttl, lastToken, changes, access, call,
            setupMu, boot, boots, successors>>

TokenIds == 1..MaxTokens
User == [state : {"none", "live", "deleted"}, admin : BOOLEAN]

\* since: the changes made when the session was opened with a login; excused: it was issued
\* across a later change.
RefreshToken == [id : TokenIds, user : Users, since : 0..MaxChanges, excused : BOOLEAN]

\* token: the one that a refresh presented, 0 when it could not be dropped.
Idle == [op |-> "none", pc |-> "idle", user |-> Nobody, since |-> 0, admin |-> FALSE,
         token |-> 0, long |-> FALSE, crossed |-> FALSE]

CallPcs == {"idle", "revoke", "issue", "save", "revokeAll", "tokens", "delete",
            "create", "promote"}

AcTypeOK ==
  /\ users \in [Users -> User]
  /\ refreshTokens \in SUBSET RefreshToken
  /\ \A t \in refreshTokens : t.id <= lastToken
  /\ ttl \in [TokenIds -> {"none", "long", "short", "expired"}]
  /\ lastToken \in 0..MaxTokens /\ changes \in [Users -> 0..MaxChanges]
  /\ access \in SUBSET Users
  /\ \A c \in Calls : call[c].pc \in CallPcs
  /\ setupMu \in Calls \cup {Nobody}
  /\ boot \in {"bootstrap", "promote", "up"} /\ boots \in 0..MaxBoots
  /\ successors \in [TokenIds -> 0..MaxTokens]

AcInit ==
  /\ users = [u \in Users |-> [state |-> "none", admin |-> FALSE]]
  /\ refreshTokens = {}
  /\ ttl = [t \in TokenIds |-> "none"]
  /\ lastToken = 0 /\ changes = [u \in Users |-> 0]
  /\ access = {}
  /\ call = [c \in Calls |-> Idle]
  /\ setupMu = Nobody
  /\ boot = "bootstrap" /\ boots = 0
  /\ successors = [t \in TokenIds |-> 0]

Live(u) == users[u].state = "live"
LiveUsers == {u \in Users : Live(u)}
TokensOf(u) == {t \in refreshTokens : t.user = u}
Revoked(id) == {t \in refreshTokens : t.id # id}

Accepts(c) == boot = "up" /\ call[c].pc = "idle"
At(c, pc) == call[c].pc = pc
Returns(c) == call' = [call EXCEPT ![c] = Idle]
Goes(c, pc) == call' = [call EXCEPT ![c].pc = pc]

\* A request that has read the row of user u, or a token of it, goes on to pc.
Enter(c, op, pc, u, t, long) ==
  call' = [call EXCEPT ![c] = [op |-> op, pc |-> pc, user |-> u, since |-> changes[u],
             admin |-> users[u].admin, token |-> t, long |-> long, crossed |-> FALSE]]

CreateUser(u) ==
  /\ users[u].state = "none"
  /\ users' = [users EXCEPT ![u].state = "live"]

\* A full-column write of the row as the request holds it, if the row exists.
UpdateUser(c, admin) ==
  users' = [users EXCEPT ![call[c].user] =
              IF @.state = "live" THEN [@ EXCEPT !.admin = admin] ELSE @]

-----------------------------------------------------------------------------
(* Sessions                                                                *)

\* LoginHandler: the password is compared with the row just read.
AcLogin(c, u) ==
  /\ Accepts(c) /\ Live(u)
  /\ \E rememberMe \in BOOLEAN : Enter(c, "login", "issue", u, 0, rememberMe)
  /\ UNCHANGED <<users, refreshTokens, ttl, lastToken, changes, access, setupMu,
                 boot, boots, successors>>

\* GenerateRefreshToken for a login, a rotation or the setup.  The foreign key refuses a
\* token without a user; an access token is handed out with the new cookie only.
AcIssue(c) ==
  LET q == call[c] IN
  /\ At(c, "issue")
  /\ IF Live(q.user)
     THEN /\ lastToken < MaxTokens
          /\ lastToken' = lastToken + 1
          /\ ttl' = [ttl EXCEPT ![lastToken'] = IF q.long THEN "long" ELSE "short"]
          /\ refreshTokens' = refreshTokens \cup
               {[id |-> lastToken', user |-> q.user, since |-> q.since, excused |-> q.crossed]}
          /\ access' = access \cup {q.user}
          /\ successors' = IF q.token # 0 THEN [successors EXCEPT ![q.token] = @ + 1]
                                          ELSE successors
     ELSE UNCHANGED <<refreshTokens, ttl, lastToken, access, successors>>
  /\ setupMu' = IF setupMu = c THEN Nobody ELSE setupMu
  /\ Returns(c)
  /\ UNCHANGED <<users, changes, boot, boots>>

\* RotateRefreshToken reads the token and its user.  An expired one is dropped.
AcPresent(c, t) ==
  /\ Accepts(c)
  /\ ttl[t.id] # "expired"
  /\ call' = [call EXCEPT ![c] = [Idle EXCEPT !.op = "refresh", !.pc = "revoke",
                !.user = t.user, !.since = t.since, !.token = t.id, !.crossed = t.excused]]
  /\ UNCHANGED <<users, refreshTokens, ttl, lastToken, changes, access, setupMu,
                 boot, boots, successors>>

AcPresentExpired(c, t) ==
  /\ Accepts(c)
  /\ ttl[t.id] = "expired"
  /\ refreshTokens' = refreshTokens \ {t}
  /\ UNCHANGED <<users, ttl, lastToken, changes, access, call, setupMu, boot, boots,
                 successors>>

\* Mutant: the old token is left in the table.
AcRevokeNothing(c) ==
  /\ At(c, "revoke")
  /\ call' = [call EXCEPT ![c].pc = "issue", ![c].long = ttl[call[c].token] = "long"]
  /\ UNCHANGED <<users, refreshTokens, ttl, lastToken, changes, access, setupMu,
                 boot, boots, successors>>

\* ... deletes it, whether or not it is still there, and keeps the remember-me choice if
\* more than the short lifetime is left.
AcRevoke(c) ==
  /\ At(c, "revoke")
  /\ refreshTokens' = Revoked(call[c].token)
  /\ call' = [call EXCEPT ![c].pc = "issue", ![c].long = ttl[call[c].token] = "long"]
  /\ UNCHANGED <<users, ttl, lastToken, changes, access, setupMu, boot, boots,
                 successors>>

\* The error is ignored: the new token is issued, and the old one stays.
AcRevokeFails(c) ==
  /\ At(c, "revoke") /\ "revoke" \in AcFaults
  /\ call' = [call EXCEPT ![c].pc = "issue", ![c].long = ttl[call[c].token] = "long",
                          ![c].token = 0]
  /\ UNCHANGED <<users, refreshTokens, ttl, lastToken, changes, access, setupMu,
                 boot, boots, successors>>

AcLogout(c, t) ==
  /\ Accepts(c)
  /\ refreshTokens' = Revoked(t.id)
  /\ UNCHANGED <<users, ttl, lastToken, changes, access, call, setupMu, boot, boots,
                 successors>>

-----------------------------------------------------------------------------
(* The user's own row                                                      *)

Changing(u) == {c \in Calls : call[c].op = "password" /\ call[c].user = u}

\* ChangePassword and UpdateProfile read the row, hash or edit, and write it whole.
AcReadUser(c, op, u) ==
  /\ Accepts(c) /\ Live(u) /\ u \in access
  /\ op = "password" => changes[u] + Cardinality(Changing(u)) < MaxChanges
  /\ Enter(c, op, "save", u, 0, FALSE)
  /\ UNCHANGED <<users, refreshTokens, ttl, lastToken, changes, access, setupMu,
                 boot, boots, successors>>

AcSavePassword(c) ==
  /\ At(c, "save") /\ call[c].op = "password"
  /\ UpdateUser(c, call[c].admin)
  /\ IF Live(call[c].user) THEN Goes(c, "revokeAll") ELSE Returns(c)
  /\ UNCHANGED <<refreshTokens, ttl, lastToken, changes, access, setupMu, boot, boots,
                 successors>>

\* Requests of the user that have proved a password or a token, but not issued yet.
Underway(u) == {c \in Calls : call[c].user = u /\ call[c].pc \in {"revoke", "promote", "issue"}}

\* Mutant: only the token presented last is dropped.
AcRevokeNewest(c) ==
  LET u == call[c].user IN
  /\ At(c, "revokeAll")
  /\ refreshTokens' = Revoked(lastToken)
  /\ call' = [q \in Calls |-> IF q = c THEN Idle
                ELSE [call[q] EXCEPT !.crossed = @ \/ q \in Underway(u)]]
  /\ changes' = [changes EXCEPT ![u] = @ + 1]
  /\ UNCHANGED <<users, ttl, lastToken, access, setupMu, boot, boots,
                 successors>>

AcRevokeAll(c) ==
  LET u == call[c].user IN
  /\ At(c, "revokeAll")
  /\ refreshTokens' = refreshTokens \ TokensOf(u)
  /\ call' = [q \in Calls |-> IF q = c THEN Idle
                ELSE [call[q] EXCEPT !.crossed = @ \/ q \in Underway(u)]]
  /\ changes' = [changes EXCEPT ![u] = @ + 1]
  /\ UNCHANGED <<users, ttl, lastToken, access, setupMu, boot, boots,
                 successors>>

\* The answer says that the sessions could not be revoked.
AcRevokeAllFails(c) ==
  /\ At(c, "revokeAll") /\ "revoke" \in AcFaults
  /\ Returns(c)
  /\ UNCHANGED <<users, refreshTokens, ttl, lastToken, changes, access, setupMu, boot,
                 boots, successors>>

AcSaveProfile(c) ==
  /\ At(c, "save") /\ call[c].op = "profile"
  /\ UpdateUser(c, call[c].admin)
  /\ Returns(c)
  /\ UNCHANGED <<refreshTokens, ttl, lastToken, changes, access, setupMu, boot,
                 boots, successors>>

-----------------------------------------------------------------------------
(* User administration and first-run setup                                 *)

\* AdminMiddleware: the caller's row says so, whatever the access token is worth.
IsUserAdmin(u) == u \in access /\ Live(u) /\ users[u].admin

AcRegister(c, u) ==
  /\ Accepts(c) /\ \E a \in Users : IsUserAdmin(a)
  /\ CreateUser(u)
  /\ UNCHANGED <<changes, refreshTokens, ttl, lastToken, access, call, setupMu, boot, boots,
                 successors>>

\* Mutant: one may delete oneself.
AcAdmitDeleteSelf(c, a, u) ==
  /\ Accepts(c) /\ IsUserAdmin(a)
  /\ Enter(c, "deleteUser", "tokens", u, 0, FALSE)
  /\ UNCHANGED <<users, refreshTokens, ttl, lastToken, changes, access, setupMu,
                 boot, boots, successors>>

AcAdmitDelete(c, a, u) ==
  /\ Accepts(c) /\ IsUserAdmin(a)
  /\ u # a
  /\ Enter(c, "deleteUser", "tokens", u, 0, FALSE)
  /\ UNCHANGED <<users, refreshTokens, ttl, lastToken, changes, access, setupMu,
                 boot, boots, successors>>

\* An error is ignored here too.
AcDeleteTokens(c) ==
  /\ At(c, "tokens")
  /\ \/ refreshTokens' = refreshTokens \ TokensOf(call[c].user)
     \/ "revoke" \in AcFaults /\ UNCHANGED refreshTokens
  /\ Goes(c, "delete")
  /\ UNCHANGED <<users, ttl, lastToken, changes, access, setupMu, boot, boots,
                 successors>>

\* The tokens issued since go with the row (ON DELETE CASCADE).
AcDeleteUser(c) ==
  LET u == call[c].user IN
  /\ At(c, "delete")
  /\ users' = [users EXCEPT ![u].state = IF @ = "live" THEN "deleted" ELSE @]
  /\ refreshTokens' = refreshTokens \ TokensOf(u)
  /\ Returns(c)
  /\ UNCHANGED <<ttl, lastToken, changes, access, setupMu, boot, boots, successors>>

\* SetupHandler, under its mutex: count, register, promote, then issue tokens.
AcSetupCount(c, u) ==
  /\ Accepts(c)
  /\ setupMu = Nobody
  /\ LiveUsers = {}
  /\ users[u].state = "none"
  /\ setupMu' = c
  /\ Enter(c, "setup", "create", u, 0, TRUE)
  /\ UNCHANGED <<users, refreshTokens, ttl, lastToken, changes, access, boot, boots,
                 successors>>

AcSetupCreate(c) ==
  /\ At(c, "create")
  /\ CreateUser(call[c].user)
  /\ Goes(c, "promote")
  /\ UNCHANGED <<changes, refreshTokens, ttl, lastToken, access, setupMu, boot, boots, successors>>

AcSetupPromote(c) ==
  /\ At(c, "promote")
  /\ UpdateUser(c, TRUE)
  /\ Goes(c, "issue")
  /\ UNCHANGED <<refreshTokens, ttl, lastToken, changes, access, setupMu, boot,
                 boots, successors>>

\* Start-up: Bootstrap, then CleanupExpiredTokens.
Up ==
  /\ boot' = "up"
  /\ refreshTokens' = {t \in refreshTokens : ttl[t.id] # "expired"}

AcBootstrapCreate ==
  /\ boot = "bootstrap"
  /\ LiveUsers = {}
  /\ CreateUser(DefaultUser)
  /\ boot' = "promote"
  /\ UNCHANGED <<changes, refreshTokens, ttl, lastToken, access, call, setupMu, boots, successors>>

AcBootstrapPromote ==
  /\ boot = "promote"
  /\ users' = [users EXCEPT ![DefaultUser].admin = TRUE]
  /\ Up
  /\ UNCHANGED <<ttl, lastToken, changes, access, call, setupMu, boots, successors>>

\* Users exist already, or this start has no default user configured.
AcBootstrapSkip ==
  /\ boot = "bootstrap"
  /\ Up
  /\ UNCHANGED <<users, ttl, lastToken, changes, access, call, setupMu, boots,
                 successors>>

\* The process dies between two statements, with its requests and its mutex.  A password
\* change that had not dropped the tokens yet never will, but did not answer either.
AcRestart ==
  /\ boots < MaxBoots
  /\ boots' = boots + 1
  /\ boot' = "bootstrap"
  /\ call' = [c \in Calls |-> Idle]
  /\ setupMu' = Nobody
  /\ UNCHANGED <<users, refreshTokens, ttl, lastToken, changes, access, successors>>

-----------------------------------------------------------------------------
(* Time                                                                    *)

AcAge(t) ==
  /\ ttl[t] \in {"long", "short"}
  /\ ttl' = [ttl EXCEPT ![t] = IF @ = "long" THEN "short" ELSE "expired"]
  /\ UNCHANGED <<users, refreshTokens, lastToken, changes, access, call, setupMu,
                 boot, boots, successors>>

AcAccessExpires(u) ==
  /\ u \in access
  /\ access' = access \ {u}
  /\ UNCHANGED <<users, refreshTokens, ttl, lastToken, changes, call, setupMu, boot,
                 boots, successors>>

AcNext ==
  \/ \E c \in Calls :
       \/ \E u \in Users :
            \/ AcLogin(c, u) \/ AcRegister(c, u) \/ AcSetupCount(c, u)
            \/ AcReadUser(c, "password", u) \/ AcReadUser(c, "profile", u)
            \/ \E a \in Users : AcAdmitDelete(c, a, u)
       \/ \E t \in refreshTokens :
            AcPresent(c, t) \/ AcPresentExpired(c, t) \/ AcLogout(c, t)
       \/ AcIssue(c) \/ AcRevoke(c) \/ AcRevokeFails(c)
       \/ AcSavePassword(c) \/ AcRevokeAll(c) \/ AcRevokeAllFails(c) \/ AcSaveProfile(c)
       \/ AcDeleteTokens(c) \/ AcDeleteUser(c)
       \/ AcSetupCreate(c) \/ AcSetupPromote(c)
  \/ AcBootstrapCreate \/ AcBootstrapPromote \/ AcBootstrapSkip \/ AcRestart
  \/ \E t \in TokenIds : AcAge(t)
  \/ \E u \in Users : AcAccessExpires(u)

-----------------------------------------------------------------------------
(* Properties                                                              *)

\* A refresh token that was exchanged is worth nothing: it is not in the table any more,
\* whatever other requests of its user did meanwhile; unless the database refused to drop it at
\* each exchange, which is ignored: it is then good until it expires or all tokens of its user
\* are dropped (RotateRefreshToken, auth/service.go:169).
ExchangedTokenIsSpent == \A t \in refreshTokens : successors[t.id] = 0

\* Sessions opened before a password change do not survive one that answered with success
\* (ChangePassword), except those whose login or rotation was already underway when the
\* tokens were dropped.
PasswordChangeEndsSessions ==
  \A t \in refreshTokens : t.since < changes[t.user] => t.excused

\* Setup runs once: there is at most one administrator, and once there was a user there
\* always is one, so the unauthenticated setup stays closed (SetupHandler, Bootstrap,
\* DeleteUser), with crashes at any point.
SetupStaysClosed ==
  /\ Cardinality({u \in LiveUsers : users[u].admin}) <= 1
  /\ (\E u \in Users : users[u].state # "none") => LiveUsers # {}

\* No refresh token outlives what ends it: its exchange, or a change of its user's password.
RevokedTokensStayDead == ExchangedTokenIsSpent /\ PasswordChangeEndsSessions

\* Nothing that was closed opens again, neither a session nor the setup.
AccountsSafe == RevokedTokensStayDead /\ SetupStaysClosed
=============================================================================

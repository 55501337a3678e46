------------------------------ MODULE Sessions ------------------------------
(***************************************************************************)
(* Accounts, access tokens and sessions: the authentication routes of the  *)
(* gateway and the user service (routes/auth.ts), the federated sign-in    *)
(* (oidc/), the administration of users and roles (user-service), and      *)
(* authenticate (middleware/rbac.ts), over one database.                   *)
(*                                                                         *)
(* An access token carries the permissions of its user's role as they were *)
(* when it was issued.  It is accepted until it expires or its row in      *)
(* `sessions` is deleted; neither the account nor the role is looked at    *)
(* again.  The other tokens the gateway signs - challenges, links, the     *)
(* state of a sign-in - have no row to delete and are accepted as bearers  *)
(* too, without permissions.  Every start seeds roles and accounts anew.   *)
(*                                                                         *)
(* Of the challenges, set-password links and federated sign-ins of a user  *)
(* the latest is kept: they are signed tokens no table records, so an      *)
(* earlier one opens nothing the latest does not.  Users hold the right    *)
(* passwords and codes.  lastHeld is a history variable.                   *)
(***************************************************************************)
EXTENDS SqlNull, Integers

CONSTANTS
    User,
    Token,          \* access tokens, by jti
    Role,
    Permission,
    AdminPermission,    \* users.create, .update, .delete and system.admin, as one
    Federated,      \* users the identity provider knows: DEMO_SUBJECTS
    Newcomer,       \* those of them this system does not
    MfaUser,        \* users with a second factor
    RoleOf,         \* the role of each seeded account
    Grants,         \* the permissions of each role as seeded
    AccountStatus,  \* users.status: any string, of which "active" opens doors
    NewcomerRole,   \* "debtor"
    CodeTtl, ChallengeTtl, StateTtl, AccessTtl, LinkTtl,
    MaxTime,        \* the last moment modelled
    MaxChanges      \* changes of accounts and roles, to keep the model finite

ASSUME SessionAssumption ==
    /\ Newcomer \subseteq Federated
    /\ Federated \subseteq User /\ MfaUser \subseteq User
    /\ RoleOf \in [User -> Role] /\ Grants \in [Role -> SUBSET Permission]
    /\ {"active", "deactivated"} \subseteq AccountStatus
    /\ AdminPermission \in Permission /\ NewcomerRole \in Role
    /\ {CodeTtl, ChallengeTtl, StateTtl, AccessTtl, LinkTtl} \subseteq Nat \ {0}
    /\ MaxTime \in Nat /\ MaxChanges \in Nat

Time == 0..MaxTime

Account == [status : AccountStatus, role : Role, password : BOOLEAN]

Claims == [user : User, permissions : SUBSET Permission, issuedAt : Time]

\* A federated sign-in: when it began, and when the provider issued its code.
SignIn == [startedAt : Time, codeAt : Time \cup {Null}]

ASSUME SessionNullAssumption ==
    /\ Null \notin Account \cup Claims \cup SignIn \cup User
    /\ Null \notin Int /\ Null \notin Role

VARIABLES
    account,        \* rows of `users`, Null when there is none
    grants,         \* role_permissions
    claims,         \* what each issued token says, Null before it is issued
    session,        \* rows of `sessions`
    challenge,      \* when the latest second-factor challenge was issued
    link,           \* when the latest set-password link was issued
    signIn,         \* the latest federated sign-in
    now,
    changes,        \* changes of accounts and roles by administrators
    lastHeld        \* when each active account last held each permission

sessionVars ==
    <<account, grants, claims, session, challenge, link, signIn, now, changes,
      lastHeld>>

SessionTypeOK ==
    /\ account \in [User -> Account \cup {Null}]
    /\ grants \in [Role -> SUBSET Permission]
    /\ claims \in [Token -> Claims \cup {Null}]
    /\ session \subseteq Token
    /\ challenge \in [User -> Time \cup {Null}]
    /\ link \in [User -> Time \cup {Null}]
    /\ signIn \in [User -> SignIn \cup {Null}]
    /\ now \in Time
    /\ changes \in 0..MaxChanges
    /\ lastHeld \in [User \X Permission -> Time \cup {-1}]

IsActive(u) == account[u] # Null /\ account[u].status = "active"

Holds(u, p) == IsActive(u) /\ p \in grants[account[u].role]

SessionInit ==
    /\ account = [u \in User |-> IF u \in Newcomer THEN Null ELSE
                    [status |-> "active", role |-> RoleOf[u], password |-> TRUE]]
    /\ grants = Grants
    /\ claims = [t \in Token |-> Null]
    /\ session = {}
    /\ challenge = [u \in User |-> Null]
    /\ link = [u \in User |-> Null]
    /\ signIn = [u \in User |-> Null]
    /\ now = 0
    /\ changes = 0
    /\ lastHeld = [h \in User \X Permission |->
                    IF Holds(h[1], h[2]) THEN 0 ELSE -1]

\* A signed token issued at `issuedAt` has not expired: verifyToken.
Verifies(issuedAt, ttl) == issuedAt # Null /\ now < issuedAt + ttl

\* authenticate of an access token: signature, expiry, session row of its jti.
Authenticates(t) ==
    /\ claims[t] # Null
    /\ Verifies(claims[t].issuedAt, AccessTtl)
    /\ t \in session

(***************************************************************************)
(* All that authenticate lets in, and as whom.  A challenge, a link and    *)
(* the state of a sign-in are signed with the same key but have no jti:    *)
(* signature and expiry are all that is asked of them.  They carry no      *)
(* permissions, so they open the routes that ask for none; the state names *)
(* no user either.                                                         *)
(***************************************************************************)
Bearers ==
    {[user |-> claims[t].user, permissions |-> claims[t].permissions,
      issuedAt |-> claims[t].issuedAt] : t \in {s \in Token : Authenticates(s)}}
    \cup {[user |-> u, permissions |-> {}, issuedAt |-> challenge[u]] :
            u \in {v \in User : Verifies(challenge[v], ChallengeTtl)}}
    \cup {[user |-> u, permissions |-> {}, issuedAt |-> link[u]] :
            u \in {v \in User : Verifies(link[v], LinkTtl)}}
    \cup {[user |-> Null, permissions |-> {}, issuedAt |-> signIn[u].startedAt] :
            u \in {v \in User : /\ signIn[v] # Null
                                 /\ Verifies(signIn[v].startedAt, StateTtl)}}

\* authenticate and the permission gate of the administration routes, which
\* nothing but an access token passes.
Administers(t) == Authenticates(t) /\ AdminPermission \in claims[t].permissions

\* A mutant: signing in again revives the user's earlier sessions.
IssueTokenReviving(t, u, role) ==
    /\ claims[t] = Null
    /\ claims' = [claims EXCEPT ![t] =
            [user |-> u, permissions |-> grants[role], issuedAt |-> now]]
    /\ session' = session \cup
            {s \in Token : s = t \/ (claims[s] # Null /\ claims[s].user = u)}

\* issueAccessToken, issueAppSession: a new jti, its claims, its session row.
IssueToken(t, u, role) ==
    /\ claims[t] = Null
    /\ claims' = [claims EXCEPT ![t] =
            [user |-> u, permissions |-> grants[role], issuedAt |-> now]]
    /\ session' = session \cup {t}

-----------------------------------------------------------------------------
\* POST /login of an account without a second factor.
Login(t, u) ==
    /\ IsActive(u) /\ account[u].password /\ u \notin MfaUser
    /\ IssueToken(t, u, account[u].role)
    /\ UNCHANGED <<account, grants, challenge, link, signIn, now, changes>>

\* POST /login of an account with one: a challenge instead of a token.
LoginChallenge(u) ==
    /\ IsActive(u) /\ account[u].password /\ u \in MfaUser
    /\ challenge' = [challenge EXCEPT ![u] = now]
    /\ UNCHANGED <<account, grants, claims, session, link, signIn, now, changes>>

\* A mutant: the account is not looked at again.
VerifyMfaUnchecked(t, u) ==
    /\ Verifies(challenge[u], ChallengeTtl)
    /\ account[u] # Null
    /\ IssueToken(t, u, account[u].role)
    /\ UNCHANGED <<account, grants, challenge, link, signIn, now, changes>>

\* POST /verify-mfa: the account is read again; the challenge stays valid.
VerifyMfa(t, u) ==
    /\ Verifies(challenge[u], ChallengeTtl)
    /\ IsActive(u)
    /\ IssueToken(t, u, account[u].role)
    /\ UNCHANGED <<account, grants, challenge, link, signIn, now, changes>>

\* GET /oidc/start: the state is signed and goes with the browser.
StartSignIn(u) ==
    /\ u \in Federated
    /\ signIn' = [signIn EXCEPT ![u] = [startedAt |-> now, codeAt |-> Null]]
    /\ UNCHANGED <<account, grants, claims, session, challenge, link, now, changes>>

\* GET /oidc/idp/authorize with a subject: a code, whatever the state's age.
Authorize(u) ==
    /\ signIn[u] # Null
    /\ signIn' = [signIn EXCEPT ![u].codeAt = now]
    /\ UNCHANGED <<account, grants, claims, session, challenge, link, now, changes>>

\* provisionFederatedUser: an unseen email becomes an active debtor account.
Provisioned(u) ==
    IF account[u] # Null THEN account[u]
    ELSE [status |-> "active", role |-> NewcomerRole, password |-> FALSE]

\* GET /oidc/callback: state, code, account, session; neither is consumed.
Callback(t, u) ==
    /\ signIn[u] # Null
    /\ Verifies(signIn[u].startedAt, StateTtl)
    /\ Verifies(signIn[u].codeAt, CodeTtl)
    /\ account' = [account EXCEPT ![u] = Provisioned(u)]
    /\ account'[u].status = "active"
    /\ IssueToken(t, u, account'[u].role)
    /\ UNCHANGED <<grants, challenge, link, signIn, now, changes>>

\* seedRbacSqlite: the seeded grants are inserted where they are missing.
Reseeded == [role \in Role |-> grants[role] \cup Grants[role]]

\* initializeSchema: an account without a password gets the demonstration's.
Backfilled ==
    [u \in User |-> IF account[u] = Null THEN Null
                    ELSE [account[u] EXCEPT !.password = TRUE]]

(***************************************************************************)
(* The process starts again: the schema is seeded once more, and the key   *)
(* of the mock provider, with it the codes it signed, is a new one.        *)
(***************************************************************************)
Restart ==
    /\ grants' = Reseeded
    /\ account' = Backfilled
    /\ signIn' = [u \in User |->
            IF signIn[u] = Null THEN Null ELSE [signIn[u] EXCEPT !.codeAt = Null]]
    /\ UNCHANGED <<claims, session, challenge, link, now, changes>>

\* POST /logout: an unexpired token's session row is deleted.
Logout(t) ==
    /\ claims[t] # Null /\ Verifies(claims[t].issuedAt, AccessTtl)
    /\ session' = session \ {t}
    /\ UNCHANGED <<account, grants, claims, challenge, link, signIn, now, changes>>

-----------------------------------------------------------------------------
\* POST /invite by an administrator: a link, whatever the account's status.
Invite(by, u) ==
    /\ Administers(by)
    /\ account[u] # Null
    /\ link' = [link EXCEPT ![u] = now]
    /\ UNCHANGED <<account, grants, claims, session, challenge, signIn, now, changes>>

\* POST /forgot-password
ForgotPassword(u) ==
    /\ IsActive(u)
    /\ link' = [link EXCEPT ![u] = now]
    /\ UNCHANGED <<account, grants, claims, session, challenge, signIn, now, changes>>

\* POST /set-password: sessions that are open stay open.
SetPassword(u) ==
    /\ Verifies(link[u], LinkTtl)
    /\ IsActive(u)
    /\ account' = [account EXCEPT ![u].password = TRUE]
    /\ UNCHANGED <<grants, claims, session, challenge, link, signIn, now, changes>>

\* An administrator changes an account or a role.
Changes(by) ==
    /\ Administers(by)
    /\ changes < MaxChanges
    /\ changes' = changes + 1

\* POST /api/users: active, without a password.
CreateUser(by, u, role) ==
    /\ Changes(by)
    /\ account[u] = Null
    /\ account' = [account EXCEPT ![u] =
            [status |-> "active", role |-> role, password |-> FALSE]]
    /\ UNCHANGED <<grants, claims, session, challenge, link, signIn, now>>

\* A mutant: a body without a status clears it.
UpdateUserBlank(by, u, role, status) ==
    /\ Changes(by)
    /\ account[u] # Null
    /\ account' = [account EXCEPT ![u].role = role, ![u].status = Null]
    /\ UNCHANGED <<grants, claims, session, challenge, link, signIn, now>>

\* PUT /api/users/:id: any status; what the body leaves out stays as it is.
UpdateUser(by, u, role, status) ==
    /\ Changes(by)
    /\ account[u] # Null
    /\ account' = [account EXCEPT ![u].role = role, ![u].status = status]
    /\ UNCHANGED <<grants, claims, session, challenge, link, signIn, now>>

\* DELETE /api/users/:id
DeactivateUser(by, u) ==
    /\ Changes(by)
    /\ account[u] # Null
    /\ account' = [account EXCEPT ![u].status = "deactivated"]
    /\ UNCHANGED <<grants, claims, session, challenge, link, signIn, now>>

\* POST /api/roles/:id/permissions
GrantPermission(by, role, p) ==
    /\ Changes(by)
    /\ grants' = [grants EXCEPT ![role] = @ \cup {p}]
    /\ UNCHANGED <<account, claims, session, challenge, link, signIn, now>>

\* DELETE /api/roles/:id/permissions/:code
RevokePermission(by, role, p) ==
    /\ Changes(by)
    /\ grants' = [grants EXCEPT ![role] = @ \ {p}]
    /\ UNCHANGED <<account, claims, session, challenge, link, signIn, now>>

-----------------------------------------------------------------------------
Unexpired(issuedAt, ttl) ==
    IF issuedAt # Null /\ now' < issuedAt + ttl THEN issuedAt ELSE Null

\* Time passes.  What expires is forgotten: nothing tells it from none at all.
Tick ==
    /\ now < MaxTime
    /\ now' = now + 1
    /\ challenge' = [u \in User |-> Unexpired(challenge[u], ChallengeTtl)]
    /\ link' = [u \in User |-> Unexpired(link[u], LinkTtl)]
    /\ signIn' = [u \in User |->
            IF signIn[u] = Null \/ Unexpired(signIn[u].startedAt, StateTtl) = Null
            THEN Null
            ELSE [signIn[u] EXCEPT !.codeAt = Unexpired(@, CodeTtl)]]
    /\ UNCHANGED <<account, grants, claims, session, changes>>

SigningIn ==
    \/ \E u \in User :
            \/ LoginChallenge(u) \/ StartSignIn(u) \/ Authorize(u)
            \/ \E t \in Token : Login(t, u) \/ VerifyMfa(t, u) \/ Callback(t, u)
    \/ Restart
    \/ \E t \in Token : Logout(t)

Administration ==
    \/ \E u \in User : ForgotPassword(u) \/ SetPassword(u)
    \/ \E by \in Token, u \in User :
            \/ Invite(by, u) \/ DeactivateUser(by, u)
            \/ \E role \in Role :
                    \/ CreateUser(by, u, role)
                    \/ \E status \in AccountStatus :
                            UpdateUser(by, u, role, status)
    \/ \E by \in Token, role \in Role, p \in Permission :
            GrantPermission(by, role, p) \/ RevokePermission(by, role, p)

\* Not code: what lastHeld remembers of each step.
Remember ==
    lastHeld' = [h \in User \X Permission |->
                    IF Holds(h[1], h[2])' THEN now' ELSE lastHeld[h]]

SessionNext == (SigningIn \/ Administration \/ Tick) /\ Remember

SessionSpec == SessionInit /\ [][SessionNext]_sessionVars

-----------------------------------------------------------------------------
(***************************************************************************)
(* Access is stale, but not for ever: whatever permission anything that    *)
(* authenticate lets in carries now, its account was active and held it    *)
(* when it was issued and less than AccessTtl ago - whoever deactivated    *)
(* the account, moved it to another role or edited the role, and however   *)
(* the sign-in straddled that change (rbac.ts:33-77).  Links may outlast   *)
(* AccessTtl and their account: they carry none.                           *)
(***************************************************************************)
StaleAccessLapses ==
    \A b \in Bearers : \A p \in b.permissions :
        /\ lastHeld[<<b.user, p>>] >= b.issuedAt
        /\ now - lastHeld[<<b.user, p>>] < AccessTtl

(***************************************************************************)
(* "Given an admin deactivates a user, ... the user can no longer log in   *)
(* and their active sessions are terminated" (docs/user-stories.md:645):   *)
(* a token with a session is let in for an active account only.  Nothing   *)
(* deletes the sessions of such an account (users.ts:94-107), and          *)
(* authenticate does not look the account up.                              *)
(***************************************************************************)
DeactivationEndsAccess ==
    \A t \in Token : Authenticates(t) => IsActive(claims[t].user)

(***************************************************************************)
(* Sessions implements TokenLife: logging out and expiry are final         *)
(* (sessionStore.ts:1-14, "logout finally invalidates a token for real"),  *)
(* and no step changes whose token it is.                                  *)
(***************************************************************************)
Life == INSTANCE TokenLife WITH
    holder <- [t \in Token |-> IF claims[t] = Null THEN Null ELSE claims[t].user],
    standing <- [t \in Token |->
        CASE claims[t] = Null -> "unissued"
          [] claims[t] # Null /\ Authenticates(t) -> "live"
          [] OTHER -> "dead"]

RefusedForGood == Life!TokenSpec
=============================================================================

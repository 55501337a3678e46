---------------------------- MODULE SessionsProofs ----------------------------
(***************************************************************************)
(* Type correctness of Sessions, that stale access lapses, and that        *)
(* Sessions implements TokenLife, for any users, roles and tokens.         *)
(***************************************************************************)
EXTENDS Sessions, TLAPS

USE SessionAssumption, SessionNullAssumption

LEMMA AccountType ==
  ASSUME SessionTypeOK, NEW u \in User, account[u] # Null
  PROVE  account[u] \in Account
BY DEF SessionTypeOK

LEMMA IssueType ==
  ASSUME SessionTypeOK, NEW t \in Token, NEW u \in User, NEW role \in Role,
         IssueToken(t, u, role)
  PROVE  /\ claims' \in [Token -> Claims \cup {Null}]
         /\ session' \subseteq Token
BY DEF SessionTypeOK, IssueToken, Claims

LEMMA ProvisionedType ==
  ASSUME SessionTypeOK, NEW u \in User
  PROVE  Provisioned(u) \in Account
BY DEF SessionTypeOK, Provisioned, Account

LEMMA RememberType ==
  ASSUME SessionTypeOK, Remember, now' \in Time
  PROVE  lastHeld' \in [User \X Permission -> Time \cup {-1}]
BY DEF SessionTypeOK, Remember

\* Whatever an administrator does, time stands still.
LEMMA ChangesType ==
  ASSUME SessionTypeOK, NEW by \in Token, Changes(by)
  PROVE  changes' \in 0..MaxChanges
BY DEF SessionTypeOK, Changes

\* All variables but lastHeld, after each action.
RestTypeOK ==
    /\ account \in [User -> Account \cup {Null}]
    /\ grants \in [Role -> SUBSET Permission]
    /\ claims \in [Token -> Claims \cup {Null}]
    /\ session \subseteq Token
    /\ challenge \in [User -> Time \cup {Null}]
    /\ link \in [User -> Time \cup {Null}]
    /\ signIn \in [User -> SignIn \cup {Null}]
    /\ now \in Time
    /\ changes \in 0..MaxChanges

LEMMA SigningInType ==
  ASSUME SessionTypeOK, SigningIn
  PROVE  RestTypeOK'
<1>1. ASSUME NEW u \in User, LoginChallenge(u) PROVE RestTypeOK'
  BY <1>1 DEF SessionTypeOK, RestTypeOK, LoginChallenge
<1>2. ASSUME NEW u \in User, StartSignIn(u) PROVE RestTypeOK'
  BY <1>2 DEF SessionTypeOK, RestTypeOK, StartSignIn, SignIn
<1>3. ASSUME NEW u \in User, Authorize(u) PROVE RestTypeOK'
  BY <1>3 DEF SessionTypeOK, RestTypeOK, Authorize, SignIn
<1>4. ASSUME NEW u \in User, NEW t \in Token, Login(t, u) PROVE RestTypeOK'
  <2>1. account[u] \in Account
    BY <1>4, AccountType DEF Login, IsActive
  <2>2. claims' \in [Token -> Claims \cup {Null}] /\ session' \subseteq Token
    BY <1>4, <2>1, IssueType DEF Login, Account
  <2> QED BY <1>4, <2>2 DEF SessionTypeOK, RestTypeOK, Login
<1>5. ASSUME NEW u \in User, NEW t \in Token, VerifyMfa(t, u) PROVE RestTypeOK'
  <2>1. account[u] \in Account
    BY <1>5, AccountType DEF VerifyMfa, IsActive
  <2>2. claims' \in [Token -> Claims \cup {Null}] /\ session' \subseteq Token
    BY <1>5, <2>1, IssueType DEF VerifyMfa, Account
  <2> QED BY <1>5, <2>2 DEF SessionTypeOK, RestTypeOK, VerifyMfa
<1>6. ASSUME NEW u \in User, NEW t \in Token, Callback(t, u) PROVE RestTypeOK'
  <2>1. account' = [account EXCEPT ![u] = Provisioned(u)] /\ Provisioned(u) \in Account
    BY <1>6, ProvisionedType DEF Callback
  <2>2. account'[u] \in Account /\ account' \in [User -> Account \cup {Null}]
    BY <2>1 DEF SessionTypeOK
  <2>3. claims' \in [Token -> Claims \cup {Null}] /\ session' \subseteq Token
    BY <1>6, <2>2, IssueType DEF Callback, Account
  <2> QED BY <1>6, <2>2, <2>3 DEF SessionTypeOK, RestTypeOK, Callback
<1>7. CASE Restart
  <2>1. account' \in [User -> Account \cup {Null}]
    <3>1. ASSUME NEW u \in User, account[u] # Null
          PROVE  [account[u] EXCEPT !.password = TRUE] \in Account
      BY <3>1, AccountType DEF Account
    <3> QED BY <1>7, <3>1 DEF Restart, Backfilled
  <2>2. grants' \in [Role -> SUBSET Permission]
    BY <1>7 DEF SessionTypeOK, Restart, Reseeded
  <2>3. signIn' \in [User -> SignIn \cup {Null}]
    BY <1>7 DEF SessionTypeOK, Restart, SignIn
  <2> QED BY <1>7, <2>1, <2>2, <2>3 DEF SessionTypeOK, RestTypeOK, Restart
<1>8. ASSUME NEW t \in Token, Logout(t) PROVE RestTypeOK'
  BY <1>8 DEF SessionTypeOK, RestTypeOK, Logout
<1> QED
  BY <1>1, <1>2, <1>3, <1>4, <1>5, <1>6, <1>7, <1>8 DEF SigningIn

LEMMA AdministrationType ==
  ASSUME SessionTypeOK, Administration
  PROVE  RestTypeOK'
<1>1. ASSUME NEW u \in User, ForgotPassword(u) PROVE RestTypeOK'
  BY <1>1 DEF SessionTypeOK, RestTypeOK, ForgotPassword
<1>2. ASSUME NEW u \in User, SetPassword(u) PROVE RestTypeOK'
  <2>1. account[u] \in Account
    BY <1>2, AccountType DEF SetPassword, IsActive
  <2> QED BY <1>2, <2>1 DEF SessionTypeOK, RestTypeOK, SetPassword, Account
<1>3. ASSUME NEW by \in Token, NEW u \in User, Invite(by, u) PROVE RestTypeOK'
  BY <1>3 DEF SessionTypeOK, RestTypeOK, Invite
<1>4. ASSUME NEW by \in Token, NEW u \in User, DeactivateUser(by, u)
      PROVE  RestTypeOK'
  <2>1. account[u] \in Account /\ changes' \in 0..MaxChanges
    BY <1>4, AccountType, ChangesType DEF DeactivateUser
  <2> QED BY <1>4, <2>1 DEF SessionTypeOK, RestTypeOK, DeactivateUser, Account
<1>5. ASSUME NEW by \in Token, NEW u \in User, NEW role \in Role,
             CreateUser(by, u, role)
      PROVE  RestTypeOK'
  <2>1. changes' \in 0..MaxChanges
    BY <1>5, ChangesType DEF CreateUser
  <2> QED BY <1>5, <2>1 DEF SessionTypeOK, RestTypeOK, CreateUser, Account
<1>6. ASSUME NEW by \in Token, NEW u \in User, NEW role \in Role,
             NEW status \in AccountStatus,
             UpdateUser(by, u, role, status)
      PROVE  RestTypeOK'
  <2>1. account[u] \in Account /\ changes' \in 0..MaxChanges
    BY <1>6, AccountType, ChangesType DEF UpdateUser
  <2> QED BY <1>6, <2>1 DEF SessionTypeOK, RestTypeOK, UpdateUser, Account
<1>7. ASSUME NEW by \in Token, NEW role \in Role, NEW p \in Permission,
             GrantPermission(by, role, p)
      PROVE  RestTypeOK'
  <2>1. changes' \in 0..MaxChanges
    BY <1>7, ChangesType DEF GrantPermission
  <2> QED BY <1>7, <2>1 DEF SessionTypeOK, RestTypeOK, GrantPermission
<1>8. ASSUME NEW by \in Token, NEW role \in Role, NEW p \in Permission,
             RevokePermission(by, role, p)
      PROVE  RestTypeOK'
  <2>1. changes' \in 0..MaxChanges
    BY <1>8, ChangesType DEF RevokePermission
  <2> QED BY <1>8, <2>1 DEF SessionTypeOK, RestTypeOK, RevokePermission
<1> QED
  BY <1>1, <1>2, <1>3, <1>4, <1>5, <1>6, <1>7, <1>8 DEF Administration

LEMMA TickType ==
  ASSUME SessionTypeOK, Tick
  PROVE  RestTypeOK'
<1>1. now' \in Time
  BY DEF SessionTypeOK, Tick, Time
<1>2. /\ challenge' \in [User -> Time \cup {Null}]
      /\ link' \in [User -> Time \cup {Null}]
  BY DEF SessionTypeOK, Tick, Unexpired
<1>3. signIn' \in [User -> SignIn \cup {Null}]
  BY DEF SessionTypeOK, Tick, Unexpired, SignIn
<1> QED BY <1>1, <1>2, <1>3 DEF SessionTypeOK, RestTypeOK, Tick

\* Accounts, roles, tokens, links and sign-ins keep their types.
THEOREM TypeCorrect == SessionSpec => []SessionTypeOK
<1>1. SessionInit => SessionTypeOK
  BY DEF SessionInit, SessionTypeOK, Account, Time
<1>2. SessionTypeOK /\ [SessionNext]_sessionVars => SessionTypeOK'
  <2> SUFFICES ASSUME SessionTypeOK, [SessionNext]_sessionVars
               PROVE  SessionTypeOK'
    OBVIOUS
  <2>1. CASE SessionNext
    <3>1. RestTypeOK'
      BY <2>1, SigningInType, AdministrationType, TickType DEF SessionNext
    <3>2. lastHeld' \in [User \X Permission -> Time \cup {-1}]
      BY <2>1, <3>1, RememberType DEF SessionNext, RestTypeOK
    <3> QED BY <3>1, <3>2 DEF RestTypeOK, SessionTypeOK
  <2>2. CASE UNCHANGED sessionVars
    BY <2>2 DEF SessionTypeOK, sessionVars
  <2> QED BY <2>1, <2>2
<1> QED BY <1>1, <1>2, PTL DEF SessionSpec

-----------------------------------------------------------------------------
(***************************************************************************)
(* A step either issues one token, to an account that is active, or leaves *)
(* the claims alone, and then opens no session.                            *)
(***************************************************************************)
Issues(t, u) ==
    /\ IssueToken(t, u, account'[u].role)
    /\ IsActive(u)' /\ account'[u].role \in Role
    /\ UNCHANGED <<grants, now>>

Keeps ==
    /\ claims' = claims /\ session' \subseteq session
    /\ now' \in Time /\ now' >= now

LEMMA StepKinds ==
  ASSUME SessionTypeOK, SessionNext
  PROVE  Keeps \/ \E t \in Token, u \in User : Issues(t, u)
<1> USE DEF SessionTypeOK, Time
<1>1. ASSUME NEW u \in User, NEW t \in Token, Login(t, u) PROVE Issues(t, u)
  <2>1. account[u] \in Account
    BY <1>1, AccountType DEF Login, IsActive
  <2> QED BY <1>1, <2>1 DEF Login, Issues, IsActive, Account
<1>2. ASSUME NEW u \in User, NEW t \in Token, VerifyMfa(t, u) PROVE Issues(t, u)
  <2>1. account[u] \in Account
    BY <1>2, AccountType DEF VerifyMfa, IsActive
  <2> QED BY <1>2, <2>1 DEF VerifyMfa, Issues, IsActive, Account
<1>3. ASSUME NEW u \in User, NEW t \in Token, Callback(t, u) PROVE Issues(t, u)
  <2>1. account'[u] \in Account
    BY <1>3, ProvisionedType DEF Callback
  <2> QED BY <1>3, <2>1 DEF Callback, Issues, IsActive, Account
<1>4. ASSUME NEW u \in User,
             LoginChallenge(u) \/ StartSignIn(u) \/ Authorize(u)
      PROVE  Keeps
  BY <1>4 DEF LoginChallenge, StartSignIn, Authorize, Keeps
<1>5. Restart \/ (\E t \in Token : Logout(t)) => Keeps
  BY DEF Restart, Logout, Keeps
<1>6. Administration => UNCHANGED <<claims, session, now>>
  <2>1. ASSUME NEW u \in User, ForgotPassword(u) \/ SetPassword(u)
        PROVE  UNCHANGED <<claims, session, now>>
    BY <2>1 DEF ForgotPassword, SetPassword
  <2>2. ASSUME NEW by \in Token, NEW u \in User, Invite(by, u) \/ DeactivateUser(by, u)
        PROVE  UNCHANGED <<claims, session, now>>
    BY <2>2 DEF Invite, DeactivateUser
  <2>3. ASSUME NEW by \in Token, NEW u \in User, NEW role \in Role,
               NEW status \in AccountStatus,
               CreateUser(by, u, role) \/ UpdateUser(by, u, role, status)
        PROVE  UNCHANGED <<claims, session, now>>
    BY <2>3 DEF CreateUser, UpdateUser
  <2>4. ASSUME NEW by \in Token, NEW role \in Role, NEW p \in Permission,
               GrantPermission(by, role, p) \/ RevokePermission(by, role, p)
        PROVE  UNCHANGED <<claims, session, now>>
    BY <2>4 DEF GrantPermission, RevokePermission
  <2> QED BY <2>1, <2>2, <2>3, <2>4 DEF Administration
<1>7. Tick => Keeps
  BY DEF Tick, Keeps
<1>8. UNCHANGED <<claims, session, now>> => Keeps
  BY DEF Keeps
<1> QED
  BY <1>1, <1>2, <1>3, <1>4, <1>5, <1>6, <1>7, <1>8 DEF SessionNext, SigningIn

(***************************************************************************)
(* What is remembered of each permission is never ahead of the clock, nor  *)
(* behind the token that grants it.                                        *)
(***************************************************************************)
HeldInv ==
    /\ \A h \in User \X Permission : lastHeld[h] <= now
    /\ \A t \in Token : claims[t] # Null =>
            \A p \in claims[t].permissions :
                lastHeld[<<claims[t].user, p>>] >= claims[t].issuedAt

LEMMA HeldAfterIssue ==
  ASSUME SessionTypeOK, HeldInv, Remember,
         NEW t \in Token, NEW u \in User, Issues(t, u)
  PROVE  HeldInv'
<1>1. \A h \in User \X Permission :
            lastHeld'[h] = IF Holds(h[1], h[2])' THEN now ELSE lastHeld[h]
  BY DEF Remember, Issues
<1>2. \A h \in User \X Permission : lastHeld'[h] <= now' /\ lastHeld'[h] >= lastHeld[h]
  BY <1>1 DEF HeldInv, SessionTypeOK, Issues, Time
<1>3. grants[account'[u].role] \subseteq Permission
  BY DEF SessionTypeOK, Issues
<1>4. ASSUME NEW p \in grants[account'[u].role]
      PROVE  lastHeld'[<<u, p>>] = now
  <2>1. <<u, p>> \in User \X Permission
    BY <1>3, <1>4
  <2>2. Holds(u, p)'
    BY <1>4 DEF Holds, Issues
  <2> QED BY <1>1, <2>1, <2>2
<1>5. lastHeld' \in [User \X Permission -> Time \cup {-1}]
  BY RememberType DEF Issues, SessionTypeOK
<1>6. ASSUME NEW s \in Token, claims'[s] # Null, NEW p \in claims'[s].permissions
      PROVE  lastHeld'[<<claims'[s].user, p>>] >= claims'[s].issuedAt
  <2>1. CASE s = t
    <3>1. claims'[t] = [user |-> u, permissions |-> grants[account'[u].role],
                         issuedAt |-> now]
      BY DEF Issues, IssueToken, SessionTypeOK
    <3>2. lastHeld'[<<u, p>>] = now
      BY <1>4, <1>6, <2>1, <3>1
    <3> QED BY <2>1, <3>1, <3>2 DEF SessionTypeOK, Time
  <2>2. CASE s # t
    <3>1. claims'[s] = claims[s]
      BY <2>2 DEF Issues, IssueToken, SessionTypeOK
    <3>2. claims[s] \in Claims
      BY <1>6, <3>1 DEF SessionTypeOK
    <3>3. <<claims[s].user, p>> \in User \X Permission
      BY <1>6, <3>1, <3>2 DEF Claims
    <3>4. lastHeld[<<claims[s].user, p>>] >= claims[s].issuedAt
      BY <1>6, <3>1 DEF HeldInv
    <3>5. lastHeld'[<<claims[s].user, p>>] >= lastHeld[<<claims[s].user, p>>]
      BY <1>2, <3>3
    <3>6. lastHeld'[<<claims[s].user, p>>] \in Int /\ lastHeld[<<claims[s].user, p>>] \in Int
      BY <1>5, <3>3 DEF SessionTypeOK, Time
    <3> QED BY <3>1, <3>2, <3>4, <3>5, <3>6 DEF Claims, Time
  <2> QED BY <2>1, <2>2
<1> QED BY <1>2, <1>6 DEF HeldInv

LEMMA HeldWhileKept ==
  ASSUME SessionTypeOK, HeldInv, Remember, Keeps
  PROVE  HeldInv'
<1>1. \A h \in User \X Permission :
            lastHeld'[h] = IF Holds(h[1], h[2])' THEN now' ELSE lastHeld[h]
  BY DEF Remember
<1>2. \A h \in User \X Permission : lastHeld'[h] <= now' /\ lastHeld'[h] >= lastHeld[h]
  BY <1>1 DEF HeldInv, SessionTypeOK, Keeps, Time
<1>3. lastHeld' \in [User \X Permission -> Time \cup {-1}]
  BY RememberType DEF Keeps
<1>4. ASSUME NEW s \in Token, claims[s] # Null, NEW p \in claims[s].permissions
      PROVE  lastHeld'[<<claims[s].user, p>>] >= claims[s].issuedAt
  <2>1. claims[s] \in Claims
    BY <1>4 DEF SessionTypeOK
  <2>2. <<claims[s].user, p>> \in User \X Permission
    BY <1>4, <2>1 DEF Claims
  <2>3. lastHeld[<<claims[s].user, p>>] >= claims[s].issuedAt
    BY <1>4 DEF HeldInv
  <2>4. lastHeld'[<<claims[s].user, p>>] >= lastHeld[<<claims[s].user, p>>]
    BY <1>2, <2>2
  <2>5. lastHeld'[<<claims[s].user, p>>] \in Int /\ lastHeld[<<claims[s].user, p>>] \in Int
    BY <1>3, <2>2 DEF SessionTypeOK, Time
  <2> QED BY <2>1, <2>3, <2>4, <2>5 DEF Claims, Time
<1> QED BY <1>2, <1>4 DEF HeldInv, Keeps

(***************************************************************************)
(* Whatever permission any accepted bearer carries - access token,         *)
(* challenge, link or state - its account was active and held it less than *)
(* AccessTtl ago, for any users, roles, statuses and lifetimes.            *)
(***************************************************************************)
THEOREM StaleLapses == SessionSpec => []StaleAccessLapses
<1>1. SessionInit => HeldInv
  BY DEF SessionInit, HeldInv
<1>2. SessionTypeOK /\ HeldInv /\ [SessionNext]_sessionVars => HeldInv'
  <2> SUFFICES ASSUME SessionTypeOK, HeldInv, [SessionNext]_sessionVars
               PROVE  HeldInv'
    OBVIOUS
  <2>1. CASE SessionNext
    <3>1. Remember
      BY <2>1 DEF SessionNext
    <3> QED BY <2>1, <3>1, StepKinds, HeldAfterIssue, HeldWhileKept
  <2>2. CASE UNCHANGED sessionVars
    BY <2>2 DEF HeldInv, sessionVars
  <2> QED BY <2>1, <2>2
<1>3. SessionTypeOK /\ HeldInv => StaleAccessLapses
  <2> SUFFICES ASSUME SessionTypeOK, HeldInv, NEW b \in Bearers, NEW p \in b.permissions
               PROVE  /\ lastHeld[<<b.user, p>>] >= b.issuedAt
                      /\ now - lastHeld[<<b.user, p>>] < AccessTtl
    BY DEF StaleAccessLapses
  <2>1. PICK t \in Token :
            /\ Authenticates(t)
            /\ b.user = claims[t].user /\ b.permissions = claims[t].permissions
            /\ b.issuedAt = claims[t].issuedAt
    BY DEF Bearers
  <2>2. claims[t] \in Claims /\ now < claims[t].issuedAt + AccessTtl
    BY <2>1 DEF Authenticates, Verifies, SessionTypeOK
  <2>3. lastHeld[<<b.user, p>>] >= b.issuedAt
    BY <2>1 DEF HeldInv, Authenticates
  <2>4. lastHeld[<<b.user, p>>] \in Int
    BY <2>1, <2>2 DEF SessionTypeOK, Claims, Time
  <2> QED BY <2>1, <2>2, <2>3, <2>4 DEF SessionTypeOK, Claims, Time
<1> QED BY <1>1, <1>2, <1>3, TypeCorrect, PTL DEF SessionSpec

-----------------------------------------------------------------------------
\* A token that is refused while claims and sessions are kept stays refused.
LEMMA RefusedStays ==
  ASSUME SessionTypeOK, Keeps, NEW t \in Token, Authenticates(t)'
  PROVE  Authenticates(t)
<1>1. claims[t] # Null /\ claims[t] \in Claims
  BY DEF Keeps, Authenticates, SessionTypeOK
<1> QED BY <1>1 DEF Keeps, Authenticates, Verifies, SessionTypeOK, Claims, Time

(***************************************************************************)
(* Sessions implements TokenLife: an issuing step maps to Issue, any other *)
(* to the death of the tokens it ends, or to nothing.                      *)
(***************************************************************************)
THEOREM LifeImplemented == SessionSpec => RefusedForGood
<1> DEFINE holderOf == [t \in Token |-> IF claims[t] = Null THEN Null ELSE claims[t].user]
           standingOf == [t \in Token |->
                            CASE claims[t] = Null -> "unissued"
                              [] claims[t] # Null /\ Authenticates(t) -> "live"
                              [] OTHER -> "dead"]
<1>1. SessionInit => Life!TokenInit
  BY DEF SessionInit, Life!TokenInit
<1>2. SessionTypeOK /\ [SessionNext]_sessionVars => [Life!TokenNext]_(Life!tokenVars)
  <2> SUFFICES ASSUME SessionTypeOK, [SessionNext]_sessionVars
               PROVE  Life!TokenNext \/ UNCHANGED Life!tokenVars
    OBVIOUS
  <2>1. ASSUME NEW t \in Token, NEW u \in User, Issues(t, u)
        PROVE  Life!Issue(t, u)
    <3>1. /\ claims[t] = Null /\ claims'[t] # Null /\ claims'[t].user = u
          /\ \A s \in Token \ {t} : claims'[s] = claims[s]
      BY <2>1 DEF Issues, IssueToken, SessionTypeOK, Claims
    <3>2. Authenticates(t)'
      <4>1. AccessTtl \in Nat \ {0}
        OBVIOUS
      <4>2. now \in Int /\ now' = now /\ now < now + AccessTtl
        BY <2>1, <4>1 DEF Issues, SessionTypeOK, Time
      <4>3. t \in session' /\ claims'[t].issuedAt = now
        BY <2>1 DEF Issues, IssueToken, SessionTypeOK
      <4>4. now # Null
        BY <4>2
      <4> QED BY <3>1, <4>2, <4>3, <4>4 DEF Authenticates, Verifies
    <3>3. \A s \in Token \ {t} : Authenticates(s)' <=> Authenticates(s)
      BY <2>1, <3>1 DEF Issues, IssueToken, Authenticates, Verifies
    <3>4. holderOf' = [holderOf EXCEPT ![t] = u]
      <4>1. \A s \in Token : holderOf'[s] = IF s = t THEN u ELSE holderOf[s]
        BY <3>1
      <4> QED BY <4>1
    <3>5. standingOf' = [standingOf EXCEPT ![t] = "live"]
      BY <3>1, <3>2, <3>3
    <3> QED BY <3>1, <3>4, <3>5 DEF Life!Issue
  <2>2. ASSUME Keeps PROVE \E dying \in SUBSET Token : Life!Die(dying)
    <3> DEFINE dying == {t \in Token : Authenticates(t) /\ ~Authenticates(t)'}
    <3>1. \A t \in dying : standingOf[t] = "live"
      BY DEF Authenticates
    <3>2. standingOf' = [t \in Token |-> IF t \in dying THEN "dead" ELSE standingOf[t]]
      BY <2>2, RefusedStays DEF Keeps, Authenticates
    <3>3. holderOf' = holderOf
      BY <2>2 DEF Keeps
    <3> QED BY <3>1, <3>2, <3>3 DEF Life!Die
  <2>3. CASE SessionNext
    BY <2>1, <2>2, <2>3, StepKinds DEF Life!TokenNext
  <2>4. CASE UNCHANGED sessionVars
    BY <2>4 DEF sessionVars, Life!tokenVars, Authenticates, Verifies
  <2> QED BY <2>3, <2>4
<1> QED BY <1>1, <1>2, TypeCorrect, PTL DEF SessionSpec, RefusedForGood, Life!TokenSpec
=============================================================================

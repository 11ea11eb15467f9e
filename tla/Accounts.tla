------------------------------ MODULE Accounts ------------------------------
(***************************************************************************)
(* Accounts and sessions of the coordinator: the users table of the        *)
(* settings database, JWT sessions with their in-memory list of revoked    *)
(* ones, password changes, and OAuth2 logins with their two single-use     *)
(* tokens.  Requests run concurrently; every statement and every store     *)
(* operation is atomic, a handler is not: V4PatchMe and the OAuth2         *)
(* callback are taken apart at their statements.                           *)
(*                                                                         *)
(* The users table has no unique constraint on the name, so a name may     *)
(* have several rows, and a lookup returns any one of them.  Passwords are *)
(* the historical default or another one; cookies, CSRF tokens and LDAP's  *)
(* directory are left out.                                                 *)
(***************************************************************************)
EXTENDS Naturals, FiniteSets

CONSTANTS
    Names,          \* user names
    Admin,          \* coordinator.auth's bootstrap administrator
    MaxRows,        \* bound on the rows ever inserted
    MaxSessions,    \* bound on the sessions ever issued, and
    MaxLogins,      \* on how many of them were when a password login came
    Flows           \* OAuth2 logins

ASSUME AccountsAssumption ==
    /\ IsFiniteSet(Names) /\ Admin \in Names
    /\ {MaxRows, MaxSessions, MaxLogins} \subseteq Nat \ {0}
    /\ IsFiniteSet(Flows)

RowIds == 1..MaxRows
SessionIds == 1..MaxSessions
UserRows == [name : Names, hash : {"default", "own"}, admin : BOOLEAN, active : BOOLEAN]
JWTClaims == [name : Names, admin : BOOLEAN, mustChange : BOOLEAN]
OAuthSteps == {"none", "sent", "taken", "absent", "resolved", "done"}

VARIABLES
    users,          \* id -> row, for the rows in the table
    nextId,         \* users_id_seq
    claims,         \* session -> its claims, for the sessions issued
    expired,        \* sessions whose exp has passed
    revoked,        \* SessionStore
    patch,          \* the PATCH /me in flight: its step, session and row
    oauthState,     \* OAuthStateStore
    oneTime,        \* OneTimeTokenStore: flow -> the name and whether admin
    oauthPc, oauthName  \* of each flow: its step, the name the provider gave

(* Observers. *)
VARIABLES
    loggedOut,      \* sessions ended by their owner in this process
    servedDead,     \* some request was served for such a session
    strayed,        \* a session that must change its password did something else
    issuedFor,      \* flow -> sessions its one-time token was exchanged for
    twins           \* names an administrator created although they were there,
                    \* or that two overlapping OAuth2 logins provisioned

idle == [at |-> "idle"]
storeVars == <<revoked, oauthState, oneTime>>
oauthVars == <<oauthPc, oauthName>>
acVars == <<users, nextId, claims, expired, storeVars, patch, oauthVars,
            loggedOut, servedDead, strayed, issuedFor, twins>>

AcTypeOK ==
    /\ DOMAIN users \subseteq RowIds /\ \A i \in DOMAIN users : users[i] \in UserRows
    /\ nextId \in 1..(MaxRows + 1)
    /\ DOMAIN claims \subseteq SessionIds /\ \A s \in DOMAIN claims : claims[s] \in JWTClaims
    /\ {expired, revoked, loggedOut} \subseteq SUBSET SessionIds
    /\ patch = idle \/ patch \in [at : {"loaded", "updated"}, session : SessionIds,
                                 row : RowIds, password : BOOLEAN]
    /\ oauthState \subseteq Flows
    /\ DOMAIN oneTime \subseteq Flows
    /\ oauthPc \in [Flows -> OAuthSteps] /\ oauthName \in [Flows -> Names]
    /\ {servedDead, strayed} \subseteq BOOLEAN
    /\ issuedFor \in [Flows -> 0..2]
    /\ twins \subseteq Names

NoFunction == [x \in {} |-> x]

\* A database of an earlier release may hold the default password.
AcInitFrom(h, flow) ==
    /\ users = [i \in {1} |-> [name |-> Admin, hash |-> h, admin |-> TRUE, active |-> TRUE]]
    /\ nextId = 2
    /\ claims = NoFunction
    /\ expired = {}
    /\ revoked = {}
    /\ patch = idle
    /\ oauthState = {}
    /\ oneTime = NoFunction
    /\ oauthPc = [f \in Flows |-> flow]
    /\ oauthName = [f \in Flows |-> Admin]
    /\ loggedOut = {}
    /\ servedDead = FALSE
    /\ strayed = FALSE
    /\ issuedFor = [f \in Flows |-> 0]
    /\ twins = {}

AcInit == \E h \in {"default", "own"} : AcInitFrom(h, "none")

-----------------------------------------------------------------------------
(* The users table. *)

Extend(f, x, v) == [y \in DOMAIN f \cup {x} |-> IF y = x THEN v ELSE f[y]]
Without(f, x) == [y \in DOMAIN f \ {x} |-> f[y]]

GetUserByUsername(n) == {i \in DOMAIN users : users[i].name = n}

CreateUser(n, admin, active) ==
    /\ nextId <= MaxRows
    /\ users' = Extend(users, nextId, [name |-> n, hash |-> "own", admin |-> admin,
                                       active |-> active])
    /\ nextId' = nextId + 1

\* Mutant: any password may be set.
AcceptablePasswordAny(p) == TRUE
AcceptablePassword(p) == p # "default"

\* An UPDATE of a row that is gone changes nothing.
UpdateUser(i, set) ==
    /\ \A p \in {set[k] : k \in DOMAIN set \cap {"hash"}} : AcceptablePassword(p)
    /\ users' = IF i \in DOMAIN users
                THEN [users EXCEPT ![i] = [k \in DOMAIN @ |-> IF k \in DOMAIN set THEN set[k]
                                                              ELSE @[k]]]
                ELSE users
    /\ UNCHANGED nextId

-----------------------------------------------------------------------------
(* Sessions. *)

Issued == Cardinality(DOMAIN claims)

generateToken(n, admin, mustChange) ==
    /\ Issued < MaxSessions
    /\ claims' = Extend(claims, Issued + 1,
                        [name |-> n, admin |-> admin, mustChange |-> mustChange])

\* The signature and the expiry are good, and the session is not revoked.
Valid(s) == s \in DOMAIN claims /\ s \notin expired

\* Mutant: a session that was revoked is served.
NotRevokedUnasked(s) == TRUE
NotRevoked(s) == s \notin revoked

\* Mutant: only reading is refused before the password is changed.
BlockedReading(s, what) == claims[s].mustChange /\ what = "read"
passwordChangeRequiredBlocks(s, what) == claims[s].mustChange /\ what # "me"

JWTMiddlewareV4(s, what) ==
    /\ Valid(s)
    /\ NotRevoked(s)
    /\ ~passwordChangeRequiredBlocks(s, what)
    /\ servedDead' = (servedDead \/ s \in loggedOut)
    /\ strayed' = (strayed \/ (claims[s].mustChange /\ what # "me"))

AcUnchangedStores == UNCHANGED <<oauthState, oneTime, oauthVars, issuedFor>>

\* V4CreateSession and Login: the chosen backend, then the fallback.
Login(i) ==
    /\ Issued < MaxLogins
    /\ i \in DOMAIN users
    /\ users[i].active
    /\ generateToken(users[i].name, users[i].admin, users[i].hash = "default")
    /\ UNCHANGED <<users, nextId, expired, revoked, patch, loggedOut, servedDead, strayed,
                   twins>>
    /\ AcUnchangedStores

\* A directory user: the name need not have a row.
LoginLdap(n) ==
    /\ Issued < MaxLogins
    /\ generateToken(n, FALSE, FALSE)
    /\ UNCHANGED <<users, nextId, expired, revoked, patch, loggedOut, servedDead, strayed,
                   twins>>
    /\ AcUnchangedStores

Expire(s) ==
    /\ Valid(s)
    /\ expired' = expired \cup {s}
    /\ UNCHANGED <<users, nextId, claims, revoked, patch, loggedOut, servedDead, strayed,
                   twins>>
    /\ AcUnchangedStores

Revoke(s) == revoked' = revoked \cup {s}

\* V4DeleteSession, V4LogoutCurrentSession.
Logout(s) ==
    /\ JWTMiddlewareV4(s, "me")
    /\ Revoke(s)
    /\ loggedOut' = loggedOut \cup {s}
    /\ UNCHANGED <<users, nextId, claims, expired, patch, twins>>
    /\ AcUnchangedStores

Read(s) ==
    /\ JWTMiddlewareV4(s, "read")
    /\ UNCHANGED <<users, nextId, claims, expired, revoked, patch, loggedOut, twins>>
    /\ AcUnchangedStores

-----------------------------------------------------------------------------
(* PATCH /me: load, update, and with a new password revoke and reissue. *)

PatchMe(s, password) ==
    /\ patch = idle
    /\ JWTMiddlewareV4(s, "me")
    /\ claims[s].mustChange => password
    /\ \E i \in GetUserByUsername(claims[s].name) :
          patch' = [at |-> "loaded", session |-> s, row |-> i, password |-> password]
    /\ UNCHANGED <<users, nextId, claims, expired, revoked, loggedOut, twins>>
    /\ AcUnchangedStores

\* The row may have been deleted since it was loaded.
PatchMeUpdate ==
    /\ patch # idle
    /\ patch.at = "loaded"
    /\ \E p \in {"default", "own"} :
          UpdateUser(patch.row, IF patch.password THEN [hash |-> p] ELSE NoFunction)
    /\ patch' = IF patch.row \in DOMAIN users /\ patch.password
                THEN [patch EXCEPT !.at = "updated"] ELSE idle
    /\ UNCHANGED <<claims, expired, revoked, loggedOut, servedDead, strayed, twins>>
    /\ AcUnchangedStores

PatchMeReissue ==
    /\ patch # idle
    /\ patch.at = "updated"
    /\ Revoke(patch.session)
    /\ LET c == claims[patch.session] IN generateToken(c.name, c.admin, FALSE)
    /\ loggedOut' = loggedOut \cup {patch.session}
    /\ patch' = idle
    /\ UNCHANGED <<users, nextId, expired, servedDead, strayed, twins>>
    /\ AcUnchangedStores

-----------------------------------------------------------------------------
(* Administration: /users. *)

V4UsersCreate(s, n, admin) ==
    /\ JWTMiddlewareV4(s, "write")
    /\ claims[s].admin
    /\ CreateUser(n, admin, TRUE)
    /\ twins' = IF GetUserByUsername(n) = {} THEN twins ELSE twins \cup {n}
    /\ UNCHANGED <<claims, expired, revoked, patch, loggedOut>>
    /\ AcUnchangedStores

\* A user who is no administrator changes a row of his own, and neither its
\* group nor whether it is enabled.
V4UsersUpdate(s, i, set) ==
    /\ JWTMiddlewareV4(s, "write")
    /\ i \in DOMAIN users
    /\ \/ claims[s].admin
       \/ users[i].name = claims[s].name /\ DOMAIN set \subseteq {"hash"}
    /\ UpdateUser(i, set)
    /\ UNCHANGED <<claims, expired, revoked, patch, loggedOut, twins>>
    /\ AcUnchangedStores

V4UsersDelete(s, i) ==
    /\ JWTMiddlewareV4(s, "write")
    /\ claims[s].admin
    /\ i \in DOMAIN users
    /\ users' = Without(users, i)
    /\ UNCHANGED <<nextId, claims, expired, revoked, patch, loggedOut, twins>>
    /\ AcUnchangedStores

-----------------------------------------------------------------------------
(* OAuth2 logins. *)

OAuthUnchanged == UNCHANGED <<expired, revoked, patch, loggedOut, servedDead, strayed>>

V4OAuth2Redirect(f) ==
    /\ oauthPc[f] = "none"
    /\ oauthState' = oauthState \cup {f}
    /\ oauthPc' = [oauthPc EXCEPT ![f] = "sent"]
    /\ UNCHANGED <<users, nextId, claims, oneTime, oauthName, issuedFor, twins>>
    /\ OAuthUnchanged

OAuthGoes(f, step) == oauthPc' = [oauthPc EXCEPT ![f] = step]

\* The state is taken, then the provider is asked, whose answer names the user.
\* Any of it may fail.
V4OAuth2Callback(f) ==
    /\ f \in oauthState
    /\ oauthState' = oauthState \ {f}
    /\ \/ /\ OAuthGoes(f, "taken")
          /\ \E n \in Names : oauthName' = [oauthName EXCEPT ![f] = n]
       \/ OAuthGoes(f, "done") /\ UNCHANGED oauthName
    /\ UNCHANGED <<users, nextId, claims, oneTime, issuedFor, twins>>
    /\ OAuthUnchanged

\* What the callback ends with; the name is in the token.
PutOneTime(f, admin) ==
    /\ oneTime' = Extend(oneTime, f, [name |-> oauthName[f], admin |-> admin])
    /\ OAuthGoes(f, "resolved")
    /\ oauthName' = [oauthName EXCEPT ![f] = Admin]

\* resolveOrProvisionOAuthUser: a row that is found by name (or by e-mail, which is
\* not told apart), or none, which skip_auto_provision makes an error.  The
\* provider's groups may make an administrator of the user.
OAuthResolve(f) ==
    /\ oauthPc[f] = "taken"
    /\ \/ /\ GetUserByUsername(oauthName[f]) = {}
          /\ OAuthGoes(f, "absent") \/ OAuthGoes(f, "done")
          /\ UNCHANGED <<oneTime, oauthName>>
       \/ \E i \in GetUserByUsername(oauthName[f]) :
             IF users[i].active
             THEN \E staff \in BOOLEAN : PutOneTime(f, users[i].admin \/ staff)
             ELSE OAuthGoes(f, "done") /\ UNCHANGED <<oneTime, oauthName>>
    /\ UNCHANGED <<users, nextId, claims, oauthState, issuedFor, twins>>
    /\ OAuthUnchanged

\* Another login may have provisioned the name in the meantime; the row that is
\* read back is any of the name's.
OAuthProvision(f) ==
    /\ oauthPc[f] = "absent"
    /\ \E staff \in BOOLEAN :
          /\ CreateUser(oauthName[f], staff, TRUE)
          /\ \E i \in DOMAIN users' :
                users'[i].name = oauthName[f] /\ PutOneTime(f, users'[i].admin \/ staff)
    /\ twins' = IF GetUserByUsername(oauthName[f]) = {} THEN twins
                ELSE twins \cup {oauthName[f]}
    /\ UNCHANGED <<claims, oauthState, issuedFor>>
    /\ OAuthUnchanged

\* Mutant: the token stays in the store.
ConsumeKeeps(f) == f \in DOMAIN oneTime /\ UNCHANGED oneTime
Consume(f) == f \in DOMAIN oneTime /\ oneTime' = Without(oneTime, f)

V4OAuth2TokenExchange(f) ==
    /\ issuedFor[f] < 2
    /\ Consume(f)
    /\ generateToken(oneTime[f].name, oneTime[f].admin, FALSE)
    /\ issuedFor' = [issuedFor EXCEPT ![f] = @ + 1]
    /\ UNCHANGED <<users, nextId, oauthState, oauthVars, twins>>
    /\ OAuthUnchanged

-----------------------------------------------------------------------------
\* A restart keeps the database and the signing secret (ResolveCoordinatorJWTSecret)
\* and forgets the stores; the start sees to the administrator's row.
Restart ==
    /\ IF GetUserByUsername(Admin) = {}
       THEN CreateUser(Admin, TRUE, TRUE)
       ELSE UNCHANGED <<users, nextId>>
    /\ revoked' = {}
    /\ loggedOut' = {}
    /\ patch' = idle
    /\ oauthState' = {}
    /\ oneTime' = NoFunction
    /\ oauthPc' = [f \in Flows |-> IF oauthPc[f] = "none" THEN "none" ELSE "done"]
    /\ oauthName' = [f \in Flows |-> Admin]
    /\ UNCHANGED <<claims, expired, servedDead, strayed, issuedFor, twins>>

\* homer --reset-admin-password refuses the default's hash.
ResetOrInsertAdminPassword ==
    /\ IF GetUserByUsername(Admin) = {}
       THEN CreateUser(Admin, TRUE, TRUE)
       ELSE \E i \in GetUserByUsername(Admin) : UpdateUser(i, [hash |-> "own"])
    /\ UNCHANGED <<claims, expired, revoked, patch, loggedOut, servedDead, strayed, twins>>
    /\ AcUnchangedStores

Sets == {[hash |-> "own"], [hash |-> "default"], [active |-> FALSE]}

AcNext ==
    \/ \E i \in RowIds : Login(i)
    \/ \E n \in Names : LoginLdap(n)
    \/ \E s \in DOMAIN claims :
          \/ Expire(s) \/ Logout(s) \/ Read(s)
          \/ \E p \in BOOLEAN : PatchMe(s, p)
          \/ \E n \in Names, a \in BOOLEAN : V4UsersCreate(s, n, a)
          \/ \E i \in RowIds : V4UsersDelete(s, i) \/ \E set \in Sets : V4UsersUpdate(s, i, set)
    \/ PatchMeUpdate \/ PatchMeReissue
    \/ \E f \in Flows :
          \/ V4OAuth2Redirect(f) \/ V4OAuth2Callback(f) \/ OAuthResolve(f)
          \/ OAuthProvision(f) \/ V4OAuth2TokenExchange(f)
    \/ Restart \/ ResetOrInsertAdminPassword

-----------------------------------------------------------------------------
(* Properties. *)

\* A session that its owner ended, by logging out or by changing the password,
\* is not served again by this process (a restart forgets the revocations).
EndedSessionsStayEnded == ~servedDead

\* No operation writes the historical default password: only the row an earlier
\* release left behind can hold it.
DefaultPasswordNeverSet == \A i \in DOMAIN users : users[i].hash = "default" => i = 1

\* A session opened with the default password does nothing but change it.
MustChangeFirst == ~strayed

\* One OAuth2 login gives one session, however often its token is presented.
OneSessionPerLogin == \A f \in Flows : issuedFor[f] <= 1

\* A name has two rows only if an administrator created it twice or two OAuth2
\* logins of the same new user overlapped.
TwinsExplained ==
    \A i, j \in DOMAIN users :
        i # j /\ users[i].name = users[j].name => users[i].name \in twins

AccountsSafe ==
    /\ EndedSessionsStayEnded
    /\ DefaultPasswordNeverSet
    /\ MustChangeFirst
    /\ OneSessionPerLogin
    /\ TwinsExplained
=============================================================================

------------------------------ MODULE Accounts ------------------------------
(***************************************************************************)
(* Institutes, their users and the two login realms: the platform surface  *)
(* (platform-auth, tenants, support, analytics, audit) and the tenant      *)
(* surface's auth (tenant-auth, token.service, guards, strategies).        *)
(*                                                                         *)
(* A request is served in stretches between two awaits.  Any two requests  *)
(* interleave, and each may stop for good at any await.                    *)
(***************************************************************************)
EXTENDS Naturals, FiniteSets

CONSTANTS Tenants,     \* bounds the institutes ever created
          Users,       \* bounds the users ever created
          Subdomains, Emails,
          Flags,       \* names of feature flags
          FlagValues,  \* the values considered for them
          Staff,       \* platform users, of whom
          Owners,      \* these have superRole OWNER, the others SUPPORT
          Requests,
          SecretOf,    \* the secret that signs tokens of a realm and kind
          MaxRequests, \* bounds the requests of several stretches ever served
          MaxAborts,   \* bounds the requests that stop half way
          MaxUnlogged, \* bounds the audit writes that fail
          None

\* Nothing is assumed of the secrets: the environment names them and no code
\* compares them, so any two may be the same.
ASSUME AccountsAssumption ==
  /\ MaxRequests \in Nat /\ MaxAborts \in Nat /\ MaxUnlogged \in Nat
  /\ Owners \subseteq Staff
  /\ Staff \cap Users = {}
  /\ None \notin Staff \cup Users \cup Tenants \cup Subdomains \cup {"OWNER", "ADMIN", "SUSPENDED"}

VARIABLES tenants,     \* Tenant documents
          users,       \* User documents
          tokens,      \* JWTs handed out, none of which is assumed to expire
          requests,    \* requests being served
          log,         \* audit entries written
          entered,     \* history: users who proved who they are, by password or invite
          requestsLeft, abortsLeft, unloggedLeft
budgets == <<requestsLeft, abortsLeft, unloggedLeft>>
vars == <<tenants, users, tokens, requests, log, entered, budgets>>

NoTenant == [subdomain |-> None, status |-> None,
             flags |-> [flag \in Flags |-> "unset"]]
NoUser == [tenant |-> None, email |-> None, role |-> None, status |-> None,
           password |-> FALSE, invite |-> "none"]
Idle == [pc |-> "idle", actor |-> None, tenant |-> None, user |-> None,
         name |-> None, role |-> None, action |-> None, copy |-> NoTenant]

Init ==
  /\ tenants = [t \in Tenants |-> NoTenant]
  /\ users = [u \in Users |-> NoUser]
  /\ tokens = {}
  /\ requests = [r \in Requests |-> Idle]
  /\ log = {}
  /\ entered = {}
  /\ requestsLeft = MaxRequests
  /\ abortsLeft = MaxAborts
  /\ unloggedLeft = MaxUnlogged

-----------------------------------------------------------------------------
(* Tokens and guards *)

Token(realm, kind, sub, tenant, role, by) ==
  [realm |-> realm, kind |-> kind, secret |-> SecretOf[realm][kind],
   sub |-> sub, tenant |-> tenant, role |-> role, by |-> by]

issueTenantTokens(u, t, by) ==
  {Token("tenant", "access", u, t, users[u].role, by),
   Token("tenant", "refresh", u, t, None, None)}

SuperRole(s) == IF s \in Owners THEN "OWNER" ELSE "SUPPORT"

issuePlatformTokens(s) ==
  {Token("platform", "access", s, None, SuperRole(s), None),
   Token("platform", "refresh", s, None, None, None)}

\* The strategies check the secret, then the realm, ...
TenantStrategy(k) ==
  /\ k.secret = SecretOf["tenant"]["access"]
  /\ k.realm = "tenant" /\ k.tenant # None

\* Weakened: the secret is trusted.
PlatformStrategyBySecret(k) == k.secret = SecretOf["platform"]["access"]

PlatformStrategy(k) ==
  /\ k.secret = SecretOf["platform"]["access"]
  /\ k.realm = "platform"

\* ... the guards the route's roles, if it names any.
TenantGuard(k, roles) == TenantStrategy(k) /\ (roles # {} => k.role \in roles)
PlatformGuard(k, roles) == PlatformStrategy(k) /\ (roles # {} => k.role \in roles)

To(r, pc) == requests' = [requests EXCEPT ![r].pc = pc]
End(r) == requests' = [requests EXCEPT ![r] = Idle]
Begin(r, request) ==
  /\ requests[r].pc = "idle"
  /\ requestsLeft > 0
  /\ requestsLeft' = requestsLeft - 1
  /\ requests' = [requests EXCEPT ![r] = request]

\* What a request that reaches audit.record will write.
Entry(r) == [actor |-> requests[r].actor, action |-> requests[r].action,
             tenant |-> requests[r].tenant]

-----------------------------------------------------------------------------
(* Platform surface *)

PlatformLogin(s) ==
  /\ tokens' = tokens \cup issuePlatformTokens(s)
  /\ UNCHANGED <<tenants, users, requests, log, entered, budgets>>

\* The refresh token's signature is checked, not its realm.
PlatformRefresh(k) ==
  /\ k.secret = SecretOf["platform"]["refresh"]
  /\ k.sub \in Staff
  /\ tokens' = tokens \cup issuePlatformTokens(k.sub)
  /\ UNCHANGED <<tenants, users, requests, log, entered, budgets>>

TenantAt(sub) == { t \in Tenants : tenants[t].subdomain = sub }

\* provision: the subdomain is looked up, ...
StartProvision(r, k, sub) ==
  /\ PlatformGuard(k, {"OWNER"})
  /\ TenantAt(sub) = {}
  /\ Begin(r, [Idle EXCEPT !.pc = "createTenant", !.actor = k.sub, !.name = sub,
                           !.action = "tenant.provision"])
  /\ UNCHANGED <<tenants, users, tokens, log, entered, abortsLeft, unloggedLeft>>

\* The unique index on subdomain.
SubdomainTaken(sub) == TenantAt(sub) # {}

\* ... the institute is created, unless the index refuses it, ...
CreateTenant(r, t) ==
  /\ requests[r].pc = "createTenant"
  /\ IF SubdomainTaken(requests[r].name)
     THEN End(r) /\ UNCHANGED tenants
     ELSE /\ tenants[t] = NoTenant
          /\ tenants' = [tenants EXCEPT ![t] = [NoTenant EXCEPT
                                   !.subdomain = requests[r].name, !.status = "ACTIVE"]]
          /\ requests' = [requests EXCEPT ![r].pc = "createAdmin", ![r].tenant = t]
  /\ UNCHANGED <<users, tokens, log, entered, budgets>>

\* Weakened: the status is left to the schema's default.
FirstAdminDefault(r, email) ==
  [tenant |-> requests[r].tenant, email |-> email, role |-> "ADMIN",
   status |-> "INVITED", password |-> TRUE, invite |-> "none"]

FirstAdmin(r, email) ==
  [tenant |-> requests[r].tenant, email |-> email, role |-> "ADMIN",
   status |-> "ACTIVE", password |-> TRUE, invite |-> "none"]

\* ... its first admin under the bypass, then the audit entry (Record).
CreateAdmin(r, u, email) ==
  /\ requests[r].pc = "createAdmin"
  /\ users[u] = NoUser
  /\ users' = [users EXCEPT ![u] = FirstAdmin(r, email)]
  /\ To(r, "record")
  /\ UNCHANGED <<tenants, tokens, log, entered, budgets>>

\* setStatus: PENDING, too, is recorded as an activation.
SetStatus(r, k, t, status) ==
  /\ PlatformGuard(k, {"OWNER"})
  /\ tenants[t] # NoTenant
  /\ tenants' = [tenants EXCEPT ![t].status = status]
  /\ Begin(r, [Idle EXCEPT
       !.pc = "record", !.actor = k.sub, !.tenant = t,
       !.action = IF status = "SUSPENDED" THEN "tenant.suspend" ELSE "tenant.activate"])
  /\ UNCHANGED <<users, tokens, log, entered, abortsLeft, unloggedLeft>>

\* updateFlags: the institute is read and the flag merged into the copy; if that
\* changes nothing there is nothing to save, ...
StartFlags(r, k, t, flag, value) ==
  /\ PlatformGuard(k, {"OWNER"})
  /\ tenants[t] # NoTenant
  /\ LET copy == [tenants[t] EXCEPT !.flags[flag] = value]
     IN  Begin(r, [Idle EXCEPT
           !.pc = IF copy = tenants[t] THEN "record" ELSE "saveFlags",
           !.copy = IF copy = tenants[t] THEN NoTenant ELSE copy,
           !.actor = k.sub, !.tenant = t, !.action = "tenant.flags.update"])
  /\ UNCHANGED <<tenants, users, tokens, log, entered, abortsLeft, unloggedLeft>>

\* Weakened: the copy is saved, not what was changed of it.
FlagsSavedWhole(r) == requests[r].copy

\* save() writes the path that was assigned, the flags as a whole.
FlagsSaved(r) == [tenants[requests[r].tenant] EXCEPT !.flags = requests[r].copy.flags]

\* ... and saved, over whatever another request has merged meanwhile.
SaveFlags(r) ==
  /\ requests[r].pc = "saveFlags"
  /\ tenants' = [tenants EXCEPT ![requests[r].tenant] = FlagsSaved(r)]
  /\ requests' = [requests EXCEPT ![r].pc = "record", ![r].copy = NoTenant]
  /\ UNCHANGED <<users, tokens, log, entered, budgets>>

\* impersonate: the institute is active, ...
StartImpersonate(r, k, t) ==
  /\ PlatformGuard(k, {"OWNER", "SUPPORT"})
  /\ tenants[t] # NoTenant
  /\ tenants[t].status = "ACTIVE"
  /\ Begin(r, [Idle EXCEPT !.pc = "findAdmin", !.actor = k.sub, !.tenant = t,
                           !.action = "impersonate"])
  /\ UNCHANGED <<tenants, users, tokens, log, entered, abortsLeft, unloggedLeft>>

\* Weakened: the token is handed out before the audit.
FindAdminAnswersFirst(r) ==
  /\ requests[r].pc = "findAdmin"
  /\ \E u \in Users :
       /\ users[u].tenant = requests[r].tenant /\ users[u].role = "ADMIN"
       /\ requests' = [requests EXCEPT ![r].pc = "record", ![r].user = u]
       /\ tokens' = tokens \cup issueTenantTokens(u, requests[r].tenant, requests[r].actor)
  /\ UNCHANGED <<tenants, users, log, entered, budgets>>

\* ... one of its admins, of any status, is found under the bypass and a token
\* signed; it is handed out when the audit entry has been attempted (Record).
FindAdmin(r) ==
  /\ requests[r].pc = "findAdmin"
  /\ LET admins == { u \in Users : /\ users[u].tenant = requests[r].tenant
                                   /\ users[u].role = "ADMIN" }
     IN  IF admins = {}
         THEN End(r)
         ELSE \E u \in admins :
                requests' = [requests EXCEPT ![r].pc = "record", ![r].user = u]
  /\ UNCHANGED <<tenants, users, tokens, log, entered, budgets>>

\* Weakened: the impersonator gets the refresh token as well.
AnswerInFull(r) ==
  IF requests[r].action = "impersonate"
  THEN issueTenantTokens(requests[r].user, requests[r].tenant, requests[r].actor)
  ELSE {}

\* The response: an impersonation hands out its access token alone.
Answer(r) ==
  IF requests[r].action = "impersonate"
  THEN { k \in issueTenantTokens(requests[r].user, requests[r].tenant, requests[r].actor) :
         k.kind = "access" }
  ELSE {}

\* audit.record; a failed write is logged and swallowed.
Record(r) ==
  /\ requests[r].pc = "record"
  /\ log' = log \cup {Entry(r)}
  /\ tokens' = tokens \cup Answer(r)
  /\ End(r)
  /\ UNCHANGED <<tenants, users, entered, budgets>>

RecordFails(r) ==
  /\ requests[r].pc = "record"
  /\ unloggedLeft > 0
  /\ unloggedLeft' = unloggedLeft - 1
  /\ tokens' = tokens \cup Answer(r)
  /\ End(r)
  /\ UNCHANGED <<tenants, users, log, entered, requestsLeft, abortsLeft>>

\* analytics.overview: any superRole, a count under the bypass, no audit entry.
Overview(r, k) ==
  /\ PlatformGuard(k, {})
  /\ Begin(r, [Idle EXCEPT !.pc = "countUsers", !.actor = k.sub])
  /\ UNCHANGED <<tenants, users, tokens, log, entered, abortsLeft, unloggedLeft>>

CountUsers(r) ==
  /\ requests[r].pc = "countUsers"
  /\ End(r)
  /\ UNCHANGED <<tenants, users, tokens, log, entered, budgets>>

-----------------------------------------------------------------------------
(* Tenant surface *)

\* login: the institute is looked up and not suspended, ...
StartLogin(r, t) ==
  /\ tenants[t] # NoTenant
  /\ tenants[t].status # "SUSPENDED"
  /\ Begin(r, [Idle EXCEPT !.pc = "findUser", !.tenant = t])
  /\ UNCHANGED <<tenants, users, tokens, log, entered, abortsLeft, unloggedLeft>>

\* ... then the user with the right password, in the institute's context.
FindUser(r, u) ==
  /\ requests[r].pc = "findUser"
  /\ users[u].tenant = requests[r].tenant
  /\ users[u].password
  /\ users[u].status = "ACTIVE"
  /\ tokens' = tokens \cup issueTenantTokens(u, requests[r].tenant, None)
  /\ entered' = entered \cup {u}
  /\ End(r)
  /\ UNCHANGED <<tenants, users, log, budgets>>

\* No such user, or not active, or the wrong password.
LoginRefused(r) ==
  /\ requests[r].pc = "findUser"
  /\ End(r)
  /\ UNCHANGED <<tenants, users, tokens, log, entered, budgets>>

\* refresh asks for an active user, not for an active institute.
Refresh(k) ==
  /\ k.secret = SecretOf["tenant"]["refresh"]
  /\ k.sub \in Users                           \* a platform token has no tenantId:
  /\ users[k.sub].tenant = k.tenant            \* its lookup fails closed
  /\ users[k.sub].status = "ACTIVE"
  /\ tokens' = tokens \cup issueTenantTokens(k.sub, k.tenant, None)
  /\ UNCHANGED <<tenants, users, requests, log, entered, budgets>>

UserWith(t, email) == { u \in Users : users[u].tenant = t /\ users[u].email = email }

\* invite: an admin, no user with the email yet; ...
StartInvite(r, k, email, role) ==
  /\ TenantGuard(k, {"ADMIN"})
  /\ UserWith(k.tenant, email) = {}
  /\ Begin(r, [Idle EXCEPT !.pc = "createUser", !.actor = k.sub, !.tenant = k.tenant,
                           !.name = email, !.role = role])
  /\ UNCHANGED <<tenants, users, tokens, log, entered, abortsLeft, unloggedLeft>>

\* Weakened: no unique index on (tenantId, email).
EmailNeverTaken(t, email) == FALSE
\* The unique index on (tenantId, email).
EmailTaken(t, email) == UserWith(t, email) # {}

\* ... the user is created INVITED, unless the index refuses it.
CreateUser(r, u) ==
  /\ requests[r].pc = "createUser"
  /\ IF EmailTaken(requests[r].tenant, requests[r].name)
     THEN UNCHANGED users
     ELSE /\ users[u] = NoUser
          /\ users' = [users EXCEPT ![u] =
               [tenant |-> requests[r].tenant, email |-> requests[r].name,
                role |-> requests[r].role, status |-> "INVITED",
                password |-> FALSE, invite |-> "open"]]
  /\ End(r)
  /\ UNCHANGED <<tenants, tokens, log, entered, budgets>>

InviteExpires(u) ==
  /\ users[u].invite = "open"
  /\ users' = [users EXCEPT ![u].invite = "expired"]
  /\ UNCHANGED <<tenants, tokens, requests, log, entered, budgets>>

\* Weakened: the invite is looked up outside the institute's context.
InvitedAnywhere(t, u) == users[u].invite = "open"
\* The token's hash finds its user, among those of the institute named.
Invited(t, u) == users[u].tenant = t /\ users[u].invite = "open"

\* acceptInvite: whatever the institute's status, ...
StartAccept(r, t, u) ==
  /\ tenants[t] # NoTenant
  /\ Invited(t, u)
  /\ Begin(r, [Idle EXCEPT !.pc = "saveUser", !.tenant = t, !.user = u])
  /\ UNCHANGED <<tenants, users, tokens, log, entered, abortsLeft, unloggedLeft>>

\* Weakened: the invite's hash stays.
AcceptedKeepsInvite(user) == [user EXCEPT !.password = TRUE, !.status = "ACTIVE"]
Accepted(user) == [user EXCEPT !.password = TRUE, !.status = "ACTIVE", !.invite = "none"]

\* ... the password is hashed and saved; the invite is spent.
SaveUser(r) ==
  LET u == requests[r].user IN
  /\ requests[r].pc = "saveUser"
  /\ users' = [users EXCEPT ![u] = Accepted(@)]
  /\ tokens' = tokens \cup issueTenantTokens(u, requests[r].tenant, None)
  /\ entered' = entered \cup {u}
  /\ End(r)
  /\ UNCHANGED <<tenants, log, budgets>>

-----------------------------------------------------------------------------

\* The process dies or a database call throws.
Abort(r) ==
  /\ requests[r].pc # "idle"
  /\ abortsLeft > 0
  /\ abortsLeft' = abortsLeft - 1
  /\ End(r)
  /\ UNCHANGED <<tenants, users, tokens, log, entered, requestsLeft, unloggedLeft>>

Next ==
  \/ \E s \in Staff : PlatformLogin(s)
  \/ \E k \in tokens : PlatformRefresh(k) \/ Refresh(k)
  \/ \E u \in Users : InviteExpires(u)
  \/ \E r \in Requests :
       \/ \E k \in tokens :
            \/ \E sub \in Subdomains : StartProvision(r, k, sub)
            \/ \E t \in Tenants, status \in {"ACTIVE", "SUSPENDED", "PENDING"} :
                 SetStatus(r, k, t, status)
            \/ \E t \in Tenants, flag \in Flags, value \in FlagValues :
                 StartFlags(r, k, t, flag, value)
            \/ \E t \in Tenants : StartImpersonate(r, k, t)
            \/ Overview(r, k)
            \/ \E email \in Emails, role \in {"ADMIN", "STUDENT"} :
                 StartInvite(r, k, email, role)
       \/ \E t \in Tenants : CreateTenant(r, t) \/ StartLogin(r, t)
       \/ \E u \in Users, email \in Emails : CreateAdmin(r, u, email)
       \/ \E u \in Users : FindUser(r, u) \/ CreateUser(r, u)
       \/ \E t \in Tenants, u \in Users : StartAccept(r, t, u)
       \/ SaveFlags(r) \/ FindAdmin(r) \/ Record(r) \/ RecordFails(r) \/ CountUsers(r)
       \/ LoginRefused(r) \/ SaveUser(r) \/ Abort(r)

Spec == Init /\ [][Next]_vars

-----------------------------------------------------------------------------
(* Properties *)

TokenOK(k) ==
  /\ k.secret = SecretOf[k.realm][k.kind]
  /\ k.by \in Staff \cup {None}
  /\ IF k.realm = "platform" THEN k.sub \in Staff /\ k.tenant = None
                              ELSE k.sub \in Users /\ k.tenant \in Tenants

\* Types, and that a user is INVITED without a password or ACTIVE with one and
\* with no invite left to accept.
TypeOK ==
  /\ \A t \in Tenants : tenants[t] # NoTenant =>
       /\ tenants[t].subdomain \in Subdomains
       /\ tenants[t].status \in {"ACTIVE", "SUSPENDED", "PENDING"}
  /\ \A u \in Users : users[u] # NoUser =>
       /\ users[u].tenant \in Tenants /\ tenants[users[u].tenant] # NoTenant
       /\ users[u].email \in Emails /\ users[u].role \in {"ADMIN", "STUDENT"}
       /\ \/ users[u].status = "ACTIVE" /\ users[u].password /\ users[u].invite = "none"
          \/ users[u].status = "INVITED" /\ ~ users[u].password
             /\ users[u].invite \in {"open", "expired"}
  /\ \A k \in tokens : TokenOK(k)
  /\ \A r \in Requests : requests[r].pc \in
       {"idle", "createTenant", "createAdmin", "saveFlags", "record", "findAdmin", "countUsers",
        "findUser", "createUser", "saveUser"}
  /\ abortsLeft \in 0..MaxAborts

\* No two institutes share a subdomain and no two users of one an email, however
\* many requests found the name free at the same time.
NamesAreUnique ==
  /\ \A t1, t2 \in Tenants :
       tenants[t1] # NoTenant /\ tenants[t1].subdomain = tenants[t2].subdomain => t1 = t2
  /\ \A u1, u2 \in Users :
       /\ users[u1] # NoUser
       /\ users[u1].tenant = users[u2].tenant /\ users[u1].email = users[u2].email
       => u1 = u2

\* An institute's status is what was last asked for: saving the flags merged into
\* a copy read before a suspension does not lift it.
SuspensionHolds ==
  [][\A t \in Tenants :
       tenants[t] # NoTenant /\ tenants'[t].status # tenants[t].status =>
         \E r \in Requests :
           /\ requests[r].pc = "idle" /\ requests'[r].tenant = t
           /\ requests'[r].action = IF tenants'[t].status = "SUSPENDED"
                                    THEN "tenant.suspend" ELSE "tenant.activate"]_vars

Stops == MaxAborts - abortsLeft
At(pc) == { r \in Requests : requests[r].pc = pc }

HasAdmin(t) ==
  \E u \in Users : users[u].tenant = t /\ users[u].role = "ADMIN" /\ users[u].status = "ACTIVE"

Untended == { t \in Tenants : tenants[t] # NoTenant /\ ~ HasAdmin(t) }

\* Every institute has an admin who can log in, but for those whose
\* provisioning stopped between its two writes.
TenantsHaveAdmin == Cardinality(Untended) <= Stops + Cardinality(At("createAdmin"))

\* A token speaks for its user: same institute, same role, and, impersonation
\* aside, a user who has accepted the invite.
TokensAreGenuine ==
  \A k \in tokens : k.realm = "tenant" =>
    /\ k.tenant = users[k.sub].tenant
    /\ k.kind = "access" => k.role = users[k.sub].role
    /\ k.by = None => users[k.sub].status = "ACTIVE"

\* What whoever deploys the program has to see to: configuration.ts gives
\* defaults that differ, but the environment may set both to one value.
TenantSecretsDiffer == SecretOf["tenant"]["access"] # SecretOf["tenant"]["refresh"]

\* Where the tenant realm signs access and refresh tokens with different secrets,
\* an impersonation never turns into a session of its own: whoever holds a token
\* without the impersonator's name has it from the user's own password or invite,
\* through any number of refreshes.  With one secret for both, the access token
\* of an impersonation passes for a refresh token (verifyTenantRefresh).
NoStandingImpersonation ==
  TenantSecretsDiffer =>
    \A k \in tokens : k.realm = "tenant" /\ k.by = None => k.sub \in entered

\* Only platform staff is served on the platform surface, owners alone where the
\* route says so, and only admins of the institute invite into it, even with
\* secrets shared between the realms.
RealmsSeparate ==
  \A r \in Requests :
    /\ requests[r].pc \in {"findAdmin", "countUsers"} => requests[r].actor \in Staff
    /\ requests[r].pc \in {"createTenant", "createAdmin"} => requests[r].actor \in Owners
    /\ requests[r].pc = "record" =>
         requests[r].actor \in IF requests[r].action = "impersonate" THEN Staff ELSE Owners
    /\ requests[r].pc = "createUser" =>
         LET admin == users[requests[r].actor]
         IN  admin.role = "ADMIN" /\ admin.tenant = requests[r].tenant

Logged(action, t) == \E e \in log : e.action = action /\ e.tenant = t
Peopled(t) == \E u \in Users : users[u].tenant = t

SecretSuspensions ==
  { t \in Tenants : tenants[t].status = "SUSPENDED" /\ ~ Logged("tenant.suspend", t) }
SecretProvisions ==
  { t \in Tenants : Peopled(t) /\ ~ Logged("tenant.provision", t) }
\* Who impersonates in which institute.
SecretImpersonations ==
  { i \in Staff \X Tenants :
      /\ \E k \in tokens : k.by = i[1] /\ k.tenant = i[2]
      /\ [actor |-> i[1], action |-> "impersonate", tenant |-> i[2]] \notin log }

\* What the audit log must show: every suspension in force and every institute
\* that was given its admin, but for requests that stopped or have yet to write
\* and for writes that failed.  Every impersonation token in use, for which a
\* stop is no excuse: the entry is attempted before the token is handed out.
\* And the log shows no provisioning that did not come about.
AuditTrail ==
  LET failed == MaxUnlogged - unloggedLeft
  IN  /\ Cardinality(SecretSuspensions) <= Stops + failed + Cardinality(At("record"))
      /\ Cardinality(SecretProvisions) <= Stops + failed + Cardinality(At("record"))
      /\ Cardinality(SecretImpersonations) <= failed
      /\ \A t \in Tenants : Logged("tenant.provision", t) =>
           \E u \in Users : users[u].tenant = t /\ users[u].role = "ADMIN"
=============================================================================

---------------------------- MODULE AccountsProofs ----------------------------
(***************************************************************************)
(* The two login realms, for any number of institutes, users, staff and    *)
(* requests, whatever stops and whichever secrets the realms share: users  *)
(* and tokens belong together, and neither realm's tokens pass for the     *)
(* other's.  Then, for finitely many requests at a time, what is missing:  *)
(* admins and audit entries are accounted for by requests that stopped,    *)
(* have yet to write, or whose write failed.                               *)
(***************************************************************************)
EXTENDS Accounts, FiniteSetTheorems, TLAPS

Statuses == {"ACTIVE", "SUSPENDED", "PENDING"}
Roles == {"ADMIN", "STUDENT"}

TenantDocument == [subdomain : Subdomains, status : Statuses,
                   flags : [Flags -> FlagValues \cup {"unset"}]]

ActiveUser == [tenant : Tenants, email : Emails, role : Roles, status : {"ACTIVE"},
               password : {TRUE}, invite : {"none"}]
InvitedUser == [tenant : Tenants, email : Emails, role : Roles, status : {"INVITED"},
                password : {FALSE}, invite : {"open", "expired"}]
UserDocument == ActiveUser \cup InvitedUser

Request ==
  [pc : {"idle", "createTenant", "createAdmin", "saveFlags", "record", "findAdmin",
         "countUsers", "findUser", "createUser", "saveUser"},
   actor : Staff \cup Users \cup {None}, tenant : Tenants \cup {None},
   user : Users \cup {None}, name : Subdomains \cup Emails \cup {None},
   role : Roles \cup {None},
   action : {"tenant.provision", "tenant.suspend", "tenant.activate",
             "tenant.flags.update", "impersonate", None},
   copy : TenantDocument \cup {NoTenant}]

Exists(t) == t \in Tenants /\ tenants[t] # NoTenant

DocumentsOK ==
  /\ tenants \in [Tenants -> TenantDocument \cup {NoTenant}]
  /\ users \in [Users -> UserDocument \cup {NoUser}]
  /\ \A u \in Users : users[u] # NoUser => Exists(users[u].tenant)
  /\ requests \in [Requests -> Request]
  /\ abortsLeft \in 0..MaxAborts

\* What a token proves to whoever checks its secret and its realm.
TokenSafe(k) ==
  /\ k.realm \in {"tenant", "platform"} /\ k.kind \in {"access", "refresh"}
  /\ TokenOK(k)
  /\ k.realm = "platform" => (k.role = "OWNER" => k.sub \in Owners)
  /\ k.realm = "tenant" =>
       /\ k.tenant = users[k.sub].tenant
       /\ k.kind = "access" => k.role = users[k.sub].role
       /\ k.kind = "refresh" => k.by = None /\ k.role = None
       /\ k.by = None => users[k.sub].status = "ACTIVE"
       /\ TenantSecretsDiffer /\ k.by = None => k.sub \in entered

\* What a request in flight relies on.
RequestOK(r) ==
  LET q == requests[r] IN
  /\ q.pc \in {"findAdmin", "countUsers"} => q.actor \in Staff
  /\ q.pc \in {"createTenant", "createAdmin", "saveFlags"} =>
       q.actor \in Owners /\ q.action # "impersonate"
  /\ q.pc = "createTenant" => q.name \in Subdomains
  /\ q.pc \in {"createAdmin", "saveFlags", "findAdmin", "findUser"} => Exists(q.tenant)
  /\ q.pc = "saveFlags" => q.copy \in TenantDocument
  /\ q.pc = "findAdmin" => q.action = "impersonate"
  /\ q.pc = "record" =>
       IF q.action = "impersonate"
       THEN q.actor \in Staff /\ q.user \in Users /\ q.tenant \in Tenants
              /\ users[q.user].tenant = q.tenant
       ELSE q.actor \in Owners
  /\ q.pc = "createUser" =>
       /\ q.actor \in Users /\ Exists(q.tenant)
       /\ users[q.actor].role = "ADMIN" /\ users[q.actor].tenant = q.tenant
       /\ q.name \in Emails /\ q.role \in Roles
  /\ q.pc = "saveUser" =>
       q.user \in Users /\ q.tenant \in Tenants /\ users[q.user].tenant = q.tenant

\* A provisioning that has yet to create the admin has its institute to itself.
ProvisioningAlone ==
  \A r \in Requests : requests[r].pc = "createAdmin" =>
    /\ \A u \in Users : users[u].tenant # requests[r].tenant
    /\ \A q \in Requests \ {r} : requests[q].pc = "createAdmin" =>
         requests[q].tenant # requests[r].tenant

IInv ==
  /\ DocumentsOK
  /\ \A k \in tokens : TokenSafe(k)
  /\ \A r \in Requests : RequestOK(r)
  /\ ProvisioningAlone
  /\ NamesAreUnique

-----------------------------------------------------------------------------
(* Documents *)

LEMMA Absences ==
  /\ NoTenant \notin TenantDocument /\ NoUser \notin UserDocument
  /\ NoTenant.status = None /\ NoUser.tenant = None
  /\ \A x \in UserDocument : x.tenant \in Tenants
BY AccountsAssumption DEF NoTenant, NoUser, TenantDocument, UserDocument, ActiveUser, InvitedUser

\* The invariant implies what the runs check.
LEMMA InvariantImplies ==
  ASSUME IInv
  PROVE  TypeOK /\ TokensAreGenuine /\ NoStandingImpersonation /\ RealmsSeparate
<1>1. TypeOK
  <2>1. ASSUME NEW t \in Tenants, tenants[t] # NoTenant
        PROVE  tenants[t].subdomain \in Subdomains /\ tenants[t].status \in Statuses
    BY <2>1 DEF IInv, DocumentsOK, TenantDocument
  <2>2. ASSUME NEW u \in Users, users[u] # NoUser
        PROVE  /\ users[u].tenant \in Tenants /\ tenants[users[u].tenant] # NoTenant
               /\ users[u].email \in Emails /\ users[u].role \in Roles
               /\ \/ users[u].status = "ACTIVE" /\ users[u].password /\ users[u].invite = "none"
                  \/ users[u].status = "INVITED" /\ ~ users[u].password
                     /\ users[u].invite \in {"open", "expired"}
    <3>1. Exists(users[u].tenant) /\ users[u] \in UserDocument
      BY <2>2 DEF IInv, DocumentsOK
    <3> QED
      BY <3>1 DEF Exists, UserDocument, ActiveUser, InvitedUser
  <2>3. /\ \A k \in tokens : TokenOK(k)
        /\ abortsLeft \in 0..MaxAborts
    BY DEF IInv, DocumentsOK, TokenSafe
  <2>4. \A r \in Requests : requests[r].pc \in
          {"idle", "createTenant", "createAdmin", "saveFlags", "record", "findAdmin",
           "countUsers", "findUser", "createUser", "saveUser"}
    BY DEF IInv, DocumentsOK, Request
  <2> QED
    BY <2>1, <2>2, <2>3, <2>4 DEF TypeOK, Statuses, Roles
<1>2. TokensAreGenuine /\ NoStandingImpersonation
  BY DEF IInv, TokenSafe, TokensAreGenuine, NoStandingImpersonation
<1>3. RealmsSeparate
  <2> SUFFICES ASSUME NEW r \in Requests
      PROVE  /\ requests[r].pc \in {"findAdmin", "countUsers"} => requests[r].actor \in Staff
             /\ requests[r].pc \in {"createTenant", "createAdmin"} => requests[r].actor \in Owners
             /\ requests[r].pc = "record" =>
                  requests[r].actor \in IF requests[r].action = "impersonate"
                                        THEN Staff ELSE Owners
             /\ requests[r].pc = "createUser" =>
                  LET admin == users[requests[r].actor]
                  IN  admin.role = "ADMIN" /\ admin.tenant = requests[r].tenant
    BY DEF RealmsSeparate
  <2> QED
    BY DEF IInv, RequestOK
<1> QED
  BY <1>1, <1>2, <1>3

-----------------------------------------------------------------------------
(* What lasts through every step *)

\* Institutes and users stay, in their place and role.
Lasting ==
  /\ \A t \in Tenants : Exists(t) => Exists(t)'
  /\ \A u \in Users : users[u] # NoUser =>
       /\ users'[u].tenant = users[u].tenant /\ users'[u].role = users[u].role
       /\ users[u].status = "ACTIVE" => users'[u].status = "ACTIVE"
  /\ entered \subseteq entered'

LEMMA LastingTokens ==
  ASSUME IInv, Lasting, NEW k, TokenSafe(k)
  PROVE  TokenSafe(k)'
<1>1. CASE k.realm = "platform"
  BY <1>1 DEF TokenSafe, TokenOK
<1>2. CASE k.realm = "tenant"
  <2>1. /\ k.sub \in Users /\ k.tenant \in Tenants
        /\ k.tenant = users[k.sub].tenant
    BY <1>2 DEF TokenSafe, TokenOK
  <2>2. users[k.sub] # NoUser
    BY <2>1, Absences, AccountsAssumption
  <2> QED
    BY <1>2, <2>1, <2>2 DEF TokenSafe, TokenOK, Lasting
<1> QED
  BY <1>1, <1>2 DEF TokenSafe

LEMMA LastingRequests ==
  ASSUME IInv, Lasting, NEW r \in Requests, requests'[r] = requests[r]
  PROVE  RequestOK(r)'
<1>1. /\ \A t : Exists(t) => Exists(t)'
      /\ \A u \in Users : users[u].tenant \in Tenants =>
           users'[u].tenant = users[u].tenant /\ users'[u].role = users[u].role
  BY Absences, AccountsAssumption DEF Lasting, Exists
<1>2. RequestOK(r)
  BY DEF IInv
<1> QED
  BY <1>1, <1>2 DEF RequestOK, Exists

\* Tokens issued for a user of the institute named, who has proved who they are
\* or is impersonated.
LEMMA TenantTokens ==
  ASSUME NEW u \in Users, NEW t \in Tenants, NEW by \in Staff \cup {None},
         users'[u].tenant = t, users'[u].role = users[u].role,
         by = None => users'[u].status = "ACTIVE",
         TenantSecretsDiffer /\ by = None => u \in entered',
         NEW k \in issueTenantTokens(u, t, by), by = None \/ k.kind = "access"
  PROVE  TokenSafe(k)'
BY DEF issueTenantTokens, Token, TokenSafe, TokenOK

LEMMA PlatformTokens ==
  ASSUME NEW s \in Staff, NEW k \in issuePlatformTokens(s)
  PROVE  TokenSafe(k)'
BY AccountsAssumption DEF issuePlatformTokens, Token, SuperRole, TokenSafe, TokenOK

\* The guards.
LEMMA Guarded ==
  ASSUME IInv, NEW k \in tokens
  PROVE  /\ \A roles : PlatformGuard(k, roles) => k.sub \in Staff
         /\ PlatformGuard(k, {"OWNER"}) => k.sub \in Owners
         /\ TenantGuard(k, {"ADMIN"}) =>
              /\ k.sub \in Users /\ k.tenant \in Tenants
              /\ users[k.sub].tenant = k.tenant /\ users[k.sub].role = "ADMIN"
<1>1. TokenSafe(k)
  BY DEF IInv
<1> QED
  BY <1>1, AccountsAssumption DEF PlatformGuard, PlatformStrategy, TenantGuard, TenantStrategy,
     TokenSafe, TokenOK

\* The invariant after a step: new tokens are safe, and of the requests those
\* that changed are looked at.
LEMMA Preserved ==
  ASSUME IInv, Lasting, DocumentsOK', NamesAreUnique', ProvisioningAlone',
         \A k \in tokens' \ tokens : TokenSafe(k)',
         \A r \in Requests : requests'[r] = requests[r] \/ RequestOK(r)'
  PROVE  IInv'
BY LastingTokens, LastingRequests DEF IInv

\* A step that leaves institutes and users alone and starts no provisioning's
\* second write.
LEMMA PreservedQuietly ==
  ASSUME IInv, UNCHANGED <<tenants, users>>, entered \subseteq entered',
         abortsLeft' \in 0..MaxAborts, requests' \in [Requests -> Request],
         \A k \in tokens' \ tokens : TokenSafe(k)',
         \A r \in Requests : \/ requests'[r] = requests[r]
                             \/ RequestOK(r)' /\ requests'[r].pc # "createAdmin"
  PROVE  IInv'
<1>1. Lasting
  BY DEF Lasting, Exists
<1>2. DocumentsOK'
  BY DEF IInv, DocumentsOK, Exists
<1>3. NamesAreUnique'
  BY DEF IInv, NamesAreUnique
<1>4. ProvisioningAlone'
  BY DEF IInv, ProvisioningAlone
<1> QED
  BY <1>1, <1>2, <1>3, <1>4, Preserved

\* The same for the one request that a handler advances, to the record q.
LEMMA PreservedByRequest ==
  ASSUME IInv, UNCHANGED <<tenants, users, abortsLeft>>, entered \subseteq entered',
         \A k \in tokens' \ tokens : TokenSafe(k)',
         NEW r \in Requests, NEW q \in Request,
         requests' = [requests EXCEPT ![r] = q], q.pc # "createAdmin", RequestOK(r)'
  PROVE  IInv'
<1>1. /\ requests' \in [Requests -> Request]
      /\ requests'[r] = q
      /\ \A p \in Requests \ {r} : requests'[p] = requests[p]
  BY DEF IInv, DocumentsOK
<1>2. abortsLeft' \in 0..MaxAborts
  BY DEF IInv, DocumentsOK
<1> QED
  BY <1>1, <1>2, PreservedQuietly

LEMMA IdleOK ==
  /\ Idle \in Request /\ Idle.pc = "idle"
  /\ \A r \in Requests : requests'[r] = Idle => RequestOK(r)'
BY DEF Idle, Request, RequestOK

\* A request that ends, or is stopped.
LEMMA PreservedByEnd ==
  ASSUME IInv, UNCHANGED <<tenants, users, abortsLeft>>, entered \subseteq entered',
         \A k \in tokens' \ tokens : TokenSafe(k)', NEW r \in Requests, End(r)
  PROVE  IInv'
<1>1. requests' = [requests EXCEPT ![r] = Idle] /\ requests'[r] = Idle
  BY DEF End, IInv, DocumentsOK
<1> QED
  BY <1>1, IdleOK, PreservedByRequest

-----------------------------------------------------------------------------
(* The invariant, action by action *)

LEMMA InitInvariant == Init => IInv
<1> SUFFICES ASSUME Init PROVE IInv
  OBVIOUS
<1>1. DocumentsOK
  BY IdleOK, AccountsAssumption DEF Init, DocumentsOK
<1>2. \A r \in Requests : RequestOK(r) /\ requests[r].pc = "idle"
  BY IdleOK DEF Init, RequestOK, Idle
<1>3. NamesAreUnique
  BY DEF Init, NamesAreUnique
<1> QED
  BY <1>1, <1>2, <1>3 DEF IInv, ProvisioningAlone, Init

LEMMA TokenSteps ==
  ASSUME IInv, \/ \E s \in Staff : PlatformLogin(s)
               \/ \E k \in tokens : PlatformRefresh(k) \/ Refresh(k)
  PROVE  IInv'
<1>1. \A k \in tokens' \ tokens : TokenSafe(k)'
  <2>1. CASE \/ \E s \in Staff : PlatformLogin(s)
             \/ \E k \in tokens : PlatformRefresh(k)
    BY <2>1, PlatformTokens DEF PlatformLogin, PlatformRefresh
  <2>2. ASSUME NEW k \in tokens, Refresh(k)
        PROVE  \A l \in tokens' \ tokens : TokenSafe(l)'
    <3>1. TokenSafe(k) /\ k.sub \in Users
      BY <2>2 DEF IInv, Refresh
    <3>2. k.realm = "tenant" /\ k.tenant \in Tenants
          /\ users[k.sub].tenant = k.tenant /\ users[k.sub].status = "ACTIVE"
      BY <2>2, <3>1, AccountsAssumption DEF Refresh, TokenSafe, TokenOK
    <3>3. TenantSecretsDiffer => k.sub \in entered
      BY <2>2, <3>1, <3>2 DEF Refresh, TokenSafe, TokenOK, TenantSecretsDiffer
    <3>4. ASSUME NEW l \in issueTenantTokens(k.sub, k.tenant, None)
          PROVE  TokenSafe(l)'
      BY <2>2, <3>1, <3>2, <3>3, TenantTokens DEF Refresh
    <3> QED
      BY <2>2, <3>4 DEF Refresh
  <2> QED
    BY <2>1, <2>2
<1>2. UNCHANGED <<tenants, users, requests, entered, abortsLeft>>
  BY DEF PlatformLogin, PlatformRefresh, Refresh, budgets
<1>3. requests' \in [Requests -> Request] /\ abortsLeft' \in 0..MaxAborts
  BY <1>2 DEF IInv, DocumentsOK
<1> QED
  BY <1>1, <1>2, <1>3, PreservedQuietly

\* Requests on the platform surface that write nothing yet.
LEMMA PlatformStarts ==
  ASSUME IInv, NEW r \in Requests, NEW k \in tokens,
         \/ \E sub \in Subdomains : StartProvision(r, k, sub)
         \/ \E t \in Tenants : StartImpersonate(r, k, t)
         \/ Overview(r, k)
  PROVE  IInv'
<1>1. ASSUME NEW sub \in Subdomains, StartProvision(r, k, sub) PROVE IInv'
  <2> DEFINE q == [Idle EXCEPT !.pc = "createTenant", !.actor = k.sub, !.name = sub,
                               !.action = "tenant.provision"]
  <2>1. k.sub \in Owners
    BY <1>1, Guarded DEF StartProvision
  <2>2. /\ q \in Request /\ q.pc = "createTenant" /\ q.actor \in Owners
        /\ q.name \in Subdomains /\ q.action # "impersonate"
    BY <2>1, AccountsAssumption DEF Idle, Request
  <2>3. requests' = [requests EXCEPT ![r] = q] /\ UNCHANGED <<tenants, users, tokens, entered, abortsLeft>>
    BY <1>1 DEF StartProvision, Begin
  <2> HIDE DEF q
  <2>4. requests'[r] = q
    BY <2>3 DEF IInv, DocumentsOK
  <2>5. RequestOK(r)'
    BY <2>2, <2>4 DEF RequestOK
  <2> QED
    BY <2>2, <2>3, <2>5, PreservedByRequest
<1>2. ASSUME NEW t \in Tenants, StartImpersonate(r, k, t) PROVE IInv'
  <2> DEFINE q == [Idle EXCEPT !.pc = "findAdmin", !.actor = k.sub, !.tenant = t,
                               !.action = "impersonate"]
  <2>1. k.sub \in Staff /\ Exists(t)
    BY <1>2, Guarded DEF StartImpersonate, Exists
  <2>2. /\ q \in Request /\ q.pc = "findAdmin" /\ q.actor \in Staff
        /\ q.tenant = t /\ q.action = "impersonate"
    BY <2>1 DEF Idle, Request
  <2>3. requests' = [requests EXCEPT ![r] = q] /\ UNCHANGED <<tenants, users, tokens, entered, abortsLeft>>
    BY <1>2 DEF StartImpersonate, Begin
  <2> HIDE DEF q
  <2>4. requests'[r] = q
    BY <2>3 DEF IInv, DocumentsOK
  <2>5. RequestOK(r)'
    BY <2>1, <2>2, <2>3, <2>4 DEF RequestOK, Exists
  <2> QED
    BY <2>2, <2>3, <2>5, PreservedByRequest
<1>3. CASE Overview(r, k)
  <2> DEFINE q == [Idle EXCEPT !.pc = "countUsers", !.actor = k.sub]
  <2>1. k.sub \in Staff
    BY <1>3, Guarded DEF Overview
  <2>2. q \in Request /\ q.pc = "countUsers" /\ q.actor \in Staff
    BY <2>1 DEF Idle, Request
  <2>3. requests' = [requests EXCEPT ![r] = q] /\ UNCHANGED <<tenants, users, tokens, entered, abortsLeft>>
    BY <1>3 DEF Overview, Begin
  <2> HIDE DEF q
  <2>4. requests'[r] = q
    BY <2>3 DEF IInv, DocumentsOK
  <2>5. RequestOK(r)'
    BY <2>2, <2>4 DEF RequestOK
  <2> QED
    BY <2>2, <2>3, <2>5, PreservedByRequest
<1> QED
  BY <1>1, <1>2, <1>3

\* Requests on the tenant surface that write nothing yet.
LEMMA TenantStarts ==
  ASSUME IInv, NEW r \in Requests,
         \/ \E t \in Tenants : StartLogin(r, t)
         \/ \E k \in tokens, email \in Emails, role \in Roles : StartInvite(r, k, email, role)
         \/ \E t \in Tenants, u \in Users : StartAccept(r, t, u)
  PROVE  IInv'
<1>1. ASSUME NEW t \in Tenants, StartLogin(r, t) PROVE IInv'
  <2> DEFINE q == [Idle EXCEPT !.pc = "findUser", !.tenant = t]
  <2>1. q \in Request /\ q.pc = "findUser" /\ q.tenant = t
    BY DEF Idle, Request
  <2>2. /\ requests' = [requests EXCEPT ![r] = q] /\ Exists(t)
        /\ UNCHANGED <<tenants, users, tokens, entered, abortsLeft>>
    BY <1>1 DEF StartLogin, Begin, Exists
  <2> HIDE DEF q
  <2>3. requests'[r] = q
    BY <2>2 DEF IInv, DocumentsOK
  <2>4. RequestOK(r)'
    BY <2>1, <2>2, <2>3 DEF RequestOK, Exists
  <2> QED
    BY <2>1, <2>2, <2>4, PreservedByRequest
<1>2. ASSUME NEW k \in tokens, NEW email \in Emails, NEW role \in Roles,
             StartInvite(r, k, email, role)
      PROVE  IInv'
  <2> DEFINE q == [Idle EXCEPT !.pc = "createUser", !.actor = k.sub, !.tenant = k.tenant,
                               !.name = email, !.role = role]
  <2>1. /\ k.sub \in Users /\ k.tenant \in Tenants
        /\ users[k.sub].tenant = k.tenant /\ users[k.sub].role = "ADMIN"
    BY <1>2, Guarded DEF StartInvite
  <2>2. Exists(k.tenant)
    BY <2>1, Absences, AccountsAssumption DEF IInv, DocumentsOK
  <2>3. /\ q \in Request /\ q.pc = "createUser" /\ q.actor = k.sub /\ q.tenant = k.tenant
        /\ q.name \in Emails /\ q.role \in Roles
    BY <2>1 DEF Idle, Request
  <2>4. /\ requests' = [requests EXCEPT ![r] = q]
        /\ UNCHANGED <<tenants, users, tokens, entered, abortsLeft>>
    BY <1>2 DEF StartInvite, Begin
  <2> HIDE DEF q
  <2>5. requests'[r] = q
    BY <2>4 DEF IInv, DocumentsOK
  <2>6. RequestOK(r)'
    BY <2>1, <2>2, <2>3, <2>4, <2>5 DEF RequestOK, Exists
  <2> QED
    BY <2>3, <2>4, <2>6, PreservedByRequest
<1>3. ASSUME NEW t \in Tenants, NEW u \in Users, StartAccept(r, t, u) PROVE IInv'
  <2> DEFINE q == [Idle EXCEPT !.pc = "saveUser", !.tenant = t, !.user = u]
  <2>1. users[u].tenant = t
    BY <1>3 DEF StartAccept, Invited
  <2>2. q \in Request /\ q.pc = "saveUser" /\ q.tenant = t /\ q.user = u
    BY DEF Idle, Request
  <2>3. /\ requests' = [requests EXCEPT ![r] = q]
        /\ UNCHANGED <<tenants, users, tokens, entered, abortsLeft>>
    BY <1>3 DEF StartAccept, Begin
  <2> HIDE DEF q
  <2>4. requests'[r] = q
    BY <2>3 DEF IInv, DocumentsOK
  <2>5. RequestOK(r)'
    BY <2>1, <2>2, <2>3, <2>4 DEF RequestOK
  <2> QED
    BY <2>2, <2>3, <2>5, PreservedByRequest
<1> QED
  BY <1>1, <1>2, <1>3

\* Requests that end: refused, stopped, counted, logged in, recorded.
LEMMA Ends ==
  ASSUME IInv, NEW r \in Requests,
         \/ LoginRefused(r) \/ CountUsers(r) \/ Record(r) \/ RecordFails(r)
         \/ \E u \in Users : FindUser(r, u)
  PROVE  IInv'
<1>1. RequestOK(r)
  BY DEF IInv
<1>2. CASE LoginRefused(r) \/ CountUsers(r)
  BY <1>2, PreservedByEnd DEF LoginRefused, CountUsers, budgets
<1>3. CASE Record(r) \/ RecordFails(r)
  <2>1. /\ End(r) /\ tokens' = tokens \cup Answer(r) /\ requests[r].pc = "record"
        /\ UNCHANGED <<tenants, users, entered, abortsLeft>>
    BY <1>3 DEF Record, RecordFails, budgets
  <2>2. ASSUME NEW k \in Answer(r) PROVE TokenSafe(k)'
    <3> DEFINE q == requests[r]
    <3>1. /\ q.action = "impersonate" /\ k.kind = "access"
          /\ k \in issueTenantTokens(q.user, q.tenant, q.actor)
      BY <2>2 DEF Answer
    <3>2. /\ q.actor \in Staff /\ q.user \in Users /\ q.tenant \in Tenants
          /\ users[q.user].tenant = q.tenant
      BY <1>1, <2>1, <3>1 DEF RequestOK
    <3>3. q.actor # None
      BY <3>2, AccountsAssumption
    <3> HIDE DEF q
    <3> QED
      BY <2>1, <3>1, <3>2, <3>3, TenantTokens
  <2> QED
    BY <2>1, <2>2, PreservedByEnd
<1>4. ASSUME NEW u \in Users, FindUser(r, u) PROVE IInv'
  <2>1. /\ End(r) /\ UNCHANGED <<tenants, users, abortsLeft>>
        /\ tokens' = tokens \cup issueTenantTokens(u, requests[r].tenant, None)
        /\ entered' = entered \cup {u}
    BY <1>4 DEF FindUser, budgets
  <2>2. /\ requests[r].tenant \in Tenants /\ users[u].tenant = requests[r].tenant
        /\ users[u].status = "ACTIVE"
    BY <1>1, <1>4 DEF FindUser, RequestOK, Exists
  <2>3. ASSUME NEW k \in issueTenantTokens(u, requests[r].tenant, None)
        PROVE  TokenSafe(k)'
    BY <2>1, <2>2, TenantTokens
  <2> QED
    BY <2>1, <2>3, PreservedByEnd
<1> QED
  BY <1>2, <1>3, <1>4

LEMMA AbortStep ==
  ASSUME IInv, NEW r \in Requests, Abort(r)
  PROVE  IInv'
<1>1. UNCHANGED <<tenants, users, tokens, entered>> /\ requests' = [requests EXCEPT ![r] = Idle]
  BY DEF Abort, End
<1>2. abortsLeft' \in 0..MaxAborts
  BY AccountsAssumption DEF Abort, IInv, DocumentsOK
<1>3. /\ requests' \in [Requests -> Request]
      /\ requests'[r] = Idle
      /\ \A p \in Requests \ {r} : requests'[p] = requests[p]
  BY <1>1, IdleOK DEF IInv, DocumentsOK
<1>4. RequestOK(r)' /\ requests'[r].pc # "createAdmin"
  BY <1>3, IdleOK
<1> QED
  BY <1>1, <1>2, <1>3, <1>4, PreservedQuietly

\* The admin found is one of the institute's.
LEMMA FindAdminStep ==
  ASSUME IInv, NEW r \in Requests, FindAdmin(r)
  PROVE  IInv'
<1>1. UNCHANGED <<tenants, users, tokens, entered, abortsLeft>>
  BY DEF FindAdmin, budgets
<1>2. CASE End(r)
  BY <1>1, <1>2, PreservedByEnd
<1>3. ASSUME NEW u \in Users, users[u].tenant = requests[r].tenant,
             requests' = [requests EXCEPT ![r].pc = "record", ![r].user = u]
      PROVE  IInv'
  <2> DEFINE q == [requests[r] EXCEPT !.pc = "record", !.user = u]
  <2>1. /\ requests[r].action = "impersonate" /\ requests[r].actor \in Staff
        /\ requests[r].tenant \in Tenants /\ requests[r] \in Request
    BY DEF FindAdmin, IInv, RequestOK, Exists, DocumentsOK
  <2>2. /\ q \in Request /\ q.pc = "record" /\ q.action = "impersonate"
        /\ q.actor \in Staff /\ q.user = u /\ q.tenant = requests[r].tenant
    BY <2>1 DEF Request
  <2>3. requests' = [requests EXCEPT ![r] = q]
    BY <1>3 DEF IInv, DocumentsOK
  <2> HIDE DEF q
  <2>4. requests'[r] = q
    BY <2>3 DEF IInv, DocumentsOK
  <2>5. RequestOK(r)'
    BY <1>1, <1>3, <2>1, <2>2, <2>4 DEF RequestOK
  <2> QED
    BY <1>1, <2>2, <2>3, <2>5, PreservedByRequest
<1> QED
  BY <1>2, <1>3 DEF FindAdmin

\* A step that writes one institute.
LEMMA PreservedByTenant ==
  ASSUME IInv, UNCHANGED <<users, tokens, entered, abortsLeft>>,
         NEW t \in Tenants, NEW x \in TenantDocument, tenants' = [tenants EXCEPT ![t] = x],
         \A u \in Tenants \ {t} : tenants[u].subdomain # x.subdomain,
         NEW r \in Requests, NEW q \in Request,
         requests' = [requests EXCEPT ![r] = q], RequestOK(r)', ProvisioningAlone'
  PROVE  IInv'
<1>1. /\ tenants' \in [Tenants -> TenantDocument \cup {NoTenant}]
      /\ tenants'[t] = x /\ \A u \in Tenants \ {t} : tenants'[u] = tenants[u]
  BY DEF IInv, DocumentsOK
<1>2. Lasting
  BY <1>1, Absences DEF Lasting, Exists
<1>3. DocumentsOK'
  <2>1. requests' \in [Requests -> Request]
    BY DEF IInv, DocumentsOK
  <2>2. \A u \in Users : users'[u] # NoUser => Exists(users[u].tenant)'
    BY <1>2 DEF IInv, DocumentsOK, Lasting, Exists
  <2> QED
    BY <1>1, <2>1, <2>2 DEF IInv, DocumentsOK, Exists
<1>4. NamesAreUnique'
  <2>1. ASSUME NEW t1 \in Tenants, NEW t2 \in Tenants, tenants'[t1] # NoTenant,
               tenants'[t1].subdomain = tenants'[t2].subdomain
        PROVE  t1 = t2
    BY <1>1, <2>1 DEF IInv, NamesAreUnique
  <2> QED
    BY <2>1 DEF IInv, NamesAreUnique
<1>5. \A p \in Requests : requests'[p] = requests[p] \/ RequestOK(p)'
  BY DEF IInv, DocumentsOK
<1> QED
  BY <1>2, <1>3, <1>4, <1>5, Preserved

LEMMA FlagsStep ==
  ASSUME IInv, NEW r \in Requests,
         \/ \E k \in tokens, t \in Tenants, flag \in Flags, value \in FlagValues :
              StartFlags(r, k, t, flag, value)
         \/ SaveFlags(r)
  PROVE  IInv'
<1>1. ASSUME NEW k \in tokens, NEW t \in Tenants, NEW flag \in Flags, NEW value \in FlagValues,
             StartFlags(r, k, t, flag, value)
      PROVE  IInv'
  <2> DEFINE copy == [tenants[t] EXCEPT !.flags[flag] = value]
  <2> DEFINE q == [Idle EXCEPT !.pc = IF copy = tenants[t] THEN "record" ELSE "saveFlags",
                               !.copy = IF copy = tenants[t] THEN NoTenant ELSE copy,
                               !.actor = k.sub, !.tenant = t, !.action = "tenant.flags.update"]
  <2>1. k.sub \in Owners /\ Exists(t) /\ tenants[t] \in TenantDocument
    BY <1>1, Guarded DEF StartFlags, Exists, IInv, DocumentsOK
  <2>2. copy \in TenantDocument
    BY <2>1 DEF TenantDocument
  <2>3. /\ requests' = [requests EXCEPT ![r] = q]
        /\ UNCHANGED <<tenants, users, tokens, entered, abortsLeft>>
    BY <1>1 DEF StartFlags, Begin
  <2> HIDE DEF copy
  <2>4. /\ q \in Request /\ q.pc \in {"record", "saveFlags"} /\ q.actor \in Owners
        /\ q.tenant = t /\ q.action = "tenant.flags.update"
        /\ q.pc = "saveFlags" => q.copy \in TenantDocument
    BY <2>1, <2>2, AccountsAssumption DEF Idle, Request
  <2> HIDE DEF q
  <2>5. requests'[r] = q
    BY <2>3 DEF IInv, DocumentsOK
  <2>6. RequestOK(r)'
    BY <2>1, <2>3, <2>4, <2>5 DEF RequestOK, Exists
  <2> QED
    BY <2>3, <2>4, <2>6, PreservedByRequest
<1>2. CASE SaveFlags(r)
  <2> DEFINE t == requests[r].tenant
  <2> DEFINE x == [tenants[t] EXCEPT !.flags = requests[r].copy.flags]
  <2> DEFINE q == [requests[r] EXCEPT !.pc = "record", !.copy = NoTenant]
  <2>1. /\ Exists(t) /\ requests[r].copy \in TenantDocument /\ requests[r].actor \in Owners
        /\ requests[r].action # "impersonate" /\ requests[r] \in Request
    BY <1>2 DEF SaveFlags, IInv, RequestOK, DocumentsOK
  <2>2. tenants[t] \in TenantDocument
    BY <2>1 DEF Exists, IInv, DocumentsOK
  <2>3. x \in TenantDocument /\ x.subdomain = tenants[t].subdomain
    BY <2>1, <2>2 DEF TenantDocument
  <2>4. /\ q \in Request /\ q.pc = "record" /\ q.actor \in Owners
        /\ q.action # "impersonate"
    BY <2>1 DEF Request
  <2>5. requests' = [requests EXCEPT ![r] = q] /\ tenants' = [tenants EXCEPT ![t] = x]
        /\ UNCHANGED <<users, tokens, entered, abortsLeft>>
    BY <1>2 DEF SaveFlags, FlagsSaved, IInv, DocumentsOK, budgets
  <2>6. t \in Tenants /\ tenants[t] # NoTenant
    BY <2>1 DEF Exists
  <2> HIDE DEF q, x, t
  <2>7. requests'[r] = q /\ \A p \in Requests \ {r} : requests'[p] = requests[p]
    BY <2>5 DEF IInv, DocumentsOK
  <2>8. RequestOK(r)'
    BY <2>4, <2>7 DEF RequestOK
  <2>9. ProvisioningAlone'
    BY <2>4, <2>5, <2>7 DEF ProvisioningAlone, IInv
  <2>10. \A u \in Tenants \ {t} : tenants[u].subdomain # x.subdomain
    BY <2>3, <2>6 DEF IInv, NamesAreUnique
  <2> QED
    BY <2>3, <2>4, <2>5, <2>6, <2>8, <2>9, <2>10, PreservedByTenant
<1> QED
  BY <1>1, <1>2

LEMMA SetStatusStep ==
  ASSUME IInv, NEW r \in Requests, NEW k \in tokens, NEW t \in Tenants,
         NEW status \in Statuses, SetStatus(r, k, t, status)
  PROVE  IInv'
<1> DEFINE x == [tenants[t] EXCEPT !.status = status]
<1> DEFINE q == [Idle EXCEPT !.pc = "record", !.actor = k.sub, !.tenant = t,
       !.action = IF status = "SUSPENDED" THEN "tenant.suspend" ELSE "tenant.activate"]
<1>1. k.sub \in Owners /\ tenants[t] # NoTenant /\ tenants[t] \in TenantDocument
  BY Guarded DEF SetStatus, IInv, DocumentsOK
<1>2. x \in TenantDocument /\ x.subdomain = tenants[t].subdomain
  BY <1>1 DEF TenantDocument
<1>3. /\ q \in Request /\ q.pc = "record" /\ q.actor \in Owners
      /\ q.action # "impersonate"
  BY <1>1, AccountsAssumption DEF Idle, Request
<1>4. /\ requests' = [requests EXCEPT ![r] = q] /\ tenants' = [tenants EXCEPT ![t] = x]
      /\ UNCHANGED <<users, tokens, entered, abortsLeft>>
  BY DEF SetStatus, Begin, IInv, DocumentsOK
<1> HIDE DEF q, x
<1>5. requests'[r] = q /\ \A p \in Requests \ {r} : requests'[p] = requests[p]
  BY <1>4 DEF IInv, DocumentsOK
<1>6. RequestOK(r)'
  BY <1>3, <1>5 DEF RequestOK
<1>7. ProvisioningAlone'
  BY <1>3, <1>4, <1>5 DEF ProvisioningAlone, IInv
<1>8. \A u \in Tenants \ {t} : tenants[u].subdomain # x.subdomain
  BY <1>1, <1>2 DEF IInv, NamesAreUnique
<1> QED
  BY <1>2, <1>3, <1>4, <1>6, <1>7, <1>8, PreservedByTenant

\* A new institute has no users and no other provisioning.
LEMMA CreateTenantStep ==
  ASSUME IInv, NEW r \in Requests, NEW t \in Tenants, CreateTenant(r, t)
  PROVE  IInv'
<1>1. UNCHANGED <<users, tokens, entered, abortsLeft>>
  BY DEF CreateTenant, budgets
<1>2. CASE SubdomainTaken(requests[r].name)
  BY <1>1, <1>2, PreservedByEnd DEF CreateTenant
<1>3. CASE ~ SubdomainTaken(requests[r].name)
  <2> DEFINE x == [NoTenant EXCEPT !.subdomain = requests[r].name, !.status = "ACTIVE"]
  <2> DEFINE q == [requests[r] EXCEPT !.pc = "createAdmin", !.tenant = t]
  <2>1. /\ requests[r].name \in Subdomains /\ requests[r].actor \in Owners
        /\ requests[r].action # "impersonate" /\ requests[r] \in Request
    BY DEF CreateTenant, IInv, RequestOK, DocumentsOK
  <2>2. x \in TenantDocument /\ x.subdomain = requests[r].name
    BY <2>1 DEF TenantDocument, NoTenant, Statuses
  <2>3. /\ q \in Request /\ q.pc = "createAdmin" /\ q.actor \in Owners /\ q.tenant = t
        /\ q.action # "impersonate"
    BY <2>1 DEF Request
  <2>4. /\ requests' = [requests EXCEPT ![r] = q] /\ tenants' = [tenants EXCEPT ![t] = x]
        /\ tenants[t] = NoTenant
    BY <1>3 DEF CreateTenant, IInv, DocumentsOK
  <2>5. \A u \in Tenants : tenants[u].subdomain # x.subdomain
    BY <1>3, <2>2 DEF SubdomainTaken, TenantAt
  <2> HIDE DEF q, x
  <2>6. requests'[r] = q /\ \A p \in Requests \ {r} : requests'[p] = requests[p]
    BY <2>4 DEF IInv, DocumentsOK
  <2>7. tenants'[t] # NoTenant
    BY <2>2, <2>4, Absences DEF IInv, DocumentsOK
  <2>8. RequestOK(r)'
    BY <2>3, <2>6, <2>7 DEF RequestOK, Exists
  <2>9. ProvisioningAlone'
    <3>1. \A u \in Users : users[u].tenant # t
      BY <2>4, Absences, AccountsAssumption DEF IInv, DocumentsOK, Exists
    <3>2. \A p \in Requests : requests[p].pc = "createAdmin" => requests[p].tenant # t
      BY <2>4 DEF IInv, RequestOK, Exists
    <3> QED
      BY <1>1, <2>3, <2>6, <3>1, <3>2 DEF ProvisioningAlone, IInv
  <2> QED
    BY <1>1, <2>2, <2>3, <2>4, <2>5, <2>8, <2>9, PreservedByTenant
<1> QED
  BY <1>2, <1>3

\* A step that writes one user: a new one whose email the institute does not
\* have yet, or one that keeps its place and role.
LEMMA PreservedByUser ==
  ASSUME IInv, UNCHANGED <<tenants, abortsLeft>>, entered \subseteq entered',
         NEW u \in Users, NEW x \in UserDocument, users' = [users EXCEPT ![u] = x],
         Exists(x.tenant),
         \/ users[u] = NoUser /\ UserWith(x.tenant, x.email) = {}
         \/ /\ users[u].tenant = x.tenant /\ users[u].email = x.email
            /\ users[u].role = x.role /\ (users[u].status = "ACTIVE" => x.status = "ACTIVE"),
         \A k \in tokens' \ tokens : TokenSafe(k)',
         requests' \in [Requests -> Request],
         \A r \in Requests : requests'[r] = requests[r] \/ RequestOK(r)',
         ProvisioningAlone'
  PROVE  IInv'
<1>1. /\ users' \in [Users -> UserDocument \cup {NoUser}]
      /\ users'[u] = x /\ \A v \in Users \ {u} : users'[v] = users[v]
  BY DEF IInv, DocumentsOK
<1>2. x.tenant \in Tenants
  BY DEF Exists
<1>3. Lasting
  BY <1>1 DEF Lasting, Exists
<1>4. DocumentsOK'
  BY <1>1 DEF IInv, DocumentsOK, Exists
<1>5. NamesAreUnique'
  <2>1. \A v \in Users \ {u} : users[v].tenant # x.tenant \/ users[v].email # x.email
    <3>1. CASE UserWith(x.tenant, x.email) = {}
      BY <3>1 DEF UserWith
    <3>2. CASE users[u].tenant = x.tenant /\ users[u].email = x.email
      <4>1. users[u] # NoUser
        BY <1>2, <3>2, Absences, AccountsAssumption
      <4> QED
        BY <3>2, <4>1 DEF IInv, NamesAreUnique
    <3> QED
      BY <3>1, <3>2
  <2>2. ASSUME NEW u1 \in Users, NEW u2 \in Users, users'[u1] # NoUser,
               users'[u1].tenant = users'[u2].tenant, users'[u1].email = users'[u2].email
        PROVE  u1 = u2
    BY <1>1, <2>1, <2>2 DEF IInv, NamesAreUnique
  <2> QED
    BY <2>2 DEF IInv, NamesAreUnique
<1> QED
  BY <1>3, <1>4, <1>5, Preserved

\* The institute's first user.
LEMMA CreateAdminStep ==
  ASSUME IInv, NEW r \in Requests, NEW u \in Users, NEW email \in Emails,
         CreateAdmin(r, u, email)
  PROVE  IInv'
<1> DEFINE x == FirstAdmin(r, email)
<1> DEFINE q == [requests[r] EXCEPT !.pc = "record"]
<1>1. /\ Exists(requests[r].tenant) /\ requests[r].actor \in Owners
      /\ requests[r].action # "impersonate" /\ requests[r] \in Request
  BY DEF CreateAdmin, IInv, RequestOK, DocumentsOK
<1>2. x \in UserDocument /\ x.tenant = requests[r].tenant /\ x.email = email
  BY <1>1 DEF FirstAdmin, UserDocument, ActiveUser, Roles, Exists
<1>3. q \in Request /\ q.pc = "record" /\ q.actor \in Owners /\ q.action # "impersonate"
  BY <1>1 DEF Request
<1>4. /\ requests' = [requests EXCEPT ![r] = q] /\ users' = [users EXCEPT ![u] = x]
      /\ users[u] = NoUser /\ UNCHANGED <<tenants, tokens, entered, abortsLeft>>
  BY DEF CreateAdmin, To, IInv, DocumentsOK, budgets
<1>5. \A v \in Users : users[v].tenant # requests[r].tenant
  BY DEF CreateAdmin, IInv, ProvisioningAlone
<1> HIDE DEF q, x
<1>6. /\ requests' \in [Requests -> Request]
      /\ requests'[r] = q /\ \A p \in Requests \ {r} : requests'[p] = requests[p]
  BY <1>3, <1>4 DEF IInv, DocumentsOK
<1>7. RequestOK(r)'
  BY <1>3, <1>6 DEF RequestOK
<1>8. UserWith(x.tenant, x.email) = {}
  BY <1>2, <1>5 DEF UserWith
<1>9. ProvisioningAlone'
  <2> SUFFICES ASSUME NEW p \in Requests, requests'[p].pc = "createAdmin"
               PROVE  /\ \A v \in Users : users'[v].tenant # requests'[p].tenant
                      /\ \A o \in Requests \ {p} : requests'[o].pc = "createAdmin" =>
                           requests'[o].tenant # requests'[p].tenant
    BY DEF ProvisioningAlone
  <2>1. p # r /\ requests'[p] = requests[p]
    BY <1>3, <1>6
  <2>2. requests[p].tenant # requests[r].tenant
    BY <2>1 DEF CreateAdmin, IInv, ProvisioningAlone
  <2>3. \A v \in Users : users'[v].tenant # requests[p].tenant
    BY <1>2, <1>4, <2>1, <2>2 DEF IInv, ProvisioningAlone, DocumentsOK
  <2> QED
    BY <1>3, <1>6, <2>1, <2>3 DEF IInv, ProvisioningAlone
<1> QED
  BY <1>1, <1>2, <1>4, <1>6, <1>7, <1>8, <1>9, PreservedByUser

\* Who ends a request starts no provisioning.
LEMMA EndFacts ==
  ASSUME IInv, NEW r \in Requests, End(r)
  PROVE  /\ requests' \in [Requests -> Request]
         /\ requests'[r] = Idle /\ RequestOK(r)'
         /\ \A p \in Requests \ {r} : requests'[p] = requests[p]
BY IdleOK DEF End, IInv, DocumentsOK

\* Users come into institutes that have one, or stay where they are.
LEMMA AloneKept ==
  ASSUME IInv, NEW u \in Users, NEW v \in Users, users[v].tenant \in Tenants,
         NEW x \in UserDocument, users' = [users EXCEPT ![u] = x],
         x.tenant = users[v].tenant,
         \A p \in Requests : requests'[p] = requests[p] \/ requests'[p].pc # "createAdmin"
  PROVE  ProvisioningAlone'
BY DEF IInv, ProvisioningAlone, DocumentsOK

LEMMA CreateUserStep ==
  ASSUME IInv, NEW r \in Requests, NEW u \in Users, CreateUser(r, u)
  PROVE  IInv'
<1>1. End(r) /\ UNCHANGED <<tenants, tokens, entered, abortsLeft>>
  BY DEF CreateUser, budgets
<1>2. CASE EmailTaken(requests[r].tenant, requests[r].name)
  BY <1>1, <1>2, PreservedByEnd DEF CreateUser
<1>3. CASE ~ EmailTaken(requests[r].tenant, requests[r].name)
  <2> DEFINE x == [tenant |-> requests[r].tenant, email |-> requests[r].name,
                   role |-> requests[r].role, status |-> "INVITED",
                   password |-> FALSE, invite |-> "open"]
  <2>1. /\ requests[r].actor \in Users /\ Exists(requests[r].tenant)
        /\ users[requests[r].actor].tenant = requests[r].tenant
        /\ requests[r].name \in Emails /\ requests[r].role \in Roles
    BY DEF CreateUser, IInv, RequestOK
  <2>2. /\ x \in UserDocument /\ x.tenant = requests[r].tenant /\ x.email = requests[r].name
    BY <2>1 DEF UserDocument, InvitedUser, Exists
  <2>3. users' = [users EXCEPT ![u] = x] /\ users[u] = NoUser
    BY <1>3 DEF CreateUser
  <2> HIDE DEF x
  <2>4. UserWith(x.tenant, x.email) = {}
    BY <1>3, <2>2 DEF EmailTaken
  <2>5. ProvisioningAlone'
    <3>1. PICK v \in Users : users[v].tenant \in Tenants /\ x.tenant = users[v].tenant
      BY <2>1, <2>2 DEF Exists
    <3>2. \A p \in Requests : requests'[p] = requests[p] \/ requests'[p].pc # "createAdmin"
      BY <1>1, EndFacts, IdleOK
    <3> QED
      BY <2>2, <2>3, <3>1, <3>2, AloneKept
  <2> QED
    BY <1>1, <2>1, <2>2, <2>3, <2>4, <2>5, EndFacts, PreservedByUser
<1> QED
  BY <1>2, <1>3

\* Accepting changes nothing of a user's place.
LEMMA AcceptedDocument ==
  ASSUME NEW y \in UserDocument
  PROVE  /\ Accepted(y) \in UserDocument
         /\ Accepted(y).tenant = y.tenant /\ Accepted(y).email = y.email
         /\ Accepted(y).role = y.role /\ Accepted(y).status = "ACTIVE"
BY DEF Accepted, UserDocument, ActiveUser, InvitedUser

LEMMA SaveUserStep ==
  ASSUME IInv, NEW r \in Requests, SaveUser(r)
  PROVE  IInv'
<1> DEFINE u == requests[r].user
<1> DEFINE t == requests[r].tenant
<1> DEFINE x == Accepted(users[u])
<1>1. /\ End(r) /\ UNCHANGED <<tenants, abortsLeft>>
      /\ entered' = entered \cup {u}
      /\ tokens' = tokens \cup issueTenantTokens(u, t, None)
  BY DEF SaveUser, budgets
<1>2. u \in Users /\ t \in Tenants /\ users[u].tenant = t
  BY DEF SaveUser, IInv, RequestOK
<1>3. users[u] \in UserDocument /\ Exists(t)
  BY <1>2, Absences, AccountsAssumption DEF IInv, DocumentsOK
<1>4. users' = [users EXCEPT ![u] = x]
  BY DEF SaveUser
<1>5. /\ x \in UserDocument /\ x.tenant = t /\ x.email = users[u].email
      /\ x.role = users[u].role /\ x.status = "ACTIVE"
  BY <1>2, <1>3, AcceptedDocument
<1> HIDE DEF u, t, x
<1>6. users'[u] = x
  BY <1>2, <1>4 DEF IInv, DocumentsOK
<1>7. ASSUME NEW k \in issueTenantTokens(u, t, None) PROVE TokenSafe(k)'
  BY <1>1, <1>2, <1>5, <1>6, TenantTokens
<1>8. ProvisioningAlone'
  BY <1>1, <1>2, <1>4, <1>5, EndFacts, IdleOK, AloneKept
<1> QED
  BY <1>1, <1>2, <1>3, <1>4, <1>5, <1>7, <1>8, EndFacts, PreservedByUser

LEMMA InviteExpiresStep ==
  ASSUME IInv, NEW u \in Users, InviteExpires(u)
  PROVE  IInv'
<1> DEFINE x == [users[u] EXCEPT !.invite = "expired"]
<1>1. users[u] \in InvitedUser /\ Exists(users[u].tenant)
  <2>1. users[u] # NoUser
    BY DEF InviteExpires, NoUser
  <2> QED
    BY <2>1 DEF InviteExpires, IInv, DocumentsOK, UserDocument, ActiveUser
<1>2. /\ x \in UserDocument /\ x.tenant = users[u].tenant /\ x.email = users[u].email
      /\ x.role = users[u].role /\ x.status = users[u].status
  BY <1>1 DEF UserDocument, InvitedUser
<1>3. /\ users' = [users EXCEPT ![u] = x]
      /\ UNCHANGED <<tenants, tokens, requests, entered, abortsLeft>>
  BY DEF InviteExpires, budgets
<1>4. users[u].tenant \in Tenants
  BY <1>1 DEF Exists
<1> HIDE DEF x
<1>5. ProvisioningAlone'
  BY <1>2, <1>3, <1>4, AloneKept
<1>6. requests' \in [Requests -> Request]
  BY <1>3 DEF IInv, DocumentsOK
<1> QED
  BY <1>1, <1>2, <1>3, <1>5, <1>6, PreservedByUser

LEMMA StepInvariant ==
  ASSUME IInv, [Next]_vars
  PROVE  IInv'
<1>1. CASE UNCHANGED vars
  BY <1>1 DEF vars, budgets, IInv, DocumentsOK, Exists, TokenSafe, TokenOK, RequestOK,
     ProvisioningAlone, NamesAreUnique
<1>2. CASE \/ \E s \in Staff : PlatformLogin(s)
           \/ \E k \in tokens : PlatformRefresh(k) \/ Refresh(k)
           \/ \E u \in Users : InviteExpires(u)
  BY <1>2, TokenSteps, InviteExpiresStep
<1>3. ASSUME NEW r \in Requests, NEW k \in tokens,
             \/ \E sub \in Subdomains : StartProvision(r, k, sub)
             \/ \E t \in Tenants, status \in Statuses : SetStatus(r, k, t, status)
             \/ \E t \in Tenants, flag \in Flags, value \in FlagValues :
                  StartFlags(r, k, t, flag, value)
             \/ \E t \in Tenants : StartImpersonate(r, k, t)
             \/ Overview(r, k)
             \/ \E email \in Emails, role \in Roles : StartInvite(r, k, email, role)
      PROVE  IInv'
  BY <1>3, PlatformStarts, SetStatusStep, FlagsStep, TenantStarts
<1>4. ASSUME NEW r \in Requests,
             \/ \E t \in Tenants : CreateTenant(r, t) \/ StartLogin(r, t)
             \/ \E u \in Users, email \in Emails : CreateAdmin(r, u, email)
             \/ \E u \in Users : FindUser(r, u) \/ CreateUser(r, u)
             \/ \E t \in Tenants, u \in Users : StartAccept(r, t, u)
      PROVE  IInv'
  BY <1>4, CreateTenantStep, TenantStarts, CreateAdminStep, Ends, CreateUserStep
<1>5. ASSUME NEW r \in Requests,
             \/ SaveFlags(r) \/ FindAdmin(r) \/ Record(r) \/ RecordFails(r) \/ CountUsers(r)
             \/ LoginRefused(r) \/ SaveUser(r) \/ Abort(r)
      PROVE  IInv'
  BY <1>5, FlagsStep, FindAdminStep, Ends, SaveUserStep, AbortStep
<1> QED
  BY <1>1, <1>2, <1>3, <1>4, <1>5 DEF Next, Statuses, Roles

THEOREM InvariantHolds == Spec => []IInv
BY InitInvariant, StepInvariant, PTL DEF Spec

\* Types; a user is INVITED without a password or ACTIVE with one.
THEOREM TypeCorrect == Spec => []TypeOK
BY InvariantHolds, InvariantImplies, PTL

\* Subdomains are unique, and emails within an institute: the first admin of an
\* institute meets nobody there, and the index refuses whoever comes later.
THEOREM UniqueNames == Spec => []NamesAreUnique
<1>1. IInv => NamesAreUnique
  BY DEF IInv
<1> QED
  BY <1>1, InvariantHolds, PTL

\* A token's institute and role are those of its user, who is active.
THEOREM GenuineTokens == Spec => []TokensAreGenuine
BY InvariantHolds, InvariantImplies, PTL

\* With different secrets for the tenant realm's access and refresh tokens, which
\* is a premise and not assumed, impersonation never becomes a session of its own.
THEOREM ImpersonationEnds == Spec => []NoStandingImpersonation
BY InvariantHolds, InvariantImplies, PTL

\* Whatever secrets the realms share, no token of one is served by the other.
THEOREM SeparateRealms == Spec => []RealmsSeparate
BY InvariantHolds, InvariantImplies, PTL

\* Only setStatus changes the status of an institute.
LEMMA StatusKept ==
  ASSUME IInv, [Next]_vars, NEW t \in Tenants,
         tenants[t] # NoTenant, tenants'[t].status # tenants[t].status
  PROVE  \E r \in Requests :
           /\ requests[r].pc = "idle" /\ requests'[r].tenant = t
           /\ requests'[r].action = IF tenants'[t].status = "SUSPENDED"
                                    THEN "tenant.suspend" ELSE "tenant.activate"
<1>1. ASSUME NEW r \in Requests, NEW u \in Tenants, CreateTenant(r, u)
      PROVE  tenants'[t] = tenants[t]
  BY <1>1 DEF CreateTenant, IInv, DocumentsOK
<1>2. ASSUME NEW r \in Requests, SaveFlags(r)
      PROVE  tenants'[t].status = tenants[t].status
  <2>1. tenants[t] \in TenantDocument
    BY DEF IInv, DocumentsOK
  <2>2. [tenants[t] EXCEPT !.flags = requests[r].copy.flags].status = tenants[t].status
    BY <2>1 DEF TenantDocument
  <2> QED
    BY <1>2, <2>2 DEF SaveFlags, FlagsSaved, IInv, DocumentsOK
<1>3. ASSUME NEW r \in Requests, NEW k \in tokens, NEW u \in Tenants, NEW status \in Statuses,
             SetStatus(r, k, u, status)
      PROVE  \E p \in Requests :
               /\ requests[p].pc = "idle" /\ requests'[p].tenant = t
               /\ requests'[p].action = IF tenants'[t].status = "SUSPENDED"
                                        THEN "tenant.suspend" ELSE "tenant.activate"
  <2>1. t = u
    BY <1>3 DEF SetStatus, IInv, DocumentsOK
  <2>2. tenants'[t].status = status
    BY <1>3, <2>1 DEF SetStatus, IInv, DocumentsOK, TenantDocument
  <2> DEFINE q == [Idle EXCEPT !.pc = "record", !.actor = k.sub, !.tenant = u,
         !.action = IF status = "SUSPENDED" THEN "tenant.suspend" ELSE "tenant.activate"]
  <2>3. /\ q.tenant = u
        /\ q.action = IF status = "SUSPENDED" THEN "tenant.suspend" ELSE "tenant.activate"
    BY DEF Idle
  <2>4. requests[r].pc = "idle" /\ requests'[r] = q
    BY <1>3 DEF SetStatus, Begin, IInv, DocumentsOK
  <2> HIDE DEF q
  <2> QED
    BY <2>1, <2>2, <2>3, <2>4
<1>4. \/ tenants' = tenants
      \/ \E r \in Requests, u \in Tenants : CreateTenant(r, u)
      \/ \E r \in Requests : SaveFlags(r)
      \/ \E r \in Requests, k \in tokens, u \in Tenants, status \in Statuses :
           SetStatus(r, k, u, status)
  <2>1. CASE UNCHANGED vars
    BY <2>1 DEF vars
  <2>2. CASE \/ \E s \in Staff : PlatformLogin(s)
             \/ \E k \in tokens : PlatformRefresh(k) \/ Refresh(k)
             \/ \E u \in Users : InviteExpires(u)
    BY <2>2 DEF PlatformLogin, PlatformRefresh, Refresh, InviteExpires
  <2>3. ASSUME NEW r \in Requests, NEW k \in tokens,
               \/ \E sub \in Subdomains : StartProvision(r, k, sub)
               \/ \E u \in Tenants, flag \in Flags, value \in FlagValues :
                    StartFlags(r, k, u, flag, value)
               \/ \E u \in Tenants : StartImpersonate(r, k, u)
               \/ Overview(r, k)
               \/ \E email \in Emails, role \in Roles : StartInvite(r, k, email, role)
        PROVE  tenants' = tenants
    BY <2>3 DEF StartProvision, StartFlags, StartImpersonate, Overview, StartInvite
  <2>4. ASSUME NEW r \in Requests,
               \/ \E u \in Tenants : StartLogin(r, u)
               \/ \E u \in Users, email \in Emails : CreateAdmin(r, u, email)
               \/ \E u \in Users : FindUser(r, u) \/ CreateUser(r, u)
               \/ \E v \in Tenants, u \in Users : StartAccept(r, v, u)
               \/ FindAdmin(r) \/ Record(r) \/ RecordFails(r) \/ CountUsers(r)
               \/ LoginRefused(r) \/ SaveUser(r) \/ Abort(r)
        PROVE  tenants' = tenants
    BY <2>4 DEF StartLogin, CreateAdmin, FindUser, CreateUser, StartAccept, FindAdmin,
       Record, RecordFails, CountUsers, LoginRefused, SaveUser, Abort
  <2> QED
    BY <2>1, <2>2, <2>3, <2>4 DEF Next, Statuses, Roles
<1> QED
  BY <1>1, <1>2, <1>3, <1>4

\* Saving flags that were merged into an older copy leaves a suspension standing.
THEOREM SuspensionsHold == Spec => SuspensionHolds
<1>1. ASSUME IInv, [Next]_vars
      PROVE  \A t \in Tenants :
               tenants[t] # NoTenant /\ tenants'[t].status # tenants[t].status =>
                 \E r \in Requests :
                   /\ requests[r].pc = "idle" /\ requests'[r].tenant = t
                   /\ requests'[r].action = IF tenants'[t].status = "SUSPENDED"
                                            THEN "tenant.suspend" ELSE "tenant.activate"
  BY <1>1, StatusKept
<1> QED
  BY <1>1, InvariantHolds, PTL DEF Spec, SuspensionHolds

-----------------------------------------------------------------------------
(* Admins and the audit log.  The properties count; the invariants below    *)
(* name, institute by institute, what no request in flight will still make  *)
(* good, and these sets only grow when a request stops or a write fails, by *)
(* one.                                                                     *)

Creating(t) == \E r \in Requests : requests[r].pc = "createAdmin" /\ requests[r].tenant = t
Recording(action, t) ==
  \E r \in Requests : /\ requests[r].pc = "record" /\ requests[r].tenant = t
                      /\ requests[r].action = action

LostAdmins == { t \in Untended : ~ Creating(t) }
LostSuspensions == { t \in SecretSuspensions : ~ Recording("tenant.suspend", t) }
LostProvisions == { t \in SecretProvisions : ~ Recording("tenant.provision", t) }

Few(S, n) == IsFiniteSet(S) /\ Cardinality(S) <= n

\* What a request will record is its own act; a provisioning that gets there has
\* created its admin.
ActsOK(r) ==
  LET q == requests[r] IN
  /\ q.pc \in {"createTenant", "createAdmin"} => q.action = "tenant.provision"
  /\ q.pc = "saveFlags" => q.action = "tenant.flags.update"
  /\ q.pc = "record" /\ q.action = "tenant.provision" =>
       /\ q.tenant \in Tenants
       /\ \E u \in Users : users[u].tenant = q.tenant /\ users[u].role = "ADMIN"

LogOK ==
  \A t \in Tenants : Logged("tenant.provision", t) =>
    \E u \in Users : users[u].tenant = t /\ users[u].role = "ADMIN"

Failed == MaxUnlogged - unloggedLeft

AInv ==
  /\ abortsLeft \in Int /\ unloggedLeft \in Int
  /\ \A r \in Requests : ActsOK(r)
  /\ LogOK
  /\ Few(LostAdmins, Stops)
  /\ Few(LostSuspensions, Stops + Failed)
  /\ Few(LostProvisions, Stops + Failed)
  /\ Few(SecretImpersonations, Failed)

-----------------------------------------------------------------------------
(* Counting *)

LEMMA FewSame == ASSUME NEW S, NEW n \in Int, Few(S, n), NEW T \in SUBSET S PROVE Few(T, n)
<1>1. /\ IsFiniteSet(T) /\ Cardinality(T) <= Cardinality(S)
      /\ Cardinality(T) \in Nat /\ Cardinality(S) \in Nat
  BY FS_Subset, FS_CardinalityType DEF Few
<1> QED
  BY <1>1 DEF Few

LEMMA FewMore ==
  ASSUME NEW S, NEW n \in Int, Few(S, n), NEW x, NEW T \in SUBSET (S \cup {x})
  PROVE  Few(T, n + 1)
<1>1. IsFiniteSet(S) /\ Cardinality(S) \in Nat /\ Cardinality(S) <= n
  BY FS_CardinalityType DEF Few
<1>2. /\ IsFiniteSet(S \cup {x})
      /\ Cardinality(S \cup {x}) = IF x \in S THEN Cardinality(S) ELSE Cardinality(S) + 1
  BY <1>1, FS_AddElement
<1>3. Cardinality(S \cup {x}) <= n + 1
  BY <1>1, <1>2
<1>4. Few(S \cup {x}, n + 1)
  BY <1>2, <1>3 DEF Few
<1> QED
  BY <1>4, FewSame

\* Missing things that finitely many requests at pc will still make good.
LEMMA MadeGood ==
  ASSUME IsFiniteSet(Requests), NEW S, NEW Lost, NEW n \in Int, NEW pc, Few(Lost, n),
         S \subseteq Lost \cup { requests[r].tenant : r \in At(pc) }
  PROVE  Cardinality(S) <= n + Cardinality(At(pc))
<1> DEFINE W == { requests[r].tenant : r \in At(pc) }
<1>1. IsFiniteSet(At(pc)) /\ Cardinality(At(pc)) \in Nat
  BY FS_Subset, FS_CardinalityType DEF At
<1>2. IsFiniteSet(W) /\ Cardinality(W) <= Cardinality(At(pc)) /\ Cardinality(W) \in Nat
  <2>1. IsFiniteSet(W) /\ Cardinality(W) <= Cardinality(At(pc))
    <3> DEFINE tenantOf == [r \in At(pc) |-> requests[r].tenant]
    <3>1. tenantOf \in Surjection(At(pc), W)
      BY DEF Surjection
    <3> QED
      BY <1>1, <3>1, FS_Surjection
  <2> QED
    BY <2>1, FS_CardinalityType
<1>3. IsFiniteSet(Lost) /\ Cardinality(Lost) \in Nat /\ Cardinality(Lost) <= n
  BY FS_CardinalityType DEF Few
<1> HIDE DEF W
<1>4. /\ IsFiniteSet(Lost \cup W)
      /\ Cardinality(Lost \cup W) = Cardinality(Lost) + Cardinality(W) - Cardinality(Lost \cap W)
  BY <1>2, <1>3, FS_Union
<1>5. Cardinality(Lost \cap W) \in Nat
  BY <1>3, FS_Subset, FS_CardinalityType
<1>6. S \in SUBSET (Lost \cup W)
  BY DEF W
<1>7. Cardinality(S) <= Cardinality(Lost \cup W) /\ Cardinality(S) \in Nat
  BY <1>4, <1>6, FS_Subset, FS_CardinalityType
<1> QED
  BY <1>1, <1>2, <1>3, <1>4, <1>5, <1>7

LEMMA AInvImplies ==
  ASSUME AInv, IsFiniteSet(Requests)
  PROVE  TenantsHaveAdmin /\ AuditTrail
<1>1. /\ Stops \in Int /\ Failed \in Int /\ MaxUnlogged - unloggedLeft = Failed
      /\ Stops + Failed \in Int
  BY AccountsAssumption DEF AInv, Stops, Failed
<1>2. Untended \subseteq LostAdmins \cup { requests[r].tenant : r \in At("createAdmin") }
  BY DEF LostAdmins, Creating, At
<1>3. /\ SecretSuspensions \subseteq LostSuspensions \cup { requests[r].tenant : r \in At("record") }
      /\ SecretProvisions \subseteq LostProvisions \cup { requests[r].tenant : r \in At("record") }
  BY DEF LostSuspensions, LostProvisions, Recording, At
<1>4. TenantsHaveAdmin
  BY <1>1, <1>2, MadeGood DEF AInv, TenantsHaveAdmin
<1>5. /\ Cardinality(SecretSuspensions) <= Stops + Failed + Cardinality(At("record"))
      /\ Cardinality(SecretProvisions) <= Stops + Failed + Cardinality(At("record"))
  BY <1>1, <1>3, MadeGood DEF AInv
<1>6. Cardinality(SecretImpersonations) <= Failed
  BY DEF AInv, Few
<1> QED
  BY <1>1, <1>4, <1>5, <1>6 DEF AInv, AuditTrail, LogOK

LEMMA InitAInv == ASSUME Init PROVE AInv
<1>1. \A t \in Tenants : tenants[t] = NoTenant /\ ~ Peopled(t)
  BY Absences, AccountsAssumption DEF Init, Peopled, NoUser
<1>2. Untended = {} /\ SecretSuspensions = {} /\ SecretProvisions = {}
      /\ SecretImpersonations = {}
  <2>1. NoTenant.status # "SUSPENDED"
    BY AccountsAssumption DEF NoTenant
  <2> QED
    BY <1>1, <2>1 DEF Init, Untended, SecretSuspensions, SecretProvisions, SecretImpersonations
<1>3. LostAdmins = {} /\ LostSuspensions = {} /\ LostProvisions = {}
  BY <1>2 DEF LostAdmins, LostSuspensions, LostProvisions
<1>4. Few({}, 0)
  BY FS_EmptySet DEF Few
<1>5. abortsLeft = MaxAborts /\ unloggedLeft = MaxUnlogged
  BY DEF Init
<1>6. Stops = 0 /\ Failed = 0 /\ abortsLeft \in Int /\ unloggedLeft \in Int
  BY <1>5, AccountsAssumption DEF Stops, Failed
<1>7. \A r \in Requests : ActsOK(r)
  BY DEF Init, ActsOK, Idle
<1>8. LogOK
  BY DEF Init, LogOK, Logged
<1> QED
  BY <1>2, <1>3, <1>4, <1>6, <1>7, <1>8 DEF AInv

-----------------------------------------------------------------------------
(* What a step does to what is missing.  Each lemma takes its facts institute *)
(* by institute. *)

\* Institutes come with a request that creates their admin, who stays.
LEMMA AdminsShrink ==
  ASSUME NEW X, \A t \in Tenants :
           /\ tenants'[t] # NoTenant => tenants[t] # NoTenant \/ Creating(t)'
           /\ HasAdmin(t) => HasAdmin(t)'
           /\ Creating(t) => Creating(t)' \/ HasAdmin(t)' \/ t \in X
  PROVE  LostAdmins' \subseteq LostAdmins \cup X
<1> SUFFICES ASSUME NEW t \in LostAdmins', t \notin X PROVE t \in LostAdmins
  OBVIOUS
<1>1. t \in Tenants /\ tenants'[t] # NoTenant /\ ~ HasAdmin(t)' /\ ~ Creating(t)'
  BY DEF LostAdmins, Untended
<1> QED
  BY <1>1 DEF LostAdmins, Untended

\* Suspensions come with a request that records them.
LEMMA SuspensionsShrink ==
  ASSUME NEW X, log \subseteq log', \A t \in Tenants :
           /\ tenants'[t].status = "SUSPENDED" =>
                tenants[t].status = "SUSPENDED" \/ Recording("tenant.suspend", t)'
           /\ Recording("tenant.suspend", t) =>
                Recording("tenant.suspend", t)' \/ Logged("tenant.suspend", t)' \/ t \in X
  PROVE  LostSuspensions' \subseteq LostSuspensions \cup X
<1> SUFFICES ASSUME NEW t \in LostSuspensions', t \notin X PROVE t \in LostSuspensions
  OBVIOUS
<1>1. /\ t \in Tenants /\ tenants'[t].status = "SUSPENDED"
      /\ ~ Logged("tenant.suspend", t)' /\ ~ Recording("tenant.suspend", t)'
  BY DEF LostSuspensions, SecretSuspensions
<1> QED
  BY <1>1 DEF LostSuspensions, SecretSuspensions, Logged

\* First users come with a request that records the provisioning.
LEMMA ProvisionsShrink ==
  ASSUME NEW X, log \subseteq log', \A t \in Tenants :
           /\ Peopled(t)' => Peopled(t) \/ Recording("tenant.provision", t)'
           /\ Recording("tenant.provision", t) =>
                Recording("tenant.provision", t)' \/ Logged("tenant.provision", t)' \/ t \in X
  PROVE  LostProvisions' \subseteq LostProvisions \cup X
<1> SUFFICES ASSUME NEW t \in LostProvisions', t \notin X PROVE t \in LostProvisions
  OBVIOUS
<1>1. /\ t \in Tenants /\ Peopled(t)'
      /\ ~ Logged("tenant.provision", t)' /\ ~ Recording("tenant.provision", t)'
  BY DEF LostProvisions, SecretProvisions
<1> QED
  BY <1>1 DEF LostProvisions, SecretProvisions, Logged

\* Tokens that name an impersonator come with the log entry.
LEMMA ImpersonationsShrink ==
  ASSUME NEW X, log \subseteq log',
         \A k \in tokens' \ tokens : k.by \in Staff /\ k.tenant \in Tenants =>
           \/ [actor |-> k.by, action |-> "impersonate", tenant |-> k.tenant] \in log'
           \/ <<k.by, k.tenant>> \in X
  PROVE  SecretImpersonations' \subseteq SecretImpersonations \cup X
<1> SUFFICES ASSUME NEW i \in SecretImpersonations', i \notin X
             PROVE  i \in SecretImpersonations
  OBVIOUS
<1>1. PICK k \in tokens' : k.by = i[1] /\ k.tenant = i[2]
  BY DEF SecretImpersonations
<1>2. /\ i \in Staff \X Tenants /\ i = <<i[1], i[2]>>
      /\ [actor |-> i[1], action |-> "impersonate", tenant |-> i[2]] \notin log'
  BY DEF SecretImpersonations
<1>3. k \in tokens
  BY <1>1, <1>2
<1> QED
  BY <1>1, <1>2, <1>3 DEF SecretImpersonations

Shrink ==
  /\ LostAdmins' \subseteq LostAdmins /\ LostSuspensions' \subseteq LostSuspensions
  /\ LostProvisions' \subseteq LostProvisions
  /\ SecretImpersonations' \subseteq SecretImpersonations
  /\ LogOK' /\ \A r \in Requests : ActsOK(r)'

\* Institutes and users stay, in their place and role.
LEMMA UsersStay ==
  ASSUME IInv,
         \A u \in Users : users[u] # NoUser =>
           /\ users'[u].tenant = users[u].tenant /\ users'[u].role = users[u].role
           /\ users[u].status = "ACTIVE" => users'[u].status = "ACTIVE"
  PROVE  /\ \A t \in Tenants : HasAdmin(t) => HasAdmin(t)'
         /\ \A t \in Tenants :
              (\E u \in Users : users[u].tenant = t /\ users[u].role = "ADMIN")
              => (\E u \in Users : users'[u].tenant = t /\ users'[u].role = "ADMIN")
<1>1. \A u \in Users : users[u].tenant \in Tenants => users[u] # NoUser
  BY Absences, AccountsAssumption
<1> QED
  BY <1>1 DEF HasAdmin

\* A step that writes nothing the log or an institute waits for, of requests that
\* were not about to.
LEMMA QuietShrinks ==
  ASSUME AInv,
         \A r \in Requests : \/ requests'[r] = requests[r]
                             \/ requests[r].pc \notin {"createAdmin", "record"} /\ ActsOK(r)',
         UNCHANGED <<tenants, users, log>>,
         \A k \in tokens' \ tokens : k.by \notin Staff
  PROVE  Shrink
<1>1. /\ \A t : Creating(t) => Creating(t)'
      /\ \A t, action : Recording(action, t) => Recording(action, t)'
  BY DEF Creating, Recording
<1>2. /\ LostAdmins' \subseteq LostAdmins /\ LostSuspensions' \subseteq LostSuspensions
      /\ LostProvisions' \subseteq LostProvisions
      /\ SecretImpersonations' \subseteq SecretImpersonations
  <2>1. LostAdmins' \subseteq LostAdmins \cup {}
    BY <1>1, AdminsShrink DEF HasAdmin
  <2>2. LostSuspensions' \subseteq LostSuspensions \cup {}
    BY <1>1, SuspensionsShrink
  <2>3. LostProvisions' \subseteq LostProvisions \cup {}
    BY <1>1, ProvisionsShrink DEF Peopled
  <2>4. SecretImpersonations' \subseteq SecretImpersonations \cup {}
    BY ImpersonationsShrink
  <2> QED
    BY <2>1, <2>2, <2>3, <2>4
<1>3. LogOK'
  BY DEF AInv, LogOK, Logged
<1>4. \A p \in Requests : ActsOK(p)'
  BY DEF AInv, ActsOK
<1> QED
  BY <1>2, <1>3, <1>4 DEF Shrink

\* Tokens of a user's own, and of staff, name nobody.
LEMMA OwnTokens ==
  /\ \A u, t : \A k \in issueTenantTokens(u, t, None) : k.by \notin Staff
  /\ \A s : \A k \in issuePlatformTokens(s) : k.by \notin Staff
BY AccountsAssumption DEF issueTenantTokens, issuePlatformTokens, Token

LEMMA TokenStepsShrink ==
  ASSUME AInv, \/ \E s \in Staff : PlatformLogin(s)
               \/ \E k \in tokens : PlatformRefresh(k) \/ Refresh(k)
  PROVE  Shrink
<1>1. /\ UNCHANGED <<tenants, users, log, requests>>
      /\ \A k \in tokens' \ tokens : k.by \notin Staff
  BY OwnTokens DEF PlatformLogin, PlatformRefresh, Refresh
<1> QED
  BY <1>1, QuietShrinks

LEMMA Others ==
  ASSUME IInv, NEW r \in Requests, NEW q, requests' = [requests EXCEPT ![r] = q]
  PROVE  requests'[r] = q /\ \A p \in Requests \ {r} : requests'[p] = requests[p]
BY DEF IInv, DocumentsOK

\* r begins a request that will not record a provisioning or a suspension.
BeginsTame(r) ==
  \E q : /\ Begin(r, q) /\ q.pc # "createAdmin"
         /\ q.pc = "createTenant" => q.action = "tenant.provision"
         /\ q.pc \in {"saveFlags", "record"} => q.action = "tenant.flags.update"

LEMMA StartsShrink ==
  ASSUME IInv, AInv, NEW r \in Requests,
         \/ \E k \in tokens :
              \/ \E sub \in Subdomains : StartProvision(r, k, sub)
              \/ \E t \in Tenants, flag \in Flags, value \in FlagValues :
                   StartFlags(r, k, t, flag, value)
              \/ \E t \in Tenants : StartImpersonate(r, k, t)
              \/ Overview(r, k)
              \/ \E email \in Emails, role \in {"ADMIN", "STUDENT"} :
                   StartInvite(r, k, email, role)
         \/ \E t \in Tenants : StartLogin(r, t)
         \/ \E t \in Tenants, u \in Users : StartAccept(r, t, u)
  PROVE  Shrink
<1>1. BeginsTame(r)
  <2>1. ASSUME NEW k \in tokens, NEW sub \in Subdomains, StartProvision(r, k, sub)
        PROVE  BeginsTame(r)
    <3> DEFINE q == [Idle EXCEPT !.pc = "createTenant", !.actor = k.sub, !.name = sub,
                                 !.action = "tenant.provision"]
    <3>1. Begin(r, q)
      BY <2>1 DEF StartProvision
    <3>2. /\ q.pc # "createAdmin"
          /\ q.pc = "createTenant" => q.action = "tenant.provision"
          /\ q.pc \in {"saveFlags", "record"} => q.action = "tenant.flags.update"
      BY DEF Idle
    <3> HIDE DEF q
    <3> QED
      BY <3>1, <3>2 DEF BeginsTame
  <2>2. ASSUME NEW k \in tokens, NEW t \in Tenants, NEW flag \in Flags,
               NEW value \in FlagValues, StartFlags(r, k, t, flag, value)
        PROVE  BeginsTame(r)
    <3> DEFINE q == LET copy == [tenants[t] EXCEPT !.flags[flag] = value]
                    IN  [Idle EXCEPT
                           !.pc = IF copy = tenants[t] THEN "record" ELSE "saveFlags",
                           !.copy = IF copy = tenants[t] THEN NoTenant ELSE copy,
                           !.actor = k.sub, !.tenant = t, !.action = "tenant.flags.update"]
    <3>1. Begin(r, q)
      BY <2>2 DEF StartFlags
    <3>2. /\ q.pc # "createAdmin"
          /\ q.pc = "createTenant" => q.action = "tenant.provision"
          /\ q.pc \in {"saveFlags", "record"} => q.action = "tenant.flags.update"
      BY DEF Idle
    <3> HIDE DEF q
    <3> QED
      BY <3>1, <3>2 DEF BeginsTame
  <2>3. ASSUME NEW k \in tokens, NEW t \in Tenants, StartImpersonate(r, k, t)
        PROVE  BeginsTame(r)
    <3> DEFINE q == [Idle EXCEPT !.pc = "findAdmin", !.actor = k.sub, !.tenant = t,
                                 !.action = "impersonate"]
    <3>1. Begin(r, q)
      BY <2>3 DEF StartImpersonate
    <3>2. /\ q.pc # "createAdmin"
          /\ q.pc = "createTenant" => q.action = "tenant.provision"
          /\ q.pc \in {"saveFlags", "record"} => q.action = "tenant.flags.update"
      BY DEF Idle
    <3> HIDE DEF q
    <3> QED
      BY <3>1, <3>2 DEF BeginsTame
  <2>4. ASSUME NEW k \in tokens, Overview(r, k)
        PROVE  BeginsTame(r)
    <3> DEFINE q == [Idle EXCEPT !.pc = "countUsers", !.actor = k.sub]
    <3>1. Begin(r, q)
      BY <2>4 DEF Overview
    <3>2. /\ q.pc # "createAdmin"
          /\ q.pc = "createTenant" => q.action = "tenant.provision"
          /\ q.pc \in {"saveFlags", "record"} => q.action = "tenant.flags.update"
      BY DEF Idle
    <3> HIDE DEF q
    <3> QED
      BY <3>1, <3>2 DEF BeginsTame
  <2>5. ASSUME NEW k \in tokens, NEW email \in Emails, NEW role \in {"ADMIN", "STUDENT"},
               StartInvite(r, k, email, role)
        PROVE  BeginsTame(r)
    <3> DEFINE q == [Idle EXCEPT !.pc = "createUser", !.actor = k.sub, !.tenant = k.tenant,
                                 !.name = email, !.role = role]
    <3>1. Begin(r, q)
      BY <2>5 DEF StartInvite
    <3>2. /\ q.pc # "createAdmin"
          /\ q.pc = "createTenant" => q.action = "tenant.provision"
          /\ q.pc \in {"saveFlags", "record"} => q.action = "tenant.flags.update"
      BY DEF Idle
    <3> HIDE DEF q
    <3> QED
      BY <3>1, <3>2 DEF BeginsTame
  <2>6. ASSUME NEW t \in Tenants, StartLogin(r, t)
        PROVE  BeginsTame(r)
    <3> DEFINE q == [Idle EXCEPT !.pc = "findUser", !.tenant = t]
    <3>1. Begin(r, q)
      BY <2>6 DEF StartLogin
    <3>2. /\ q.pc # "createAdmin"
          /\ q.pc = "createTenant" => q.action = "tenant.provision"
          /\ q.pc \in {"saveFlags", "record"} => q.action = "tenant.flags.update"
      BY DEF Idle
    <3> HIDE DEF q
    <3> QED
      BY <3>1, <3>2 DEF BeginsTame
  <2>7. ASSUME NEW t \in Tenants, NEW u \in Users, StartAccept(r, t, u)
        PROVE  BeginsTame(r)
    <3> DEFINE q == [Idle EXCEPT !.pc = "saveUser", !.tenant = t, !.user = u]
    <3>1. Begin(r, q)
      BY <2>7 DEF StartAccept
    <3>2. /\ q.pc # "createAdmin"
          /\ q.pc = "createTenant" => q.action = "tenant.provision"
          /\ q.pc \in {"saveFlags", "record"} => q.action = "tenant.flags.update"
      BY DEF Idle
    <3> HIDE DEF q
    <3> QED
      BY <3>1, <3>2 DEF BeginsTame
  <2> QED
    BY <2>1, <2>2, <2>3, <2>4, <2>5, <2>6, <2>7
<1>2. UNCHANGED <<tenants, users, log, tokens>>
  BY DEF StartProvision, StartFlags, StartImpersonate, Overview, StartInvite, StartLogin,
         StartAccept
<1>3. PICK q : /\ q.pc = "createTenant" => q.action = "tenant.provision"
               /\ q.pc \in {"saveFlags", "record"} => q.action = "tenant.flags.update"
               /\ q.pc # "createAdmin"
               /\ requests[r].pc = "idle" /\ requests' = [requests EXCEPT ![r] = q]
  BY <1>1 DEF BeginsTame, Begin
<1>4. requests'[r] = q /\ \A p \in Requests \ {r} : requests'[p] = requests[p]
  BY <1>3, Others
<1>5. ActsOK(r)'
  BY <1>3, <1>4 DEF ActsOK
<1> QED
  BY <1>2, <1>3, <1>4, <1>5, QuietShrinks

LEMMA IdleActs == Idle.pc = "idle" /\ \A r \in Requests : requests'[r] = Idle => ActsOK(r)'
BY DEF Idle, ActsOK

\* Requests that end or look up a user.
LEMMA LookupsShrink ==
  ASSUME IInv, AInv, NEW r \in Requests,
         \/ CountUsers(r) \/ LoginRefused(r) \/ FindAdmin(r)
         \/ \E u \in Users : FindUser(r, u)
  PROVE  Shrink
<1>1. /\ requests[r].pc \notin {"createAdmin", "record"} /\ UNCHANGED <<tenants, users, log>>
  BY DEF CountUsers, LoginRefused, FindAdmin, FindUser
<1>2. \A k \in tokens' \ tokens : k.by \notin Staff
  BY OwnTokens DEF CountUsers, LoginRefused, FindAdmin, FindUser
<1>3. CASE End(r)
  <2>1. requests'[r] = Idle /\ \A p \in Requests \ {r} : requests'[p] = requests[p]
    BY <1>3, Others DEF End
  <2> QED
    BY <1>1, <1>2, <2>1, IdleActs, QuietShrinks
<1>4. CASE ~ End(r)
  <2>1. PICK u \in Users :
          /\ requests[r].pc = "findAdmin"
          /\ requests' = [requests EXCEPT ![r].pc = "record", ![r].user = u]
    BY <1>4 DEF CountUsers, LoginRefused, FindAdmin, FindUser
  <2>2. requests[r].action = "impersonate" /\ requests[r] \in Request
        /\ requests \in [Requests -> Request]
    BY <2>1 DEF IInv, RequestOK, DocumentsOK
  <2>3. /\ requests'[r].pc = "record" /\ requests'[r].action = "impersonate"
        /\ \A p \in Requests \ {r} : requests'[p] = requests[p]
    BY <2>1, <2>2 DEF Request
  <2>4. ActsOK(r)'
    BY <2>3 DEF ActsOK
  <2> QED
    BY <1>1, <1>2, <2>3, <2>4, QuietShrinks
<1> QED
  BY <1>3, <1>4

\* Saving flags and what follows it leaves status and users alone.
LEMMA FlagsShrink ==
  ASSUME IInv, AInv, NEW r \in Requests, SaveFlags(r)
  PROVE  Shrink
<1> DEFINE t0 == requests[r].tenant
<1>1. /\ requests[r].pc = "saveFlags" /\ requests[r].action = "tenant.flags.update"
      /\ requests \in [Requests -> Request] /\ Exists(t0)
      /\ tenants \in [Tenants -> TenantDocument \cup {NoTenant}]
      /\ UNCHANGED <<users, tokens, log>>
  BY DEF SaveFlags, IInv, AInv, ActsOK, DocumentsOK, RequestOK
<1>2. /\ requests'[r].pc = "record" /\ requests'[r].action = "tenant.flags.update"
      /\ \A p \in Requests \ {r} : requests'[p] = requests[p]
  BY <1>1 DEF SaveFlags, Request
<1>3. ActsOK(r)'
  BY <1>2 DEF ActsOK
<1>4. \A t \in Tenants : /\ tenants'[t].status = tenants[t].status
                         /\ tenants'[t] # NoTenant => tenants[t] # NoTenant
  <2>1. tenants' = [tenants EXCEPT ![t0] = [tenants[t0] EXCEPT !.flags = requests[r].copy.flags]]
    BY DEF SaveFlags, FlagsSaved
  <2>2. tenants[t0] \in TenantDocument /\ tenants[t0] # NoTenant
    BY <1>1 DEF Exists
  <2>3. [tenants[t0] EXCEPT !.flags = requests[r].copy.flags].status = tenants[t0].status
    BY <2>2 DEF TenantDocument
  <2> QED
    BY <1>1, <2>1, <2>2, <2>3 DEF Exists
<1>5. /\ \A t : Creating(t) => Creating(t)'
      /\ \A t, action : Recording(action, t) => Recording(action, t)'
  BY <1>1, <1>2 DEF Creating, Recording
<1>6. LostAdmins' \subseteq LostAdmins \cup {}
  BY <1>1, <1>4, <1>5, AdminsShrink DEF HasAdmin
<1>7. LostSuspensions' \subseteq LostSuspensions \cup {}
  BY <1>1, <1>4, <1>5, SuspensionsShrink
<1>8. LostProvisions' \subseteq LostProvisions \cup {}
  BY <1>1, <1>5, ProvisionsShrink DEF Peopled
<1>9. SecretImpersonations' \subseteq SecretImpersonations \cup {}
  BY <1>1, ImpersonationsShrink
<1>10. LogOK' /\ \A p \in Requests : ActsOK(p)'
  BY <1>1, <1>2, <1>3 DEF AInv, LogOK, Logged, ActsOK
<1> QED
  BY <1>6, <1>7, <1>8, <1>9, <1>10 DEF Shrink

\* The status is written together with the request that records it.
LEMMA SetStatusShrinks ==
  ASSUME IInv, AInv, NEW r \in Requests, NEW k \in tokens, NEW t0 \in Tenants,
         NEW status \in {"ACTIVE", "SUSPENDED", "PENDING"}, SetStatus(r, k, t0, status)
  PROVE  Shrink
<1> DEFINE act == IF status = "SUSPENDED" THEN "tenant.suspend" ELSE "tenant.activate"
           q == [Idle EXCEPT !.pc = "record", !.actor = k.sub, !.tenant = t0, !.action = act]
<1>1. /\ tenants[t0] # NoTenant /\ tenants' = [tenants EXCEPT ![t0].status = status]
      /\ requests[r].pc = "idle" /\ requests' = [requests EXCEPT ![r] = q]
      /\ UNCHANGED <<users, tokens, log>>
  BY DEF SetStatus, Begin
<1>2. q.pc = "record" /\ q.tenant = t0 /\ q.action = act /\ act # "tenant.provision"
  BY DEF Idle
<1> HIDE DEF q
<1>3. requests'[r] = q /\ \A p \in Requests \ {r} : requests'[p] = requests[p]
  BY <1>1, Others
<1> HIDE DEF act
<1>4. /\ \A t : Creating(t) => Creating(t)'
      /\ \A t, action : Recording(action, t) => Recording(action, t)'
      /\ ActsOK(r)'
  BY <1>1, <1>2, <1>3 DEF Creating, Recording, ActsOK
<1>5. /\ tenants'[t0].status = status
      /\ \A t \in Tenants : t # t0 => tenants'[t] = tenants[t]
  <2>1. tenants \in [Tenants -> TenantDocument \cup {NoTenant}] /\ tenants[t0] \in TenantDocument
    BY <1>1 DEF IInv, DocumentsOK
  <2> QED
    BY <1>1, <2>1 DEF TenantDocument
<1>6. status = "SUSPENDED" => \A t : t = t0 => Recording("tenant.suspend", t)'
  BY <1>2, <1>3 DEF Recording, act
<1>7. LostAdmins' \subseteq LostAdmins \cup {}
  BY <1>1, <1>4, <1>5, AdminsShrink DEF HasAdmin
<1>8. LostSuspensions' \subseteq LostSuspensions \cup {}
  BY <1>1, <1>4, <1>5, <1>6, SuspensionsShrink
<1>9. LostProvisions' \subseteq LostProvisions \cup {}
  BY <1>1, <1>4, ProvisionsShrink DEF Peopled
<1>10. SecretImpersonations' \subseteq SecretImpersonations \cup {}
  BY <1>1, ImpersonationsShrink
<1>11. LogOK' /\ \A p \in Requests : ActsOK(p)'
  BY <1>1, <1>3, <1>4 DEF AInv, LogOK, Logged, ActsOK
<1> QED
  BY <1>7, <1>8, <1>9, <1>10, <1>11 DEF Shrink

\* The institute comes with the request that goes on to create its admin.
LEMMA CreateTenantShrinks ==
  ASSUME IInv, AInv, NEW r \in Requests, NEW t0 \in Tenants, CreateTenant(r, t0)
  PROVE  Shrink
<1>1. /\ requests[r].pc = "createTenant" /\ UNCHANGED <<users, tokens, log>>
      /\ requests[r].action = "tenant.provision"
      /\ requests \in [Requests -> Request]
      /\ tenants \in [Tenants -> TenantDocument \cup {NoTenant}]
  BY DEF CreateTenant, AInv, ActsOK, IInv, DocumentsOK
<1>2. CASE SubdomainTaken(requests[r].name)
  <2>1. /\ requests'[r] = Idle /\ \A p \in Requests \ {r} : requests'[p] = requests[p]
        /\ UNCHANGED tenants
    BY <1>2, Others DEF CreateTenant, End
  <2> QED
    BY <1>1, <2>1, IdleActs, QuietShrinks
<1>3. CASE ~ SubdomainTaken(requests[r].name)
  <2>1. /\ tenants' = [tenants EXCEPT ![t0] = [NoTenant EXCEPT
                         !.subdomain = requests[r].name, !.status = "ACTIVE"]]
        /\ requests' = [requests EXCEPT ![r].pc = "createAdmin", ![r].tenant = t0]
    BY <1>3 DEF CreateTenant
  <2>2. /\ tenants'[t0].status = "ACTIVE"
        /\ \A t \in Tenants : t # t0 => tenants'[t] = tenants[t]
    BY <1>1, <2>1 DEF NoTenant
  <2>3. /\ requests'[r].pc = "createAdmin" /\ requests'[r].tenant = t0
        /\ requests'[r].action = "tenant.provision"
        /\ \A p \in Requests \ {r} : requests'[p] = requests[p]
    BY <1>1, <2>1 DEF Request
  <2>4. /\ \A t : Creating(t) => Creating(t)'
        /\ \A t, action : Recording(action, t) => Recording(action, t)'
        /\ \A t : t = t0 => Creating(t)'
        /\ ActsOK(r)'
    BY <1>1, <2>3 DEF Creating, Recording, ActsOK
  <2>5. LostAdmins' \subseteq LostAdmins \cup {}
    BY <1>1, <2>2, <2>4, AdminsShrink DEF HasAdmin
  <2>6. LostSuspensions' \subseteq LostSuspensions \cup {}
    BY <1>1, <2>2, <2>4, SuspensionsShrink
  <2>7. LostProvisions' \subseteq LostProvisions \cup {}
    BY <1>1, <2>4, ProvisionsShrink DEF Peopled
  <2>8. SecretImpersonations' \subseteq SecretImpersonations \cup {}
    BY <1>1, ImpersonationsShrink
  <2>9. LogOK' /\ \A p \in Requests : ActsOK(p)'
    BY <1>1, <2>3, <2>4 DEF AInv, LogOK, Logged, ActsOK
  <2> QED
    BY <2>5, <2>6, <2>7, <2>8, <2>9 DEF Shrink
<1> QED
  BY <1>2, <1>3

\* The admin comes with the request that goes on to record the provisioning.
LEMMA CreateAdminShrinks ==
  ASSUME IInv, AInv, NEW r \in Requests, NEW u0 \in Users, NEW email \in Emails,
         CreateAdmin(r, u0, email)
  PROVE  Shrink
<1> DEFINE t0 == requests[r].tenant
<1>1. /\ requests[r].pc = "createAdmin" /\ UNCHANGED <<tenants, tokens, log>>
      /\ requests[r].action = "tenant.provision" /\ users[u0] = NoUser
      /\ requests \in [Requests -> Request]
      /\ users \in [Users -> UserDocument \cup {NoUser}]
      /\ users' = [users EXCEPT ![u0] = FirstAdmin(r, email)]
      /\ requests' = [requests EXCEPT ![r].pc = "record"]
  BY DEF CreateAdmin, To, AInv, ActsOK, IInv, DocumentsOK
<1>2. /\ users'[u0].tenant = t0 /\ users'[u0].role = "ADMIN" /\ users'[u0].status = "ACTIVE"
      /\ \A u \in Users \ {u0} : users'[u] = users[u]
  BY <1>1 DEF FirstAdmin
<1>3. /\ requests'[r].pc = "record" /\ requests'[r].tenant = t0
      /\ requests'[r].action = "tenant.provision"
      /\ \A p \in Requests \ {r} : requests'[p] = requests[p]
  BY <1>1 DEF Request
<1> HIDE DEF t0
<1>4. /\ \A u \in Users : users[u] # NoUser => users'[u] = users[u]
      /\ \A t : t = t0 => HasAdmin(t)' /\ Recording("tenant.provision", t)'
  BY <1>1, <1>2, <1>3 DEF HasAdmin, Recording
<1>5. /\ \A t \in Tenants : HasAdmin(t) => HasAdmin(t)'
      /\ \A t \in Tenants :
           (\E u \in Users : users[u].tenant = t /\ users[u].role = "ADMIN")
           => (\E u \in Users : users'[u].tenant = t /\ users'[u].role = "ADMIN")
  BY <1>4, UsersStay
<1>6. /\ \A t : Creating(t) => Creating(t)' \/ t = t0
      /\ \A t, action : Recording(action, t) => Recording(action, t)'
      /\ \A t : Peopled(t)' => Peopled(t) \/ t = t0
  BY <1>1, <1>2, <1>3 DEF Creating, Recording, Peopled, t0
<1>7. ActsOK(r)'
  <2>1. t0 \in Tenants
    BY <1>1 DEF IInv, RequestOK, Exists, t0
  <2> QED
    BY <1>2, <1>3, <2>1 DEF ActsOK
<1>8. LostAdmins' \subseteq LostAdmins \cup {}
  BY <1>1, <1>4, <1>5, <1>6, AdminsShrink
<1>9. LostSuspensions' \subseteq LostSuspensions \cup {}
  BY <1>1, <1>6, SuspensionsShrink
<1>10. LostProvisions' \subseteq LostProvisions \cup {}
  BY <1>1, <1>4, <1>6, ProvisionsShrink
<1>11. SecretImpersonations' \subseteq SecretImpersonations \cup {}
  BY <1>1, ImpersonationsShrink
<1>12. LogOK'
  BY <1>1, <1>5 DEF AInv, LogOK, Logged
<1>13. ASSUME NEW p \in Requests \ {r} PROVE ActsOK(p)'
  <2>1. ActsOK(p) /\ requests'[p] = requests[p]
    BY <1>3 DEF AInv
  <2> QED
    BY <1>5, <2>1 DEF ActsOK
<1> QED
  BY <1>7, <1>8, <1>9, <1>10, <1>11, <1>12, <1>13 DEF Shrink

\* A step that writes users, none of them the first of an institute.
LEMMA UserWritesShrink ==
  ASSUME IInv, AInv,
         \A u \in Users : users[u] # NoUser =>
           /\ users'[u].tenant = users[u].tenant /\ users'[u].role = users[u].role
           /\ users[u].status = "ACTIVE" => users'[u].status = "ACTIVE",
         \A t \in Tenants : Peopled(t)' => Peopled(t),
         UNCHANGED <<tenants, log>>,
         \A k \in tokens' \ tokens : k.by \notin Staff,
         \A r \in Requests : \/ requests'[r] = requests[r]
                             \/ /\ requests[r].pc \notin {"createAdmin", "record"}
                                /\ requests'[r] = Idle
  PROVE  Shrink
<1>1. /\ \A t \in Tenants : HasAdmin(t) => HasAdmin(t)'
      /\ \A t \in Tenants :
           (\E u \in Users : users[u].tenant = t /\ users[u].role = "ADMIN")
           => (\E u \in Users : users'[u].tenant = t /\ users'[u].role = "ADMIN")
  BY UsersStay
<1>2. /\ \A t : Creating(t) => Creating(t)'
      /\ \A t, action : Recording(action, t) => Recording(action, t)'
  BY DEF Creating, Recording
<1>3. LostAdmins' \subseteq LostAdmins \cup {}
  BY <1>1, <1>2, AdminsShrink
<1>4. LostSuspensions' \subseteq LostSuspensions \cup {}
  BY <1>2, SuspensionsShrink
<1>5. LostProvisions' \subseteq LostProvisions \cup {}
  BY <1>2, ProvisionsShrink
<1>6. SecretImpersonations' \subseteq SecretImpersonations \cup {}
  BY ImpersonationsShrink
<1>7. LogOK'
  BY <1>1 DEF AInv, LogOK, Logged
<1>8. ASSUME NEW r \in Requests PROVE ActsOK(r)'
  <2>1. CASE requests'[r] = Idle
    BY <2>1, IdleActs
  <2>2. CASE requests'[r] = requests[r]
    BY <1>1, <2>2 DEF AInv, ActsOK
  <2> QED
    BY <2>1, <2>2
<1> QED
  BY <1>3, <1>4, <1>5, <1>6, <1>7, <1>8 DEF Shrink

\* An invitation is made by an admin, hence into an institute with users.
LEMMA CreateUserShrinks ==
  ASSUME IInv, AInv, NEW r \in Requests, NEW u0 \in Users, CreateUser(r, u0)
  PROVE  Shrink
<1>1. /\ requests[r].pc = "createUser" /\ End(r) /\ UNCHANGED <<tenants, tokens, log>>
      /\ requests[r].actor \in Users
      /\ users[requests[r].actor].tenant = requests[r].tenant
      /\ users \in [Users -> UserDocument \cup {NoUser}]
  BY DEF CreateUser, IInv, RequestOK, DocumentsOK
<1>2. requests'[r] = Idle /\ \A p \in Requests \ {r} : requests'[p] = requests[p]
  BY <1>1, Others DEF End
<1>3. \/ UNCHANGED users
      \/ /\ users[u0] = NoUser /\ users'[u0].tenant = requests[r].tenant
         /\ \A u \in Users \ {u0} : users'[u] = users[u]
  BY <1>1 DEF CreateUser
<1>4. \A t \in Tenants : Peopled(t)' => Peopled(t)
  BY <1>1, <1>3 DEF Peopled
<1> QED
  BY <1>1, <1>2, <1>3, <1>4, UserWritesShrink

LEMMA SaveUserShrinks ==
  ASSUME IInv, AInv, NEW r \in Requests, SaveUser(r)
  PROVE  Shrink
<1> DEFINE u0 == requests[r].user
<1>1. /\ requests[r].pc = "saveUser" /\ End(r) /\ UNCHANGED <<tenants, log>>
      /\ u0 \in Users /\ users[u0].tenant \in Tenants
      /\ users' = [users EXCEPT ![u0] = Accepted(users[u0])]
      /\ tokens' = tokens \cup issueTenantTokens(u0, requests[r].tenant, None)
      /\ users \in [Users -> UserDocument \cup {NoUser}]
  BY DEF SaveUser, IInv, RequestOK, DocumentsOK
<1>2. requests'[r] = Idle /\ \A p \in Requests \ {r} : requests'[p] = requests[p]
  BY <1>1, Others DEF End
<1>3. users[u0] \in UserDocument
  BY <1>1, Absences, AccountsAssumption
<1>4. /\ users'[u0].tenant = users[u0].tenant /\ users'[u0].role = users[u0].role
      /\ users'[u0].status = "ACTIVE"
      /\ \A u \in Users \ {u0} : users'[u] = users[u]
  BY <1>1, <1>3 DEF Accepted, UserDocument, ActiveUser, InvitedUser
<1>5. \A t \in Tenants : Peopled(t)' => Peopled(t)
  BY <1>4 DEF Peopled
<1>6. \A k \in tokens' \ tokens : k.by \notin Staff
  BY <1>1, OwnTokens
<1> HIDE DEF u0
<1> QED
  BY <1>1, <1>2, <1>4, <1>5, <1>6, UserWritesShrink

LEMMA InviteExpiresShrinks ==
  ASSUME IInv, AInv, NEW u0 \in Users, InviteExpires(u0)
  PROVE  Shrink
<1>1. /\ users[u0].invite = "open" /\ UNCHANGED <<tenants, tokens, requests, log>>
      /\ users' = [users EXCEPT ![u0].invite = "expired"]
      /\ users \in [Users -> UserDocument \cup {NoUser}]
  BY DEF InviteExpires, IInv, DocumentsOK
<1>2. users[u0] \in UserDocument
  BY <1>1 DEF NoUser
<1>3. /\ users'[u0].tenant = users[u0].tenant /\ users'[u0].role = users[u0].role
      /\ users'[u0].status = users[u0].status
      /\ \A u \in Users \ {u0} : users'[u] = users[u]
  BY <1>1, <1>2 DEF UserDocument, ActiveUser, InvitedUser
<1>4. \A t \in Tenants : Peopled(t)' => Peopled(t)
  BY <1>3 DEF Peopled
<1> QED
  BY <1>1, <1>3, <1>4, UserWritesShrink

\* What a request that ends was about to write.
LEMMA EndForgets ==
  ASSUME IInv, AInv, NEW r \in Requests, End(r), UNCHANGED users
  PROVE  /\ \A t : Creating(t) => Creating(t)' \/ t \in {requests[r].tenant}
         /\ \A t, action : Recording(action, t) =>
              \/ Recording(action, t)'
              \/ requests[r].pc = "record" /\ action = requests[r].action
                 /\ t \in {requests[r].tenant}
         /\ \A p \in Requests : ActsOK(p)'
<1>1. requests'[r] = Idle /\ \A p \in Requests \ {r} : requests'[p] = requests[p]
  BY Others DEF End
<1>2. ActsOK(r)'
  BY <1>1, IdleActs
<1> QED
  BY <1>1, <1>2 DEF Creating, Recording, AInv, ActsOK

\* An impersonation's answer names the impersonator the log has.
LEMMA Answered ==
  ASSUME NEW r \in Requests, NEW k \in Answer(r), k.by \in Staff
  PROVE  /\ k.by = requests[r].actor /\ k.tenant = requests[r].tenant
         /\ requests[r].action = "impersonate"
BY AccountsAssumption DEF Answer, issueTenantTokens, Token

LEMMA RecordShrinks ==
  ASSUME IInv, AInv, NEW r \in Requests, Record(r)
  PROVE  Shrink
<1>1. /\ requests[r].pc = "record" /\ End(r) /\ UNCHANGED <<tenants, users>>
      /\ log' = log \cup {Entry(r)} /\ tokens' = tokens \cup Answer(r)
  BY DEF Record
<1>2. /\ Entry(r).action = requests[r].action /\ Entry(r).tenant = requests[r].tenant
      /\ requests[r].action = "impersonate" =>
           Entry(r) = [actor |-> requests[r].actor, action |-> "impersonate",
                       tenant |-> requests[r].tenant]
  BY DEF Entry
<1>3. \A t, action : action = requests[r].action /\ t \in {requests[r].tenant}
                     => Logged(action, t)'
  BY <1>1, <1>2 DEF Logged
<1>4. /\ \A t : Creating(t) => Creating(t)'
      /\ \A t, action : Recording(action, t) => Recording(action, t)' \/ Logged(action, t)'
      /\ \A p \in Requests : ActsOK(p)'
  <2>1. requests'[r] = Idle /\ \A p \in Requests \ {r} : requests'[p] = requests[p]
    BY <1>1, Others DEF End
  <2> QED
    BY <1>1, <1>3, <2>1, EndForgets DEF Creating
<1>5. LostAdmins' \subseteq LostAdmins \cup {}
  BY <1>1, <1>4, AdminsShrink DEF HasAdmin
<1>6. LostSuspensions' \subseteq LostSuspensions \cup {}
  BY <1>1, <1>4, SuspensionsShrink
<1>7. LostProvisions' \subseteq LostProvisions \cup {}
  BY <1>1, <1>4, ProvisionsShrink DEF Peopled
<1>8. SecretImpersonations' \subseteq SecretImpersonations \cup {}
  <2>1. ASSUME NEW k \in tokens' \ tokens, k.by \in Staff
        PROVE  [actor |-> k.by, action |-> "impersonate", tenant |-> k.tenant] \in log'
    BY <1>1, <1>2, <2>1, Answered
  <2> QED
    BY <1>1, <2>1, ImpersonationsShrink
<1>9. LogOK'
  <2> SUFFICES ASSUME NEW t \in Tenants, Logged("tenant.provision", t)'
               PROVE  \E u \in Users : users[u].tenant = t /\ users[u].role = "ADMIN"
    BY <1>1 DEF LogOK
  <2>1. PICK e \in log' : e.action = "tenant.provision" /\ e.tenant = t
    BY DEF Logged
  <2>2. CASE e \in log
    BY <2>1, <2>2 DEF AInv, LogOK, Logged
  <2>3. CASE e = Entry(r)
    BY <1>1, <1>2, <2>1, <2>3 DEF AInv, ActsOK
  <2> QED
    BY <1>1, <2>2, <2>3
<1> QED
  BY <1>4, <1>5, <1>6, <1>7, <1>8, <1>9 DEF Shrink

\* A request that ends without writing loses its own institute's at the most.
LEMMA Forgotten ==
  ASSUME IInv, AInv, NEW r \in Requests, End(r), UNCHANGED <<tenants, users, log>>
  PROVE  /\ LostAdmins' \subseteq LostAdmins \cup {requests[r].tenant}
         /\ requests[r].pc # "createAdmin" => LostAdmins' \subseteq LostAdmins
         /\ LostSuspensions' \subseteq LostSuspensions \cup {requests[r].tenant}
         /\ LostProvisions' \subseteq LostProvisions \cup {requests[r].tenant}
         /\ LogOK' /\ \A p \in Requests : ActsOK(p)'
<1> DEFINE X == {requests[r].tenant}
<1>1. /\ \A t : Creating(t) => Creating(t)' \/ t \in X
      /\ \A t, action : Recording(action, t) => Recording(action, t)' \/ t \in X
      /\ \A p \in Requests : ActsOK(p)'
  BY EndForgets
<1>2. requests'[r] = Idle /\ \A p \in Requests \ {r} : requests'[p] = requests[p]
  BY Others DEF End
<1> HIDE DEF X
<1>3. LostAdmins' \subseteq LostAdmins \cup X
  BY <1>1, AdminsShrink DEF HasAdmin
<1>4. ASSUME requests[r].pc # "createAdmin" PROVE LostAdmins' \subseteq LostAdmins
  <2>1. \A t : Creating(t) => Creating(t)'
    BY <1>2, <1>4 DEF Creating
  <2>2. LostAdmins' \subseteq LostAdmins \cup {}
    BY <2>1, AdminsShrink DEF HasAdmin
  <2> QED
    BY <2>2
<1>5. LostSuspensions' \subseteq LostSuspensions \cup X
  BY <1>1, SuspensionsShrink
<1>6. LostProvisions' \subseteq LostProvisions \cup X
  BY <1>1, ProvisionsShrink DEF Peopled
<1>7. LogOK'
  BY DEF AInv, LogOK, Logged
<1> QED
  BY <1>1, <1>3, <1>4, <1>5, <1>6, <1>7 DEF X

-----------------------------------------------------------------------------

LEMMA ShrinkKeeps ==
  ASSUME AInv, Shrink, UNCHANGED <<abortsLeft, unloggedLeft>>
  PROVE  AInv'
<1>1. /\ Stops \in Int /\ Failed \in Int /\ Stops + Failed \in Int
      /\ Stops' = Stops /\ Failed' = Failed
  BY AccountsAssumption DEF AInv, Stops, Failed
<1>2. /\ Few(LostAdmins', Stops) /\ Few(LostSuspensions', Stops + Failed)
      /\ Few(LostProvisions', Stops + Failed) /\ Few(SecretImpersonations', Failed)
  BY <1>1, FewSame DEF AInv, Shrink
<1>3. \A S, n : Few(S, n) <=> IsFiniteSet(S) /\ Cardinality(S) <= n
  BY DEF Few
<1> QED
  BY <1>1, <1>2 DEF AInv, Shrink, Few

LEMMA AbortKeeps ==
  ASSUME IInv, AInv, NEW r \in Requests, Abort(r)
  PROVE  AInv'
<1>1. /\ End(r) /\ UNCHANGED <<tenants, users, tokens, log, unloggedLeft>>
      /\ abortsLeft' = abortsLeft - 1 /\ abortsLeft \in Int /\ unloggedLeft \in Int
  BY DEF Abort, AInv
<1>2. /\ Stops \in Int /\ Failed \in Int /\ Stops + Failed \in Int
      /\ Stops' = Stops + 1 /\ Failed' = Failed /\ Stops' + Failed' = (Stops + Failed) + 1
      /\ abortsLeft' \in Int
  BY <1>1, AccountsAssumption DEF Stops, Failed
<1>3. /\ Few(LostAdmins', Stops + 1) /\ Few(LostSuspensions', (Stops + Failed) + 1)
      /\ Few(LostProvisions', (Stops + Failed) + 1)
  <2>1. /\ LostAdmins' \subseteq LostAdmins \cup {requests[r].tenant}
        /\ LostSuspensions' \subseteq LostSuspensions \cup {requests[r].tenant}
        /\ LostProvisions' \subseteq LostProvisions \cup {requests[r].tenant}
    BY <1>1, Forgotten
  <2> QED
    BY <1>2, <2>1, FewMore DEF AInv
<1>4. SecretImpersonations' = SecretImpersonations
  BY <1>1 DEF SecretImpersonations
<1>5. LogOK' /\ \A p \in Requests : ActsOK(p)'
  BY <1>1, Forgotten
<1> QED
  BY <1>1, <1>2, <1>3, <1>4, <1>5 DEF AInv, Few

LEMMA RecordFailsKeeps ==
  ASSUME IInv, AInv, NEW r \in Requests, RecordFails(r)
  PROVE  AInv'
<1>1. /\ requests[r].pc = "record" /\ End(r) /\ tokens' = tokens \cup Answer(r)
      /\ UNCHANGED <<tenants, users, log, abortsLeft>>
      /\ unloggedLeft' = unloggedLeft - 1 /\ abortsLeft \in Int /\ unloggedLeft \in Int
  BY DEF RecordFails, AInv
<1>2. /\ Stops \in Int /\ Failed \in Int /\ Stops + Failed \in Int
      /\ Stops' = Stops /\ Failed' = Failed + 1 /\ Stops' + Failed' = (Stops + Failed) + 1
      /\ unloggedLeft' \in Int
  BY <1>1, AccountsAssumption DEF Stops, Failed
<1>3. Few(LostAdmins', Stops)
  BY <1>1, <1>2, Forgotten, FewSame DEF AInv
<1>4. /\ Few(LostSuspensions', (Stops + Failed) + 1)
      /\ Few(LostProvisions', (Stops + Failed) + 1)
  <2>1. /\ LostSuspensions' \subseteq LostSuspensions \cup {requests[r].tenant}
        /\ LostProvisions' \subseteq LostProvisions \cup {requests[r].tenant}
    BY <1>1, Forgotten
  <2> QED
    BY <1>2, <2>1, FewMore DEF AInv
<1>5. SecretImpersonations'
        \subseteq SecretImpersonations \cup {<<requests[r].actor, requests[r].tenant>>}
  <2>1. ASSUME NEW k \in tokens' \ tokens, k.by \in Staff
        PROVE  <<k.by, k.tenant>> \in {<<requests[r].actor, requests[r].tenant>>}
    BY <1>1, <2>1, Answered
  <2> QED
    BY <1>1, <2>1, ImpersonationsShrink
<1>6. Few(SecretImpersonations', Failed + 1)
  BY <1>2, <1>5, FewMore DEF AInv
<1>7. LogOK' /\ \A p \in Requests : ActsOK(p)'
  BY <1>1, Forgotten
<1> QED
  BY <1>1, <1>2, <1>3, <1>4, <1>6, <1>7 DEF AInv, Few

LEMMA StepAInv == ASSUME IInv, AInv, [Next]_vars PROVE AInv'
<1>1. CASE UNCHANGED vars
  <2>1. /\ UNCHANGED <<abortsLeft, unloggedLeft>>
        /\ \A r \in Requests : requests'[r] = requests[r]
        /\ UNCHANGED <<tenants, users, log, tokens>>
    BY <1>1 DEF vars, budgets
  <2> QED
    BY <2>1, QuietShrinks, ShrinkKeeps
<1>2. CASE \/ \E s \in Staff : PlatformLogin(s)
           \/ \E k \in tokens : PlatformRefresh(k) \/ Refresh(k)
  <2>1. UNCHANGED <<abortsLeft, unloggedLeft>>
    BY <1>2 DEF PlatformLogin, PlatformRefresh, Refresh, budgets
  <2> QED
    BY <1>2, <2>1, TokenStepsShrink, ShrinkKeeps
<1>3. CASE \E u \in Users : InviteExpires(u)
  BY <1>3, InviteExpiresShrinks, ShrinkKeeps DEF InviteExpires, budgets
<1>4. ASSUME NEW r \in Requests, NEW k \in tokens,
             \/ \E sub \in Subdomains : StartProvision(r, k, sub)
             \/ \E t \in Tenants, flag \in Flags, value \in FlagValues :
                  StartFlags(r, k, t, flag, value)
             \/ \E t \in Tenants : StartImpersonate(r, k, t)
             \/ Overview(r, k)
             \/ \E email \in Emails, role \in {"ADMIN", "STUDENT"} :
                  StartInvite(r, k, email, role)
      PROVE  AInv'
  <2>1. UNCHANGED <<abortsLeft, unloggedLeft>>
    BY <1>4 DEF StartProvision, StartFlags, StartImpersonate, Overview, StartInvite
  <2>2. Shrink
    BY <1>4, StartsShrink
  <2> QED
    BY <2>1, <2>2, ShrinkKeeps
<1>5. ASSUME NEW r \in Requests,
             \/ \E t \in Tenants : StartLogin(r, t)
             \/ \E t \in Tenants, u \in Users : StartAccept(r, t, u)
      PROVE  AInv'
  <2>1. UNCHANGED <<abortsLeft, unloggedLeft>>
    BY <1>5 DEF StartLogin, StartAccept
  <2>2. Shrink
    BY <1>5, StartsShrink
  <2> QED
    BY <2>1, <2>2, ShrinkKeeps
<1>6. ASSUME NEW r \in Requests, NEW k \in tokens, NEW t \in Tenants,
             NEW status \in {"ACTIVE", "SUSPENDED", "PENDING"}, SetStatus(r, k, t, status)
      PROVE  AInv'
  BY <1>6, SetStatusShrinks, ShrinkKeeps DEF SetStatus
<1>7. ASSUME NEW r \in Requests,
             \/ CountUsers(r) \/ LoginRefused(r) \/ FindAdmin(r)
             \/ \E u \in Users : FindUser(r, u)
      PROVE  AInv'
  <2>1. UNCHANGED <<abortsLeft, unloggedLeft>>
    BY <1>7 DEF CountUsers, LoginRefused, FindAdmin, FindUser, budgets
  <2>2. Shrink
    BY <1>7, LookupsShrink
  <2> QED
    BY <2>1, <2>2, ShrinkKeeps
<1>8. ASSUME NEW r \in Requests,
             \/ SaveFlags(r) \/ SaveUser(r) \/ Record(r)
             \/ \E t \in Tenants : CreateTenant(r, t)
             \/ \E u \in Users, email \in Emails : CreateAdmin(r, u, email)
             \/ \E u \in Users : CreateUser(r, u)
      PROVE  AInv'
  <2>1. UNCHANGED <<abortsLeft, unloggedLeft>>
    BY <1>8 DEF SaveFlags, SaveUser, Record, CreateTenant, CreateAdmin, CreateUser, budgets
  <2>2. Shrink
    BY <1>8, FlagsShrink, SaveUserShrinks, RecordShrinks, CreateTenantShrinks,
       CreateAdminShrinks, CreateUserShrinks
  <2> QED
    BY <2>1, <2>2, ShrinkKeeps
<1>9. ASSUME NEW r \in Requests, RecordFails(r) \/ Abort(r)
      PROVE  AInv'
  BY <1>9, RecordFailsKeeps, AbortKeeps
<1> QED
  BY <1>1, <1>2, <1>3, <1>4, <1>5, <1>6, <1>7, <1>8, <1>9 DEF Next

LEMMA MissingHolds == Spec => []AInv
<1>1. Init => AInv
  BY InitAInv
<1>2. IInv /\ AInv /\ [Next]_vars => AInv'
  BY StepAInv
<1> QED
  BY <1>1, <1>2, InvariantHolds, PTL DEF Spec

\* With finitely many requests at a time, institutes without an admin are no more
\* than provisionings that stopped or are under way.
THEOREM AdminsThere == ASSUME IsFiniteSet(Requests) PROVE Spec => []TenantsHaveAdmin
<1>1. AInv => TenantsHaveAdmin
  BY AInvImplies
<1> QED
  BY <1>1, MissingHolds, PTL

\* With finitely many requests at a time, what the log lacks is no more than
\* stops, failed writes and requests under way account for.
THEOREM Audited == ASSUME IsFiniteSet(Requests) PROVE Spec => []AuditTrail
<1>1. AInv => AuditTrail
  BY AInvImplies
<1> QED
  BY <1>1, MissingHolds, PTL
=============================================================================

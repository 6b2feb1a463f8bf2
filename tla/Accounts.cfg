SPECIFICATION Spec
CONSTANTS
  Tenants = {t1, t2}
  Users = {u1, u2, u3}
  Subdomains = {sub1, sub2}
  Emails = {e1, e2}
  Flags = {f1}
  FlagValues = {"on"}
  Staff = {owner, support}
  Owners = {owner}
  Requests = {r1, r2}
  SecretOf <- MCSecretOf
  MaxRequests = 5
  MaxAborts = 1
  MaxUnlogged = 1
  None = None
SYMMETRY MCSymmetry
INVARIANTS
  TypeOK
  NamesAreUnique
  TenantsHaveAdmin
  TokensAreGenuine
  NoStandingImpersonation
  RealmsSeparate
  AuditTrail
PROPERTIES
  SuspensionHolds

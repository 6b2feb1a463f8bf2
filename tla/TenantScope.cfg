SPECIFICATION Spec
CONSTANTS
  Tenants = {t1, t2}
  Docs = {d1, d2}
  Values = {v1}
  Requests = {r1, r2}
  None = None
SYMMETRY MCSymmetry
INVARIANTS
  TypeOK
PROPERTIES
  IsolatedSpec
  TenantIsForever
VIEW MCView

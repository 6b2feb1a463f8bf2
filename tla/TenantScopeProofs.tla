-------------------------- MODULE TenantScopeProofs --------------------------
(***************************************************************************)
(* Isolation for any number of tenants, documents, values and requests,    *)
(* with every operation Mongoose offers.  An operation of a request writes *)
(* the documents it matched and no others (Operates), and when the plugin  *)
(* had a say in it, acts for the tenants they are and become of (Guarded); *)
(* all theorems follow from that alone.                                    *)
(***************************************************************************)
EXTENDS TenantScope, TLAPS

\* Request r reads and writes documents in S only, and those whose tenantId no
\* update has named keep their tenant, in the collection and in memory.
Operates(r, S) ==
  /\ ctx' = ctx
  /\ store' \in [Docs -> Document]
  /\ \A d \in Docs \ S : store'[d] = store[d]
  /\ overwritten \subseteq overwritten' /\ overwritten' \subseteq Docs
  /\ \A d \in S \ overwritten' : /\ store'[d].tenant \in Tenants
                                 /\ d \in Fresh \/ store'[d].tenant = store[d].tenant
  /\ op'.by = r /\ op'.docs = S
  /\ op' \in [by : Requests, docs : SUBSET Docs, scoped : BOOLEAN]

\* What requests hold of such documents is of the documents' tenants.
Keeps ==
  /\ held' \in [Requests -> [Docs -> Document]]
  /\ \A q \in Requests, d \in Docs \ overwritten' :
       \/ held'[q][d] = held[q][d]
       \/ store'[d].tenant \in Tenants /\ held'[q][d].tenant = store'[d].tenant

\* Request r acts for the tenants that documents in S have, or get.
Guarded(r, S) ==
  \/ ctx[r].bypass
  \/ \A d \in S : /\ store[d].tenant \in {ctx[r].tenant, None}
                  /\ store'[d].tenant \in {ctx[r].tenant, None}

Access(r) ==
  /\ \E S \in SUBSET Docs : Operates(r, S) /\ (op'.scoped => Guarded(r, S))
  /\ Keeps

Move(r) ==
  \/ \E t \in Tenants : Run(r, Bound(t))
  \/ Run(r, Bypass) \/ Leave(r) \/ Finish(r)

-----------------------------------------------------------------------------
(* Documents *)

\* A document to be stored.
LEMMA NewDocument ==
  ASSUME NEW t \in Tenants \cup {None}, NEW v \in Values \cup {None}
  PROVE  /\ [tenant |-> t, value |-> v] \in Document
         /\ [tenant |-> t, value |-> v].tenant = t
BY DEF Document

\* An update leaves a document its tenant.
LEMMA NewValue ==
  ASSUME NEW x \in Document, NEW v \in Values \cup {None}
  PROVE  /\ [x EXCEPT !.value = v] \in Document
         /\ [x EXCEPT !.value = v].tenant = x.tenant
BY DEF Document

\* A document that is there, or ever was, is not fresh and has its tenant.
LEMMA Stored ==
  ASSUME TypeOK, NEW d \in Docs
  PROVE  /\ store[d] \in Document
         /\ d \in Present => store[d] # Absent
         /\ d \in Fresh => store[d].tenant = None
         /\ d \notin overwritten /\ d \notin Fresh => store[d].tenant \in Tenants
BY DEF TypeOK, Present, Fresh, Absent

\* What a query can match: documents that are there; when the plugin has a hook
\* for it, of the tenant the request acts for.
LEMMA Matched ==
  ASSUME TypeOK, NEW r \in Requests, NEW query, NEW S \in Matches(r, query)
  PROVE  /\ S \in SUBSET Docs
         /\ \A d \in S : d \in Present
         /\ query \in Hooked => \/ ctx[r].bypass
                                \/ \A d \in S : store[d].tenant = ctx[r].tenant
<1>1. S \subseteq Reach(r, query)
  BY DEF Matches
<1> QED
  BY <1>1 DEF Reach, Present

\* A document that passes validation is stored under a tenant the request acts
\* for, which is the one it was given if it was given one.
LEMMA Stamped ==
  ASSUME TypeOK, NEW r \in Requests, NEW t \in Tenants \cup {None}, Validates(r, t)
  PROVE  /\ Stamp(r, t) \in Tenants
         /\ ctx[r].bypass \/ ctx[r].tenant = Stamp(r, t)
         /\ t # None => Stamp(r, t) = t
BY DEF TypeOK, Context, Validates, Stamp

\* An operation is remembered.
LEMMA Remembered ==
  ASSUME NEW r \in Requests, NEW S \in SUBSET Docs, NEW scoped \in BOOLEAN, Ran(r, S, scoped)
  PROVE  /\ op' \in [by : Requests, docs : SUBSET Docs, scoped : BOOLEAN]
         /\ op'.by = r /\ op'.docs = S /\ op'.scoped = scoped
BY DEF Ran

\* Documents handed out as they are after the operation.
LEMMA HeldAfter ==
  ASSUME TypeOK, NEW r \in Requests, NEW S \in SUBSET Docs,
         store' \in [Docs -> Document], Hold(r, S, store'),
         \A d \in S \ overwritten' : store'[d].tenant \in Tenants
  PROVE  Keeps
BY DEF TypeOK, Hold, Keeps

LEMMA HeldUnchanged == ASSUME TypeOK, UNCHANGED held PROVE Keeps
BY DEF TypeOK, Keeps

-----------------------------------------------------------------------------
(* Every operation is an access *)

LEMMA QueryAccess ==
  ASSUME TypeOK, NEW r \in Requests, NEW query \in Reads, Query(r, query)
  PROVE  Access(r)
<1>1. PICK S \in Matches(r, query) :
        /\ Ran(r, S, query \notin Forgotten)
        /\ IF query \in {"find", "findOne"} THEN Hold(r, S, store) ELSE UNCHANGED held
  BY DEF Query
<1>2. /\ S \in SUBSET Docs
      /\ \A d \in S : d \in Present /\ d \notin Fresh
  BY Matched, Stored DEF Fresh
<1>3. \A d \in S \ overwritten : store[d].tenant \in Tenants
  BY <1>2, Stored
<1>4. Operates(r, S)
  BY <1>1, <1>2, <1>3, Remembered DEF Operates, Query, TypeOK
<1>5. op'.scoped => Guarded(r, S)
  <2>1. op'.scoped => query \in Hooked
    BY <1>1, <1>2, Remembered DEF Reads, Forgotten, Hooked, QUERY_HOOKS
  <2> QED
    BY <2>1, Matched DEF Guarded, Query
<1>6. Keeps
  <2>1. CASE UNCHANGED held
    BY <2>1, HeldUnchanged
  <2>2. CASE Hold(r, S, store)
    BY <1>2, <1>3, <2>2, HeldAfter DEF Query, TypeOK
  <2> QED
    BY <1>1, <2>1, <2>2
<1> QED
  BY <1>2, <1>4, <1>5, <1>6 DEF Access

\* A write of one value to all documents that match, by an operation that has a
\* hook or is one of those forgotten.
LEMMA WriteOperates ==
  ASSUME TypeOK, NEW r \in Requests, NEW query, query \in Hooked \cup Forgotten,
         NEW S \in Matches(r, query), NEW v \in Values \cup {None},
         store' = Written(S, v), Ran(r, S, query \notin Forgotten),
         UNCHANGED <<ctx, overwritten>>
  PROVE  /\ S \in SUBSET Docs /\ Operates(r, S)
         /\ op'.scoped => Guarded(r, S)
         /\ \A d \in S \ overwritten' : store'[d].tenant \in Tenants
<1>1. /\ S \in SUBSET Docs
      /\ \A d \in S : d \in Present /\ d \notin Fresh
  BY Matched, Stored DEF Fresh
<1>2. \A d \in S : store'[d] \in Document /\ store'[d].tenant = store[d].tenant
  <2> SUFFICES ASSUME NEW d \in S
               PROVE  store'[d] \in Document /\ store'[d].tenant = store[d].tenant
    OBVIOUS
  <2>1. store[d] \in Document /\ store'[d] = [store[d] EXCEPT !.value = v]
    BY <1>1, Stored DEF Written
  <2> QED
    BY <2>1, NewValue
<1>3. \A d \in Docs \ S : store'[d] = store[d]
  BY DEF Written
<1>4. store' \in [Docs -> Document]
  <2>1. \A d \in Docs : store'[d] \in Document
    BY <1>2, <1>3, Stored
  <2> QED
    BY <2>1 DEF Written
<1>5. \A d \in S \ overwritten' : store'[d].tenant \in Tenants
  BY <1>1, <1>2, Stored
<1>6. Operates(r, S)
  BY <1>1, <1>2, <1>3, <1>4, <1>5, Remembered DEF Operates, TypeOK
<1>7. op'.scoped => Guarded(r, S)
  <2>1. op'.scoped => query \in Hooked
    BY <1>1, Remembered
  <2> QED
    BY <1>2, <2>1, Matched DEF Guarded
<1> QED
  BY <1>1, <1>5, <1>6, <1>7

LEMMA UpdateAccess ==
  ASSUME TypeOK, NEW r \in Requests, NEW query \in Updates, NEW v \in Values,
         Update(r, query, v)
  PROVE  Access(r)
<1>1. PICK S \in Matches(r, query) :
        /\ store' = Written(S, v)
        /\ Ran(r, S, query \notin Forgotten)
        /\ IF query = "findOneAndUpdate" THEN Hold(r, S, store') ELSE UNCHANGED held
  BY DEF Update
<1>2. query \in Hooked \cup Forgotten
  BY DEF Updates, Hooked, QUERY_HOOKS, Forgotten
<1>3. /\ S \in SUBSET Docs /\ Operates(r, S)
      /\ op'.scoped => Guarded(r, S)
      /\ \A d \in S \ overwritten' : store'[d].tenant \in Tenants
  BY <1>1, <1>2, WriteOperates DEF Update
<1>4. Keeps
  <2>1. CASE UNCHANGED held
    BY <2>1, HeldUnchanged
  <2>2. CASE Hold(r, S, store')
    BY <1>3, <2>2, HeldAfter DEF Operates
  <2> QED
    BY <1>1, <2>1, <2>2
<1> QED
  BY <1>3, <1>4 DEF Access

LEMMA DeleteAccess ==
  ASSUME TypeOK, NEW r \in Requests, NEW query \in Deletes, Delete(r, query)
  PROVE  Access(r)
<1>1. PICK S \in Matches(r, query) : /\ store' = Written(S, None)
                                     /\ Ran(r, S, query \notin Forgotten)
  BY DEF Delete
<1>2. query \in Hooked \cup Forgotten
  BY DEF Deletes, Hooked, QUERY_HOOKS, Forgotten
<1>3. /\ S \in SUBSET Docs /\ Operates(r, S)
      /\ op'.scoped => Guarded(r, S)
  BY <1>1, <1>2, WriteOperates DEF Delete
<1>4. Keeps
  BY HeldUnchanged DEF Delete
<1> QED
  BY <1>3, <1>4 DEF Access

\* An update that names the tenantId takes the documents it matches out of the
\* plugin's care; it stays within the plugin's scope when the tenant it names
\* is the one the request acts for.
LEMMA OverwriteAccess ==
  ASSUME TypeOK, NEW r \in Requests, NEW query \in Updates \cup Replacements,
         NEW t \in Tenants \cup {None}, NEW v \in Values, Overwrite(r, query, t, v)
  PROVE  Access(r)
<1>1. PICK S \in Matches(r, query) :
        /\ store' = [d \in Docs |-> IF d \in S THEN [tenant |-> t, value |-> v] ELSE store[d]]
        /\ overwritten' = overwritten \cup S
        /\ Ran(r, S, /\ query \notin Forgotten
                     /\ ctx[r].bypass \/ t \in {ctx[r].tenant, None})
        /\ IF query \in {"findOneAndUpdate", "findOneAndReplace"}
           THEN Hold(r, S, store') ELSE UNCHANGED held
  BY DEF Overwrite
<1> DEFINE scoped == /\ query \notin Forgotten
                     /\ ctx[r].bypass \/ t \in {ctx[r].tenant, None}
<1>2. S \in SUBSET Docs /\ S \ overwritten' = {}
  BY <1>1, Matched
<1>3. \A d \in S : store'[d] \in Document /\ store'[d].tenant = t
  <2> SUFFICES ASSUME NEW d \in S PROVE store'[d] \in Document /\ store'[d].tenant = t
    OBVIOUS
  <2>1. store'[d] = [tenant |-> t, value |-> v]
    BY <1>1, <1>2
  <2> QED
    BY <2>1, NewDocument
<1>4. store' \in [Docs -> Document]
  <2>1. \A d \in Docs : store'[d] \in Document
    BY <1>1, <1>3, Stored
  <2> QED
    BY <1>1, <2>1
<1>5. /\ op' \in [by : Requests, docs : SUBSET Docs, scoped : BOOLEAN]
      /\ op'.by = r /\ op'.docs = S /\ op'.scoped = scoped
  <2>1. scoped \in BOOLEAN /\ Ran(r, S, scoped)
    BY <1>1 DEF TypeOK, Context
  <2> HIDE DEF scoped
  <2> QED
    BY <1>2, <2>1, Remembered
<1>6. Operates(r, S)
  BY <1>1, <1>2, <1>4, <1>5 DEF Operates, Overwrite, TypeOK
<1>7. op'.scoped => Guarded(r, S)
  <2> SUFFICES ASSUME scoped, ~ ctx[r].bypass PROVE Guarded(r, S)
    BY <1>5 DEF Guarded
  <2>1. query \in Hooked
    BY DEF Updates, Replacements, Hooked, QUERY_HOOKS, Forgotten
  <2>2. \A d \in S : store[d].tenant = ctx[r].tenant
    BY <2>1, Matched
  <2>3. t \in {ctx[r].tenant, None}
    OBVIOUS
  <2> QED
    BY <1>3, <2>2, <2>3 DEF Guarded
<1>8. Keeps
  <2>1. CASE UNCHANGED held
    BY <2>1, HeldUnchanged
  <2>2. CASE Hold(r, S, store')
    BY <1>2, <1>4, <2>2, HeldAfter
  <2> QED
    BY <1>1, <2>1, <2>2
<1> QED
  BY <1>2, <1>6, <1>7, <1>8 DEF Access

\* New documents, all of one tenant the request acts for.
LEMMA InsertOperates ==
  ASSUME TypeOK, NEW r \in Requests, NEW S \in SUBSET Fresh,
         NEW t \in Tenants, NEW v \in Values, ctx[r].bypass \/ ctx[r].tenant = t,
         store' = [d \in Docs |-> IF d \in S THEN [tenant |-> t, value |-> v] ELSE store[d]],
         Ran(r, S, TRUE), UNCHANGED <<ctx, overwritten>>
  PROVE  /\ S \in SUBSET Docs /\ Operates(r, S) /\ Guarded(r, S)
         /\ \A d \in S \ overwritten' : store'[d].tenant \in Tenants
<1>1. S \in SUBSET Docs
  BY DEF Fresh
<1>2. \A d \in S : store'[d] \in Document /\ store'[d].tenant = t
  <2> SUFFICES ASSUME NEW d \in S PROVE store'[d] \in Document /\ store'[d].tenant = t
    OBVIOUS
  <2>1. store'[d] = [tenant |-> t, value |-> v]
    BY <1>1
  <2> QED
    BY <2>1, NewDocument
<1>3. store' \in [Docs -> Document]
  <2>1. \A d \in Docs : store'[d] \in Document
    BY <1>2, Stored
  <2> QED
    BY <2>1
<1>4. Operates(r, S)
  BY <1>1, <1>2, <1>3, Remembered DEF Operates, TypeOK
<1>5. Guarded(r, S)
  BY <1>1, <1>2, Stored DEF Guarded
<1> QED
  BY <1>1, <1>2, <1>4, <1>5

LEMMA UpsertAccess ==
  ASSUME TypeOK, NEW r \in Requests, NEW d \in Docs, NEW v \in Values, Upsert(r, d, v)
  PROVE  Access(r)
<1>1. ctx[r].tenant \in Tenants /\ {d} \in SUBSET Fresh
  BY DEF Upsert, TypeOK, Context
<1>2. store' = [e \in Docs |-> IF e \in {d} THEN [tenant |-> ctx[r].tenant, value |-> v]
                                             ELSE store[e]]
  BY DEF Upsert, TypeOK
<1>3. {d} \in SUBSET Docs /\ Operates(r, {d}) /\ Guarded(r, {d})
  <2>1. Ran(r, {d}, TRUE) /\ UNCHANGED <<ctx, overwritten>>
    BY DEF Upsert
  <2> QED
    BY <1>1, <1>2, <2>1, InsertOperates
<1>4. Keeps
  BY HeldUnchanged DEF Upsert
<1> QED
  BY <1>3, <1>4 DEF Access

LEMMA InsertManyAccess ==
  ASSUME TypeOK, NEW r \in Requests, NEW S \in SUBSET Docs, NEW t \in Tenants \cup {None},
         NEW v \in Values, InsertMany(r, S, t, v)
  PROVE  Access(r)
<1>1. /\ Stamp(r, t) \in Tenants
      /\ ctx[r].bypass \/ ctx[r].tenant = Stamp(r, t)
  BY DEF InsertMany, Validates, Stamp, TypeOK, Context
<1>2. /\ S \in SUBSET Docs /\ Operates(r, S) /\ Guarded(r, S)
      /\ \A d \in S \ overwritten' : store'[d].tenant \in Tenants
  BY <1>1, InsertOperates DEF InsertMany
<1>3. Keeps
  BY <1>2, HeldAfter DEF InsertMany, Operates
<1> QED
  BY <1>2, <1>3 DEF Access

LEMMA CreateAccess ==
  ASSUME TypeOK, NEW r \in Requests, NEW d \in Docs, NEW t \in Tenants \cup {None},
         NEW v \in Values, Create(r, d, t, v)
  PROVE  Access(r)
<1>1. /\ Stamp(r, t) \in Tenants
      /\ ctx[r].bypass \/ ctx[r].tenant = Stamp(r, t)
  BY Stamped DEF Create
<1>2. store' = [e \in Docs |-> IF e \in {d} THEN [tenant |-> Stamp(r, t), value |-> v]
                                             ELSE store[e]]
  BY DEF Create, TypeOK
<1>3. /\ {d} \in SUBSET Docs /\ Operates(r, {d}) /\ Guarded(r, {d})
      /\ \A e \in {d} \ overwritten' : store'[e].tenant \in Tenants
  <2>1. {d} \in SUBSET Fresh /\ Ran(r, {d}, TRUE) /\ UNCHANGED <<ctx, overwritten>>
    BY DEF Create
  <2> QED
    BY <1>1, <1>2, <2>1, InsertOperates
<1>4. Keeps
  BY <1>3, HeldAfter DEF Create, Operates
<1> QED
  BY <1>3, <1>4 DEF Access

\* A held document that no update named the tenantId of is of the stored one's
\* tenant, so saving it by its id touches that tenant's document alone.
LEMMA SaveAccess ==
  ASSUME TypeOK, NEW r \in Requests, NEW d \in Docs, NEW v \in Values, Save(r, d, v)
  PROVE  Access(r)
<1> DEFINE t == held[r][d].tenant
<1>1. /\ held[r][d] \in Document /\ t \in Tenants \cup {None}
      /\ store[d] \in Document /\ store[d].tenant \in Tenants \cup {None}
      /\ store[d].value \in Values \cup {None}
  BY DEF TypeOK, Document
<1>2. /\ Stamp(r, t) \in Tenants
      /\ ctx[r].bypass \/ ctx[r].tenant = Stamp(r, t)
      /\ t # None => Stamp(r, t) = t
  BY <1>1, Stamped DEF Save
<1>3. /\ Changed(r, d, v) \in Document
      /\ Changed(r, d, v).tenant = Stamp(r, t) /\ Changed(r, d, v).value = v
  BY <1>2 DEF Changed, Document
<1>4. /\ Saved(r, d, v) \in Document
      /\ Saved(r, d, v).tenant = IF Stamp(r, t) = t THEN store[d].tenant ELSE Stamp(r, t)
  BY <1>1, <1>2, <1>3 DEF Saved, Document
<1>5. /\ store'[d] = Saved(r, d, v)
      /\ \A e \in Docs \ {d} : store'[e] = store[e]
      /\ store' \in [Docs -> Document]
  BY <1>4 DEF Save, TypeOK
<1>6. d \notin overwritten =>
        /\ t = store[d].tenant /\ t \in Tenants
        /\ store'[d].tenant = t
  BY <1>2, <1>4, <1>5, TenantScopeAssumption DEF Save, TypeOK
<1>7. /\ op' \in [by : Requests, docs : SUBSET Docs, scoped : BOOLEAN]
      /\ op'.by = r /\ op'.docs = {d} /\ op'.scoped = (d \notin overwritten)
  BY Remembered DEF Save
<1>8. Operates(r, {d})
  BY <1>5, <1>6, <1>7 DEF Operates, Save, TypeOK
<1>9. op'.scoped => Guarded(r, {d})
  BY <1>2, <1>6, <1>7, TenantScopeAssumption DEF Guarded
<1>10. Keeps
  <2>1. /\ held' \in [Requests -> [Docs -> Document]]
        /\ held'[r][d] = Changed(r, d, v)
        /\ \A q \in Requests, e \in Docs : q # r \/ e # d => held'[q][e] = held[q][e]
    BY <1>3 DEF Save, TypeOK
  <2>2. d \notin overwritten' => /\ store'[d].tenant \in Tenants
                                 /\ held'[r][d].tenant = store'[d].tenant
    BY <1>2, <1>3, <1>6, <2>1, TenantScopeAssumption DEF Save
  <2> QED
    BY <2>1, <2>2 DEF Keeps
<1> QED
  BY <1>8, <1>9, <1>10 DEF Access

\* A step of the collection is an access by a request, or it moves a request
\* between contexts or ends it.
LEMMA Steps ==
  ASSUME TypeOK, Next
  PROVE  \E r \in Requests : Access(r) \/ Move(r)
<1>1. PICK r \in Requests :
        \/ Move(r)
        \/ \E query \in Reads : Query(r, query)
        \/ \E query \in Updates, v \in Values : Update(r, query, v)
        \/ \E query \in Updates \cup Replacements, t \in Tenants \cup {None}, v \in Values :
             Overwrite(r, query, t, v)
        \/ \E query \in Deletes : Delete(r, query)
        \/ \E d \in Docs, v \in Values :
             \/ Upsert(r, d, v) \/ Save(r, d, v)
             \/ \E t \in Tenants \cup {None} : Create(r, d, t, v)
        \/ \E S \in SUBSET Docs \ {{}}, t \in Tenants \cup {None}, v \in Values :
             InsertMany(r, S, t, v)
  BY DEF Next, Move
<1> QED
  BY <1>1, QueryAccess, UpdateAccess, OverwriteAccess, DeleteAccess, UpsertAccess,
     SaveAccess, CreateAccess, InsertManyAccess

-----------------------------------------------------------------------------
(* Types *)

LEMMA InitTypes == Init => TypeOK
BY DEF Init, TypeOK, Context, NoContext, Document, Absent, NoOp

LEMMA AccessTypes ==
  ASSUME TypeOK, NEW r \in Requests, Access(r)
  PROVE  TypeOK'
<1>1. PICK S \in SUBSET Docs : Operates(r, S) /\ Keeps
  BY DEF Access
<1>2. ASSUME NEW d \in Docs \ overwritten', store'[d] # Absent
      PROVE  store'[d].tenant \in Tenants
  <2>1. CASE d \in S
    BY <1>1, <2>1 DEF Operates
  <2>2. CASE d \notin S
    BY <1>1, <1>2, <2>2 DEF Operates, TypeOK
  <2> QED
    BY <2>1, <2>2
<1>3. ASSUME NEW q \in Requests, NEW d \in Docs \ overwritten', held'[q][d] # Absent
      PROVE  store'[d] # Absent /\ held'[q][d].tenant = store'[d].tenant
  <2>1. CASE held'[q][d] = held[q][d]
    <3>1. d \notin overwritten
      BY <1>1, <1>3 DEF Operates
    <3>2. store[d] # Absent /\ held[q][d].tenant = store[d].tenant
      BY <1>3, <2>1, <3>1 DEF TypeOK
    <3>3. store[d].tenant \in Tenants /\ d \notin Fresh
      BY <3>1, <3>2 DEF TypeOK, Fresh
    <3>4. store'[d].tenant = store[d].tenant
      BY <1>1, <3>3 DEF Operates
    <3> QED
      BY <2>1, <3>2, <3>3, <3>4, TenantScopeAssumption DEF Absent
  <2>2. CASE store'[d].tenant \in Tenants /\ held'[q][d].tenant = store'[d].tenant
    BY <2>2, TenantScopeAssumption DEF Absent
  <2> QED
    BY <1>1, <2>1, <2>2 DEF Keeps
<1>4. /\ store' \in [Docs -> Document] /\ ctx' \in [Requests -> Context]
      /\ held' \in [Requests -> [Docs -> Document]]
      /\ overwritten' \subseteq Docs
  BY <1>1 DEF Operates, Keeps, TypeOK
<1>5. op' \in [by : Requests \cup {None}, docs : SUBSET Docs, scoped : BOOLEAN]
  BY <1>1 DEF Operates
<1> QED
  BY <1>2, <1>3, <1>4, <1>5 DEF TypeOK

LEMMA MoveTypes ==
  ASSUME TypeOK, NEW r \in Requests, Move(r)
  PROVE  TypeOK'
<1>1. store' = store /\ overwritten' = overwritten /\ op' = NoOp
  BY DEF Move, Run, Leave, Finish
<1>2. ctx' \in [Requests -> Context]
  <2>1. PICK c \in Context : ctx' = [ctx EXCEPT ![r] = c] \/ ctx' = ctx
    <3>1. /\ \A t \in Tenants : Bound(t) \in Context
          /\ Bypass \in Context /\ NoContext \in Context
      BY DEF Context, Bound, Bypass, NoContext
    <3> QED
      BY <3>1 DEF Move, Run, Leave, Finish
  <2> QED
    BY <2>1 DEF TypeOK
<1>3. NoOp \in [by : Requests \cup {None}, docs : SUBSET Docs, scoped : BOOLEAN]
  BY DEF NoOp
<1>4. /\ held' \in [Requests -> [Docs -> Document]]
      /\ \A q \in Requests, d \in Docs : held'[q][d] = held[q][d] \/ held'[q][d] = Absent
  <2>1. CASE UNCHANGED held
    BY <2>1 DEF TypeOK
  <2>2. CASE Finish(r)
    <3>1. Absent \in Document
      BY DEF Absent, Document
    <3> QED
      BY <2>2, <3>1 DEF Finish, TypeOK
  <2> QED
    BY <2>1, <2>2 DEF Move, Run, Leave
<1> QED
  BY <1>1, <1>2, <1>3, <1>4 DEF TypeOK

\* Types; a document has a tenant, and what a request holds is of the tenant the
\* document has, unless an update named its tenantId.
THEOREM TypeCorrect == Spec => []TypeOK
<1>1. TypeOK /\ [Next]_vars => TypeOK'
  <2> SUFFICES ASSUME TypeOK, [Next]_vars PROVE TypeOK'
    OBVIOUS
  <2>1. CASE Next
    BY <2>1, Steps, AccessTypes, MoveTypes
  <2>2. CASE UNCHANGED vars
    BY <2>2 DEF vars, TypeOK
  <2> QED
    BY <2>1, <2>2
<1> QED
  BY <1>1, InitTypes, PTL DEF Spec

-----------------------------------------------------------------------------
(* Tenants are for ever *)

LEMMA StepForever ==
  ASSUME TypeOK, [Next]_vars
  PROVE  \A d \in Docs \ (Fresh \cup overwritten') : store'[d].tenant = store[d].tenant
<1>1. ASSUME NEW r \in Requests, Access(r)
      PROVE  \A d \in Docs \ (Fresh \cup overwritten') : store'[d].tenant = store[d].tenant
  BY <1>1 DEF Access, Operates
<1>2. ASSUME NEW r \in Requests, Move(r) PROVE store' = store
  BY <1>2 DEF Move, Run, Leave, Finish
<1> QED
  BY <1>1, <1>2, Steps DEF vars

\* A document stays with the tenant it was created for unless an update names
\* its tenantId, whatever context the requests that hold it save it in and
\* whatever the operations without a hook do.
THEOREM Forever == Spec => TenantIsForever
BY TypeCorrect, StepForever, PTL DEF Spec, TenantIsForever

-----------------------------------------------------------------------------
(* Isolation *)

LEMMA InitIsolated == Init => \A t \in Tenants : Only(t)!Init
BY TenantScopeAssumption DEF Init, Only!Init, Only!Silence, ContentOf, ActingFor, AnswersOf,
   Absent, NoContext, NoOp

LEMMA AccessIsolated ==
  ASSUME TypeOK, NEW r \in Requests, Access(r), op'.scoped, NEW t \in Tenants
  PROVE  Only(t)!Next
<1>1. PICK S \in SUBSET Docs : Operates(r, S) /\ Guarded(r, S)
  BY DEF Access
<1>2. ActingFor(t)' = ActingFor(t)
  BY <1>1 DEF Operates, ActingFor
<1> DEFINE read == { d \in S : store'[d].tenant = t }
<1>3. AnswersOf(t)' = [Only(t)!Silence EXCEPT ![r] = read]
  BY <1>1 DEF Operates, AnswersOf, Only!Silence
<1>4. CASE r \in ActingFor(t)
  <2>1. ContentOf(t)' \in [Docs -> Values \cup {None}]
    BY <1>1 DEF Operates, ContentOf, Document
  <2>2. Only(t)!Access(r)
    BY <1>2, <1>3, <1>4, <2>1 DEF Only!Access
  <2> QED
    BY <2>2 DEF Only!Next
<1>5. CASE r \notin ActingFor(t)
  <2>1. \A d \in S : store[d].tenant # t /\ store'[d].tenant # t
    BY <1>1, <1>5, TenantScopeAssumption DEF Guarded, ActingFor
  <2>2. ContentOf(t)' = ContentOf(t)
    BY <1>1, <2>1 DEF Operates, ContentOf
  <2>3. AnswersOf(t)' = Only(t)!Silence
    BY <1>3, <2>1 DEF Only!Silence
  <2> QED
    BY <1>2, <2>2, <2>3 DEF Only!Next, Only!Elsewhere
<1> QED
  BY <1>4, <1>5

LEMMA MoveIsolated ==
  ASSUME TypeOK, NEW r \in Requests, Move(r), NEW t \in Tenants
  PROVE  Only(t)!Next
<1>1. ContentOf(t)' = ContentOf(t)
  BY DEF Move, Run, Leave, Finish, ContentOf
<1>2. AnswersOf(t)' = Only(t)!Silence
  BY DEF Move, Run, Leave, Finish, AnswersOf, NoOp, Only!Silence
<1>3. ASSUME ActingFor(t)' = ActingFor(t)
      PROVE  Only(t)!Next
  BY <1>1, <1>2, <1>3 DEF Only!Next, Only!Elsewhere
<1>4. ASSUME NEW c \in Context, Run(r, c)
      PROVE  Only(t)!Next
  <2>1. r \notin ActingFor(t)
    BY <1>4, TenantScopeAssumption DEF Run, ActingFor, NoContext
  <2>2. ActingFor(t)' = ActingFor(t) \cup {r} \/ ActingFor(t)' = ActingFor(t)
    BY <1>4, <2>1 DEF Run, ActingFor, TypeOK
  <2> QED
    BY <1>1, <1>2, <1>3, <2>1, <2>2 DEF Only!Next, Only!Enter
<1>5. ASSUME Leave(r)
      PROVE  Only(t)!Next
  <2>1. ActingFor(t)' = ActingFor(t) \ {r}
    BY <1>5, TenantScopeAssumption DEF Leave, ActingFor, NoContext, TypeOK
  <2>2. r \in ActingFor(t) \/ ActingFor(t)' = ActingFor(t)
    BY <2>1
  <2> QED
    BY <1>1, <1>2, <1>3, <2>1, <2>2 DEF Only!Next, Only!Exit
<1>6. ASSUME Finish(r)
      PROVE  Only(t)!Next
  BY <1>3, <1>6 DEF Finish, ActingFor
<1>7. /\ \A u \in Tenants : Bound(u) \in Context
      /\ Bypass \in Context
  BY DEF Context, Bound, Bypass
<1> QED
  BY <1>4, <1>5, <1>6, <1>7 DEF Move

LEMMA StepIsolated ==
  ASSUME TypeOK, [Next]_vars, op'.scoped, NEW t \in Tenants
  PROVE  [Only(t)!Next]_(Only(t)!vars)
<1>1. CASE Next
  BY <1>1, Steps, AccessIsolated, MoveIsolated
<1>2. CASE UNCHANGED vars
  BY <1>2 DEF vars, Only!vars, ContentOf, ActingFor, AnswersOf
<1> QED
  BY <1>1, <1>2

\* Whatever operations run on the shared collection, those in the plugin's scope
\* are, for every tenant, operations on a database of its own: only requests in
\* its context, or under the bypass, read or write its documents.
THEOREM Isolated == Spec => IsolatedSpec
<1>1. TypeOK /\ [Next]_vars =>
        (op'.scoped => \A t \in Tenants : [Only(t)!Next]_(Only(t)!vars))
  BY StepIsolated
<1> QED
  BY <1>1, InitIsolated, TypeCorrect, PTL DEF Spec, IsolatedSpec

\* When no operation out of the plugin's scope is ever run, as the services run
\* none, the shared collection implements one database per tenant.
THEOREM OneDatabaseEach ==
  ASSUME NEW t \in Tenants
  PROVE  Spec /\ [](op.scoped) => Only(t)!Spec
<1>1. TypeOK /\ [Next]_vars /\ (op.scoped)' => [Only(t)!Next]_(Only(t)!vars)
  BY StepIsolated
<1>2. Init => Only(t)!Init
  BY InitIsolated
<1> QED
  BY <1>1, <1>2, TypeCorrect, PTL DEF Spec, Only!Spec
=============================================================================

----------------------------- MODULE TenantScope -----------------------------
(***************************************************************************)
(* The tenant scoping of one tenant-scoped collection: the plugin's hooks  *)
(* (tenant.plugin.ts) under the context the interceptor or a service binds *)
(* (tenant-context.ts).  A hook that throws is an action that is disabled. *)
(*                                                                         *)
(* Offered is every operation Mongoose has on a collection, those the      *)
(* plugin has no hook for and those no service calls included.             *)
(*                                                                         *)
(* A hook reads the context when its query runs; a request changes context *)
(* between queries (the webhook reads under the bypass, then works in the  *)
(* tenant it found) and keeps the documents it holds.                      *)
(***************************************************************************)
EXTENDS Naturals, FiniteSets

CONSTANTS Tenants, Docs, Values, Requests,
          None   \* no tenant, no document, nobody

ASSUME TenantScopeAssumption == None \notin Tenants \cup Values \cup Requests

VARIABLES store,        \* the collection: per document id, its tenant and value,
                        \* None when it is deleted (its tenant is kept as history)
          ctx,          \* the AsyncLocalStorage context of each request
          held,         \* the documents each request holds in memory
          overwritten,  \* history: documents whose tenantId an update named
          op            \* history: the last operation, who ran it, the documents it
                        \* read or wrote, and whether the plugin had a say in it
vars == <<store, ctx, held, overwritten, op>>

\* The plugin's field is required, which an overwriting update does not ask.
Document == [tenant : Tenants \cup {None}, value : Values \cup {None}]
Absent == [tenant |-> None, value |-> None]

Context == [tenant : Tenants \cup {None}, bypass : BOOLEAN]
NoContext == [tenant |-> None, bypass |-> FALSE]
Bound(t) == [tenant |-> t, bypass |-> FALSE]
Bypass == [tenant |-> None, bypass |-> TRUE]

NoOp == [by |-> None, docs |-> {}, scoped |-> TRUE]

Init ==
  /\ store = [d \in Docs |-> Absent]
  /\ ctx = [r \in Requests |-> NoContext]
  /\ held = [r \in Requests |-> [d \in Docs |-> Absent]]
  /\ overwritten = {}
  /\ op = NoOp

\* Document ids are not used again.
Fresh == { d \in Docs : store[d] = Absent } \ overwritten
Present == { d \in Docs : store[d].value # None }

-----------------------------------------------------------------------------
(* Contexts: TenantContextStore.run and runWithBypass.  Nothing nests.     *)

Run(r, context) ==
  /\ ctx[r] = NoContext
  /\ ctx' = [ctx EXCEPT ![r] = context]
  /\ op' = NoOp
  /\ UNCHANGED <<store, held, overwritten>>

\* The callback ends.
Leave(r) ==
  /\ ctx[r] # NoContext
  /\ ctx' = [ctx EXCEPT ![r] = NoContext]
  /\ op' = NoOp
  /\ UNCHANGED <<store, held, overwritten>>

\* The request ends; its number serves another.
Finish(r) ==
  /\ ctx[r] = NoContext
  /\ held' = [held EXCEPT ![r] = [d \in Docs |-> Absent]]
  /\ op' = NoOp
  /\ UNCHANGED <<store, ctx, overwritten>>

-----------------------------------------------------------------------------
(* The query and aggregate hooks *)

\* External: Mongoose's operations on a collection.  A bulkWrite carries
\* updates, replacements and deletes.
Reads == {"find", "findOne", "countDocuments", "aggregate", "distinct",
          "estimatedDocumentCount"}
Replacements == {"replaceOne", "findOneAndReplace", "bulkWrite"}
Updates == {"updateOne", "updateMany", "findOneAndUpdate", "bulkWrite"}
Deletes == {"deleteOne", "deleteMany", "findOneAndDelete", "bulkWrite"}

\* The operations the plugin's doc means by "every read/update/delete query"
\* and has no hook for.
Forgotten == {"distinct", "estimatedDocumentCount", "bulkWrite"}

\* Weakened: one query forgotten.
HooksWithoutUpdateMany ==
  {"find", "findOne", "findOneAndUpdate", "findOneAndDelete",
   "findOneAndReplace", "count", "countDocuments", "updateOne",
   "deleteOne", "deleteMany", "replaceOne"}

\* With Hooked below, the queries the plugin scopes.
QUERY_HOOKS ==
  {"find", "findOne", "findOneAndUpdate", "findOneAndDelete",
   "findOneAndReplace", "count", "countDocuments", "updateOne", "updateMany",
   "deleteOne", "deleteMany", "replaceOne"}

Hooked == QUERY_HOOKS \cup {"aggregate"}

\* The hook lets the query run.
Admits(r, query) ==
  query \in Hooked => ctx[r].bypass \/ ctx[r].tenant # None

\* The documents the filter can match: all of them, or the context's tenant's.
Reach(r, query) ==
  IF query \notin Hooked \/ ctx[r].bypass
  THEN Present
  ELSE { d \in Present : store[d].tenant = ctx[r].tenant }

One(query) == query \in {"findOne", "updateOne", "replaceOne", "deleteOne",
                         "findOneAndUpdate", "findOneAndReplace", "findOneAndDelete"}

\* The caller's own filter picks any of the documents in reach.
Matches(r, query) ==
  { S \in SUBSET Reach(r, query) : One(query) => Cardinality(S) <= 1 }

Ran(r, S, scoped) == op' = [by |-> r, docs |-> S, scoped |-> scoped]

Hold(r, S, docs) ==
  held' = [held EXCEPT ![r] = [d \in Docs |-> IF d \in S THEN docs[d] ELSE @[d]]]

\* find and findOne hand out documents, a count, an aggregation or a list of
\* distinct values what it makes of them.
Query(r, query) ==
  /\ Admits(r, query)
  /\ \E S \in Matches(r, query) :
       /\ Ran(r, S, query \notin Forgotten)
       /\ IF query \in {"find", "findOne"} THEN Hold(r, S, store)
                                           ELSE UNCHANGED held
  /\ UNCHANGED <<store, ctx, overwritten>>

Written(S, v) == [d \in Docs |-> IF d \in S THEN [store[d] EXCEPT !.value = v]
                                            ELSE store[d]]

\* An update that names no tenantId; findOneAndUpdate returns the new document.
Update(r, query, v) ==
  /\ Admits(r, query)
  /\ \E S \in Matches(r, query) :
       /\ store' = Written(S, v)
       /\ Ran(r, S, query \notin Forgotten)
       /\ IF query = "findOneAndUpdate" THEN Hold(r, S, store') ELSE UNCHANGED held
  /\ UNCHANGED <<ctx, overwritten>>

\* A replacement, or an update that sets or unsets tenantId: the hook looks at
\* the filter alone, so the documents get the tenantId that is named, or none.
Overwrite(r, query, t, v) ==
  /\ Admits(r, query)
  /\ \E S \in Matches(r, query) :
       /\ store' = [d \in Docs |-> IF d \in S THEN [tenant |-> t, value |-> v] ELSE store[d]]
       /\ overwritten' = overwritten \cup S
       /\ Ran(r, S, /\ query \notin Forgotten
                    /\ ctx[r].bypass \/ t \in {ctx[r].tenant, None})
       /\ IF query \in {"findOneAndUpdate", "findOneAndReplace"}
          THEN Hold(r, S, store') ELSE UNCHANGED held
  /\ UNCHANGED ctx

\* An upsert that matches nothing inserts what its filter equals, tenantId
\* included.  No caller upserts under the bypass.
Upsert(r, d, v) ==
  /\ ctx[r].tenant # None
  /\ d \in Fresh
  /\ store' = [store EXCEPT ![d] = [tenant |-> ctx[r].tenant, value |-> v]]
  /\ Ran(r, {d}, TRUE)
  /\ UNCHANGED <<ctx, held, overwritten>>

Delete(r, query) ==
  /\ Admits(r, query)
  /\ \E S \in Matches(r, query) :
       /\ store' = Written(S, None)
       /\ Ran(r, S, query \notin Forgotten)
  /\ UNCHANGED <<ctx, held, overwritten>>

-----------------------------------------------------------------------------
(* The validate and insertMany hooks *)

\* Weakened: a document of another tenant is stamped over.
ValidatesAny(r, t) == IF ctx[r].bypass THEN t # None ELSE ctx[r].tenant # None

\* A document with tenantId t, or None, passes validation.
Validates(r, t) ==
  IF ctx[r].bypass THEN t # None
                   ELSE ctx[r].tenant # None /\ t \in {None, ctx[r].tenant}

Stamp(r, t) == IF ctx[r].bypass THEN t ELSE ctx[r].tenant

\* create: a new document, its tenantId given or left to the hook.
Create(r, d, t, v) ==
  /\ d \in Fresh
  /\ Validates(r, t)
  /\ store' = [store EXCEPT ![d] = [tenant |-> Stamp(r, t), value |-> v]]
  /\ Hold(r, {d}, store')
  /\ Ran(r, {d}, TRUE)
  /\ UNCHANGED <<ctx, overwritten>>

\* The hook stamps every document before it is validated.
InsertMany(r, S, t, v) ==
  /\ S \subseteq Fresh
  /\ Validates(r, Stamp(r, t))
  /\ store' = [d \in Docs |-> IF d \in S THEN [tenant |-> Stamp(r, t), value |-> v]
                                         ELSE store[d]]
  /\ Hold(r, S, store')
  /\ Ran(r, S, TRUE)
  /\ UNCHANGED <<ctx, overwritten>>

\* The held document after validation and the caller's change, ...
Changed(r, d, v) == [tenant |-> Stamp(r, held[r][d].tenant), value |-> v]

\* ... and the stored one after an update with the fields that were modified.
Saved(r, d, v) ==
  LET old == held[r][d]
      new == Changed(r, d, v)
  IN  [tenant |-> IF new.tenant = old.tenant THEN store[d].tenant ELSE new.tenant,
       value  |-> IF new.value = old.value THEN store[d].value ELSE new.value]

\* save() of a held document: validation, then an update by its _id alone, that
\* no query hook sees.  A document deleted meanwhile makes it throw.  What was
\* overwritten since it was read, the plugin cannot know.
Save(r, d, v) ==
  /\ held[r][d] # Absent
  /\ Validates(r, held[r][d].tenant)
  /\ d \in Present
  /\ store' = [store EXCEPT ![d] = Saved(r, d, v)]
  /\ held' = [held EXCEPT ![r][d] = Changed(r, d, v)]
  /\ Ran(r, {d}, d \notin overwritten)
  /\ UNCHANGED <<ctx, overwritten>>

Next == \E r \in Requests :
  \/ \E t \in Tenants : Run(r, Bound(t))
  \/ Run(r, Bypass) \/ Leave(r) \/ Finish(r)
  \/ \E query \in Reads : Query(r, query)
  \/ \E query \in Updates, v \in Values : Update(r, query, v)
  \/ \E query \in Updates \cup Replacements, t \in Tenants \cup {None}, v \in Values :
       Overwrite(r, query, t, v)
  \/ \E query \in Deletes : Delete(r, query)
  \/ \E d \in Docs, v \in Values :
       \/ Upsert(r, d, v) \/ Save(r, d, v)
       \/ \E t \in Tenants \cup {None} : Create(r, d, t, v)
  \/ \E S \in SUBSET Docs \ {{}}, t \in Tenants \cup {None}, v \in Values :
       InsertMany(r, S, t, v)

Spec == Init /\ [][Next]_vars

-----------------------------------------------------------------------------
(* Properties *)

\* Types; a document has a tenant, and what a request holds is of the tenant the
\* document has, unless an update named its tenantId.
TypeOK ==
  /\ store \in [Docs -> Document]
  /\ ctx \in [Requests -> Context]
  /\ held \in [Requests -> [Docs -> Document]]
  /\ overwritten \subseteq Docs
  /\ op \in [by : Requests \cup {None}, docs : SUBSET Docs, scoped : BOOLEAN]
  /\ \A d \in Docs \ overwritten :
       /\ store[d] # Absent => store[d].tenant \in Tenants
       /\ \A r \in Requests : held[r][d] # Absent =>
            store[d] # Absent /\ held[r][d].tenant = store[d].tenant

\* One tenant's view: its documents, the requests acting for it (in its context
\* or under the bypass), and what the last operation read or wrote of it.
ContentOf(t) ==
  [d \in Docs |-> IF store[d].tenant = t THEN store[d].value ELSE None]
ActingFor(t) == { r \in Requests : ctx[r].bypass \/ ctx[r].tenant = t }
AnswersOf(t) ==
  [r \in Requests |-> IF r = op.by THEN { d \in op.docs : store[d].tenant = t } ELSE {}]

Only(t) == INSTANCE TenantDatabase WITH Nothing <- None, content <- ContentOf(t),
                                        admitted <- ActingFor(t), answers <- AnswersOf(t)

\* For every tenant the shared collection is a database of its own: what a
\* request reads or writes of it, it does in that tenant's context or under the
\* bypass, whatever the filter and the documents the request holds.  Three kinds
\* of operation are outside the plugin's scope, and no service calls them: those
\* without a hook, an update that itself names another tenant, and the save of
\* a document such an update has reached.
IsolatedSpec ==
  /\ \A t \in Tenants : Only(t)!Init
  /\ [][op'.scoped => \A t \in Tenants : [Only(t)!Next]_(Only(t)!vars)]_vars

\* A document stays with the tenant it was created for unless an update names
\* its tenantId, also when a request carries it from the bypass into a tenant's
\* context and saves it there, and whatever the operations without a hook do.
TenantIsForever ==
  [][\A d \in Docs \ (Fresh \cup overwritten') : store'[d].tenant = store[d].tenant]_vars
=============================================================================

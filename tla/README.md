# Verification of coaching-api (CIMS backend)

TLA+ models of the coaching-institute backend under `src/`, the TLC runs that
check them on small instances and the theorems about them that TLAPS proves.
The code is the reference: definitions are translated from it, and
`PROJECT.json` ("map") names the lines each one stands for.

The backend is one NestJS process over MongoDB. Handlers are `async` functions
on one event loop, so what interleaves is the code between two `await`s; what
is shared is the database. Mongoose documents are read into memory, changed and
saved by `_id`, without transactions or versions, so most of what can go wrong
here is a document used after another request changed it, a request that stops
between two writes, or an event delivered twice.

## Inventory

| component | state | operations | what is hard |
|---|---|---|---|
| Payment orders, webhook (`fees.service.ts`, `webhooks.controller.ts`) | `FeeInvoice.amountPaid/status`, `Payment.status/gatewayPaymentId` | createPaymentOrder, razorpay, applyCapturedPayment | repeated, racing and reordered deliveries; stops between claim and credit; two documents changed without a transaction |
| Gateway client (`razorpay.gateway.ts`) | live SDK or stub | createOrder, verifyWebhookSignature | the stub repeats order ids |
| Fee calculation (`fee-calc.ts`) | none | split, status, applyPayment | rounding to paisa, the clamp, zero amounts |
| Fee plans, invoice generation | `FeePlan`, `FeeInvoice` | createPlan, generateInvoices | an upsert loop that stops half way or runs twice; no unique index behind it |
| Receipts | stored PDF, `receiptUrl` | generate | an await between reading and saving the invoice |
| Notifications, push | `Notification.status`, `User.fcmTokens` | notify, dispatch, send, list | best-effort delivery, swallowed errors, the wrong addressee |
| Attendance | one record per student, batch and day | mark, query | loop of upserts and notices, repeated calls |
| Academics | assignments, submissions, tests, scores | submit, grade, recordScore | a grade racing a resubmission |
| Batches, students | `Student.batchIds`, `Batch` | create, enroll, update, remove | whole-array updates, dangling ids |
| Tenant scoping (`tenant.plugin.ts`, `tenant-context.ts`) | the async-local context | query, aggregate, validate and insertMany hooks, bypass | fail-closed isolation; context lost across an await |
| Tenants, audit, support | `Tenant`, `AuditLog`, impersonation tokens | provision, setStatus, updateFlags, setPlan, impersonate, record | three writes of provisioning; lost flag updates; audits after the act |
| Authentication, tenant and platform | `User`, `PlatformUser`, two token realms | login, refresh, invite, acceptInvite, guards | tokens outliving a suspension; an invite accepted twice |
| Billing, plans | `Subscription`, `Plan` | upsert, mrr, plan writes | first upserts racing; plans missing from the join |
| Leads, materials, storage | one document each | create, update, remove, signed upload | nothing interleaves but storage keys |
| Analytics, reports | none | overview; fee, attendance and performance summaries | a report counts what the other components leave behind |
| Health, configuration, surfaces | none | wiring and environment | no state |

How they meet: `applyCapturedPayment`, `mark` and `grade` await
`notifications.notify` inside the request, so a notification that throws fails
the caller. Every tenant model goes through the tenant plugin; the webhook has
no tenant of its own and finds it by a bypassed read of the `Payment`.
Generation reads the enrolments that `batches` writes, and payments change the
invoices that generation must leave alone.

What makes each part correct, as far as the models say it: only captured money is
credited, once where one delivery is served at a time, and what overlaps and stops do
to it stays within bounds (payments); every installment of a student read by the
generation is billed once (plans); the parts of a plan add up to the paisa
(calculation); a queued notice is dispatched (notifications; that `SENT` means sent is what finding 5
refutes); one tenant never sees another's documents through an
operation the plugin scopes (scoping); an institute has an admin unless its
provisioning stopped; provisionings, suspensions and impersonations are on record
unless a stop or a failed write explains the gap (tenants, audit; the comments at
`tenant-context.ts:9` and `audit-log.schema.ts:9` promise an entry for every bypass, and
the overview and the webhook write none); a token speaks for its user, and an
impersonation does not become a session of its own where the tenant secrets differ
(authentication). That a suspension ends sessions is not among them: the code lets a
suspended institute's tokens be refreshed.

## Modules

| module | models |
|---|---|
| `FeeCalc` | the arithmetic of `fee-calc.ts` |
| `Reports` | the three summaries of `reports.service.ts` |
| `Ledger` | what the payment webhook promises, as an abstract specification |
| `Payments`, `MCPayments` | createPaymentOrder, the webhook and applyCapturedPayment; the payer and the gateway around them |
| `FeePlans`, `MCFeePlans` | createPlan and generateInvoices |
| `TenantDatabase` | what one institute is promised of the shared database, as an abstract specification |
| `TenantScope`, `MCTenantScope` | the tenant plugin's hooks under the async-local context, and every operation of a Mongoose collection |
| `Accounts`, `MCAccounts` | institutes, users and tokens: provisioning, status, flags, impersonation, audit, and both login realms |
| `Classroom`, `MCClassroom` | attendance, submissions and grades with the notifications they send |
| `Roster`, `MCRoster` | students, batches and test scores |

The `MC` modules hold the small instances, and `MCPayments` the claim of a comment
that finding 1 refutes. The proofs are in modules of their own, `PaymentsProofs`,
`PaymentsSerialProofs`, `FeePlansProofs`, `TenantScopeProofs`, `AccountsProofs`,
`ClassroomProofs` and `RosterProofs`; `SumTheorems` has the facts about sums over
finite sets that several of them cite.

In all of them a request is a program counter and an action is the code between
two awaits. An immutable document read on the way (the test, the assignment) is
folded into the action that uses it. Where a request can be left half done, `Abort` ends it at any await:
the process died, or a database call threw. What a request carries in memory is
in its record; what it has written stays.

### FeeCalc

The code keeps rupees in floating point and accepts any number of decimals.
Amounts here are counted in tenths of a paisa: `toPaisa` is
`Math.round(x * 100)`, `fromPaisa` the division by 100, and an amount that is
not a multiple of 10 is one that rounding changes. The representation error of
binary fractions is left out. `overdue` stands for `dueDate < now`.

### Payments

| code (`fees.service.ts` unless named) | action |
|---|---|
| createPaymentOrder 143-154 | `OpenOrder` reads the invoice, refuses PAID, asks for the order |
| 156-169 | `StoreOrder` |
| webhooks.controller.ts 45-75 | `Receive`, with the event filter `Accepts` |
| 185-191 | `CheckExisting` |
| 193-201 | `FindCreated` |
| 203-217 | `Claim`, or `ClaimLost` on a duplicate key |
| 219-238 | `ReadInvoice` computes the credit in memory |
| 239 | `SaveInvoice` |
| 241-252 | `Notify`, which answers the gateway |
| a stop or a throw anywhere | `AbortWebhook`, `AbortOrder` |

- `save()` sends the modified paths of a document by `_id`. `Claim` therefore
  never notices that another request saved the same document, and
  `SaveModified` writes `amountPaid` and `status` independently.
- `Respond` is a 200, after which the gateway does not deliver again of its own
  accord; an abort is a request without a 200.
- The handler's reads of immutable data (the order's tenant) are folded into
  the action that follows. A payer can only pay an order that was handed out,
  so the order's tenant always resolves; a genuine event always verifies.
- A checkout stands for one call of createPaymentOrder: its Payment document
  and the id of the one gateway payment its payer may make on it. The amount
  paid may be less than the order (`PartialCapture`): the webhook credits
  `entity.amount` and never compares it with the order, and the code has a
  PARTIAL status for it.
- `live` tells the real SDK from the stub, whose order id is a function of the
  invoice and its `amountPaid`. With the stub two open orders can share an id,
  and a Payment's `gatewayPaymentId` can be overwritten by a racing capture of
  the other order. The stub is for development; properties that need order ids
  to be fresh say `live =>`, the others hold in both modes.
- `credits` counts the saves of an invoice on behalf of a payment. It is
  history: nothing reads it but properties.

Left out: receipts' contents, signatures, dates, the payment's own second save
(it sets `receiptUrl` only).

### FeePlans

`CreatePlan` is createPlan with its choice between explicit and split
installments and its check of the sum. A generation walks students and
installments; MongoDB's upsert is `Match`, or `NoMatch` followed by `Insert`,
because no unique index makes the two one. `Enroll` and `Credit` are what other
components do to a generation in progress. A credit is partial, may be computed on an
older version of the invoice (`versions`, a history) and saves the modified fields
only, so it may lower `amountPaid` (finding 3) and leave a status that belongs to other
amounts. `MaxCredits` bounds their number. `billed` remembers which students a finished
generation covered. Labels are numbers.

### TenantScope and TenantDatabase

One collection that `tenantPlugin` scopes. Every operation Mongoose has on it is
offered, those the plugin forgot and those no service calls included.

| code (`tenant.plugin.ts` unless named) | definition |
|---|---|
| tenant-context.ts, `run` and `runWithBypass` | `Run`, `Leave` |
| the list of hooks, and the aggregate hook | `QUERY_HOOKS`, `Hooked` |
| the query hook: throws without a context | `Admits` |
| the query hook: adds tenantId to the filter | `Reach` |
| operations missing from the list of hooks | `Forgotten`, in `Query`, `Update`, `Overwrite`, `Delete` |
| updates as the query hook leaves them | `Update`, `Upsert`; `Overwrite` where the update names `tenantId` |
| the validate hook | `Validates`, `Stamp`, in `Create` and `Save` |
| the insertMany hook | `InsertMany` |

- A hook that throws is a disabled action: the query does not happen.
- The caller's own filter is any choice among the documents in reach (`Matches`).
- `save()` of a document in memory is an update by `_id` that no query hook sees;
  `held` are those documents, which a request keeps when it changes context, as
  the webhook does between its bypassed read and the tenant it found. It sends the
  fields that were modified (`Changed`, `Saved`).
- The query hook looks at the filter alone. A replacement, or an update that sets or
  unsets `tenantId`, therefore leaves the tenant it names, or none (`Overwrite`);
  `overwritten` remembers such documents.
- `op` is the last operation: who ran it, what it read or wrote, and whether the plugin
  had a say in it (`scoped`). Not scoped are `distinct`, `estimatedDocumentCount` and
  `bulkWrite`, which have no hook, an overwrite with another tenant's id, and the save
  of a document an overwrite has reached. The services call only `find`, `findOne`
  (`findById`), `findOneAndUpdate`, `countDocuments`, `updateOne`, `updateMany`,
  `deleteOne`, `create` and `save`, and no update of theirs names `tenantId`
  (`ValidationPipe` strips what a DTO does not declare, `main.ts:11-12`).
- `TenantDatabase` is the database of one tenant: whoever is admitted to it
  reads and writes, nobody else does either. `Only(t)` maps the shared collection
  to it for tenant `t`: its documents, the requests in its context or under the
  bypass, and what the last operation touched of it (`answers`, from `op`).
- A deleted document keeps its tenant, as history: its id is never used again.

### Accounts

| code | action |
|---|---|
| tenants.service.ts, provision | `StartProvision`, `CreateTenant`, `CreateAdmin`, `Record` |
| setStatus | `SetStatus`, `Record` |
| updateFlags | `StartFlags`, `SaveFlags`, `Record` |
| support.service.ts, impersonate | `StartImpersonate`, `FindAdmin`, `Record` with `Answer` |
| audit.service.ts, record | `Record`, or `RecordFails` when the write fails and is swallowed |
| analytics.service.ts, overview | `Overview`, `CountUsers` |
| platform-auth.service.ts | `PlatformLogin`, `PlatformRefresh` |
| tenant-auth.service.ts, login, refresh | `StartLogin`, `FindUser` or `LoginRefused`; `Refresh` |
| invite, acceptInvite | `StartInvite`, `CreateUser`; `StartAccept`, `SaveUser` |
| strategies and guards of both realms | `TenantStrategy`, `PlatformStrategy`, `TenantGuard`, `PlatformGuard` |

- A token is the record of its claims and of the secret that signed it. It never
  expires here, which only adds behaviours: whatever holds of a token kept for
  ever holds of one that lapses. Every handler that takes a token
  may be given any token ever issued.
- Nothing is assumed of `SecretOf`: `configuration.ts:43-48` gives defaults that
  differ, but the environment may set any two to one value and nothing compares them.
  That the access and refresh secrets of the tenant realm differ (`TenantSecretsDiffer`)
  is the premise of `NoStandingImpersonation`; without it the access token of an
  impersonation passes for a refresh token (`token.service.ts:56`).
- A check followed by a create (subdomain, email) is two stretches with the
  unique index in the second.
- `updateFlags` merges into a copy. Mongoose saves the assigned path if its value
  changed, so a merge that changes nothing saves nothing.
- A password is right or the login is refused. `entered` is history: who has ever
  come in by a password or an invite.

### Classroom

| code | action |
|---|---|
| attendance.service.ts, mark | `StartMark`, per entry `Match` or `NoMatch` and `Insert`, `FindStudent` |
| academics.service.ts, submit, grade | `Submit`, `Review` and `Grade`, `FindStudent` |
| notifications.service.ts, notify, dispatch | `Notify`, `FindDevices`, `SaveNote` |
| push.service.ts, send | `Send` |

- An upsert is a match, or an insert that the unique index may refuse, upon which
  MongoDB tries the upsert again.
- `Review` is the teacher who looks at a file before grading: the client's part of
  the protocol, which the service knows nothing of. `raced` remembers the students
  who resubmitted in between.
- The order of a roll's entries is any order. One class day; a status is PRESENT
  or ABSENT, since LATE differs from PRESENT only in the report.
- `lost` says that the gateway refused the push; `orphans` are notifications whose
  request stopped. Both are history.

### Roster and Reports

Who is in a batch is kept on the student alone. `StartEnroll` finds the batch,
`Enroll` is the one `updateMany` with `$addToSet`; `ViewStudent` and
`UpdateStudent` are a client that reads a student and sends the whole array
back. `StartScore`, `MatchScore`, `NoScore` and `InsertScore` are recordScore's
check and upsert. Each of these requests writes once, so one that stops has done
nothing or all of it, and no stop is modelled.

`Reports` has the summaries as operators over a collection: the payment, the
attendance and the score properties are stated through what an admin would see
in the report.

## Runs

| run | instance | shows |
|---|---|---|
| `payments` | 1 invoice of 2 paisa, 2 checkouts, 2 handlers, 1 order request, 1 stop, both gateway modes | recording: unique, genuine, permanent, acknowledged only when done, and reached in the end; what overlaps and stops can do wrong to the credit is bounded by their number; stale saves never lose every credit of an invoice |
| `payments_serial` | 1 invoice of 3.3 paisa, 2 checkouts, 1 handler, no stop | the ledger is implemented, every acknowledged payment is credited, statuses follow the amounts, the fees report's outstanding sum only falls |
| `payments_duplicate` | 1 checkout, 2 handlers | **violation** of `AppliedOnce` |
| `payments_crash` | 1 checkout, 1 handler, 1 stop | **violation** of `AckedMoneyIsCredited` |
| `payments_status` | 1 invoice of 3 paisa, 2 checkouts, 2 handlers | **violation** of `StatusFollowsAmounts` |
| `fee_plans` | 1 plan out of 6 requests, 2 students, 1 generation at a time, up to 6 invoices, 2 credits (partial, possibly stale), 1 stop, any number of re-runs | splits are fair, re-runs bill what is missing, to the plan's total, and touch nothing else |
| `fee_plans_labels` | a plan with one label twice | **violation** of `BilledInFull` |
| `tenant_scope` | 2 tenants, 2 documents, 1 value, 2 requests, every operation of Mongoose | for each tenant the collection implements a database of its own, as far as the plugin's scope goes |
| `accounts` | 2 institutes, 3 users, an owner and a support user, 2 requests at a time and 5 in all, 1 stop, 1 failed audit write, secrets shared between the realms, access and refresh secrets different | unique names, an admin for every institute, genuine tokens, no standing impersonation, realms apart, audit trail |
| `classroom` | 2 students, 1 batch, 2 rolls, 2 requests, 2 files, 2 notifications, 1 stop | records counted once, absences and grades announced, grades of the right file, notifications dispatched |
| `classroom_push` | 1 request, no stop | **violation** of `SentIsSent` |
| `roster` | 2 students, 2 batches, 1 test of 1 mark, 2 clerks | enrolments kept, the performance report sound |

Bounds. Two handlers are enough for every race on one document: a third request
meets the same two writes. Two checkouts give two payments of one invoice, two
orders open at once and, with the stub, two orders with one id; a single
invoice is where they meet, invoices being otherwise independent. Two paisa are
the least that can be paid in part; three can be paid in two unequal parts; 3.3
can never be paid in full. `MaxAborts` bounds the stops, not where they happen.
The number of deliveries is not bounded: an event stays deliverable for ever.
In `fee_plans` two students with two or three installments are enough for a
generation to stop within a student, between students, and before and after
the last. `MaxInvoices` never stops an insertion: six are the most a plan of
three installments and two students calls for.

In `tenant_scope` a second tenant, document and request are what interference
takes. In `accounts` two requests are a race, and three users and five requests
(`MaxRequests`) let an institute be provisioned, its admin impersonated and
another user invited and accepted; logins by refresh are not requests and are not
counted. `MaxUnlogged` bounds the audit writes that fail. In `classroom` two
requests meet on one roll, or a roll meets a correction, or a grade; two files are a
resubmission, and two notices are those of one roll or of two requests. The
symmetry of `accounts`, `roster`, `fee_plans` and `tenant_scope` is sound: the sets are
of interchangeable model values and no property of these runs is a liveness property.
One value is enough in `tenant_scope`, because a write is told from no write by `op`.
Its VIEW leaves out `op`, which no action reads: a step is judged by the `op` it
writes. `MaxCredits = 2` lets a credit be computed before another one and saved after it.

The safety properties do not rest on their bounds where they are proved.

`live` is fixed to TRUE in the violation runs of `Payments`: what they show is no
artefact of the stub.

Deadlock is checked in every run but those of `Classroom`. Events can always be
redelivered, generations repeated, tokens refreshed and scores recorded again, so
those instances never stop. `Classroom`'s do, once their requests are spent or a
request is left without a notification to create; `CHECK_DEADLOCK FALSE` says so.

Fairness. `FairSpec` assumes `WF(Step(h))`: the event loop resumes a request
whose database call has answered, and a call answers or throws. And
`SF(Retry(c))`: a capture that was not answered with a 200 is delivered again
until it is, which is the at-least-once delivery Razorpay promises; it is
strong because the handler in question may be busy and idle again and again.
Nothing is assumed of payers, captures, order requests or the other events.
`Classroom` assumes `WF(Step(r))` for the stretches a request runs by itself once
it was received, for the same reason, and nothing of teachers and students.

## Properties

Recording a payment (all schedules): `UniqueGatewayPaymentId`,
`CapturesAreGenuine`, `AckedIsRecorded`; over time
`RecordedForGood`, `SettledIsFinal` (a payment that is recorded and no longer
in flight is never credited again), `EventuallyRecorded`.

Crediting a payment, in all schedules. "Exactly once" fails both ways (findings 1
and 2), and four properties say how far it fails. `AppliedPerHandler`: one payment is
applied no more often than deliveries are served at once, however often it is
delivered. `PaidWasCaptured`: an invoice never shows more than was captured for it, a
payment counted as often as it was applied; no interleaving of reads and saves
invents money. `OnlyStopsStrand`: payments that are recorded but that no request has
saved or will save into the invoice are no more than the stops. What was saved may
still be overwritten by a racing save of another payment (finding 3), and
`SomeCreditStays` says how much of it: an invoice with a credit is paid in full or shows
at least the smallest payment credited to it. More is not true in all schedules; that
every credit stays needs one delivery at a time.

Crediting a payment (one delivery at a time): `StatusFollowsAmounts`,
`AckedMoneyIsCredited`, `EventuallyCredited`, and `LedgerSpec`, under which a
save of the invoice is the ledger's `Credit` and a capture its `Bank`.

`OutstandingOnlyFalls` says it of the fees report: its sums and its counts agree,
and what is outstanding is never negative and never grows.

Plans: `SplitIsExact`, `NoDuplicateInvoices`, `BilledInFull`, and `InvoicesKept`: a
generation changes no invoice that exists, whatever credits happen to it between its
steps, and no step removes an invoice or changes what it is for. What credits do to
the amount paid is the business of `Payments`.

Scoping: `IsolatedSpec`, under which any scoped step that reads or writes a tenant's
documents is taken in that tenant's context or under the bypass, whatever the
unscoped steps before it left behind; `TenantIsForever`, of every document no
overwrite has reached, whatever unscoped operations run.

Accounts: `NamesAreUnique`; `TenantsHaveAdmin`, which lets an institute be without
one only for a request that stopped or is about to create it; `TokensAreGenuine`;
`NoStandingImpersonation`, over any chain of refreshes, where the tenant secrets differ; `RealmsSeparate`;
`SuspensionHolds`, against a stale copy saved by updateFlags; `AuditTrail`, which
accounts for every missing entry by a stop, a failed write or a request under
way, and accepts no stop as an excuse for an impersonation.

Classroom: `ClassesCountedOnce`, `EventsAnnounced` (every stop costs one notice at
most), `GradeIsOfFile` (students who resubmitted during a review are exempt:
nothing in the code guards against that race), `QueuedIsDispatched`.

Roster: `EnrolmentKept` (a student whose array a client sends back is exempt: that
update overwrites), `PerformanceIsSound`.

Each module has a `TypeOK`. That of `Payments` includes the clamp,
`amountPaid <= amountDue`; of `FeePlans` that a generation visits
installments the plan has; of `TenantScope` that a document has a tenant
and a held one that of the stored one, unless it was overwritten; of `Accounts` that a user is INVITED without a password or
ACTIVE with one and no invite left; of `Classroom` that a notification in the
pipeline is QUEUED and belongs to one request. Definitions marked "Weakened" are
faulty variants of the definition that follows them: with one in place of the
original, TLC finds the property they are listed with in `PROJECT.json` violated.

## What the code does otherwise

1. **Overlapping deliveries are both applied** (`payments_duplicate`). Both find
   the CREATED Payment, both save the same id into the same document, and a
   unique index does not object to a document keeping its own value. Comments at
   `fees.service.ts:173-175` and `203-204` say one wins.
2. **A stop between claim and credit loses the money** (`payments_crash`): the
   retry is taken for a duplicate. `test/webhook-idempotency.spec.ts:12-13`
   promises a credit exactly once.
3. **Two payments of one invoice can leave it PAID for less than is due**
   (`payments_status`): amount from one request, status from the other, on an invoice
   that is already PARTIAL, so that only one of the two saves changes the status.
4. **A repeated label is billed once** (`fee_plans_labels`), against "one
   invoice per (student × installment)", `fees.service.ts:62`.

5. **A push that failed is marked SENT** (`classroom_push`): `send` catches every
   error itself (`push.service.ts:61`), so the `FAILED` that
   `notifications.service.ts:52-53` promises is only reached when the lookup of
   the devices throws.

1 to 4 lie outside what the other runs assume of these properties: 1 and 3 need
overlapping deliveries, 2 a stop, 4 a plan with a repeated label. How bad 1 and 2 can
get is what `AppliedPerHandler`, `PaidWasCaptured` and `OnlyStopsStrand` bound. 5 contradicts nothing the
`classroom` run states: `QueuedIsDispatched` asks for an outcome, not for the right one.

The plugin's doc (`tenant.plugin.ts:8-10`) says that `tenantId` is required and that
every read, update and delete query is scoped. Three operations have no hook, and an
overwriting update can leave a document in another tenant or in none; the models have
both. As no service calls the former or does the latter, no request of the program can
show it: it is a hazard for the next service, kept in `PROJECT.json` as such, and not
a finding.

Some hazards are listed in `PROJECT.json` without a property, or with one that covers
a part of them only, each with its reason. An invoice of amount 0 is in no run, only in
the theorem `SerialStatus`. A student who joins while a generation runs is not billed by
it, which the code does not promise. A grade that raced a resubmission, a student's
array that overwrites an enrolment, a flag update lost to another and the sessions of a
suspended institute are in the models and go wrong in them; nothing in the
code or its docs promises otherwise, so there is no claim to refute. Further:
the addressee of the payment notice and the unaudited bypasses are constants of the
code that a model would only restate; the reminder job has no code; two
generations of one plan at once do bill twice, and the passing run keeps to one (the
theorem `BilledByEach` bounds it);
dangling batch ids and the expired invite are in the models, but nothing in the code
or its docs promises otherwise; a regrade's old feedback and the storage key are
data no model has.

## Proofs

`PaymentsProofs`, for any invoices, amounts, checkouts, handlers, clients and
number of stops, under `ConstantsAssumption` only:

- `InvariantHolds`: `Spec => []IInv`. The safety properties are not inductive:
  that a save cannot exceed the amount due depends on what the request computed
  earlier, and that an acknowledged payment is recorded depends on the order of
  its document. `IInv` adds what documents are (`DocumentsOK`: with the real
  gateway an order is its own, a payment id is present exactly when CAPTURED),
  what may be delivered (`GatewayOK`), and what each request in flight relies on
  (`RequestOK`, `OrderOK`). There is one lemma per action; `EndInvariant` and
  `AdvanceInvariant` factor what all requests share.
- `TypeCorrect`, `UniqueRecord`, `GenuineCaptures`,
  `AcknowledgedRecorded`: the conjuncts of `IInv` the runs check.
- `PayIdForGood`, `SettledForGood`: the two action properties, from `IInv`. The
  first rests on `ClaimOwn`: with the real gateway a request only ever claims
  the document of its own order. The second on the first: a settled payment
  stays recorded, so a delivery of it ends at `CheckExisting`.
- `StopsStrand`: `OnlyStopsStrand`, for any number of deliveries at a time. A payment
  newly recorded is about to be credited by the request that claimed it, one that
  is recorded stays with that request until it is credited, and only an abort lets
  go of it (`StepStrand`): the stranded payments grow by an abort alone, by one.
- `AppliedByEach`: `AppliedPerHandler`, for finitely many handlers. Once a payment
  is recorded no request newly sets out to apply it, so the times it was applied
  and the requests that still will add up to no more than the handlers
  (`StepApplied`).
- `NothingInvented`: `PaidWasCaptured`, with no hypothesis. `MoneyInv` adds that orders
  with one id are for one invoice, and that a request about to save holds no more
  than what was applied to its invoice and its own payment: whatever was applied
  since it read only makes that weaker. Amounts paid are whole paisa or all that is
  due, so that rounding adds nothing (`CreditAtMost`).

- `NeverAllLost`: `SomeCreditStays`, with no hypothesis. `KeepInv` adds what a request
  about to save relies on: its result is what is due or at least its own payment, which
  this save makes one of those credited. A save that leaves `amountPaid` alone is of a
  payment of nothing, or of an invoice that asks for nothing or has a credit already.

`PaymentsSerialProofs`, under the further hypothesis `OneHandler` (no two
deliveries at a time), with any number of order requests, payments and stops:

- `SerialInv` says that what the handler learned from each read still holds when
  it writes: that the payment is not recorded, that the document is CREATED, and
  that the invoice is the one it computed the credit from. This is exactly what
  fails in findings 1 and 3.
- `SerialStatus`: `StatusFollowsAmounts`, even with stops.
- `Implements`: `Spec => LedgerSpec`. A save of the invoice is a `Credit`, a
  capture a `Bank`, every other step a stutter. With stops a credit may be lost
  (finding 2) but none is ever repeated or misdirected.
- `AckedCredits`: `AckedMoneyIsCredited`, with `MaxAborts = 0`, which finding 2 shows
  to be needed. `TrackInv` adds that a payment is recorded, credited and acknowledged
  in this order, and that an order whose payment is not recorded still has a CREATED
  document to record it on (`PendingLeft`, by counting: the payments recorded on the
  order's documents are among the others). `AmountsAdd` is then inductive: an
  invoice has what it received, up to what is due. With the stub gateway too.
- `OutstandingFalls`: `OutstandingOnlyFalls`, for finitely many invoices that ask for
  money (`Due[i] > 0`: an invoice of nothing is never PAID), with any number of
  stops. The report's totals are sums over the invoices (`SummaryAddsUp`), and a
  step takes money off none of them (`PaidGrows`).

`FeePlansProofs`, for any plans, requests, students and stops:

- `IInv` says what documents are, that there are finitely many invoices, and that a
  generation is at an installment of its plan (`GeneratorOK`).
- `ExactSplit`: `SplitIsExact`, for any amount, whole paisa or not, and any number of
  parts.
- `KeptInvoices` follows for any number of generations and of credits, stale ones included. `BilledOnce`
  (`NoDuplicateInvoices`) needs `OneGenerator`: what a generation found missing
  is still missing when it inserts. Two generations break exactly that.
- `FullInv`: the installments of a plan add up to its total to the paisa, every
  invoice is one of its plan's installments, and a generation has left an invoice for
  each installment it is past (`ProgressOK`), whoever inserted it. `NothingLeftOut`
  follows with no hypothesis: overlaps, stops and repeated labels never leave a label
  unbilled. `FullBill` (`BilledInFull`) adds `OneGenerator`, so that nothing is billed
  twice, and `DistinctLabels`, which finding 4 shows to be needed: invoices and
  installments then correspond one to one, and their sums are equal.
- `BilledByEach`, for finitely many generators: the invoices of an installment and the
  generations about to insert one are together no more than the generators, so
  overlapping generations bill a student once each at most.

`TenantScopeProofs`, for any tenants, documents, values and requests. Every action
is shown to `Touches` documents of tenants its request acts for and no others;
`Forever` and `Isolated` (`Spec => IsolatedSpec`, the steps of `TenantDatabase` for
every tenant) follow from that, with the invariant `TypeOK` that a document no overwrite
has reached has a tenant, which the copies held of it have too. `OneDatabaseEach` is the
refinement proper: if no unscoped operation is ever run, as the services run none, the
collection implements one `TenantDatabase` per tenant.

`AccountsProofs`, for any institutes, users, staff, requests, stops and secrets, equal
ones included; only `ImpersonationEnds` has the premise `TenantSecretsDiffer`, which its
property states. `IInv` says what each request in flight has learnt and
may still rely on (the institute it names exists, its actor passed the guard, the
admin it found is one), that a provisioning has its institute to itself until it
has created the admin, and that a token without an impersonator's name was issued for
a user who entered (`TokenSafe`). That users keep institute, email and role for good
carries tokens over every step. The conjuncts give `UniqueNames`, `GenuineTokens`, `ImpersonationEnds`, `SeparateRealms`,
and `SuspensionsHold` as an action property.

In the same module, with finitely many requests at a time: `TenantsHaveAdmin` and
`AuditTrail` count; a count is not inductive, since a request in flight can make up for an
earlier gap. The invariants name, institute by institute, what no request in flight
will still make good (`LostAdmins`, `LostSuspensions`, `LostProvisions`); these sets
grow only by a stop or a failed write, by one, and what is in flight is bounded by the
requests at that stretch. `AdminsThere` and `Audited` add the two up.

`ClassroomProofs`, for any students, batches, rolls, requests and bounds. `IInv`
says what each request carries, that a notification in the pipeline is its own, and
that there is one record per student and batch (from the unique index's check).
`GradesOfFiles` rests on a review of a student who did not resubmit being of the
current file; `CountedOnce` (finitely many batches) maps records to batches one to
one; `AllAnnounced` shows that `Untold` grows only by a stop, by one.

`RosterProofs`, for any students, batches, tests, marks and clerks: `KeptEnrolments`;
`OneScorePerTest`, one score per student and test; and from it `ReportIsSound`
(`PerformanceIsSound`), the scores of a student being no more than the tests and
their sum no more than that many times the largest mark.

`SumTheorems`. The library's induction rules take an operator as a parameter, which
the provers cannot instantiate. Here induction is stated first order, over a set of
naturals (`AllNaturals`) or of subsets of a finite set (`FiniteInduction`), and a
proof by induction names the set of good elements. From these: that the community
modules' `SumFunctionOnSet` takes elements in any order (`SumRemove`, `SumAdd`), under
other names (`SumRename`) and class by class (`SumByClass`), follows the order of its
terms (`SumMonotonic`, `SumTight`, `SumBound`) and scales (`SumScale`).

Hypotheses. `ConstantsAssumption` and its like say what constants are and that model
values differ. `OneHandler`, `OneGenerator` and `MaxAborts = 0` are stated only in the
theorems that fail without them (findings 1 to 3, and the hazard of two generations
at once). `TenantSecretsDiffer` and `[](op.scoped)` are stated where what they exclude is
possible in the code's configuration or library but done by no service.
`IsFiniteSet(...)` where a property counts or sums over a constant.

Only model-checked: `EventuallyRecorded`, `EventuallyCredited` and
`QueuedIsDispatched`, since liveness under fairness is out of the prover's reach. Every
other property of a passing run is proved.

## Not modelled

- Billing: nothing calls `upsert`, so no subscription ever exists; plan writes are single
  inserts and updates nothing else reads.
- Leads, materials: each operation is one atomic write of one document no other
  component reads. Storage is signing and uploads.
- `setPlan` has no caller. `addFcmToken` is one `$addToSet`; `createAssignment` one
  insert, read only for its existence; a batch's own update and the roll numbers of
  students are read by nothing modelled, and their unique indexes only refuse writes.
- Hashing, signatures, expiry of tokens (see Accounts), receipt layout, texts and dates.
- Surfaces, configuration, health: wiring and environment. What configuration decides
  (secrets, the stub gateway, push disabled) is a constant or a choice of a model.

## Plan

Modelled, in the order of importance the inventory suggested: payments and plans,
tenant scoping, accounts, classroom, roster, with the theorems above. What is left:

1. Two generators of `FeePlans` as a run of its own, to show the duplicate invoices
   the upsert without an index allows.
2. `Classroom`'s notifications composed with the payment notice, once the service
   addresses it to a user.
3. Liveness of `Accounts` (a provisioning that is retried) needs code to retry it;
   there is none.
4. By proof: a lower bound on what an invoice shows in the number of its payments that
   overlap, where `SomeCreditStays` only speaks of one.

## Running

A cfg file goes with the module it names: `Payments*.cfg` with `MCPayments`,
`FeePlans*.cfg` with `MCFeePlans`, `Accounts.cfg` with `MCAccounts`,
`Classroom*.cfg` with `MCClassroom`, `Roster.cfg` with `MCRoster` and
`TenantScope.cfg` with `MCTenantScope`; for example
`tlc -config Payments.cfg MCPayments.tla`. The proofs are checked by `tlapm` on each
module whose name ends in `Proofs` and on `SumTheorems`, for example
`tlapm PaymentsProofs.tla`.

------------------------------ MODULE Payments ------------------------------
(***************************************************************************)
(* Online payment of fee invoices: createPaymentOrder and the Razorpay     *)
(* webhook with applyCapturedPayment (fees.service.ts,                     *)
(* webhooks.controller.ts), as the Node process interleaves them.          *)
(*                                                                         *)
(* A request is a small program counter machine: one action is the code    *)
(* between two awaits, so it reads or writes the database once.  Stored    *)
(* documents are invoices and payments; what a handler keeps in memory     *)
(* across an await is in handlers and clients, and is lost when it stops.  *)
(*                                                                         *)
(* A checkout is one call of createPaymentOrder that reached the gateway.  *)
(* It names the Payment document stored for it and the payment id of the   *)
(* one gateway payment its payer may make.  Receipts, signatures and dates *)
(* are left out: no property depends on them.                              *)
(***************************************************************************)
EXTENDS Integers, FiniteSets, FiniteSetsExt, FeeCalc, Reports

CONSTANTS Invoices,        \* fee invoices, generated and not yet paid
          Due,             \* amountDue of each invoice, in tenths of a paisa
          Checkouts,       \* bounds the payment orders ever created
          Handlers,        \* webhook requests the process serves at once
          Clients,         \* order requests the process serves at once
          PartialCapture,  \* whether a payer may pay less than the order
          MaxAborts,       \* bounds the requests that stop half way
          None

ASSUME ConstantsAssumption ==
  /\ Due \in [Invoices -> Nat]
  /\ PartialCapture \in BOOLEAN
  /\ MaxAborts \in Nat
  /\ None \notin Checkouts \cup Invoices

VARIABLES live,        \* RazorpayGateway.enabled: the real SDK, not the stub
          invoices,    \* FeeInvoice documents
          payments,    \* Payment documents
          gateway,     \* external: what Razorpay knows of each checkout
          handlers,    \* webhook requests being served
          clients,     \* createPaymentOrder requests being served
          acked,       \* captured events the gateway got a 200 for
          credits,     \* history: saves of an invoice on behalf of a payment
          abortsLeft
vars == <<live, invoices, payments, gateway, handlers, clients, acked,
          credits, abortsLeft>>

-----------------------------------------------------------------------------
(* Documents and requests *)

Events == {"payment.authorized", "payment.captured"}

\* The stub derives an order id from the receipt, invoice and amountPaid; the
\* real gateway's ids are fresh.
OrderIds == Checkouts \cup (Invoices \X Nat)
createOrder(c, i, paid) == IF live THEN c ELSE <<i, paid>>

Account == [amountPaid : Nat, status : InvoiceStatus]

Document == [status : {"absent", "CREATED", "CAPTURED"},
             invoice : Invoices \cup {None},
             order   : OrderIds \cup {None},
             amount  : Nat,
             payId   : Checkouts \cup {None}]
Absent == [status |-> "absent", invoice |-> None, order |-> None,
           amount |-> 0, payId |-> None]

PC == {"idle", "check", "find", "claim", "invoice", "save", "notify"}
Request == [pc  : PC,
            pay : Checkouts \cup {None},
            doc : Checkouts \cup {None},
            old : Account \cup {None},
            new : Account \cup {None}]
Idle == [pc |-> "idle", pay |-> None, doc |-> None, old |-> None, new |-> None]
NoRequest == [pc |-> "idle", invoice |-> None, paid |-> 0, amount |-> 0]


Init ==
  /\ live \in BOOLEAN
  /\ \E late \in [Invoices -> BOOLEAN] :
       invoices = [i \in Invoices |->
                     [amountPaid |-> 0,
                      status     |-> computeInvoiceStatus(Due[i], 0, late[i])]]
  /\ payments = [c \in Checkouts |-> Absent]
  /\ gateway = [c \in Checkouts |-> [status |-> "none", amount |-> 0]]
  /\ handlers = [h \in Handlers |-> Idle]
  /\ clients = [u \in Clients |-> NoRequest]
  /\ acked = {}
  /\ credits = [c \in Checkouts |-> 0]
  /\ abortsLeft = MaxAborts

-----------------------------------------------------------------------------
(* createPaymentOrder *)

\* Read the invoice, refuse it when PAID, and ask the gateway for an order
\* over the balance just read.
OpenOrder(u, i) ==
  /\ clients[u].pc = "idle"
  /\ invoices[i].status # "PAID"
  /\ clients' = [clients EXCEPT ![u] =
                   [pc      |-> "order",
                    invoice |-> i,
                    paid    |-> invoices[i].amountPaid,
                    amount  |-> Due[i] - invoices[i].amountPaid]]
  /\ UNCHANGED <<live, invoices, payments, gateway, handlers, acked, credits,
                 abortsLeft>>

\* The gateway answered: store the Payment and hand the order to the payer.
StoreOrder(u, c) ==
  /\ clients[u].pc = "order"
  /\ payments[c].status = "absent"
  /\ payments' = [payments EXCEPT ![c] =
                    [status  |-> "CREATED",
                     invoice |-> clients[u].invoice,
                     order   |-> createOrder(c, clients[u].invoice, clients[u].paid),
                     amount  |-> clients[u].amount,
                     payId   |-> None]]
  /\ clients' = [clients EXCEPT ![u] = NoRequest]
  /\ UNCHANGED <<live, invoices, gateway, handlers, acked, credits, abortsLeft>>

-----------------------------------------------------------------------------
(* External: the payer and the gateway *)

\* The payer pays the order, in whole paisa; the payment is authorized, not yet captured.
Authorize(c) ==
  /\ payments[c].status # "absent"
  /\ gateway[c].status = "none"
  /\ \E a \in 1..toPaisa(payments[c].amount) :
       /\ PartialCapture \/ a = toPaisa(payments[c].amount)
       /\ gateway' = [gateway EXCEPT ![c] = [status |-> "authorized", amount |-> a]]
  /\ UNCHANGED <<live, invoices, payments, handlers, clients, acked, credits,
                 abortsLeft>>

CapturePay(c) ==
  /\ gateway[c].status = "authorized"
  /\ gateway' = [gateway EXCEPT ![c].status = "captured"]
  /\ UNCHANGED <<live, invoices, payments, handlers, clients, acked, credits,
                 abortsLeft>>

\* An event may be delivered from the moment it happened, any number of times
\* and in any order.
Deliverable(c, e) ==
  \/ e = "payment.authorized" /\ gateway[c].status # "none"
  \/ e = "payment.captured" /\ gateway[c].status = "captured"

-----------------------------------------------------------------------------
(* The webhook: razorpay() and applyCapturedPayment *)

\* A 200, whatever "applied" says: the gateway does not retry the event.
Respond(h) ==
  /\ handlers' = [handlers EXCEPT ![h] = Idle]
  /\ acked' = acked \cup {handlers[h].pay}

\* Weakened: no event filter; the filter of another event.
AcceptsAnyEvent(e) == e \in Events
AcceptsAuthorized(e) == e = "payment.authorized"

Accepts(e) == e = "payment.captured"

\* A delivery: every event but payment.captured is answered at once and
\* changes nothing.  The order's tenant resolves: a payer learns an order id
\* only from a stored Payment.
Receive(h, c, e) ==
  /\ handlers[h].pc = "idle"
  /\ Deliverable(c, e)
  /\ Accepts(e)
  /\ handlers' = [handlers EXCEPT ![h] = [pc |-> "check", pay |-> c, doc |-> None,
                                          old |-> None, new |-> None]]
  /\ UNCHANGED <<live, invoices, payments, gateway, clients, acked, credits,
                 abortsLeft>>

Recorded(c) == \E d \in Checkouts : payments[d].payId = c

\* findOne({gatewayPaymentId}): a payment id already recorded is a retry.
CheckExisting(h) ==
  /\ handlers[h].pc = "check"
  /\ IF Recorded(handlers[h].pay)
     THEN Respond(h)
     ELSE /\ handlers' = [handlers EXCEPT ![h].pc = "find"]
          /\ UNCHANGED acked
  /\ UNCHANGED <<live, invoices, payments, gateway, clients, credits, abortsLeft>>

\* Weakened: looks the pending payment up by invoice.
PendingOfInvoice(c) == { d \in Checkouts : /\ payments[d].status = "CREATED"
                                           /\ payments[d].invoice = payments[c].invoice }

\* The CREATED payments of the order a gateway payment was made on.
Pending(c) == { d \in Checkouts : /\ payments[d].status = "CREATED"
                                  /\ payments[d].order = payments[c].order }

\* findOne({gatewayOrderId, status: CREATED}), which returns any match.
FindCreated(h) ==
  /\ handlers[h].pc = "find"
  /\ IF Pending(handlers[h].pay) = {}
     THEN Respond(h)
     ELSE /\ \E d \in Pending(handlers[h].pay) :
               handlers' = [handlers EXCEPT ![h] = [@ EXCEPT !.pc = "claim", !.doc = d]]
          /\ UNCHANGED acked
  /\ UNCHANGED <<live, invoices, payments, gateway, clients, credits, abortsLeft>>

\* Weakened: the index is not unique.
NoUniqueIndex(d, c) == FALSE

\* The unique index on gatewayPaymentId.
DuplicateKey(d, c) == \E e \in Checkouts \ {d} : payments[e].payId = c

\* Weakened: the request returns once the payment is claimed.
ClaimReturns(h) ==
  /\ handlers[h].pc = "claim"
  /\ ~DuplicateKey(handlers[h].doc, handlers[h].pay)
  /\ payments' = [payments EXCEPT ![handlers[h].doc] =
                    [@ EXCEPT !.payId = handlers[h].pay, !.status = "CAPTURED"]]
  /\ Respond(h)
  /\ UNCHANGED <<live, invoices, gateway, clients, credits, abortsLeft>>

\* payment.save(): $set by _id, so it does not see that another request has
\* saved the same document since it was read.
Claim(h) ==
  /\ handlers[h].pc = "claim"
  /\ ~DuplicateKey(handlers[h].doc, handlers[h].pay)
  /\ payments' = [payments EXCEPT ![handlers[h].doc] =
                    [@ EXCEPT !.payId = handlers[h].pay, !.status = "CAPTURED"]]
  /\ handlers' = [handlers EXCEPT ![h].pc = "invoice"]
  /\ UNCHANGED <<live, invoices, gateway, clients, acked, credits, abortsLeft>>

ClaimLost(h) ==
  /\ handlers[h].pc = "claim"
  /\ DuplicateKey(handlers[h].doc, handlers[h].pay)
  /\ Respond(h)
  /\ UNCHANGED <<live, invoices, payments, gateway, clients, credits, abortsLeft>>

InvoiceOf(h) == payments[handlers[h].doc].invoice

\* Weakened: credits the amount of the order instead of the amount captured.
ReadInvoiceOrderAmount(h) ==
  /\ handlers[h].pc = "invoice"
  /\ LET i    == InvoiceOf(h)
         paid == applyPayment(Due[i], invoices[i].amountPaid,
                              payments[handlers[h].doc].amount)
     IN  handlers' = [handlers EXCEPT
           ![h].pc  = "save",
           ![h].old = invoices[i],
           ![h].new = [amountPaid |-> paid,
                       status     |-> computeInvoiceStatus(Due[i], paid, FALSE)]]
  /\ UNCHANGED <<live, invoices, payments, gateway, clients, acked, credits,
                 abortsLeft>>

\* findById(invoice), then the credit is computed on the document in memory.
\* The receipt is rendered and stored before the invoice is saved.
ReadInvoice(h) ==
  /\ handlers[h].pc = "invoice"
  /\ \E overdue \in BOOLEAN :
       LET i    == InvoiceOf(h)
           paid == applyPayment(Due[i], invoices[i].amountPaid,
                                fromPaisa(gateway[handlers[h].pay].amount))
       IN  handlers' = [handlers EXCEPT ![h] =
             [@ EXCEPT !.pc  = "save",
                       !.old = invoices[i],
                       !.new = [amountPaid |-> paid,
                                status     |-> computeInvoiceStatus(Due[i], paid, overdue)]]]
  /\ UNCHANGED <<live, invoices, payments, gateway, clients, acked, credits,
                 abortsLeft>>

\* External: Mongoose's save() writes the paths the handler modified.
SaveModified(stored, old, new) ==
  [amountPaid |-> IF new.amountPaid # old.amountPaid THEN new.amountPaid
                                                     ELSE stored.amountPaid,
   status     |-> IF new.status # old.status THEN new.status ELSE stored.status]

SaveInvoice(h) ==
  /\ handlers[h].pc = "save"
  /\ invoices' = [invoices EXCEPT ![InvoiceOf(h)] =
                    SaveModified(@, handlers[h].old, handlers[h].new)]
  /\ credits' = [credits EXCEPT ![handlers[h].pay] = @ + 1]
  /\ handlers' = [handlers EXCEPT ![h].pc = "notify"]
  /\ UNCHANGED <<live, payments, gateway, clients, acked, abortsLeft>>

\* Notify the student and answer {applied: true}.
Notify(h) ==
  /\ handlers[h].pc = "notify"
  /\ Respond(h)
  /\ UNCHANGED <<live, invoices, payments, gateway, clients, credits, abortsLeft>>

-----------------------------------------------------------------------------
(* A request stops half way: the process dies, or a database call, the      *)
(* gateway or notify throws.  The caller gets no 200.                        *)

\* Weakened: the error is swallowed and the gateway gets a 200.
AbortAnsweredOk(h) ==
  /\ handlers[h].pc # "idle"
  /\ abortsLeft > 0
  /\ Respond(h)
  /\ abortsLeft' = abortsLeft - 1
  /\ UNCHANGED <<live, invoices, payments, gateway, clients, credits>>

\* Weakened: an error after the capture releases the claim.
AbortReleasesClaim(h) ==
  /\ handlers[h].pc \in {"invoice", "save", "notify"}
  /\ abortsLeft > 0
  /\ handlers' = [handlers EXCEPT ![h] = Idle]
  /\ payments' = [payments EXCEPT ![handlers[h].doc].payId  = None,
                                  ![handlers[h].doc].status = "CREATED"]
  /\ abortsLeft' = abortsLeft - 1
  /\ UNCHANGED <<live, invoices, gateway, clients, acked, credits>>

\* Weakened: an error after the invoice is saved puts back what was read.
AbortRestoresInvoice(h) ==
  /\ handlers[h].pc = "notify"
  /\ abortsLeft > 0
  /\ handlers' = [handlers EXCEPT ![h] = Idle]
  /\ invoices' = [invoices EXCEPT ![InvoiceOf(h)] = handlers[h].old]
  /\ abortsLeft' = abortsLeft - 1
  /\ UNCHANGED <<live, payments, gateway, clients, acked, credits>>

AbortWebhook(h) ==
  /\ handlers[h].pc # "idle"
  /\ abortsLeft > 0
  /\ handlers' = [handlers EXCEPT ![h] = Idle]
  /\ abortsLeft' = abortsLeft - 1
  /\ UNCHANGED <<live, invoices, payments, gateway, clients, acked, credits>>

AbortOrder(u) ==
  /\ clients[u].pc # "idle"
  /\ abortsLeft > 0
  /\ clients' = [clients EXCEPT ![u] = NoRequest]
  /\ abortsLeft' = abortsLeft - 1
  /\ UNCHANGED <<live, invoices, payments, gateway, handlers, acked, credits>>

-----------------------------------------------------------------------------
Step(h) == \/ CheckExisting(h)
           \/ FindCreated(h)
           \/ Claim(h)
           \/ ClaimLost(h)
           \/ ReadInvoice(h)
           \/ SaveInvoice(h)
           \/ Notify(h)

Next ==
  \/ \E u \in Clients, i \in Invoices : OpenOrder(u, i)
  \/ \E u \in Clients, c \in Checkouts : StoreOrder(u, c)
  \/ \E u \in Clients : AbortOrder(u)
  \/ \E c \in Checkouts : Authorize(c) \/ CapturePay(c)
  \/ \E h \in Handlers, c \in Checkouts, e \in Events : Receive(h, c, e)
  \/ \E h \in Handlers : Step(h) \/ AbortWebhook(h)

Spec == Init /\ [][Next]_vars

\* The event loop resumes a request whose database call answered; the gateway
\* retries a capture until it gets a 200.
Retry(c) == /\ c \notin acked
            /\ \E h \in Handlers : Receive(h, c, "payment.captured")
Fairness == /\ \A h \in Handlers : WF_vars(Step(h))
            /\ \A c \in Checkouts : SF_vars(Retry(c))
FairSpec == Spec /\ Fairness

-----------------------------------------------------------------------------
(* Properties *)

\* Types, and that no amount paid, stored or about to be, exceeds the amount
\* due: the balances createPaymentOrder asks the gateway for are not negative.
TypeOK ==
  /\ live \in BOOLEAN
  /\ invoices \in [Invoices -> Account]
  /\ \A i \in Invoices : invoices[i].amountPaid <= Due[i]
  /\ payments \in [Checkouts -> Document]
  /\ gateway \in [Checkouts -> [status : {"none", "authorized", "captured"},
                                amount : Nat]]
  /\ handlers \in [Handlers -> Request]
  /\ clients \in [Clients -> [pc      : {"idle", "order"},
                              invoice : Invoices \cup {None},
                              paid    : Nat,
                              amount  : Nat]]
  /\ acked \subseteq Checkouts
  /\ credits \in [Checkouts -> Nat]
  /\ abortsLeft \in 0..MaxAborts

\* A gateway payment id is recorded on one Payment at most, however many
\* deliveries race and even when the stub repeats an order id.
UniqueGatewayPaymentId ==
  \A d, e \in Checkouts :
    payments[d].payId # None /\ payments[d].payId = payments[e].payId => d = e

\* A Payment is CAPTURED only for money the gateway captured on its own order:
\* no event that merely announces a payment, and no payment for another order,
\* is ever booked.
CapturesAreGenuine ==
  \A d \in Checkouts :
    LET c == payments[d].payId
    IN  /\ payments[d].status = "CAPTURED" <=> c # None
        /\ c # None => /\ gateway[c].status = "captured"
                       /\ payments[c].order = payments[d].order

\* With the real gateway, a capture answered with a 200, after which no retry
\* comes, is recorded: a request that threw is never acknowledged.
AckedIsRecorded == live => \A c \in acked : Recorded(c)

\* With the real gateway, the payment id of a Payment never changes.
RecordedForGood ==
  [][live => \A d \in Checkouts :
       payments[d].payId # None => payments'[d].payId = payments[d].payId]_vars

\* No request can still credit c: it is recorded, and those serving it have yet
\* to look it up or have saved the invoice.
Settled(c) ==
  /\ Recorded(c)
  /\ \A h \in Handlers : handlers[h].pay = c => handlers[h].pc \in {"check", "notify"}

\* With the real gateway, a payment once settled stays settled and is never
\* credited again, whatever is delivered later.
SettledIsFinal ==
  [][live => \A c \in Checkouts :
       Settled(c) => Settled(c)' /\ credits'[c] = credits[c]]_vars

\* c is recorded, so no delivery still to come applies it, but no request has
\* saved the invoice on its behalf or is about to.
Stranded(c) ==
  /\ Recorded(c) /\ credits[c] = 0
  /\ \A h \in Handlers : handlers[h].pay = c => handlers[h].pc \notin {"claim", "invoice", "save"}

\* With the real gateway, no invoice is ever saved for a payment only because a
\* request stopped, and a stop costs one payment at most, however deliveries
\* overlap and are repeated.
OnlyStopsStrand ==
  live => Cardinality({ c \in Checkouts : Stranded(c) }) <= MaxAborts - abortsLeft

\* With the real gateway, a payment is applied no more often than the process
\* serves deliveries at once, however many come in all.
AppliedPerHandler ==
  live => \A c \in Checkouts : credits[c] <= Cardinality(Handlers)

CreditedTo(i) == { c \in Checkouts : credits[c] > 0 /\ payments[c].invoice = i }

Worth == [c \in Checkouts |-> credits[c] * fromPaisa(gateway[c].amount)]

\* However requests overlap, an invoice never shows more than was captured for
\* it, a payment counted as often as it was applied: a save adds no more than its
\* own payment, to the invoice that one was made for.
PaidWasCaptured ==
  \A i \in Invoices : invoices[i].amountPaid <= SumFunctionOnSet(Worth, CreditedTo(i))

\* However saves computed on stale copies overwrite each other, they never undo
\* every credit of an invoice: it is paid in full or shows at least the smallest
\* of the payments credited to it, also where requests stop.
SomeCreditStays ==
  \A i \in Invoices : CreditedTo(i) # {} =>
    \/ invoices[i].amountPaid = Due[i]
    \/ \E c \in CreditedTo(i) : invoices[i].amountPaid >= fromPaisa(gateway[c].amount)

\* With the real gateway, a captured payment is recorded in the end, although
\* requests stop half way.
EventuallyRecorded ==
  live => \A c \in Checkouts : gateway[c].status = "captured" ~> Recorded(c)

-----------------------------------------------------------------------------
(* Properties of one delivery at a time, with no request stopping *)

\* An invoice's status is the one its stored amounts call for.
StatusFollowsAmounts ==
  \A i \in Invoices :
    /\ invoices[i].status = "PAID"
         <=> invoices[i].amountPaid >= Due[i] /\ Due[i] > 0
    /\ invoices[i].status = "PARTIAL"
         <=> 0 < invoices[i].amountPaid /\ invoices[i].amountPaid < Due[i]

\* Of every captured payment the gateway got a 200 for, the invoice has the
\* money once no request is running: credited "EXACTLY once"
\* (webhook-idempotency test).
AckedMoneyIsCredited ==
  (\A h \in Handlers : handlers[h].pc = "idle") =>
    \A i \in Invoices :
      LET received == SumFunction([c \in { d \in acked : payments[d].invoice = i } |->
                                     fromPaisa(gateway[c].amount)])
      IN  invoices[i].amountPaid = Min({Due[i], received})

Summary ==
  feesSummary({ [id |-> i, amountDue |-> Due[i], amountPaid |-> invoices[i].amountPaid,
                 status |-> invoices[i].status] : i \in Invoices })

\* What the fees report shows as outstanding is never negative and only falls,
\* and is zero exactly when the report counts every invoice as PAID (none here is
\* of amount 0): the sums and the counts agree.
OutstandingOnlyFalls ==
  [][/\ Summary.outstanding >= Summary'.outstanding
     /\ Summary'.outstanding >= 0
     /\ Summary'.outstanding = 0 <=> Summary'.byStatus["PAID"] = Cardinality(Invoices)]_vars

\* A captured payment is credited to its invoice in the end.
EventuallyCredited ==
  \A c \in Checkouts : gateway[c].status = "captured" ~> credits[c] > 0

\* The webhook implements the ledger: a save of the invoice is the credit.
L == INSTANCE Ledger WITH
       Deposits <- Checkouts,
       account  <- invoices,
       banked   <- { [id |-> c, invoice |-> payments[c].invoice,
                      amount |-> gateway[c].amount] :
                     c \in { d \in Checkouts : gateway[d].status = "captured" } },
       credited <- { c \in Checkouts : credits[c] > 0 }
LedgerSpec == L!Spec
=============================================================================

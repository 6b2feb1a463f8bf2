--------------------------- MODULE PaymentsProofs ---------------------------
(***************************************************************************)
(* The safety properties of Payments, for any number of invoices,          *)
(* checkouts, concurrent requests and aborts.                              *)
(***************************************************************************)
EXTENDS Payments, FiniteSetTheorems, SumTheorems, TLAPS

-----------------------------------------------------------------------------
(* The inductive invariant *)

Stored(d) == payments[d].status # "absent"

\* A stored Payment belongs to an invoice; with the real gateway its order is
\* its own; it carries a payment id exactly when CAPTURED.
DocumentsOK ==
  \A d \in Checkouts :
    /\ Stored(d) => payments[d].invoice \in Invoices
    /\ live /\ Stored(d) => payments[d].order = d
    /\ payments[d].status = "CAPTURED" <=> payments[d].payId # None

\* Payers pay stored orders, and only deliveries of captured events are served.
GatewayOK ==
  /\ \A c \in Checkouts : gateway[c].status # "none" => Stored(c)
  /\ \A c \in acked : gateway[c].status = "captured"

Claimed == {"invoice", "save", "notify"}

\* What a webhook request in flight relies on.
RequestOK(h) ==
  /\ handlers[h].pc # "idle" =>
       /\ handlers[h].pay \in Checkouts
       /\ gateway[handlers[h].pay].status = "captured"
  /\ handlers[h].pc \in Claimed \cup {"claim"} =>
       /\ handlers[h].doc \in Checkouts
       /\ Stored(handlers[h].doc)
       /\ payments[handlers[h].doc].order = payments[handlers[h].pay].order
  /\ handlers[h].pc \in Claimed =>
       /\ payments[handlers[h].doc].status = "CAPTURED"
       /\ live => payments[handlers[h].doc].payId = handlers[h].pay
  /\ handlers[h].pc = "save" =>
       /\ handlers[h].new \in Account
       /\ handlers[h].new.amountPaid <= Due[InvoiceOf(h)]

\* What an order request in flight relies on.
OrderOK(u) == clients[u].pc = "order" => clients[u].invoice \in Invoices

IInv ==
  /\ TypeOK
  /\ DocumentsOK
  /\ GatewayOK
  /\ \A h \in Handlers : RequestOK(h)
  /\ \A u \in Clients : OrderOK(u)
  /\ UniqueGatewayPaymentId
  /\ CapturesAreGenuine
  /\ AckedIsRecorded

-----------------------------------------------------------------------------
(* The arithmetic *)

\* A credit of a non-negative amount leaves amountPaid within 0..amountDue
\* (applyPayment's clamp).
LEMMA CreditClamped ==
  ASSUME NEW due \in Nat, NEW paid \in Nat, NEW a \in Nat, paid <= due
  PROVE  /\ applyPayment(due, paid, fromPaisa(a)) \in Nat
         /\ applyPayment(due, paid, fromPaisa(a)) <= due
BY DEF applyPayment, fromPaisa, toPaisa

\* computeInvoiceStatus answers one of the four statuses.
LEMMA StatusTyped ==
  ASSUME NEW due \in Nat, NEW paid \in Nat, NEW late \in BOOLEAN
  PROVE  computeInvoiceStatus(due, paid, late) \in InvoiceStatus
BY DEF computeInvoiceStatus, InvoiceStatus

-----------------------------------------------------------------------------
(* The invariant holds initially and is kept by every action *)

LEMMA InitInvariant == Init => IInv
<1> SUFFICES ASSUME Init PROVE IInv
  OBVIOUS
<1> USE ConstantsAssumption
<1>1. TypeOK
  <2>1. invoices \in [Invoices -> Account] /\ \A i \in Invoices : invoices[i].amountPaid = 0
    BY StatusTyped DEF Init, Account
  <2>2. payments \in [Checkouts -> Document]
    BY DEF Init, Document, Absent
  <2>3. handlers \in [Handlers -> Request]
    BY DEF Init, Idle, PC, Request
  <2>4. clients \in [Clients -> [pc      : {"idle", "order"},
                                 invoice : Invoices \cup {None},
                                 paid    : Nat,
                                 amount  : Nat]]
    BY DEF Init, NoRequest
  <2> QED
    BY <2>1, <2>2, <2>3, <2>4 DEF Init, TypeOK
<1>2. DocumentsOK /\ GatewayOK /\ UniqueGatewayPaymentId /\ CapturesAreGenuine
  BY DEF Init, DocumentsOK, GatewayOK, Stored, Absent, UniqueGatewayPaymentId,
         CapturesAreGenuine
<1>3. \A h \in Handlers : RequestOK(h)
  BY DEF Init, RequestOK, Idle, Claimed
<1>4. \A u \in Clients : OrderOK(u)
  BY DEF Init, OrderOK, NoRequest
<1>5. AckedIsRecorded
  BY DEF Init, AckedIsRecorded
<1> QED
  BY <1>1, <1>2, <1>3, <1>4, <1>5 DEF IInv

\* Reading an invoice for an order changes the requests in flight only.
LEMMA OpenOrderInvariant ==
  ASSUME IInv, NEW u \in Clients, NEW i \in Invoices, OpenOrder(u, i)
  PROVE  IInv'
<1> USE ConstantsAssumption
<1>1. TypeOK'
  BY DEF IInv, TypeOK, OpenOrder, Account
<1>2. \A v \in Clients : OrderOK(v)'
  BY DEF IInv, TypeOK, OrderOK, OpenOrder
<1> QED
  BY <1>1, <1>2 DEF IInv, OpenOrder, TypeOK, DocumentsOK, GatewayOK, Stored, RequestOK,
    InvoiceOf, Claimed, UniqueGatewayPaymentId, CapturesAreGenuine, AckedIsRecorded, Recorded

\* A new Payment takes the place of none: no request, payment or
\* acknowledgement refers to an absent one.
LEMMA StoreOrderInvariant ==
  ASSUME IInv, NEW u \in Clients, NEW c \in Checkouts, StoreOrder(u, c)
  PROVE  IInv'
<1> USE ConstantsAssumption
<1>1. clients[u].invoice \in Invoices /\ clients[u].paid \in Nat
  BY DEF IInv, TypeOK, OrderOK, StoreOrder
<1>2. createOrder(c, clients[u].invoice, clients[u].paid) \in OrderIds
  BY <1>1 DEF createOrder, OrderIds
<1>3. TypeOK'
  BY <1>1, <1>2 DEF IInv, TypeOK, StoreOrder, Document, NoRequest
<1>4. ~Stored(c) /\ payments[c].payId = None /\ gateway[c].status = "none"
  BY DEF IInv, DocumentsOK, GatewayOK, StoreOrder, Stored
<1>5. /\ payments'[c].status = "CREATED" /\ payments'[c].payId = None
      /\ payments'[c].invoice = clients[u].invoice
      /\ live => payments'[c].order = c
  BY DEF StoreOrder, IInv, TypeOK, createOrder
<1>6. \A d \in Checkouts \ {c} : payments'[d] = payments[d]
  BY DEF StoreOrder, IInv, TypeOK
<1>7. DocumentsOK' /\ GatewayOK'
  BY <1>1, <1>4, <1>5, <1>6 DEF IInv, DocumentsOK, GatewayOK, StoreOrder, Stored
<1>8. \A h \in Handlers : RequestOK(h)'
  BY <1>4, <1>6 DEF IInv, TypeOK, GatewayOK, RequestOK, InvoiceOf, StoreOrder, Stored, Claimed
<1>9. \A v \in Clients : OrderOK(v)'
  BY DEF IInv, TypeOK, OrderOK, StoreOrder, NoRequest
<1>10. UniqueGatewayPaymentId' /\ CapturesAreGenuine'
  BY <1>4, <1>5, <1>6 DEF IInv, TypeOK, Document, UniqueGatewayPaymentId, CapturesAreGenuine, StoreOrder
<1>11. AckedIsRecorded'
  BY <1>4, <1>5, <1>6 DEF IInv, AckedIsRecorded, Recorded, StoreOrder, TypeOK
<1> QED
  BY <1>3, <1>7, <1>8, <1>9, <1>10, <1>11 DEF IInv

\* The payer pays a stored order; nothing recorded or served is about it yet.
LEMMA AuthorizeInvariant ==
  ASSUME IInv, NEW c \in Checkouts, Authorize(c)
  PROVE  IInv'
<1> USE ConstantsAssumption
<1>1. PICK a \in 1..toPaisa(payments[c].amount) :
        gateway' = [gateway EXCEPT ![c] = [status |-> "authorized", amount |-> a]]
  BY DEF Authorize
<1>2. a \in Nat
  BY DEF IInv, TypeOK, Document
<1>3. TypeOK'
  BY <1>1, <1>2 DEF IInv, TypeOK, Authorize
<1>4. \A d \in Checkouts : gateway[d].status = "captured" => gateway'[d] = gateway[d]
  BY <1>1 DEF Authorize, IInv, TypeOK
<1>5. DocumentsOK' /\ GatewayOK'
  BY <1>1, <1>4 DEF IInv, TypeOK, DocumentsOK, GatewayOK, Stored, Authorize
<1>6. \A h \in Handlers : RequestOK(h)'
  BY <1>4 DEF IInv, RequestOK, Claimed, InvoiceOf, Stored, Authorize
<1>7. CapturesAreGenuine'
  BY <1>4 DEF IInv, TypeOK, Document, CapturesAreGenuine, Authorize
<1> QED
  BY <1>3, <1>5, <1>6, <1>7 DEF IInv, Authorize, OrderOK, UniqueGatewayPaymentId,
    AckedIsRecorded, Recorded

\* An authorized payment is captured.
LEMMA CapturePayInvariant ==
  ASSUME IInv, NEW c \in Checkouts, CapturePay(c)
  PROVE  IInv'
<1> USE ConstantsAssumption
<1>1. TypeOK'
  BY DEF IInv, TypeOK, CapturePay
<1>2. \A d \in Checkouts : gateway[d].status = "captured" => gateway'[d].status = "captured"
  BY DEF CapturePay, IInv, TypeOK
<1>3. DocumentsOK' /\ GatewayOK'
  BY <1>2 DEF IInv, TypeOK, DocumentsOK, GatewayOK, Stored, CapturePay
<1>4. \A h \in Handlers : RequestOK(h)'
  BY <1>2 DEF IInv, RequestOK, Claimed, InvoiceOf, Stored, CapturePay
<1>5. CapturesAreGenuine'
  BY <1>2 DEF IInv, TypeOK, Document, CapturesAreGenuine, CapturePay
<1> QED
  BY <1>1, <1>3, <1>4, <1>5 DEF IInv, CapturePay, OrderOK, UniqueGatewayPaymentId,
    AckedIsRecorded, Recorded

\* What an action keeps when it changes no document.
LEMMA DocumentsKept ==
  ASSUME IInv, UNCHANGED <<live, invoices, payments, gateway>>
  PROVE  /\ DocumentsOK' /\ UniqueGatewayPaymentId' /\ CapturesAreGenuine'
         /\ \A c \in Checkouts : Recorded(c)' = Recorded(c)
         /\ \A d \in Checkouts : Stored(d)' = Stored(d)
BY DEF IInv, DocumentsOK, Stored, UniqueGatewayPaymentId, CapturesAreGenuine, Recorded

\* A step of request h alone keeps the others' part of the invariant.
LEMMA OtherRequestsKept ==
  ASSUME IInv, NEW h \in Handlers, NEW g \in Handlers, g # h,
         UNCHANGED <<live, payments, gateway>>, handlers'[g] = handlers[g]
  PROVE  RequestOK(g)'
BY DEF IInv, RequestOK, Claimed, InvoiceOf, Stored

\* A request that ends, with a 200 when what it served is recorded.
LEMMA EndInvariant ==
  ASSUME IInv, NEW h \in Handlers,
         handlers[h].pc # "idle",
         handlers' = [handlers EXCEPT ![h] = Idle],
         \/ acked' = acked
         \/ /\ acked' = acked \cup {handlers[h].pay}
            /\ live => Recorded(handlers[h].pay),
         abortsLeft' \in 0..MaxAborts,
         UNCHANGED <<live, invoices, payments, gateway, clients, credits>>
  PROVE  IInv'
<1> USE ConstantsAssumption
<1>1. /\ handlers[h].pay \in Checkouts
      /\ gateway[handlers[h].pay].status = "captured"
  BY DEF IInv, RequestOK
<1>2. TypeOK'
  BY <1>1 DEF IInv, TypeOK, Idle, PC, Request
<1>3. GatewayOK'
  BY <1>1 DEF IInv, GatewayOK, Stored
<1>4. \A g \in Handlers : RequestOK(g)'
  <2> SUFFICES ASSUME NEW g \in Handlers PROVE RequestOK(g)'
    OBVIOUS
  <2>1. CASE g = h
    BY <2>1 DEF IInv, TypeOK, RequestOK, Idle, Claimed
  <2>2. CASE g # h
    BY <2>2, OtherRequestsKept DEF IInv, TypeOK
  <2> QED
    BY <2>1, <2>2
<1>5. AckedIsRecorded'
  BY <1>1, DocumentsKept DEF IInv, AckedIsRecorded, TypeOK
<1> QED
  BY <1>2, <1>3, <1>4, <1>5, DocumentsKept DEF IInv, OrderOK

\* A request that moves on, keeping what its next step relies on.
LEMMA AdvanceInvariant ==
  ASSUME IInv, NEW h \in Handlers,
         NEW r \in Request,
         handlers' = [handlers EXCEPT ![h] = r],
         RequestOK(h)',
         UNCHANGED <<live, invoices, payments, gateway, clients, acked, credits, abortsLeft>>
  PROVE  IInv'
<1> USE ConstantsAssumption
<1>1. TypeOK'
  BY DEF IInv, TypeOK
<1>2. \A g \in Handlers : RequestOK(g)'
  BY OtherRequestsKept DEF IInv, TypeOK
<1>3. GatewayOK' /\ AckedIsRecorded'
  BY DocumentsKept DEF IInv, GatewayOK, AckedIsRecorded, TypeOK
<1> QED
  BY <1>1, <1>2, <1>3, DocumentsKept DEF IInv, OrderOK

\* What a request keeps when it moves on.
LEMMA RequestUpdates ==
  \A x \in Request, p \in PC :
    /\ [x EXCEPT !.pc = p] \in Request
    /\ [x EXCEPT !.pc = p].pc = p
    /\ [x EXCEPT !.pc = p].pay = x.pay
    /\ [x EXCEPT !.pc = p].doc = x.doc
    /\ [x EXCEPT !.pc = p].new = x.new
BY DEF Request

LEMMA ReceiveInvariant ==
  ASSUME IInv, NEW h \in Handlers, NEW c \in Checkouts, NEW e \in Events, Receive(h, c, e)
  PROVE  IInv'
<1> USE ConstantsAssumption
<1> DEFINE r == [pc |-> "check", pay |-> c, doc |-> None, old |-> None, new |-> None]
<1>1. gateway[c].status = "captured"
  BY DEF Receive, Deliverable, Accepts
<1>2. handlers' = [handlers EXCEPT ![h] = r]
  BY DEF Receive
<1>3. /\ r \in Request
      /\ r.pc = "check" /\ r.pay = c
  BY DEF Idle, PC, Request
<1>4. handlers'[h] = r
  BY <1>2 DEF IInv, TypeOK
<1> HIDE DEF r
<1>5. RequestOK(h)'
  BY <1>1, <1>3, <1>4 DEF RequestOK, Claimed, Receive
<1> QED
  BY <1>2, <1>3, <1>5, AdvanceInvariant DEF Receive

LEMMA CheckExistingInvariant ==
  ASSUME IInv, NEW h \in Handlers, CheckExisting(h)
  PROVE  IInv'
<1> USE ConstantsAssumption
<1>1. CASE Recorded(handlers[h].pay)
  BY <1>1, EndInvariant DEF IInv, TypeOK, CheckExisting, Respond
<1>2. CASE ~Recorded(handlers[h].pay)
  <2> DEFINE r == [handlers[h] EXCEPT !.pc = "find"]
  <2>1. /\ handlers' = [handlers EXCEPT ![h] = r]
        /\ UNCHANGED <<live, invoices, payments, gateway, clients, acked, credits, abortsLeft>>
    BY <1>2 DEF CheckExisting
  <2>2. /\ r \in Request
        /\ r.pc = "find" /\ r.pay = handlers[h].pay
    <3>1. handlers[h] \in Request /\ "find" \in PC
      BY DEF IInv, TypeOK, PC
    <3> QED
      BY <3>1, RequestUpdates, Zenon
  <2>3. handlers'[h] = r
    BY <2>1 DEF IInv, TypeOK
  <2> HIDE DEF r
  <2>4. RequestOK(h)'
    BY <2>1, <2>2, <2>3 DEF IInv, RequestOK, Claimed, CheckExisting
  <2> QED
    BY <2>1, <2>2, <2>4, AdvanceInvariant
<1> QED
  BY <1>1, <1>2

\* With the real gateway, an order without a CREATED payment has been claimed
\* by the one gateway payment made on it.
LEMMA NonePendingIsRecorded ==
  ASSUME IInv, live, NEW c \in Checkouts, gateway[c].status = "captured", Pending(c) = {}
  PROVE  Recorded(c)
<1> USE ConstantsAssumption
<1>1. Stored(c) /\ payments[c].status # "CREATED"
  BY DEF IInv, GatewayOK, Pending
<1>2. payments[c].status = "CAPTURED"
  BY <1>1 DEF IInv, TypeOK, Document, Stored
<1> DEFINE d == payments[c].payId
<1>3. d \in Checkouts
  BY <1>2 DEF IInv, TypeOK, Document, DocumentsOK
<1>4. gateway[d].status = "captured" /\ payments[d].order = payments[c].order
  BY <1>2, <1>3 DEF IInv, CapturesAreGenuine
<1>5. Stored(d)
  BY <1>3, <1>4 DEF IInv, GatewayOK
<1>6. d = c
  BY <1>1, <1>3, <1>4, <1>5 DEF IInv, DocumentsOK
<1> QED
  BY <1>6 DEF Recorded

LEMMA FindCreatedInvariant ==
  ASSUME IInv, NEW h \in Handlers, FindCreated(h)
  PROVE  IInv'
<1> USE ConstantsAssumption
<1>1. handlers[h].pay \in Checkouts /\ gateway[handlers[h].pay].status = "captured"
  BY DEF IInv, RequestOK, FindCreated
<1>2. CASE Pending(handlers[h].pay) = {}
  <2>1. live => Recorded(handlers[h].pay)
    BY <1>1, <1>2, NonePendingIsRecorded
  <2> QED
    BY <1>2, <2>1, EndInvariant DEF IInv, TypeOK, FindCreated, Respond
<1>3. CASE Pending(handlers[h].pay) # {}
  <2>1. PICK d \in Pending(handlers[h].pay) :
          handlers' = [handlers EXCEPT ![h] = [@ EXCEPT !.pc = "claim", !.doc = d]]
    BY <1>3 DEF FindCreated
  <2>2. d \in Checkouts /\ Stored(d) /\ payments[d].order = payments[handlers[h].pay].order
    BY DEF Pending, Stored
  <2> DEFINE r == [handlers[h] EXCEPT !.pc = "claim", !.doc = d]
  <2>3. /\ handlers' = [handlers EXCEPT ![h] = r]
        /\ UNCHANGED <<live, invoices, payments, gateway, clients, acked, credits, abortsLeft>>
    BY <1>3, <2>1 DEF FindCreated, IInv, TypeOK
  <2>4. /\ r \in Request
        /\ r.pc = "claim" /\ r.pay = handlers[h].pay /\ r.doc = d
    <3>1. handlers[h] \in Request
      BY DEF IInv, TypeOK
    <3>2. d \in Checkouts
      BY <2>2
    <3> QED
      BY <3>1, <3>2 DEF Request, PC
  <2>5. handlers'[h] = r
    BY <2>3 DEF IInv, TypeOK
  <2> HIDE DEF r
  <2>6. RequestOK(h)'
    BY <1>1, <2>2, <2>3, <2>4, <2>5 DEF RequestOK, Claimed, Stored
  <2> QED
    BY <2>3, <2>4, <2>6, AdvanceInvariant
<1> QED
  BY <1>2, <1>3

\* What a claim leaves of a document.
LEMMA DocumentUpdate ==
  \A x \in Document, c \in Checkouts :
    /\ [x EXCEPT !.payId = c, !.status = "CAPTURED"] \in Document
    /\ [x EXCEPT !.payId = c, !.status = "CAPTURED"].status = "CAPTURED"
    /\ [x EXCEPT !.payId = c, !.status = "CAPTURED"].payId = c
    /\ [x EXCEPT !.payId = c, !.status = "CAPTURED"].invoice = x.invoice
    /\ [x EXCEPT !.payId = c, !.status = "CAPTURED"].order = x.order
BY DEF Document

\* The claim records the payment on a document of its order.  With the real
\* gateway the document's order is the payment's own, so nothing is overwritten.
LEMMA ClaimInvariant ==
  ASSUME IInv, NEW h \in Handlers, Claim(h)
  PROVE  IInv'
<1> USE ConstantsAssumption
<1> DEFINE d == handlers[h].doc
           c == handlers[h].pay
<1>1. /\ c \in Checkouts /\ gateway[c].status = "captured"
      /\ d \in Checkouts /\ Stored(d) /\ payments[d].order = payments[c].order
  BY DEF IInv, RequestOK, Claim
<1>2. Stored(c)
  BY <1>1 DEF IInv, GatewayOK
<1>3. live => d = c
  BY <1>1, <1>2 DEF IInv, DocumentsOK
<1>4. /\ UNCHANGED <<live, invoices, gateway, clients, acked, credits, abortsLeft>>
      /\ \A e \in Checkouts \ {d} : payments[e].payId # c
  BY DEF Claim, DuplicateKey
<1> DEFINE r == [handlers[h] EXCEPT !.pc = "invoice"]
           doc == [payments[d] EXCEPT !.payId = c, !.status = "CAPTURED"]
<1>a. /\ handlers' = [handlers EXCEPT ![h] = r]
      /\ payments' = [payments EXCEPT ![d] = doc]
  BY DEF Claim
<1>b. /\ r \in Request /\ r.pc = "invoice"
      /\ r.pay = handlers[h].pay /\ r.doc = handlers[h].doc
  <2>1. handlers[h] \in Request /\ "invoice" \in PC
    BY DEF IInv, TypeOK, PC
  <2> QED
    BY <2>1, RequestUpdates, Zenon
<1>c. /\ doc \in Document /\ doc.status = "CAPTURED" /\ doc.payId = c
      /\ doc.invoice = payments[d].invoice /\ doc.order = payments[d].order
  <2>1. payments[d] \in Document
    BY <1>1 DEF IInv, TypeOK
  <2> QED
    BY <1>1, <2>1, DocumentUpdate
<1> HIDE DEF d, c, r, doc
<1>5. payments' \in [Checkouts -> Document]
  BY <1>1, <1>a, <1>c DEF IInv, TypeOK
<1>6. /\ payments'[d].status = "CAPTURED" /\ payments'[d].payId = c
      /\ payments'[d].invoice = payments[d].invoice
      /\ payments'[d].order = payments[d].order
      /\ \A e \in Checkouts \ {d} : payments'[e] = payments[e]
  BY <1>1, <1>a, <1>c DEF IInv, TypeOK
<1>7. TypeOK'
  BY <1>4, <1>5, <1>a, <1>b DEF IInv, TypeOK
<1>8. DocumentsOK' /\ GatewayOK'
  BY <1>1, <1>4, <1>6 DEF IInv, DocumentsOK, GatewayOK, Stored
<1>9. UniqueGatewayPaymentId'
  BY <1>4, <1>6 DEF IInv, UniqueGatewayPaymentId
<1>10. \A e \in Checkouts : payments'[e].order = payments[e].order
  BY <1>6
<1>11. CapturesAreGenuine'
  <2> SUFFICES ASSUME NEW e \in Checkouts
               PROVE  /\ payments'[e].status = "CAPTURED" <=> payments'[e].payId # None
                      /\ payments'[e].payId # None =>
                           /\ gateway[payments'[e].payId].status = "captured"
                           /\ payments'[payments'[e].payId].order = payments'[e].order
    BY <1>4 DEF CapturesAreGenuine
  <2>1. CASE e = d
    BY <1>1, <1>6, <1>10, <2>1
  <2>2. CASE e # d
    BY <1>6, <1>10, <2>2 DEF IInv, TypeOK, Document, CapturesAreGenuine
  <2> QED
    BY <2>1, <2>2
<1>12. AckedIsRecorded'
  <2> SUFFICES ASSUME live, NEW a \in acked PROVE Recorded(a)'
    BY <1>4 DEF AckedIsRecorded
  <2>1. PICK e \in Checkouts : payments[e].payId = a
    BY DEF IInv, AckedIsRecorded, Recorded
  <2>2. a \in Checkouts
    BY DEF IInv, TypeOK
  <2>3. CASE e # d
    BY <1>6, <2>1, <2>3 DEF Recorded
  <2>4. CASE e = d
    <3>1. payments[a].order = payments[d].order /\ Stored(a)
      BY <1>1, <2>1, <2>2, <2>4 DEF IInv, CapturesAreGenuine, GatewayOK
    <3>2. a = d
      BY <1>1, <2>2, <3>1 DEF IInv, DocumentsOK
    <3> QED
      BY <1>1, <1>3, <1>6, <3>2 DEF Recorded
  <2> QED
    BY <2>3, <2>4
<1>13. \A g \in Handlers : RequestOK(g)'
  <2> SUFFICES ASSUME NEW g \in Handlers PROVE RequestOK(g)'
    OBVIOUS
  <2>1. CASE g = h
    <3>1. handlers'[g].pc = "invoice" /\ handlers'[g].pay = c /\ handlers'[g].doc = d
      BY <1>a, <1>b, <2>1 DEF IInv, TypeOK, c, d
    <3> QED
      BY <1>1, <1>4, <1>6, <1>10, <3>1 DEF RequestOK, Claimed, Stored
  <2>2. CASE g # h
    <3>1. handlers'[g] = handlers[g]
      BY <1>a, <2>2 DEF IInv, TypeOK
    <3>2. RequestOK(g)
      BY DEF IInv
    <3>3. \A e \in Checkouts : Stored(e) => Stored(e)'
      BY <1>6 DEF Stored
    <3>4. handlers[g].pc # "idle" =>
            handlers[g].pay \in Checkouts /\ gateway[handlers[g].pay].status = "captured"
      BY <3>2 DEF RequestOK
    <3>5. handlers[g].pc \in Claimed /\ live => handlers[g].doc = handlers[g].pay
      BY <3>2, <3>4 DEF RequestOK, Claimed, IInv, DocumentsOK, GatewayOK
    <3>6. handlers[g].pc \in Claimed =>
            /\ payments'[handlers[g].doc].status = "CAPTURED"
            /\ live => payments'[handlers[g].doc].payId = handlers[g].pay
      BY <1>3, <1>6, <3>2, <3>5 DEF RequestOK, Claimed
    <3>7. InvoiceOf(g)' = InvoiceOf(g) \/ handlers[g].pc \notin Claimed
      BY <1>6, <3>1, <3>2 DEF InvoiceOf, RequestOK, Claimed
    <3> QED
      BY <1>4, <1>10, <3>1, <3>2, <3>3, <3>4, <3>6, <3>7 DEF RequestOK, Claimed
  <2> QED
    BY <2>1, <2>2
<1> QED
  BY <1>4, <1>7, <1>8, <1>9, <1>11, <1>12, <1>13 DEF IInv, OrderOK

LEMMA ClaimLostInvariant ==
  ASSUME IInv, NEW h \in Handlers, ClaimLost(h)
  PROVE  IInv'
<1>1. Recorded(handlers[h].pay)
  BY DEF ClaimLost, DuplicateKey, Recorded
<1> QED
  BY <1>1, EndInvariant DEF IInv, TypeOK, ClaimLost, Respond

\* The credit computed in memory is typed and clamped at the amount due.
LEMMA ReadInvoiceInvariant ==
  ASSUME IInv, NEW h \in Handlers, ReadInvoice(h)
  PROVE  IInv'
<1> USE ConstantsAssumption
<1> DEFINE i == InvoiceOf(h)
           paid == applyPayment(Due[i], invoices[i].amountPaid,
                                fromPaisa(gateway[handlers[h].pay].amount))
<1>1. /\ handlers[h].pay \in Checkouts /\ gateway[handlers[h].pay].status = "captured"
      /\ handlers[h].doc \in Checkouts /\ Stored(handlers[h].doc)
      /\ payments[handlers[h].doc].order = payments[handlers[h].pay].order
      /\ payments[handlers[h].doc].status = "CAPTURED"
      /\ live => payments[handlers[h].doc].payId = handlers[h].pay
  BY DEF IInv, RequestOK, Claimed, ReadInvoice
<1>2. i \in Invoices
  BY <1>1 DEF IInv, DocumentsOK, InvoiceOf
<1>3. /\ invoices[i] \in Account /\ invoices[i].amountPaid \in Nat
      /\ invoices[i].amountPaid <= Due[i]
      /\ Due[i] \in Nat /\ gateway[handlers[h].pay].amount \in Nat
  BY <1>1, <1>2 DEF IInv, TypeOK, Account
<1>4. paid \in Nat /\ paid <= Due[i]
  BY <1>3, CreditClamped
<1>5. PICK overdue \in BOOLEAN :
        handlers' = [handlers EXCEPT ![h] =
          [@ EXCEPT !.pc  = "save",
                    !.old = invoices[i],
                    !.new = [amountPaid |-> paid,
                             status     |-> computeInvoiceStatus(Due[i], paid, overdue)]]]
  BY DEF ReadInvoice
<1> DEFINE new == [amountPaid |-> paid,
                   status     |-> computeInvoiceStatus(Due[i], paid, overdue)]
<1>6. computeInvoiceStatus(Due[i], paid, overdue) \in InvoiceStatus
  BY <1>3, <1>4, StatusTyped
<1>7. new \in Account /\ new.amountPaid <= Due[i]
  BY <1>4, <1>6 DEF Account
<1> DEFINE r == [handlers[h] EXCEPT !.pc = "save", !.old = invoices[i], !.new = new]
<1>8. handlers' = [handlers EXCEPT ![h] = r]
  BY <1>5
<1> HIDE DEF new, i, paid
<1>9. /\ r \in Request /\ r.pc = "save" /\ r.new = new
      /\ r.pay = handlers[h].pay /\ r.doc = handlers[h].doc
  <2>1. handlers[h] \in Request
    BY DEF IInv, TypeOK
  <2>2. invoices[i] \in Account
    BY <1>3
  <2>3. new \in Account
    BY <1>7
  <2> QED
    BY <2>1, <2>2, <2>3 DEF Request, PC
<1> HIDE DEF r
<1>10. handlers'[h] = r
  BY <1>8 DEF IInv, TypeOK
<1>11. UNCHANGED <<live, invoices, payments, gateway, clients, acked, credits, abortsLeft>>
  BY DEF ReadInvoice
<1>12. RequestOK(h)'
  BY <1>1, <1>7, <1>9, <1>10, <1>11 DEF RequestOK, Claimed, InvoiceOf, Stored, i
<1> QED
  BY <1>8, <1>9, <1>11, <1>12, AdvanceInvariant

\* A save writes some of the paths computed when the invoice was read: each
\* value stored stays within the amount due, and a captured Payment backs it.
LEMMA SaveInvoiceInvariant ==
  ASSUME IInv, NEW h \in Handlers, SaveInvoice(h)
  PROVE  IInv'
<1> USE ConstantsAssumption
<1> DEFINE d == handlers[h].doc
           i == InvoiceOf(h)
           r == [handlers[h] EXCEPT !.pc = "notify"]
           saved == SaveModified(invoices[i], handlers[h].old, handlers[h].new)
<1>1. /\ handlers[h].pay \in Checkouts /\ gateway[handlers[h].pay].status = "captured"
      /\ d \in Checkouts /\ Stored(d)
      /\ payments[d].order = payments[handlers[h].pay].order
      /\ payments[d].status = "CAPTURED"
      /\ live => payments[d].payId = handlers[h].pay
      /\ handlers[h].new \in Account
      /\ handlers[h].new.amountPaid <= Due[i]
  BY DEF IInv, RequestOK, Claimed, SaveInvoice
<1>2. i \in Invoices /\ i = payments[d].invoice
  BY <1>1 DEF IInv, DocumentsOK, InvoiceOf
<1>3. /\ invoices' = [invoices EXCEPT ![i] = saved]
      /\ credits' = [credits EXCEPT ![handlers[h].pay] = @ + 1]
      /\ handlers' = [handlers EXCEPT ![h] = r]
  BY DEF SaveInvoice
<1>4. UNCHANGED <<live, payments, gateway, clients, acked, abortsLeft>>
  BY DEF SaveInvoice
<1>5. saved \in Account /\ saved.amountPaid <= Due[i]
  <2>1. invoices[i] \in Account /\ invoices[i].amountPaid <= Due[i]
    BY <1>2 DEF IInv, TypeOK
  <2> QED
    BY <1>1, <2>1 DEF SaveModified, Account
<1>6. /\ r \in Request /\ r.pc = "notify"
      /\ r.pay = handlers[h].pay /\ r.doc = d
  <2>1. handlers[h] \in Request /\ "notify" \in PC
    BY DEF IInv, TypeOK, PC
  <2> QED
    BY <2>1, RequestUpdates, Zenon
<1> HIDE DEF d, i, r, saved
<1>7. credits' \in [Checkouts -> Nat]
  BY <1>1, <1>3 DEF IInv, TypeOK
<1>8. TypeOK'
  BY <1>2, <1>3, <1>4, <1>5, <1>6, <1>7 DEF IInv, TypeOK
<1>9. DocumentsOK' /\ GatewayOK' /\ UniqueGatewayPaymentId' /\ CapturesAreGenuine'
      /\ AckedIsRecorded'
  BY <1>4 DEF IInv, DocumentsOK, GatewayOK, Stored, UniqueGatewayPaymentId,
              CapturesAreGenuine, AckedIsRecorded, Recorded
<1>10. \A g \in Handlers : RequestOK(g)'
  <2> SUFFICES ASSUME NEW g \in Handlers PROVE RequestOK(g)'
    OBVIOUS
  <2>1. CASE g = h
    <3>1. handlers'[g] = r
      BY <1>3, <2>1 DEF IInv, TypeOK
    <3> QED
      BY <1>1, <1>4, <1>6, <3>1 DEF RequestOK, Claimed, Stored
  <2>2. CASE g # h
    BY <1>3, <1>4, <2>2, OtherRequestsKept DEF IInv, TypeOK
  <2> QED
    BY <2>1, <2>2
<1> QED
  BY <1>4, <1>8, <1>9, <1>10 DEF IInv, OrderOK

LEMMA NotifyInvariant ==
  ASSUME IInv, NEW h \in Handlers, Notify(h)
  PROVE  IInv'
<1>1. live => Recorded(handlers[h].pay)
  BY DEF IInv, RequestOK, Claimed, Notify, Recorded
<1> QED
  BY <1>1, EndInvariant DEF IInv, TypeOK, Notify, Respond

LEMMA AbortWebhookInvariant ==
  ASSUME IInv, NEW h \in Handlers, AbortWebhook(h)
  PROVE  IInv'
<1>1. abortsLeft' \in 0..MaxAborts
  BY ConstantsAssumption DEF IInv, TypeOK, AbortWebhook
<1> QED
  BY <1>1, EndInvariant DEF AbortWebhook

LEMMA AbortOrderInvariant ==
  ASSUME IInv, NEW u \in Clients, AbortOrder(u)
  PROVE  IInv'
<1> USE ConstantsAssumption
<1>1. TypeOK'
  BY DEF IInv, TypeOK, AbortOrder, NoRequest
<1>2. \A v \in Clients : OrderOK(v)'
  BY DEF IInv, TypeOK, OrderOK, AbortOrder, NoRequest
<1>3. \A h \in Handlers : RequestOK(h)'
  BY DEF IInv, RequestOK, InvoiceOf, Stored, Claimed, AbortOrder
<1> QED
  BY <1>1, <1>2, <1>3 DEF IInv, AbortOrder, DocumentsOK, GatewayOK, Stored,
    UniqueGatewayPaymentId, CapturesAreGenuine, AckedIsRecorded, Recorded

LEMMA StepInvariant == IInv /\ [Next]_vars => IInv'
<1> SUFFICES ASSUME IInv, [Next]_vars PROVE IInv'
  OBVIOUS
<1>1. ASSUME NEW u \in Clients, NEW i \in Invoices, OpenOrder(u, i) PROVE IInv'
  BY <1>1, OpenOrderInvariant
<1>2. ASSUME NEW u \in Clients, NEW c \in Checkouts, StoreOrder(u, c) PROVE IInv'
  BY <1>2, StoreOrderInvariant
<1>3. ASSUME NEW u \in Clients, AbortOrder(u) PROVE IInv'
  BY <1>3, AbortOrderInvariant
<1>4. ASSUME NEW c \in Checkouts, Authorize(c) PROVE IInv'
  BY <1>4, AuthorizeInvariant
<1>5. ASSUME NEW c \in Checkouts, CapturePay(c) PROVE IInv'
  BY <1>5, CapturePayInvariant
<1>6. ASSUME NEW h \in Handlers, NEW c \in Checkouts, NEW e \in Events, Receive(h, c, e)
      PROVE IInv'
  BY <1>6, ReceiveInvariant
<1>7. ASSUME NEW h \in Handlers, Step(h) PROVE IInv'
  BY <1>7, CheckExistingInvariant, FindCreatedInvariant, ClaimInvariant,
     ClaimLostInvariant, ReadInvoiceInvariant, SaveInvoiceInvariant, NotifyInvariant
     DEF Step
<1>8. ASSUME NEW h \in Handlers, AbortWebhook(h) PROVE IInv'
  BY <1>8, AbortWebhookInvariant
<1>9. CASE UNCHANGED vars
  BY <1>9 DEF vars, IInv, TypeOK, DocumentsOK, GatewayOK, Stored, RequestOK, InvoiceOf,
     OrderOK, UniqueGatewayPaymentId, CapturesAreGenuine, AckedIsRecorded,
     Recorded
<1> QED
  BY <1>1, <1>2, <1>3, <1>4, <1>5, <1>6, <1>7, <1>8, <1>9 DEF Next

-----------------------------------------------------------------------------
(* The theorems *)

\* The inductive invariant is an invariant of every schedule.
THEOREM InvariantHolds == Spec => []IInv
BY InitInvariant, StepInvariant, PTL DEF Spec

\* Documents, requests and counters keep their types, and no amount paid ever
\* exceeds the amount due.
THEOREM TypeCorrect == Spec => []TypeOK
BY InvariantHolds, PTL DEF IInv

\* However deliveries race, a gateway payment id is recorded on one Payment at
\* most.
THEOREM UniqueRecord == Spec => []UniqueGatewayPaymentId
BY InvariantHolds, PTL DEF IInv

\* Only money the gateway captured on a Payment's own order is booked on it.
THEOREM GenuineCaptures == Spec => []CapturesAreGenuine
BY InvariantHolds, PTL DEF IInv

\* With the real gateway, what was answered with a 200 is recorded.
THEOREM AcknowledgedRecorded == Spec => []AckedIsRecorded
BY InvariantHolds, PTL DEF IInv

-----------------------------------------------------------------------------
(* What a step may never do, with the real gateway *)

\* The document a claim finds is the payment's own: its payment id is unset or
\* already that of the payment.
LEMMA ClaimOwn ==
  ASSUME IInv, live, NEW h \in Handlers, handlers[h].pc = "claim"
  PROVE  /\ handlers[h].doc = handlers[h].pay
         /\ handlers[h].pay \in Checkouts
         /\ payments[handlers[h].doc].payId \in {None, handlers[h].pay}
<1> DEFINE d == handlers[h].doc
           c == handlers[h].pay
<1>1. /\ c \in Checkouts /\ gateway[c].status = "captured"
      /\ d \in Checkouts /\ Stored(d) /\ payments[d].order = payments[c].order
  BY DEF IInv, RequestOK
<1>2. d = c
  BY <1>1 DEF IInv, DocumentsOK, GatewayOK
<1> DEFINE e == payments[d].payId
<1>3. ASSUME e # None PROVE e = c
  <2>1. e \in Checkouts /\ gateway[e].status = "captured" /\ payments[e].order = payments[d].order
    BY <1>1, <1>3 DEF IInv, TypeOK, Document, CapturesAreGenuine
  <2> QED
    BY <1>1, <1>2, <2>1 DEF IInv, DocumentsOK, GatewayOK
<1> QED
  BY <1>1, <1>2, <1>3

\* Only a claim changes a payment id once set, and it sets the same.
LEMMA PayIdKept ==
  ASSUME IInv, live, [Next]_vars, NEW d \in Checkouts, payments[d].payId # None
  PROVE  payments'[d].payId = payments[d].payId
<1>1. ASSUME NEW u \in Clients, NEW c \in Checkouts, StoreOrder(u, c)
      PROVE  payments'[d] = payments[d]
  <2>1. c # d
    BY <1>1 DEF IInv, DocumentsOK, StoreOrder
  <2> QED
    BY <1>1, <2>1 DEF IInv, TypeOK, StoreOrder
<1>2. ASSUME NEW h \in Handlers, Claim(h)
      PROVE  payments'[d].payId = payments[d].payId
  <2>1. CASE d = handlers[h].doc
    <3>1. payments[d] \in Document
      BY DEF IInv, TypeOK
    <3>2. payments'[d] = [payments[d] EXCEPT !.payId = handlers[h].pay, !.status = "CAPTURED"]
      BY <1>2, <2>1 DEF Claim, IInv, TypeOK
    <3>3. handlers[h].pay \in Checkouts
      BY <1>2, ClaimOwn DEF Claim
    <3>4. payments'[d].payId = handlers[h].pay
      BY <3>1, <3>2, <3>3, DocumentUpdate
    <3> QED
      BY <1>2, <2>1, <3>4, ClaimOwn DEF Claim
  <2>2. CASE d # handlers[h].doc
    BY <1>2, <2>2 DEF Claim, IInv, TypeOK
  <2> QED
    BY <2>1, <2>2
<1>3. CASE UNCHANGED payments
  BY <1>3
<1> QED
  BY <1>1, <1>2, <1>3 DEF Next, vars, Step, OpenOrder, AbortOrder, Authorize, CapturePay,
    Receive, CheckExisting, FindCreated, ClaimLost, ReadInvoice, SaveInvoice, Notify,
    AbortWebhook

\* With the real gateway the payment id of a Payment never changes.
THEOREM PayIdForGood == Spec => RecordedForGood
<1>1. IInv /\ [Next]_vars =>
        [live => \A d \in Checkouts :
           payments[d].payId # None => payments'[d].payId = payments[d].payId]_vars
  BY PayIdKept
<1> QED
  BY <1>1, InvariantHolds, PTL DEF Spec, RecordedForGood

\* With the real gateway a settled payment is not credited by any step and
\* stays settled.
LEMMA SettledKept ==
  ASSUME IInv, live, [Next]_vars, NEW c \in Checkouts, Settled(c)
  PROVE  Settled(c)' /\ credits'[c] = credits[c]
<1> USE ConstantsAssumption
<1>1. Recorded(c)'
  <2>1. PICK d \in Checkouts : payments[d].payId = c
    BY DEF Settled, Recorded
  <2>2. payments'[d].payId = c
    BY <2>1, PayIdKept
  <2> QED
    BY <2>2 DEF Recorded
<1>2. ASSUME NEW h \in Handlers, handlers'[h].pay = c
      PROVE  handlers'[h].pc \in {"check", "notify"}
  <2>1. handlers[h].pay = c => handlers[h].pc \in {"check", "notify"}
    BY DEF Settled
  <2>2. ASSUME NEW g \in Handlers, NEW a \in Checkouts, NEW e \in Events, Receive(g, a, e)
        PROVE  handlers'[h].pc \in {"check", "notify"}
    BY <1>2, <2>1, <2>2 DEF Receive, IInv, TypeOK
  <2>3. ASSUME NEW g \in Handlers, Step(g) \/ AbortWebhook(g), g # h
        PROVE  handlers'[h].pc \in {"check", "notify"}
    <3>1. handlers'[h] = handlers[h]
      BY <2>3 DEF Step, CheckExisting, FindCreated, Claim, ClaimLost, ReadInvoice,
        SaveInvoice, Notify, AbortWebhook, Respond, IInv, TypeOK
    <3> QED
      BY <1>2, <2>1, <3>1
  <2>4. ASSUME Step(h) \/ AbortWebhook(h)
        PROVE  handlers'[h].pc \in {"check", "notify"}
    <3>1. handlers'[h] # Idle
      BY <1>2 DEF Idle
    <3>2. handlers'[h].pay = handlers[h].pay
      <4>1. handlers[h] \in Request /\ handlers \in [Handlers -> Request]
        BY DEF IInv, TypeOK
      <4>2. CASE ClaimLost(h) \/ Notify(h) \/ AbortWebhook(h)
        BY <3>1, <4>1, <4>2 DEF ClaimLost, Notify, AbortWebhook, Respond
      <4>3. CASE CheckExisting(h)
        BY <3>1, <4>1, <4>3 DEF CheckExisting, Respond, Request
      <4>4. CASE FindCreated(h)
        BY <3>1, <4>1, <4>4 DEF FindCreated, Respond, Request
      <4>5. CASE Claim(h)
        BY <4>1, <4>5 DEF Claim, Request
      <4>6. CASE ReadInvoice(h)
        BY <4>1, <4>6 DEF ReadInvoice, Request
      <4>7. CASE SaveInvoice(h)
        BY <4>1, <4>7 DEF SaveInvoice, Request
      <4> QED
        BY <2>4, <4>2, <4>3, <4>4, <4>5, <4>6, <4>7 DEF Step
    <3>3. handlers[h].pc \in {"check", "notify"} /\ Recorded(handlers[h].pay)
      BY <1>2, <2>1, <3>2 DEF Settled
    <3>4. handlers'[h] = Idle
      BY <2>4, <3>3 DEF Step, CheckExisting, FindCreated, Claim, ClaimLost, ReadInvoice,
        SaveInvoice, Notify, AbortWebhook, Respond, IInv, TypeOK
    <3> QED
      BY <3>1, <3>4
  <2>5. CASE UNCHANGED handlers
    BY <1>2, <2>1, <2>5
  <2> QED
    BY <2>2, <2>3, <2>4, <2>5 DEF Next, vars, OpenOrder, StoreOrder, AbortOrder, Authorize,
      CapturePay
<1>3. credits'[c] = credits[c]
  <2>1. ASSUME NEW h \in Handlers, SaveInvoice(h) PROVE credits'[c] = credits[c]
    <3>1. handlers[h].pay # c
      BY <2>1 DEF SaveInvoice, Settled
    <3> QED
      BY <2>1, <3>1 DEF SaveInvoice, IInv, TypeOK
  <2> QED
    BY <2>1 DEF Next, vars, Step, OpenOrder, StoreOrder, AbortOrder, Authorize, CapturePay,
      Receive, CheckExisting, FindCreated, Claim, ClaimLost, ReadInvoice, Notify, AbortWebhook
<1> QED
  BY <1>1, <1>2, <1>3 DEF Settled

\* With the real gateway a payment recorded and no longer in flight is never
\* credited again: later deliveries are no-ops.
THEOREM SettledForGood == Spec => SettledIsFinal
<1>1. IInv /\ [Next]_vars =>
        [live => \A c \in Checkouts : Settled(c) => Settled(c)' /\ credits'[c] = credits[c]]_vars
  BY SettledKept
<1> QED
  BY <1>1, InvariantHolds, PTL DEF Spec, SettledIsFinal

-----------------------------------------------------------------------------
(* How much overlapping deliveries and stops can cost *)

\* What a step of request h makes of it, and of the credits.
Pace(h) ==
  LET r == handlers[h]
      q == handlers'[h]
  IN  \/ /\ r.pc \in {"idle", "check", "find", "notify"} /\ q.pc \in {"idle", "check"}
         /\ credits' = credits
      \/ /\ r.pc = "check" /\ q.pc = "find" /\ q.pay = r.pay /\ ~Recorded(r.pay)
         /\ credits' = credits
      \/ /\ r.pc \in {"find", "claim", "invoice"} /\ q.pc \in {"claim", "invoice", "save"}
         /\ q.pay = r.pay /\ credits' = credits
      \/ /\ r.pc = "save" /\ q.pc = "notify" /\ q.pay = r.pay
         /\ credits' = [credits EXCEPT ![r.pay] = @ + 1]
      \/ AbortWebhook(h)

LEMMA Paces ==
  ASSUME IInv, live, [Next]_vars
  PROVE  \/ UNCHANGED <<handlers, credits>>
         \/ \E h \in Handlers :
              /\ \A g \in Handlers \ {h} : handlers'[g] = handlers[g]
              /\ Pace(h)
<1>0. handlers \in [Handlers -> Request]
  BY DEF IInv, TypeOK
<1>1. ASSUME NEW h \in Handlers, NEW c \in Checkouts, NEW e \in Events, Receive(h, c, e)
      PROVE  (\A g \in Handlers \ {h} : handlers'[g] = handlers[g]) /\ Pace(h)
  BY <1>0, <1>1 DEF Receive, Pace
<1>2. ASSUME NEW h \in Handlers, Step(h) \/ AbortWebhook(h)
      PROVE  (\A g \in Handlers \ {h} : handlers'[g] = handlers[g]) /\ Pace(h)
  <2>1. \A g \in Handlers \ {h} : handlers'[g] = handlers[g]
    BY <1>0, <1>2 DEF Step, CheckExisting, FindCreated, Claim, ClaimLost, ReadInvoice,
      SaveInvoice, Notify, AbortWebhook, Respond
  <2>2. CASE CheckExisting(h)
    <3>1. handlers[h] \in Request /\ handlers[h].pc = "check" /\ credits' = credits
      BY <1>0, <2>2 DEF CheckExisting
    <3>2. CASE Recorded(handlers[h].pay)
      <4>1. handlers'[h].pc = "idle"
        BY <1>0, <2>2, <3>2 DEF CheckExisting, Respond, Idle
      <4> QED
        BY <2>1, <3>1, <4>1 DEF Pace
    <3>3. CASE ~Recorded(handlers[h].pay)
      <4>1. handlers'[h] = [handlers[h] EXCEPT !.pc = "find"]
        BY <1>0, <2>2, <3>3 DEF CheckExisting
      <4>2. handlers'[h].pc = "find" /\ handlers'[h].pay = handlers[h].pay
        BY <3>1, <4>1 DEF Request
      <4> QED
        BY <2>1, <3>1, <3>3, <4>2 DEF Pace
    <3> QED
      BY <3>2, <3>3
  <2>3. CASE FindCreated(h)
    <3>1. handlers[h] \in Request /\ handlers[h].pc = "find" /\ credits' = credits
      BY <1>0, <2>3 DEF FindCreated
    <3>2. CASE Pending(handlers[h].pay) = {}
      <4>1. handlers'[h].pc = "idle"
        BY <1>0, <2>3, <3>2 DEF FindCreated, Respond, Idle
      <4> QED
        BY <2>1, <3>1, <4>1 DEF Pace
    <3>3. ASSUME NEW d, handlers'[h] = [handlers[h] EXCEPT !.pc = "claim", !.doc = d]
          PROVE  Pace(h)
      <4>1. handlers'[h].pc = "claim" /\ handlers'[h].pay = handlers[h].pay
        BY <3>1, <3>3 DEF Request
      <4> QED
        BY <3>1, <4>1 DEF Pace
    <3>4. CASE Pending(handlers[h].pay) # {}
      BY <1>0, <2>1, <2>3, <3>3, <3>4 DEF FindCreated
    <3> QED
      BY <3>2, <3>4
  <2>4. CASE Claim(h)
    BY <1>0, <2>1, <2>4 DEF Claim, Pace, Request
  <2>5. CASE ClaimLost(h)
    <3>1. PICK e \in Checkouts \ {handlers[h].doc} : payments[e].payId = handlers[h].pay
      BY <2>5 DEF ClaimLost, DuplicateKey
    <3>2. /\ handlers[h].doc = handlers[h].pay /\ handlers[h].pay \in Checkouts
          /\ Stored(handlers[h].pay) /\ handlers[h].pay # None
      BY <2>5, ClaimOwn, ConstantsAssumption DEF ClaimLost, IInv, RequestOK
    <3>3. payments[handlers[h].pay].order = payments[e].order /\ Stored(e)
      BY <3>1, <3>2 DEF IInv, CapturesAreGenuine, Stored
    <3> QED
      BY <3>1, <3>2, <3>3 DEF IInv, DocumentsOK
  <2>6. CASE ReadInvoice(h)
    BY <1>0, <2>1, <2>6 DEF ReadInvoice, Pace, Request
  <2>7. CASE SaveInvoice(h)
    BY <1>0, <2>1, <2>7 DEF SaveInvoice, Pace, Request
  <2>8. CASE Notify(h)
    BY <1>0, <2>1, <2>8 DEF Notify, Respond, Idle, Pace
  <2>9. CASE AbortWebhook(h)
    BY <2>1, <2>9 DEF Pace
  <2> QED
    BY <1>2, <2>1, <2>2, <2>3, <2>4, <2>5, <2>6, <2>7, <2>8, <2>9 DEF Step
<1> QED
  BY <1>1, <1>2 DEF Next, vars, OpenOrder, StoreOrder, AbortOrder, Authorize, CapturePay

\* A payment newly recorded is being served.
LEMMA NewlyRecorded ==
  ASSUME IInv, live, [Next]_vars, NEW c \in Checkouts, ~Recorded(c), Recorded(c)'
  PROVE  \E h \in Handlers : handlers'[h].pay = c /\ handlers'[h].pc = "invoice"
<1>1. ASSUME NEW h \in Handlers, Claim(h)
      PROVE  handlers'[h].pay = c /\ handlers'[h].pc = "invoice"
  <2>1. handlers[h] \in Request /\ handlers \in [Handlers -> Request]
    BY DEF IInv, TypeOK
  <2>2. handlers'[h].pay = handlers[h].pay /\ handlers'[h].pc = "invoice"
    BY <1>1, <2>1 DEF Claim, Request
  <2>3. PICK d \in Checkouts : payments'[d].payId = c /\ payments[d].payId # c
    BY DEF Recorded
  <2>4. payments[d] \in Document
    BY DEF IInv, TypeOK
  <2>5. d = handlers[h].doc
    BY <1>1, <2>3 DEF Claim, IInv, TypeOK
  <2>6. payments'[d] = [payments[d] EXCEPT !.payId = handlers[h].pay, !.status = "CAPTURED"]
    BY <1>1, <2>5 DEF Claim, IInv, TypeOK
  <2>7. payments'[d].payId = handlers[h].pay
    <3>1. handlers[h].pay \in Checkouts
      BY <1>1, ClaimOwn DEF Claim
    <3> QED
      BY <2>4, <2>6, <3>1, DocumentUpdate
  <2> QED
    BY <2>2, <2>3, <2>7
<1>2. ASSUME NEW u \in Clients, NEW d \in Checkouts, StoreOrder(u, d) PROVE FALSE
  BY <1>2, ConstantsAssumption DEF StoreOrder, Recorded, IInv, TypeOK
<1>3. payments' # payments
  BY DEF Recorded
<1>4. \/ \E h \in Handlers : Claim(h)
      \/ \E u \in Clients, d \in Checkouts : StoreOrder(u, d)
  BY <1>3 DEF Next, vars, Step, OpenOrder, AbortOrder, Authorize, CapturePay, Receive,
    CheckExisting, FindCreated, ClaimLost, ReadInvoice, SaveInvoice, Notify, AbortWebhook
<1> QED
  BY <1>1, <1>2, <1>4

LEMMA RecordedKept ==
  ASSUME IInv, live, [Next]_vars, NEW c \in Checkouts, Recorded(c)
  PROVE  Recorded(c)'
<1>1. PICK d \in Checkouts : payments[d].payId = c
  BY DEF Recorded
<1>2. payments'[d].payId = c
  BY <1>1, PayIdKept, ConstantsAssumption
<1> QED
  BY <1>2 DEF Recorded

\* No payment is stranded but by a stop of the request that served it.
LEMMA StrandedBy ==
  ASSUME IInv, live, [Next]_vars, NEW c \in Checkouts, Stranded(c)', ~Stranded(c)
  PROVE  \E h \in Handlers : AbortWebhook(h) /\ c = handlers[h].pay
<1>1. Recorded(c)
  BY NewlyRecorded DEF Stranded
<1>2. credits \in [Checkouts -> Nat] /\ credits'[c] = 0
  BY DEF IInv, TypeOK, Stranded
<1>3. /\ \A h \in Handlers : Pace(h) => \/ credits' = credits
                                        \/ credits' = [credits EXCEPT ![handlers[h].pay] = @ + 1]
  BY DEF Pace, AbortWebhook
<1>4. credits[c] = 0
  BY <1>2, <1>3, Paces
<1>5. PICK h \in Handlers : handlers[h].pay = c /\ handlers[h].pc \in {"claim", "invoice", "save"}
  BY <1>1, <1>4 DEF Stranded
<1>6. ~ (handlers'[h].pay = c /\ handlers'[h].pc \in {"claim", "invoice", "save"})
  BY DEF Stranded
<1>7. Pace(h)
  BY <1>5, <1>6, Paces
<1>8. ~ (credits' = [credits EXCEPT ![handlers[h].pay] = @ + 1])
  BY <1>2, <1>4, <1>5
<1> QED
  BY <1>5, <1>6, <1>7, <1>8 DEF Pace

Strand == { c \in Checkouts : Stranded(c) }
StrandInv == live => IsFiniteSet(Strand) /\ Cardinality(Strand) <= MaxAborts - abortsLeft

LEMMA StepStrand ==
  ASSUME IInv, StrandInv, [Next]_vars PROVE StrandInv'
<1>1. live' = live
  BY DEF Next, vars, Step, OpenOrder, StoreOrder, AbortOrder, Authorize, CapturePay, Receive,
    CheckExisting, FindCreated, Claim, ClaimLost, ReadInvoice, SaveInvoice, Notify, AbortWebhook
<1> SUFFICES ASSUME live
             PROVE  IsFiniteSet(Strand') /\ Cardinality(Strand') <= MaxAborts - abortsLeft'
  BY <1>1 DEF StrandInv
<1>2. /\ IsFiniteSet(Strand) /\ Cardinality(Strand) \in Nat
      /\ Cardinality(Strand) <= MaxAborts - abortsLeft
      /\ MaxAborts \in Nat /\ abortsLeft \in Nat
  BY FS_CardinalityType, ConstantsAssumption DEF StrandInv, IInv, TypeOK
<1>3. ASSUME NEW h \in Handlers, AbortWebhook(h)
      PROVE  IsFiniteSet(Strand') /\ Cardinality(Strand') <= MaxAborts - abortsLeft'
  <2> DEFINE c == handlers[h].pay
             more == Strand \cup {c}
  <2>1. Strand' \subseteq more
    <3> SUFFICES ASSUME NEW d \in Checkouts, Stranded(d)', ~Stranded(d) PROVE d = c
      BY DEF Strand
    <3>1. PICK g \in Handlers : AbortWebhook(g) /\ d = handlers[g].pay
      BY StrandedBy
    <3>2. g = h
      BY <1>3, <3>1 DEF AbortWebhook, Idle, IInv, TypeOK
    <3> QED
      BY <3>1, <3>2
  <2>2. IsFiniteSet(more) /\ Cardinality(more) <= Cardinality(Strand) + 1
    BY <1>2, FS_AddElement
  <2> HIDE DEF more
  <2>3. IsFiniteSet(Strand') /\ Cardinality(Strand') <= Cardinality(more)
    BY <2>1, <2>2, FS_Subset
  <2>4. Cardinality(Strand') \in Nat /\ Cardinality(more) \in Nat
    BY <2>2, <2>3, FS_CardinalityType
  <2>5. abortsLeft' = abortsLeft - 1
    BY <1>3 DEF AbortWebhook
  <2> QED
    BY <1>2, <2>2, <2>3, <2>4, <2>5
<1>4. ASSUME \A h \in Handlers : ~AbortWebhook(h)
      PROVE  IsFiniteSet(Strand') /\ Cardinality(Strand') <= MaxAborts - abortsLeft'
  <2>1. Strand' \subseteq Strand
    BY <1>4, StrandedBy DEF Strand
  <2>2. IsFiniteSet(Strand') /\ Cardinality(Strand') <= Cardinality(Strand)
    BY <1>2, <2>1, FS_Subset
  <2>3. Cardinality(Strand') \in Nat
    BY <2>2, FS_CardinalityType
  <2>4. abortsLeft' = abortsLeft \/ abortsLeft' = abortsLeft - 1
    BY DEF Next, vars, Step, OpenOrder, StoreOrder, AbortOrder, Authorize, CapturePay, Receive,
      CheckExisting, FindCreated, Claim, ClaimLost, ReadInvoice, SaveInvoice, Notify, AbortWebhook
  <2> QED
    BY <1>2, <2>2, <2>3, <2>4
<1> QED
  BY <1>3, <1>4

\* With the real gateway a payment goes uncredited only by a stop, and a stop
\* costs one payment at most, however deliveries overlap and are repeated.
THEOREM StopsStrand == Spec => []OnlyStopsStrand
<1>1. Init => StrandInv
  <2> SUFFICES ASSUME Init PROVE StrandInv
    OBVIOUS
  <2>1. Strand = {}
    BY ConstantsAssumption DEF Init, Strand, Stranded, Recorded, Absent
  <2> QED
    BY <2>1, FS_EmptySet, ConstantsAssumption DEF Init, StrandInv
<1>2. IInv /\ StrandInv /\ [Next]_vars => StrandInv'
  BY StepStrand
<1>3. StrandInv => OnlyStopsStrand
  BY DEF StrandInv, OnlyStopsStrand, Strand
<1> QED
  BY <1>1, <1>2, <1>3, InvariantHolds, PTL DEF Spec

\* The requests that may yet apply c: they found it not recorded.
Serving(c) ==
  { h \in Handlers : handlers[h].pay = c /\ handlers[h].pc \in {"find", "claim", "invoice", "save"} }

AppliedInv ==
  live => \A c \in Checkouts :
    /\ ~Recorded(c) => credits[c] = 0
    /\ credits[c] + Cardinality(Serving(c)) <= Cardinality(Handlers)

LEMMA StepApplied ==
  ASSUME IsFiniteSet(Handlers), IInv, AppliedInv, [Next]_vars PROVE AppliedInv'
<1>1. live' = live
  BY DEF Next, vars, Step, OpenOrder, StoreOrder, AbortOrder, Authorize, CapturePay, Receive,
    CheckExisting, FindCreated, Claim, ClaimLost, ReadInvoice, SaveInvoice, Notify, AbortWebhook
<1> SUFFICES ASSUME live, NEW c \in Checkouts
             PROVE  /\ ~Recorded(c)' => credits'[c] = 0
                    /\ credits'[c] + Cardinality(Serving(c)') <= Cardinality(Handlers)
  BY <1>1 DEF AppliedInv
<1> DEFINE S == Serving(c)
           T == Serving(c)'
           n == Cardinality(Handlers)
<1>2. /\ IsFiniteSet(S) /\ Cardinality(S) \in Nat /\ Cardinality(S) <= n
      /\ IsFiniteSet(T) /\ Cardinality(T) \in Nat /\ Cardinality(T) <= n
      /\ n \in Nat
  <2>1. S \subseteq Handlers /\ T \subseteq Handlers
    BY DEF Serving
  <2> HIDE DEF S, T
  <2> QED
    BY <2>1, FS_Subset, FS_CardinalityType
<1>3. credits \in [Checkouts -> Nat] /\ credits[c] \in Nat
  BY DEF IInv, TypeOK
<1>4. ~Recorded(c) => credits[c] = 0
  BY DEF AppliedInv
<1>5. credits[c] + Cardinality(S) <= n
  BY DEF AppliedInv
<1>6. CASE credits'[c] = credits[c] /\ T \subseteq S
  <2>1. Cardinality(T) <= Cardinality(S)
    BY <1>2, <1>6, FS_Subset
  <2>2. ~Recorded(c)' => credits'[c] = 0
    BY <1>6, <1>4, RecordedKept
  <2> HIDE DEF S, n
  <2>3. credits[c] + Cardinality(T) <= n
    <3> HIDE DEF T
    <3> QED
      BY <1>2, <1>3, <1>5, <2>1
  <2> QED
    BY <1>6, <2>2, <2>3 DEF n
<1>7. CASE UNCHANGED <<handlers, credits>>
  <2>1. credits'[c] = credits[c] /\ T \subseteq S
    BY <1>7 DEF Serving
  <2> QED
    BY <1>6, <2>1
<1>8. ASSUME NEW h \in Handlers, Pace(h), \A g \in Handlers \ {h} : handlers'[g] = handlers[g]
      PROVE  /\ ~Recorded(c)' => credits'[c] = 0
             /\ credits'[c] + Cardinality(T) <= n
  <2>1. T \subseteq S \cup {h}
    BY <1>8 DEF Serving
  <2>2. CASE AbortWebhook(h)
    <3>1. handlers'[h].pc = "idle" /\ credits' = credits
      BY <2>2 DEF AbortWebhook, Idle, IInv, TypeOK
    <3>2. T \subseteq S
      BY <2>1, <3>1 DEF Serving
    <3> QED
      BY <1>6, <3>1, <3>2
  <2>3. CASE handlers'[h].pc \in {"idle", "check"} /\ credits' = credits
    <3>1. T \subseteq S
      BY <2>1, <2>3 DEF Serving
    <3> QED
      BY <1>6, <2>3, <3>1
  <2>4. CASE /\ handlers[h].pc \in {"find", "claim", "invoice"}
             /\ handlers'[h].pay = handlers[h].pay /\ credits' = credits
    <3>1. T \subseteq S
      BY <2>1, <2>4 DEF Serving
    <3> QED
      BY <1>6, <2>4, <3>1
  <2>5. CASE handlers'[h].pay = handlers[h].pay /\ ~Recorded(handlers[h].pay) /\ credits' = credits
    <3>1. CASE handlers[h].pay = c
      <4>1. credits'[c] = 0
        BY <1>4, <2>5, <3>1
      <4> HIDE DEF T, n
      <4> QED
        BY <1>2, <4>1
    <3>2. CASE handlers[h].pay # c
      <4>1. T \subseteq S
        BY <2>1, <2>5, <3>2 DEF Serving
      <4> QED
        BY <1>6, <2>5, <4>1
    <3> QED
      BY <3>1, <3>2
  <2>6. CASE /\ handlers[h].pc = "save" /\ handlers'[h].pc = "notify"
             /\ handlers'[h].pay = handlers[h].pay
             /\ credits' = [credits EXCEPT ![handlers[h].pay] = @ + 1]
    <3>1. T \subseteq S
      BY <2>1, <2>6 DEF Serving
    <3>2. CASE handlers[h].pay # c
      BY <1>3, <1>6, <2>6, <3>1, <3>2
    <3>3. CASE handlers[h].pay = c
      <4>1. h \in S /\ T \subseteq S \ {h}
        BY <2>6, <3>1, <3>3 DEF Serving
      <4>2. Recorded(c)'
        <5>1. handlers[h].doc \in Checkouts /\ payments[handlers[h].doc].payId = c
          BY <2>6, <3>3 DEF IInv, RequestOK, Claimed
        <5>2. Recorded(c)
          BY <5>1 DEF Recorded
        <5> QED
          BY <5>2, RecordedKept
      <4>3. credits'[c] = credits[c] + 1 /\ credits[c] \in Nat
        BY <1>3, <2>6, <3>3
      <4> HIDE DEF S, T, n
      <4>4. IsFiniteSet(S \ {h}) /\ Cardinality(S \ {h}) = Cardinality(S) - 1
        BY <1>2, <4>1, FS_RemoveElement
      <4>5. Cardinality(T) <= Cardinality(S) - 1
        BY <4>1, <4>4, FS_Subset
      <4> QED
        BY <1>2, <1>5, <4>2, <4>3, <4>5
    <3> QED
      BY <3>2, <3>3
  <2> QED
    BY <1>8, <2>2, <2>3, <2>4, <2>5, <2>6 DEF Pace
<1> QED
  BY <1>7, <1>8, Paces

\* With the real gateway a payment is applied no more often than the process
\* serves deliveries at once, however many come in all.
THEOREM AppliedByEach ==
  ASSUME IsFiniteSet(Handlers) PROVE Spec => []AppliedPerHandler
<1>1. Init => AppliedInv
  <2> SUFFICES ASSUME Init, NEW c \in Checkouts
               PROVE  credits[c] = 0 /\ Cardinality(Serving(c)) <= Cardinality(Handlers)
                      /\ Cardinality(Serving(c)) \in Nat
    BY DEF Init, AppliedInv
  <2>1. Serving(c) \subseteq Handlers
    BY DEF Serving
  <2> QED
    BY <2>1, FS_Subset, FS_CardinalityType DEF Init
<1>2. IInv /\ AppliedInv /\ [Next]_vars => AppliedInv'
  BY StepApplied
<1>3. IInv /\ AppliedInv => AppliedPerHandler
  <2> SUFFICES ASSUME IInv, AppliedInv, live, NEW c \in Checkouts
               PROVE  credits[c] <= Cardinality(Handlers)
    BY DEF AppliedPerHandler
  <2>1. Serving(c) \subseteq Handlers
    BY DEF Serving
  <2>2. Cardinality(Serving(c)) \in Nat /\ Cardinality(Handlers) \in Nat
    BY <2>1, FS_Subset, FS_CardinalityType
  <2> QED
    BY <2>2 DEF AppliedInv, IInv, TypeOK
<1> QED
  BY <1>1, <1>2, <1>3, InvariantHolds, PTL DEF Spec

-----------------------------------------------------------------------------
(* An invoice shows no more than was captured for it *)

\* Orders with one id are for one invoice, also those of the stub.
OrdersOK ==
  \A d \in Checkouts : ~live /\ Stored(d) =>
    \E n \in Nat : payments[d].order = <<payments[d].invoice, n>>

\* What was credited was captured, on a stored order.
CreditsOK ==
  /\ IsFiniteSet({ c \in Checkouts : credits[c] > 0 })
  /\ \A c \in Checkouts : credits[c] > 0 => Stored(c) /\ gateway[c].status = "captured"

Applied(i) == SumFunctionOnSet(Worth, CreditedTo(i))

\* Amounts credited are whole paisa, unless clamped.
Payable(amount, i) == amount = Due[i] \/ \E k \in Nat : amount = fromPaisa(k)

MoneyOK(i) == /\ Payable(invoices[i].amountPaid, i)
              /\ invoices[i].amountPaid <= Applied(i)

\* A request about to save adds at most its own payment.
SaveOK(h) ==
  handlers[h].pc = "save" =>
    /\ Payable(handlers[h].new.amountPaid, InvoiceOf(h))
    /\ handlers[h].new.amountPaid
         <= Applied(InvoiceOf(h)) + fromPaisa(gateway[handlers[h].pay].amount)

MoneyInv ==
  /\ OrdersOK
  /\ CreditsOK
  /\ \A i \in Invoices : MoneyOK(i)
  /\ \A h \in Handlers : SaveOK(h)

\* Once captured a payment keeps its amount, and a stored Payment its invoice
\* and its order.
LEMMA PaymentsKept ==
  ASSUME IInv, [Next]_vars, NEW c \in Checkouts
  PROVE  /\ gateway[c].status = "captured" => gateway'[c] = gateway[c]
         /\ Stored(c) => /\ payments'[c].invoice = payments[c].invoice
                         /\ payments'[c].order = payments[c].order
                         /\ Stored(c)'
<1>1. gateway[c].status = "captured" => gateway'[c] = gateway[c]
  <2>1. ASSUME NEW d \in Checkouts, Authorize(d) \/ CapturePay(d)
        PROVE  gateway[c].status = "captured" => gateway'[c] = gateway[c]
    BY <2>1 DEF Authorize, CapturePay, IInv, TypeOK
  <2> QED
    BY <2>1 DEF Next, vars, OpenOrder, StoreOrder, AbortOrder, Receive, Step, CheckExisting,
       FindCreated, Claim, ClaimLost, ReadInvoice, Notify, AbortWebhook, SaveInvoice
<1>2. ASSUME NEW u \in Clients, NEW d \in Checkouts, StoreOrder(u, d), Stored(c)
      PROVE  payments'[c] = payments[c]
  BY <1>2 DEF StoreOrder, Stored, IInv, TypeOK
<1>3. ASSUME NEW h \in Handlers, Claim(h), Stored(c)
      PROVE  /\ payments'[c].invoice = payments[c].invoice
             /\ payments'[c].order = payments[c].order
             /\ payments'[c].status # "absent"
  <2>1. payments[c] \in Document /\ handlers[h].pay \in Checkouts
    BY <1>3 DEF Claim, IInv, TypeOK, RequestOK
  <2> DEFINE doc == [payments[c] EXCEPT !.payId = handlers[h].pay, !.status = "CAPTURED"]
  <2>2. payments'[c] = payments[c] \/ payments'[c] = doc
    BY <1>3 DEF Claim, IInv, TypeOK
  <2>3. /\ doc.invoice = payments[c].invoice /\ doc.order = payments[c].order
        /\ doc.status = "CAPTURED"
    BY <2>1, DocumentUpdate
  <2> HIDE DEF doc
  <2> QED
    BY <1>3, <2>2, <2>3 DEF Stored
<1>4. \/ payments' = payments
      \/ \E u \in Clients, d \in Checkouts : StoreOrder(u, d)
      \/ \E h \in Handlers : Claim(h)
  BY DEF Next, vars, OpenOrder, AbortOrder, Authorize, CapturePay, Receive, Step,
     CheckExisting, FindCreated, ClaimLost, ReadInvoice, SaveInvoice, Notify, AbortWebhook
<1> QED
  BY <1>1, <1>2, <1>3, <1>4 DEF Stored

\* The credit goes to the invoice the payment's own order was made for.
LEMMA OwnInvoice ==
  ASSUME IInv, OrdersOK, NEW h \in Handlers, handlers[h].pc \in Claimed
  PROVE  /\ handlers[h].pay \in Checkouts
         /\ gateway[handlers[h].pay].status = "captured"
         /\ Stored(handlers[h].pay)
         /\ payments[handlers[h].pay].invoice = InvoiceOf(h)
         /\ InvoiceOf(h) \in Invoices
<1>1. /\ handlers[h].pay \in Checkouts /\ handlers[h].doc \in Checkouts
      /\ gateway[handlers[h].pay].status = "captured"
      /\ payments[handlers[h].doc].order = payments[handlers[h].pay].order
      /\ Stored(handlers[h].pay) /\ Stored(handlers[h].doc)
  BY DEF IInv, RequestOK, GatewayOK, Claimed
<1>2. CASE live
  BY <1>1, <1>2 DEF IInv, DocumentsOK, InvoiceOf
<1>3. CASE ~live
  BY <1>1, <1>3 DEF IInv, DocumentsOK, OrdersOK, InvoiceOf
<1> QED
  BY <1>1, <1>2, <1>3

LEMMA StepOrders == ASSUME IInv, OrdersOK, [Next]_vars PROVE OrdersOK'
<1>1. live' = live
  BY DEF Next, vars, Step, OpenOrder, StoreOrder, AbortOrder, Authorize, CapturePay, Receive,
    CheckExisting, FindCreated, Claim, ClaimLost, ReadInvoice, SaveInvoice, Notify, AbortWebhook
<1>2. ASSUME NEW d \in Checkouts, ~live, ~Stored(d), Stored(d)'
      PROVE  \E n \in Nat : payments'[d].order = <<payments'[d].invoice, n>>
  <2>1. PICK u \in Clients : StoreOrder(u, d)
    <3>1. ASSUME NEW h \in Handlers PROVE ~Claim(h)
      BY <1>2 DEF Claim, IInv, TypeOK, RequestOK, Stored
    <3>2. ASSUME NEW v \in Clients, NEW c \in Checkouts, StoreOrder(v, c) PROVE c = d
      BY <1>2, <3>2 DEF StoreOrder, IInv, TypeOK, Stored
    <3> QED
      BY <1>2, <3>1, <3>2 DEF Next, vars, Step, OpenOrder, AbortOrder, Authorize, CapturePay,
        Receive, CheckExisting, FindCreated, ClaimLost, ReadInvoice, SaveInvoice, Notify,
        AbortWebhook, Stored
  <2> QED
    BY <1>2, <2>1 DEF StoreOrder, createOrder, IInv, TypeOK
<1> QED
  BY <1>1, <1>2, PaymentsKept DEF OrdersOK

LEMMA AppliedType ==
  ASSUME IInv, CreditsOK
  PROVE  /\ \A c \in Checkouts : Worth[c] \in Nat
         /\ \A i \in Invoices : IsFiniteSet(CreditedTo(i)) /\ Applied(i) \in Nat
<1>1. \A c \in Checkouts : Worth[c] \in Nat
  <2> SUFFICES ASSUME NEW c \in Checkouts PROVE Worth[c] \in Nat
    OBVIOUS
  <2>1. credits[c] \in Nat /\ gateway[c].amount \in Nat
    BY DEF IInv, TypeOK
  <2>2. fromPaisa(gateway[c].amount) \in Nat
    BY <2>1 DEF fromPaisa
  <2>3. \A m, n \in Nat : m * n \in Nat
    OBVIOUS
  <2> QED
    BY <2>1, <2>2, <2>3 DEF Worth
<1>2. ASSUME NEW i \in Invoices PROVE IsFiniteSet(CreditedTo(i)) /\ Applied(i) \in Nat
  <2>1. CreditedTo(i) \subseteq { c \in Checkouts : credits[c] > 0 } /\ CreditedTo(i) \subseteq Checkouts
    BY DEF CreditedTo
  <2>2. IsFiniteSet(CreditedTo(i))
    BY <2>1, FS_Subset DEF CreditsOK
  <2>3. \A c \in CreditedTo(i) : Worth[c] \in Int /\ Worth[c] >= 0
    BY <1>1, <2>1
  <2> QED
    BY <2>2, <2>3, SumType DEF Applied
<1> QED
  BY <1>1, <1>2

\* Nothing is applied but by a save.
LEMMA AppliedKept ==
  ASSUME IInv, CreditsOK, [Next]_vars, credits' = credits
  PROVE  CreditsOK' /\ \A i \in Invoices : Applied(i)' = Applied(i)
<1>1. ASSUME NEW c \in Checkouts, credits[c] > 0
      PROVE  /\ Stored(c)' /\ gateway'[c] = gateway[c]
             /\ payments'[c].invoice = payments[c].invoice
  BY <1>1, PaymentsKept DEF CreditsOK
<1>2. CreditsOK'
  BY <1>1 DEF CreditsOK
<1>3. ASSUME NEW i \in Invoices PROVE Applied(i)' = Applied(i)
  <2>1. CreditedTo(i)' = CreditedTo(i)
    BY <1>1 DEF CreditedTo
  <2>2. \A c \in CreditedTo(i) : Worth[c] \in Int /\ Worth[c] = Worth'[c]
    BY <1>1, AppliedType DEF Worth, CreditedTo
  <2>3. SumFunctionOnSet(Worth, CreditedTo(i)) = SumFunctionOnSet(Worth', CreditedTo(i))
    BY <2>2, AppliedType, SumEqual
  <2> QED
    BY <2>1, <2>3 DEF Applied
<1> QED
  BY <1>2, <1>3

\* A save adds its payment to what was applied to its invoice, and to no other.
LEMMA SaveApplies ==
  ASSUME IInv, OrdersOK, CreditsOK, NEW h \in Handlers, SaveInvoice(h)
  PROVE  /\ CreditsOK'
         /\ \A j \in Invoices : Applied(j)' = Applied(j) +
              IF j = InvoiceOf(h) THEN fromPaisa(gateway[handlers[h].pay].amount) ELSE 0
<1>1. PICK c \in Checkouts : c = handlers[h].pay
  BY OwnInvoice DEF SaveInvoice, Claimed
<1>2. /\ gateway[c].status = "captured" /\ Stored(c)
      /\ payments[c].invoice = InvoiceOf(h) /\ InvoiceOf(h) \in Invoices
  BY <1>1, OwnInvoice DEF SaveInvoice, Claimed
<1>3. /\ credits'[c] = credits[c] + 1
      /\ \A d \in Checkouts \ {c} : credits'[d] = credits[d]
      /\ UNCHANGED <<payments, gateway>>
      /\ credits[c] \in Nat
  BY <1>1 DEF SaveInvoice, IInv, TypeOK
<1> DEFINE C == { d \in Checkouts : credits[d] > 0 }
           a == fromPaisa(gateway[c].amount)
<1>4. CreditsOK'
  <2>1. { d \in Checkouts : credits'[d] > 0 } = C \cup {c}
    BY <1>3
  <2>2. IsFiniteSet(C \cup {c})
    BY FS_AddElement DEF CreditsOK
  <2>3. ASSUME NEW d \in Checkouts, credits'[d] > 0
        PROVE  Stored(d)' /\ gateway'[d].status = "captured"
    BY <1>2, <1>3, <2>3 DEF CreditsOK, Stored
  <2> QED
    BY <2>1, <2>2, <2>3 DEF CreditsOK
<1>5. a \in Nat
  BY DEF IInv, TypeOK, fromPaisa
<1>6. Worth'[c] = Worth[c] + a /\ \A d \in Checkouts \ {c} : Worth'[d] = Worth[d]
  <2>1. Worth[c] = credits[c] * a /\ Worth'[c] = (credits[c] + 1) * a
    BY <1>3 DEF Worth
  <2>2. \A d \in Checkouts \ {c} : Worth'[d] = Worth[d]
    BY <1>3 DEF Worth
  <2> HIDE DEF a
  <2>3. \A n, m \in Nat : (n + 1) * m = n * m + m
    OBVIOUS
  <2> QED
    BY <1>3, <1>5, <2>1, <2>2, <2>3
<1>7. credits[c] = 0 => Worth[c] = 0
  <2>1. Worth[c] = credits[c] * a
    BY DEF Worth
  <2> HIDE DEF a
  <2>2. \A m \in Nat : 0 * m = 0
    OBVIOUS
  <2> QED
    BY <1>5, <2>1, <2>2
<1>8. \A d \in Checkouts : Worth[d] \in Nat /\ Worth'[d] \in Nat
  <2>1. ASSUME NEW d \in Checkouts PROVE Worth[d] \in Nat
    BY AppliedType
  <2> HIDE DEF a
  <2> QED
    BY <1>5, <1>6, <2>1
<1>9. ASSUME NEW j \in Invoices, j # InvoiceOf(h) PROVE Applied(j)' = Applied(j)
  <2>1. CreditedTo(j)' = CreditedTo(j) /\ c \notin CreditedTo(j) /\ CreditedTo(j) \subseteq Checkouts
    BY <1>2, <1>3, <1>9 DEF CreditedTo
  <2>2. \A d \in CreditedTo(j) : Worth[d] \in Int /\ Worth[d] = Worth'[d]
    BY <1>6, <1>8, <2>1
  <2>3. SumFunctionOnSet(Worth, CreditedTo(j)) = SumFunctionOnSet(Worth', CreditedTo(j))
    BY <2>2, AppliedType, SumEqual
  <2> QED
    BY <2>1, <2>3 DEF Applied
<1>10. ASSUME NEW i \in Invoices, i = InvoiceOf(h) PROVE Applied(i)' = Applied(i) + a
  <2> DEFINE R == CreditedTo(i) \ {c}
  <2>1. /\ IsFiniteSet(R) /\ c \notin R /\ R \subseteq Checkouts
        /\ CreditedTo(i)' = R \cup {c}
        /\ CreditedTo(i) = IF credits[c] > 0 THEN R \cup {c} ELSE R
    <3>1. CreditedTo(i) \subseteq Checkouts /\ IsFiniteSet(CreditedTo(i))
      BY AppliedType DEF CreditedTo
    <3>2. IsFiniteSet(R)
      BY <3>1, FS_Subset
    <3>3. c \in CreditedTo(i) <=> credits[c] > 0
      BY <1>2, <1>10 DEF CreditedTo
    <3>4. CreditedTo(i)' = R \cup {c}
      BY <1>2, <1>3, <1>10 DEF CreditedTo
    <3> QED
      BY <3>1, <3>2, <3>3, <3>4
  <2> HIDE DEF R
  <2>2. /\ SumFunctionOnSet(Worth', R \cup {c}) = Worth'[c] + SumFunctionOnSet(Worth', R)
        /\ SumFunctionOnSet(Worth, R \cup {c}) = Worth[c] + SumFunctionOnSet(Worth, R)
    <3>1. \A d \in R \cup {c} : Worth[d] \in Int /\ Worth'[d] \in Int
      BY <1>8, <2>1
    <3> QED
      BY <2>1, <3>1, SumAdd
  <2>3. /\ SumFunctionOnSet(Worth, R) = SumFunctionOnSet(Worth', R)
        /\ SumFunctionOnSet(Worth, R) \in Int
    <3>1. \A d \in R : Worth[d] \in Int /\ Worth[d] = Worth'[d]
      BY <1>6, <1>8, <2>1
    <3> QED
      BY <2>1, <3>1, SumEqual, SumType
  <2>4. Applied(i) = Worth[c] + SumFunctionOnSet(Worth, R)
    <3>1. CASE credits[c] > 0
      BY <2>1, <2>2, <3>1 DEF Applied
    <3>2. CASE ~ (credits[c] > 0)
      BY <1>3, <1>7, <2>1, <2>3, <3>2 DEF Applied
    <3> QED
      BY <3>1, <3>2
  <2>5. Applied(i)' = Worth'[c] + SumFunctionOnSet(Worth', R)
    BY <2>1, <2>2 DEF Applied
  <2> HIDE DEF a
  <2> QED
    BY <1>5, <1>6, <1>8, <2>3, <2>4, <2>5
<1>11. ASSUME NEW j \in Invoices
       PROVE  Applied(j)' = Applied(j) + IF j = InvoiceOf(h) THEN a ELSE 0
  <2>1. CASE j = InvoiceOf(h)
    BY <1>10, <2>1
  <2>2. CASE j # InvoiceOf(h)
    <3>1. Applied(j) \in Nat
      BY AppliedType
    <3> QED
      BY <1>9, <2>2, <3>1
  <2> QED
    BY <2>1, <2>2
<1> QED
  BY <1>1, <1>4, <1>11

\* A payment makes an amount grow by no more than itself, to whole paisa or to
\* the amount due.
LEMMA CreditAtMost ==
  ASSUME NEW i \in Invoices, NEW paid \in Nat, paid <= Due[i], Payable(paid, i), NEW a \in Nat
  PROVE  LET new == applyPayment(Due[i], paid, fromPaisa(a))
         IN  Payable(new, i) /\ new <= paid + fromPaisa(a)
<1> USE ConstantsAssumption
<1> DEFINE rounded == fromPaisa(toPaisa(paid + fromPaisa(a)))
<1>1. toPaisa(paid + fromPaisa(a)) \in Nat /\ rounded \in Nat
  BY DEF toPaisa, fromPaisa
<1>2. Payable(applyPayment(Due[i], paid, fromPaisa(a)), i)
  BY <1>1 DEF applyPayment, Payable
<1>3. ASSUME paid = Due[i] PROVE applyPayment(Due[i], paid, fromPaisa(a)) <= paid + fromPaisa(a)
  BY <1>1, <1>3 DEF applyPayment, fromPaisa
<1>4. ASSUME NEW k \in Nat, paid = fromPaisa(k)
      PROVE  applyPayment(Due[i], paid, fromPaisa(a)) <= paid + fromPaisa(a)
  <2>1. paid + fromPaisa(a) = 10 * (k + a)
    BY <1>4 DEF fromPaisa
  <2>2. \A n \in Nat : (10 * n + 5) \div 10 = n
    OBVIOUS
  <2>3. rounded = paid + fromPaisa(a)
    BY <2>1, <2>2 DEF fromPaisa, toPaisa
  <2> QED
    BY <1>1, <2>3 DEF applyPayment
<1> QED
  <2>1. applyPayment(Due[i], paid, fromPaisa(a)) <= paid + fromPaisa(a)
    BY <1>3, <1>4 DEF Payable
  <2> QED
    BY <1>2, <2>1

\* A request is about to save because it was, or has just read the invoice.
LEMMA AboutToSave ==
  ASSUME IInv, [Next]_vars, NEW h \in Handlers, handlers'[h].pc = "save"
  PROVE  handlers'[h] = handlers[h] \/ ReadInvoice(h)
<1>1. ASSUME NEW g \in Handlers, Step(g) \/ AbortWebhook(g) \/ \E c \in Checkouts, e \in Events : Receive(g, c, e)
      PROVE  handlers'[h] = handlers[h] \/ ReadInvoice(h)
  <2>1. CASE g # h
    BY <1>1, <2>1 DEF Step, Receive, CheckExisting, FindCreated, Claim, ClaimLost, ReadInvoice,
      SaveInvoice, Notify, AbortWebhook, Respond, IInv, TypeOK
  <2>2. CASE g = h
    <3>1. handlers[h] \in Request /\ handlers \in [Handlers -> Request]
      BY DEF IInv, TypeOK
    <3>2. CASE \/ \E c \in Checkouts, e \in Events : Receive(h, c, e)
               \/ ClaimLost(h) \/ Notify(h) \/ AbortWebhook(h)
      BY <3>1, <3>2 DEF Receive, ClaimLost, Notify, AbortWebhook, Respond, Idle
    <3>3. CASE CheckExisting(h)
      BY <3>1, <3>3 DEF CheckExisting, Respond, Idle, Request
    <3>4. CASE FindCreated(h)
      <4>1. CASE Pending(handlers[h].pay) = {}
        BY <3>1, <3>4, <4>1 DEF FindCreated, Respond, Idle
      <4>2. ASSUME NEW d, handlers'[h] = [handlers[h] EXCEPT !.pc = "claim", !.doc = d]
            PROVE  FALSE
        BY <3>1, <4>2 DEF Request
      <4> QED
        BY <3>1, <3>4, <4>1, <4>2 DEF FindCreated
    <3>5. CASE Claim(h)
      BY <3>1, <3>5 DEF Claim, Request
    <3>6. CASE SaveInvoice(h)
      BY <3>1, <3>6 DEF SaveInvoice, Request
    <3> QED
      BY <1>1, <2>2, <3>2, <3>3, <3>4, <3>5, <3>6 DEF Step
  <2> QED
    BY <2>1, <2>2
<1>2. \/ handlers' = handlers
      \/ \E g \in Handlers : Step(g) \/ AbortWebhook(g)
                             \/ \E c \in Checkouts, e \in Events : Receive(g, c, e)
  BY DEF Next, vars, OpenOrder, StoreOrder, AbortOrder, Authorize, CapturePay
<1> QED
  BY <1>1, <1>2

\* What a request read it saves as the credit of its payment.
LEMMA ReadSaves ==
  ASSUME IInv, MoneyInv, NEW h \in Handlers, ReadInvoice(h)
  PROVE  /\ InvoiceOf(h)' = InvoiceOf(h) /\ handlers'[h].pay = handlers[h].pay
         /\ Payable(handlers'[h].new.amountPaid, InvoiceOf(h))
         /\ handlers'[h].new.amountPaid
              <= Applied(InvoiceOf(h)) + fromPaisa(gateway[handlers[h].pay].amount)
<1> DEFINE i == InvoiceOf(h)
           a == gateway[handlers[h].pay].amount
           paid == applyPayment(Due[i], invoices[i].amountPaid, fromPaisa(a))
<1>1. i \in Invoices /\ handlers[h].pay \in Checkouts
  BY OwnInvoice DEF ReadInvoice, Claimed, MoneyInv
<1>2. handlers[h] \in Request /\ handlers \in [Handlers -> Request]
  BY DEF IInv, TypeOK
<1>3. PICK overdue \in BOOLEAN : handlers'[h] =
        [handlers[h] EXCEPT !.pc  = "save",
                            !.old = invoices[i],
                            !.new = [amountPaid |-> paid,
                                     status     |-> computeInvoiceStatus(Due[i], paid, overdue)]]
  BY <1>2 DEF ReadInvoice
<1>4. /\ handlers'[h].pay = handlers[h].pay /\ handlers'[h].doc = handlers[h].doc
      /\ handlers'[h].new.amountPaid = paid
  BY <1>2, <1>3 DEF Request
<1>5. /\ invoices[i].amountPaid \in Nat /\ invoices[i].amountPaid <= Due[i]
      /\ a \in Nat /\ MoneyOK(i)
  BY <1>1 DEF IInv, TypeOK, Account, MoneyInv
<1>6. Payable(paid, i) /\ paid <= invoices[i].amountPaid + fromPaisa(a)
  BY <1>1, <1>5, CreditAtMost DEF MoneyOK
<1>7. InvoiceOf(h)' = i
  BY <1>4 DEF ReadInvoice, InvoiceOf
<1>8. Applied(i) \in Nat /\ paid \in Nat
  <2>1. Applied(i) \in Nat
    BY <1>1, AppliedType DEF MoneyInv
  <2>2. paid \in Nat
    BY <1>1, <1>5, CreditClamped, ConstantsAssumption
  <2> QED
    BY <2>1, <2>2
<1>9. paid <= Applied(i) + fromPaisa(a)
  <2>1. fromPaisa(a) \in Nat /\ invoices[i].amountPaid <= Applied(i)
    BY <1>5 DEF fromPaisa, MoneyOK
  <2> HIDE DEF paid, i, a
  <2> QED
    BY <1>5, <1>6, <1>8, <2>1
<1> QED
  BY <1>4, <1>6, <1>7, <1>9

LEMMA StepMoney == ASSUME IInv, MoneyInv, [Next]_vars PROVE MoneyInv'
<1>1. OrdersOK /\ CreditsOK /\ OrdersOK'
  BY StepOrders DEF MoneyInv
\* Requests about to save, as long as what was applied only grows.
<1>2. ASSUME \A i \in Invoices : Applied(i)' \in Nat /\ Applied(i)' >= Applied(i), NEW h \in Handlers
      PROVE  SaveOK(h)'
  <2> SUFFICES ASSUME handlers'[h].pc = "save" PROVE SaveOK(h)'
    BY DEF SaveOK
  <2> DEFINE i == InvoiceOf(h)
             a == gateway[handlers[h].pay].amount
  <2>1. /\ handlers[h].pc \in Claimed
        /\ InvoiceOf(h)' = i /\ handlers'[h].pay = handlers[h].pay
        /\ Payable(handlers'[h].new.amountPaid, i)
        /\ handlers'[h].new.amountPaid <= Applied(i) + fromPaisa(a)
        /\ handlers'[h].new.amountPaid \in Nat
    <3>1. CASE handlers'[h] = handlers[h]
      <4>1. handlers[h].pc = "save" /\ handlers[h].doc \in Checkouts /\ Stored(handlers[h].doc)
            /\ handlers[h].new \in Account
        BY <3>1 DEF IInv, RequestOK, Claimed
      <4>2. InvoiceOf(h)' = i
        BY <3>1, <4>1, PaymentsKept DEF InvoiceOf
      <4>3. SaveOK(h)
        BY DEF MoneyInv
      <4> QED
        BY <3>1, <4>1, <4>2, <4>3 DEF SaveOK, Claimed, Account
    <3>2. CASE ReadInvoice(h)
      <4>1. handlers[h].pc \in Claimed
        BY <3>2 DEF ReadInvoice, Claimed
      <4>2. handlers'[h].new \in Account
        BY StepInvariant DEF IInv, RequestOK
      <4> QED
        BY <3>2, <4>1, <4>2, ReadSaves DEF Account
    <3> QED
      BY <3>1, <3>2, AboutToSave
  <2>2. i \in Invoices /\ handlers[h].pay \in Checkouts /\ gateway[handlers[h].pay].status = "captured"
    BY <1>1, <2>1, OwnInvoice
  <2>3. gateway'[handlers'[h].pay].amount = a /\ a \in Nat
    BY <2>1, <2>2, PaymentsKept DEF IInv, TypeOK
  <2>4. Applied(i) \in Nat
    BY <1>1, <2>2, AppliedType
  <2>5. PICK j \in Invoices : j = i
    BY <2>2
  <2>6. Applied(j)' \in Nat
    BY <1>2
  <2>7. Applied(j)' >= Applied(j) /\ Applied(j) \in Nat
    BY <1>2, <2>4, <2>5
  <2>8. handlers'[h].new.amountPaid <= Applied(j)' + fromPaisa(a)
    <3>1. fromPaisa(a) \in Nat /\ handlers'[h].new.amountPaid <= Applied(j) + fromPaisa(a)
      BY <2>1, <2>3, <2>5 DEF fromPaisa
    <3> HIDE DEF a, i
    <3> QED
      BY <2>1, <2>6, <2>7, <3>1
  <2>9. InvoiceOf(h)' = j /\ Payable(handlers'[h].new.amountPaid, j)
    BY <2>1, <2>5
  <2> QED
    BY <2>3, <2>8, <2>9 DEF SaveOK, Payable
<1>3. CASE \A h \in Handlers : ~SaveInvoice(h)
  <2>1. invoices' = invoices /\ credits' = credits
    BY <1>3 DEF Next, vars, OpenOrder, StoreOrder, AbortOrder, Authorize, CapturePay, Receive, Step,
      CheckExisting, FindCreated, Claim, ClaimLost, ReadInvoice, Notify, AbortWebhook
  <2>2. CreditsOK' /\ \A i \in Invoices : Applied(i)' = Applied(i) /\ Applied(i) \in Nat
    BY <1>1, <2>1, AppliedKept, AppliedType
  <2>3. \A i \in Invoices : MoneyOK(i)'
    BY <2>1, <2>2 DEF MoneyInv, MoneyOK, Payable
  <2>4. \A h \in Handlers : SaveOK(h)'
    BY <1>2, <2>2
  <2> QED
    BY <1>1, <2>2, <2>3, <2>4 DEF MoneyInv
<1>4. ASSUME NEW h \in Handlers, SaveInvoice(h) PROVE MoneyInv'
  <2>1. PICK i \in Invoices : i = InvoiceOf(h)
    BY <1>1, <1>4, OwnInvoice DEF SaveInvoice, Claimed
  <2>2. PICK a \in Nat : a = fromPaisa(gateway[handlers[h].pay].amount)
    BY <1>1, <1>4, OwnInvoice DEF SaveInvoice, Claimed, IInv, TypeOK, fromPaisa
  <2>3. /\ CreditsOK'
        /\ \A j \in Invoices : /\ Applied(j)' = Applied(j) + IF j = i THEN a ELSE 0
                               /\ Applied(j) \in Nat
    BY <1>1, <1>4, <2>1, <2>2, SaveApplies, AppliedType
  <2>4. /\ SaveOK(h) /\ handlers[h].pc = "save" /\ handlers[h].new \in Account
        /\ invoices[i] \in Account /\ invoices \in [Invoices -> Account] /\ MoneyOK(i)
    BY <1>4, <2>1 DEF MoneyInv, SaveInvoice, IInv, TypeOK, RequestOK
  <2>5. invoices' = [invoices EXCEPT ![i] = SaveModified(@, handlers[h].old, handlers[h].new)]
    BY <1>4, <2>1 DEF SaveInvoice
  <2>6. \/ invoices'[i].amountPaid = handlers[h].new.amountPaid
        \/ invoices'[i].amountPaid = invoices[i].amountPaid
    BY <2>4, <2>5 DEF SaveModified
  <2>7. \A j \in Invoices \ {i} : invoices'[j] = invoices[j]
    BY <2>4, <2>5
  <2>8. Payable(invoices'[i].amountPaid, i)
    BY <2>1, <2>4, <2>6 DEF SaveOK, MoneyOK
  <2>9. invoices'[i].amountPaid <= Applied(i)'
    <3>1. /\ handlers[h].new.amountPaid <= Applied(i) + a
          /\ invoices[i].amountPaid <= Applied(i)
      BY <2>1, <2>2, <2>4 DEF SaveOK, MoneyOK
    <3>2. Applied(i)' = Applied(i) + a /\ Applied(i) \in Nat
      BY <2>3
    <3>3. handlers[h].new.amountPaid \in Nat /\ invoices[i].amountPaid \in Nat
      BY <2>4 DEF Account
    <3> QED
      BY <2>6, <3>1, <3>2, <3>3
  <2>10. \A j \in Invoices : MoneyOK(j)'
    <3>1. MoneyOK(i)'
      BY <2>8, <2>9 DEF MoneyOK, Payable
    <3>2. ASSUME NEW j \in Invoices \ {i} PROVE MoneyOK(j)'
      <4>1. Applied(j)' = Applied(j)
        BY <2>3
      <4> QED
        BY <2>7, <4>1 DEF MoneyInv, MoneyOK, Payable
    <3> QED
      BY <3>1, <3>2
  <2>11. \A j \in Invoices : Applied(j)' \in Nat /\ Applied(j)' >= Applied(j)
    BY <2>3
  <2>12. \A g \in Handlers : SaveOK(g)'
    BY <1>2, <2>11
  <2> QED
    BY <1>1, <2>3, <2>10, <2>12 DEF MoneyInv
<1> QED
  BY <1>3, <1>4

LEMMA MoneyHolds == Spec => []MoneyInv
<1>1. Init => MoneyInv
  <2> SUFFICES ASSUME Init PROVE MoneyInv
    OBVIOUS
  <2>1. OrdersOK
    BY DEF Init, OrdersOK, Stored, Absent
  <2>2. { c \in Checkouts : credits[c] > 0 } = {}
    BY DEF Init
  <2>3. CreditsOK
    BY <2>2, FS_EmptySet DEF CreditsOK
  <2>4. ASSUME NEW i \in Invoices PROVE MoneyOK(i)
    <3>1. CreditedTo(i) = {}
      BY DEF Init, CreditedTo
    <3>2. Applied(i) = 0
      BY <3>1, SumEmpty DEF Applied
    <3>3. invoices[i].amountPaid = fromPaisa(0)
      BY DEF Init, fromPaisa
    <3> QED
      BY <3>2, <3>3 DEF MoneyOK, Payable, fromPaisa
  <2>5. \A h \in Handlers : SaveOK(h)
    BY DEF Init, Idle, SaveOK
  <2> QED
    BY <2>1, <2>3, <2>4, <2>5 DEF MoneyInv
<1>2. IInv /\ MoneyInv /\ [Next]_vars => MoneyInv'
  BY StepMoney
<1> QED
  BY <1>1, <1>2, InvariantHolds, PTL DEF Spec

\* However requests overlap and stop, and with the stub gateway too, an invoice
\* never shows more than was captured for it, a payment counted as often as it
\* was applied.
THEOREM NothingInvented == Spec => []PaidWasCaptured
<1>1. MoneyInv => PaidWasCaptured
  BY DEF MoneyInv, MoneyOK, Applied, PaidWasCaptured
<1> QED
  BY <1>1, MoneyHolds, PTL

-----------------------------------------------------------------------------
(* The credits of an invoice are never all lost *)

\* An amount paid that shows payment c.
Shows(paid, i, c) == paid = Due[i] \/ paid >= fromPaisa(gateway[c].amount)

KeepsOne(i) ==
  CreditedTo(i) # {} => \E c \in CreditedTo(i) : Shows(invoices[i].amountPaid, i, c)

\* A request about to save shows its payment; if it leaves the amount alone, an
\* earlier credit had paid all of it.
SaveShows(h) ==
  handlers[h].pc = "save" =>
    /\ Shows(handlers[h].new.amountPaid, InvoiceOf(h), handlers[h].pay)
    /\ handlers[h].new.amountPaid = handlers[h].old.amountPaid =>
         \/ Due[InvoiceOf(h)] = 0 \/ gateway[handlers[h].pay].amount = 0
         \/ CreditedTo(InvoiceOf(h)) # {}

KeepInv ==
  /\ \A i \in Invoices : KeepsOne(i)
  /\ \A h \in Handlers : SaveShows(h)

\* A credit shows its payment, and changes an amount that was not yet all paid.
LEMMA CreditShows ==
  ASSUME NEW i \in Invoices, NEW paid \in Nat, paid <= Due[i], Payable(paid, i), NEW a \in Nat
  PROVE  LET new == applyPayment(Due[i], paid, fromPaisa(a))
         IN  /\ new = Due[i] \/ new >= fromPaisa(a)
             /\ new = paid => a = 0 \/ paid = Due[i]
<1> USE ConstantsAssumption
<1> DEFINE rounded == fromPaisa(toPaisa(paid + fromPaisa(a)))
           new == applyPayment(Due[i], paid, fromPaisa(a))
<1>1. new = IF rounded < Due[i] THEN rounded ELSE Due[i]
  BY DEF applyPayment
<1>2. rounded \in Nat /\ Due[i] \in Nat /\ rounded >= fromPaisa(a)
  BY DEF toPaisa, fromPaisa
<1>3. ASSUME new = paid, paid # Due[i] PROVE a = 0
  <2>1. PICK k \in Nat : paid = fromPaisa(k)
    BY <1>3 DEF Payable
  <2>2. paid + fromPaisa(a) = 10 * (k + a)
    BY <2>1 DEF fromPaisa
  <2>3. \A n \in Nat : (10 * n + 5) \div 10 = n
    OBVIOUS
  <2>4. rounded = paid + fromPaisa(a)
    BY <2>2, <2>3 DEF fromPaisa, toPaisa
  <2>5. rounded = paid
    BY <1>1, <1>3
  <2> QED
    BY <2>4, <2>5 DEF fromPaisa
<1> HIDE DEF rounded, new
<1>4. new = Due[i] \/ new >= fromPaisa(a)
  BY <1>1, <1>2
<1> QED
  BY <1>3, <1>4 DEF new

\* What a request has just read and computed.
LEMMA ReadShows ==
  ASSUME IInv, MoneyInv, NEW h \in Handlers, ReadInvoice(h)
  PROVE  /\ InvoiceOf(h)' = InvoiceOf(h) /\ handlers'[h].pay = handlers[h].pay
         /\ Shows(handlers'[h].new.amountPaid, InvoiceOf(h), handlers[h].pay)
         /\ handlers'[h].new.amountPaid = handlers'[h].old.amountPaid =>
              \/ Due[InvoiceOf(h)] = 0 \/ gateway[handlers[h].pay].amount = 0
              \/ CreditedTo(InvoiceOf(h)) # {}
<1> DEFINE i == InvoiceOf(h)
           a == gateway[handlers[h].pay].amount
           paid == applyPayment(Due[i], invoices[i].amountPaid, fromPaisa(a))
<1>1. i \in Invoices /\ handlers[h].pay \in Checkouts
  BY OwnInvoice DEF ReadInvoice, Claimed, MoneyInv
<1>2. handlers[h] \in Request /\ handlers \in [Handlers -> Request]
  BY DEF IInv, TypeOK
<1>3. PICK overdue \in BOOLEAN : handlers'[h] =
        [handlers[h] EXCEPT !.pc  = "save",
                            !.old = invoices[i],
                            !.new = [amountPaid |-> paid,
                                     status     |-> computeInvoiceStatus(Due[i], paid, overdue)]]
  BY <1>2 DEF ReadInvoice
<1>4. /\ handlers'[h].pay = handlers[h].pay /\ handlers'[h].doc = handlers[h].doc
      /\ handlers'[h].new.amountPaid = paid
      /\ handlers'[h].old.amountPaid = invoices[i].amountPaid
  BY <1>2, <1>3 DEF Request
<1>5. /\ invoices[i].amountPaid \in Nat /\ invoices[i].amountPaid <= Due[i]
      /\ a \in Nat /\ MoneyOK(i)
  BY <1>1 DEF IInv, TypeOK, Account, MoneyInv
<1>6. /\ paid = Due[i] \/ paid >= fromPaisa(a)
      /\ paid = invoices[i].amountPaid => a = 0 \/ invoices[i].amountPaid = Due[i]
  BY <1>1, <1>5, CreditShows DEF MoneyOK
<1>7. InvoiceOf(h)' = i
  BY <1>4 DEF ReadInvoice, InvoiceOf
\* An invoice that shows money was credited.
<1>8. invoices[i].amountPaid > 0 => CreditedTo(i) # {}
  <2> SUFFICES ASSUME CreditedTo(i) = {} PROVE ~ (invoices[i].amountPaid > 0)
    OBVIOUS
  <2>1. Applied(i) = 0
    BY SumEmpty DEF Applied
  <2> QED
    BY <1>5, <2>1 DEF MoneyOK
<1>9. Due[i] \in Nat
  BY <1>1, ConstantsAssumption
<1> HIDE DEF paid
<1> QED
  BY <1>4, <1>5, <1>6, <1>7, <1>8, <1>9 DEF Shows

\* What was credited stays so.
LEMMA CreditedKept ==
  ASSUME IInv, MoneyInv, [Next]_vars, NEW i \in Invoices, NEW c \in CreditedTo(i)
  PROVE  c \in CreditedTo(i)' /\ gateway'[c] = gateway[c]
<1>1. c \in Checkouts /\ credits[c] > 0 /\ payments[c].invoice = i
  BY DEF CreditedTo
<1>2. Stored(c) /\ gateway[c].status = "captured"
  BY <1>1 DEF MoneyInv, CreditsOK
<1>3. gateway'[c] = gateway[c] /\ payments'[c].invoice = i
  BY <1>1, <1>2, PaymentsKept
<1>4. credits'[c] > 0
  <2>1. ASSUME NEW h \in Handlers, SaveInvoice(h) PROVE credits'[c] > 0
    BY <1>1, <2>1 DEF SaveInvoice, IInv, TypeOK
  <2>2. credits' = credits \/ \E h \in Handlers : SaveInvoice(h)
    BY DEF Next, vars, OpenOrder, StoreOrder, AbortOrder, Authorize, CapturePay, Receive, Step,
      CheckExisting, FindCreated, Claim, ClaimLost, ReadInvoice, Notify, AbortWebhook
  <2> QED
    BY <1>1, <2>1, <2>2
<1> QED
  BY <1>1, <1>3, <1>4 DEF CreditedTo

LEMMA StepKeepsOne == ASSUME IInv, MoneyInv, KeepInv, [Next]_vars PROVE KeepInv'
<1>1. ASSUME NEW h \in Handlers PROVE SaveShows(h)'
  <2> SUFFICES ASSUME handlers'[h].pc = "save" PROVE SaveShows(h)'
    BY DEF SaveShows
  <2> DEFINE i == InvoiceOf(h)
             c == handlers[h].pay
  <2>1. /\ handlers[h].pc \in Claimed
        /\ InvoiceOf(h)' = i /\ handlers'[h].pay = c
        /\ Shows(handlers'[h].new.amountPaid, i, c)
        /\ handlers'[h].new.amountPaid = handlers'[h].old.amountPaid =>
             Due[i] = 0 \/ gateway[c].amount = 0 \/ CreditedTo(i) # {}
    <3>1. CASE handlers'[h] = handlers[h]
      <4>1. handlers[h].pc = "save" /\ handlers[h].doc \in Checkouts /\ Stored(handlers[h].doc)
        BY <3>1 DEF IInv, RequestOK, Claimed
      <4>2. InvoiceOf(h)' = i
        BY <3>1, <4>1, PaymentsKept DEF InvoiceOf
      <4>3. SaveShows(h)
        BY DEF KeepInv
      <4> QED
        BY <3>1, <4>1, <4>2, <4>3 DEF SaveShows, Claimed
    <3>2. CASE ReadInvoice(h)
      <4>1. handlers[h].pc \in Claimed
        BY <3>2 DEF ReadInvoice, Claimed
      <4> QED
        BY <3>2, <4>1, ReadShows
    <3> QED
      BY <3>1, <3>2, AboutToSave
  <2>2. i \in Invoices /\ gateway'[c] = gateway[c]
    BY <2>1, OwnInvoice, PaymentsKept DEF MoneyInv
  <2>3. PICK j \in Invoices : j = i
    BY <2>2
  <2>4. CreditedTo(j) # {} => CreditedTo(j)' # {}
    BY CreditedKept
  <2>5. CreditedTo(InvoiceOf(h))' = CreditedTo(j)'
    BY <2>1, <2>3 DEF CreditedTo
  <2> HIDE DEF i, c
  <2> QED
    BY <2>1, <2>2, <2>3, <2>4, <2>5 DEF SaveShows, Shows
\* An amount that is left alone still shows what it showed.
<1>2. ASSUME NEW i \in Invoices, invoices'[i].amountPaid = invoices[i].amountPaid,
             CreditedTo(i) # {}
      PROVE  KeepsOne(i)'
  <2>1. PICK c \in CreditedTo(i) : Shows(invoices[i].amountPaid, i, c)
    BY <1>2 DEF KeepInv, KeepsOne
  <2> QED
    BY <1>2, <2>1, CreditedKept DEF KeepsOne, Shows
<1>3. ASSUME NEW h \in Handlers, SaveInvoice(h), NEW i \in Invoices, i = InvoiceOf(h)
      PROVE  KeepsOne(i)'
  <2> DEFINE c == handlers[h].pay
  <2>1. c \in CreditedTo(i)' /\ gateway' = gateway
    <3>1. c \in Checkouts /\ payments[c].invoice = i
      BY <1>3, OwnInvoice DEF SaveInvoice, Claimed, MoneyInv
    <3>2. credits'[c] > 0 /\ payments' = payments /\ gateway' = gateway
      BY <1>3, <3>1 DEF SaveInvoice, IInv, TypeOK
    <3> QED
      BY <3>1, <3>2 DEF CreditedTo
  <2>2. /\ handlers[h].new \in Account /\ handlers[h].pc = "save"
        /\ invoices \in [Invoices -> Account]
    BY <1>3 DEF SaveInvoice, IInv, TypeOK, RequestOK
  <2>3. invoices'[i].amountPaid = IF handlers[h].new.amountPaid # handlers[h].old.amountPaid
                                  THEN handlers[h].new.amountPaid
                                  ELSE invoices[i].amountPaid
    BY <1>3, <2>2 DEF SaveInvoice, SaveModified
  <2>4. Shows(handlers[h].new.amountPaid, i, c)
    BY <1>3, <2>2 DEF KeepInv, SaveShows
  <2>5. CASE handlers[h].new.amountPaid # handlers[h].old.amountPaid
    <3>1. Shows(invoices'[i].amountPaid, i, c)
      BY <2>3, <2>4, <2>5
    <3> HIDE DEF c
    <3> QED
      BY <2>1, <3>1 DEF KeepsOne, Shows
  <2>6. CASE handlers[h].new.amountPaid = handlers[h].old.amountPaid
    <3>1. Due[i] = 0 \/ gateway[c].amount = 0 \/ CreditedTo(i) # {}
      BY <1>3, <2>2, <2>6 DEF KeepInv, SaveShows
    <3>2. invoices'[i].amountPaid = invoices[i].amountPaid
      BY <2>3, <2>6
    <3>3. CASE CreditedTo(i) # {}
      BY <1>2, <3>2, <3>3
    <3>4. CASE Due[i] = 0 \/ gateway[c].amount = 0
      <4>1. invoices[i].amountPaid \in Nat /\ invoices[i].amountPaid <= Due[i]
        BY <2>2 DEF IInv, TypeOK, Account
      <4>2. Shows(invoices'[i].amountPaid, i, c)
        BY <3>2, <3>4, <4>1 DEF Shows, fromPaisa
      <4> HIDE DEF c
      <4> QED
        BY <2>1, <4>2 DEF KeepsOne, Shows
    <3> QED
      BY <3>1, <3>3, <3>4
  <2> QED
    BY <2>5, <2>6
<1>4. ASSUME NEW i \in Invoices PROVE KeepsOne(i)'
  <2>1. ASSUME NEW h \in Handlers, SaveInvoice(h), i # InvoiceOf(h)
        PROVE  invoices'[i] = invoices[i] /\ CreditedTo(i)' = CreditedTo(i)
    <3>1. handlers[h].pay \in Checkouts /\ payments[handlers[h].pay].invoice # i
      BY <2>1, OwnInvoice DEF SaveInvoice, Claimed, MoneyInv
    <3>2. /\ payments' = payments
          /\ \A c \in Checkouts \ {handlers[h].pay} : credits'[c] = credits[c]
          /\ invoices'[i] = invoices[i]
      BY <2>1 DEF SaveInvoice, IInv, TypeOK
    <3> QED
      BY <3>1, <3>2 DEF CreditedTo
  <2>2. ASSUME \A h \in Handlers : ~ SaveInvoice(h)
        PROVE  invoices' = invoices /\ (CreditedTo(i)' # {} => CreditedTo(i) # {})
    <3>1. invoices' = invoices /\ credits' = credits
      BY <2>2 DEF Next, vars, OpenOrder, StoreOrder, AbortOrder, Authorize, CapturePay, Receive,
        Step, CheckExisting, FindCreated, Claim, ClaimLost, ReadInvoice, Notify, AbortWebhook
    <3>2. ASSUME NEW c \in CreditedTo(i)' PROVE c \in CreditedTo(i)
      <4>1. c \in Checkouts /\ credits[c] > 0 /\ payments'[c].invoice = i
        BY <3>1 DEF CreditedTo
      <4>2. Stored(c)
        BY <4>1 DEF MoneyInv, CreditsOK
      <4> QED
        BY <4>1, <4>2, PaymentsKept DEF CreditedTo
    <3> QED
      BY <3>1, <3>2
  <2>3. CASE CreditedTo(i)' = {}
    BY <2>3 DEF KeepsOne
  <2>4. CASE CreditedTo(i)' # {}
    BY <1>2, <1>3, <2>1, <2>2, <2>4
  <2> QED
    BY <2>3, <2>4
<1> QED
  BY <1>1, <1>4 DEF KeepInv

\* However saves on stale copies overwrite each other and wherever requests stop,
\* an invoice with a credit is paid in full or shows the smallest of its credits.
THEOREM NeverAllLost == Spec => []SomeCreditStays
<1>1. Init => KeepInv
  <2> SUFFICES ASSUME Init PROVE KeepInv
    OBVIOUS
  <2>1. \A i \in Invoices : CreditedTo(i) = {}
    BY DEF Init, CreditedTo
  <2> QED
    BY <2>1 DEF Init, Idle, KeepInv, KeepsOne, SaveShows
<1>2. IInv /\ MoneyInv /\ KeepInv /\ [Next]_vars => KeepInv'
  BY StepKeepsOne
<1>3. KeepInv => SomeCreditStays
  BY DEF KeepInv, KeepsOne, Shows, SomeCreditStays
<1> QED
  BY <1>1, <1>2, <1>3, InvariantHolds, MoneyHolds, PTL DEF Spec
==============================================================================

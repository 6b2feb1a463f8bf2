------------------------ MODULE PaymentsSerialProofs ------------------------
(***************************************************************************)
(* One delivery at a time: the webhook then implements Ledger, for any     *)
(* number of invoices, orders, order requests and stops; the fees report   *)
(* only falls; and while no request stops, all acknowledged money is on    *)
(* its invoice.  These properties fail when two deliveries overlap.        *)
(***************************************************************************)
EXTENDS PaymentsProofs

OneHandler == \A g, h \in Handlers : g = h

\* What the handler writes on the invoice it read.
CreditOf(h, overdue) ==
  LET i    == InvoiceOf(h)
      paid == applyPayment(Due[i], invoices[i].amountPaid,
                           fromPaisa(gateway[handlers[h].pay].amount))
  IN  [amountPaid |-> paid,
       status     |-> computeInvoiceStatus(Due[i], paid, overdue)]

\* What the handler learned from its reads still holds when it writes.
SerialRequestOK(h) ==
  /\ handlers[h].pc \in {"find", "claim"} => ~Recorded(handlers[h].pay)
  /\ handlers[h].pc = "claim" => payments[handlers[h].doc].status = "CREATED"
  /\ handlers[h].pc \in {"invoice", "save"} =>
       /\ payments[handlers[h].doc].payId = handlers[h].pay
       /\ credits[handlers[h].pay] = 0
  /\ handlers[h].pc = "save" =>
       /\ handlers[h].old = invoices[InvoiceOf(h)]
       /\ \E overdue \in BOOLEAN : handlers[h].new = CreditOf(h, overdue)

CreditsRecorded == \A c \in Checkouts : credits[c] > 0 => Recorded(c)

SerialInv ==
  /\ OrdersOK
  /\ \A h \in Handlers : SerialRequestOK(h)
  /\ CreditsRecorded
  /\ StatusFollowsAmounts

-----------------------------------------------------------------------------
(* The serial invariant *)

\* A status just computed is the one its amounts call for.
LEMMA StatusComputed ==
  ASSUME NEW due \in Nat, NEW paid \in Nat, NEW late \in BOOLEAN, paid <= due
  PROVE  LET s == computeInvoiceStatus(due, paid, late)
         IN  /\ s = "PAID" <=> paid >= due /\ due > 0
             /\ s = "PARTIAL" <=> 0 < paid /\ paid < due
BY DEF computeInvoiceStatus

LEMMA InitSerial == Init => SerialInv
<1> SUFFICES ASSUME Init PROVE SerialInv
  OBVIOUS
<1> USE ConstantsAssumption
<1>1. OrdersOK /\ CreditsRecorded
  BY DEF Init, OrdersOK, Stored, Absent, CreditsRecorded
<1>2. \A h \in Handlers : SerialRequestOK(h)
  BY DEF Init, Idle, SerialRequestOK
<1>3. StatusFollowsAmounts
  <2>1. PICK late \in [Invoices -> BOOLEAN] :
          invoices = [i \in Invoices |->
                        [amountPaid |-> 0,
                         status     |-> computeInvoiceStatus(Due[i], 0, late[i])]]
    BY DEF Init
  <2> SUFFICES ASSUME NEW i \in Invoices
               PROVE  /\ invoices[i].status = "PAID"
                           <=> invoices[i].amountPaid >= Due[i] /\ Due[i] > 0
                      /\ invoices[i].status = "PARTIAL"
                           <=> 0 < invoices[i].amountPaid /\ invoices[i].amountPaid < Due[i]
    BY DEF StatusFollowsAmounts
  <2>2. /\ invoices[i].amountPaid = 0
        /\ invoices[i].status = computeInvoiceStatus(Due[i], 0, late[i])
        /\ Due[i] \in Nat /\ late[i] \in BOOLEAN
    BY <2>1
  <2> QED
    BY <2>2, StatusComputed
<1> QED
  BY <1>1, <1>2, <1>3 DEF SerialInv

\* What the payer, the gateway and order requests do: a stored Payment, a
\* captured amount and the handler are untouched.
LEMMA OthersKeepSerial ==
  ASSUME IInv, SerialInv, OrdersOK',
         UNCHANGED <<live, invoices, handlers, credits>>,
         \A d \in Checkouts : Stored(d) => payments'[d] = payments[d],
         \A d \in Checkouts : ~Stored(d) => payments'[d].payId = payments[d].payId,
         \A c \in Checkouts :
           gateway[c].status = "captured" => gateway'[c].amount = gateway[c].amount
  PROVE  SerialInv'
<1>1. \A c \in Checkouts : Recorded(c)' = Recorded(c)
  BY DEF Recorded
<1>2. ASSUME NEW h \in Handlers PROVE SerialRequestOK(h)'
  <2>1. RequestOK(h) /\ SerialRequestOK(h)
    BY DEF IInv, SerialInv
  <2>2. handlers[h].pc \in {"find", "claim"} => ~Recorded(handlers[h].pay)'
    BY <1>1, <2>1 DEF RequestOK, SerialRequestOK
  <2>3. handlers[h].pc \in {"claim", "invoice", "save"} =>
          /\ payments'[handlers[h].doc] = payments[handlers[h].doc]
          /\ InvoiceOf(h)' = InvoiceOf(h)
    BY <2>1 DEF RequestOK, Claimed, InvoiceOf
  <2>4. handlers[h].pc = "save" =>
          \A overdue \in BOOLEAN : CreditOf(h, overdue)' = CreditOf(h, overdue)
    BY <2>1, <2>3 DEF RequestOK, CreditOf
  <2> QED
    BY <2>1, <2>2, <2>3, <2>4 DEF SerialRequestOK
<1>3. CreditsRecorded' /\ StatusFollowsAmounts'
  BY <1>1 DEF SerialInv, CreditsRecorded, StatusFollowsAmounts
<1> QED
  BY <1>2, <1>3 DEF SerialInv

\* The handler moves on and writes no document.
LEMMA HandlerKeepsSerial ==
  ASSUME OneHandler, SerialInv, NEW h \in Handlers, SerialRequestOK(h)',
         UNCHANGED <<live, invoices, payments, gateway, credits>>
  PROVE  SerialInv'
BY DEF OneHandler, SerialInv, OrdersOK, Stored, CreditsRecorded, Recorded, StatusFollowsAmounts

\* A handler that is idle again relies on nothing.
LEMMA IdleSerial ==
  ASSUME TypeOK, NEW h \in Handlers, handlers' = [handlers EXCEPT ![h] = Idle]
  PROVE  SerialRequestOK(h)'
BY DEF TypeOK, Idle, SerialRequestOK

LEMMA StoreOrderSerial ==
  ASSUME IInv, SerialInv, NEW u \in Clients, NEW c \in Checkouts, StoreOrder(u, c)
  PROVE  SerialInv'
<1>1. ~Stored(c) /\ payments[c].payId = None
  BY DEF IInv, DocumentsOK, StoreOrder, Stored
<1>2. /\ payments'[c].payId = None
      /\ payments'[c].invoice = clients[u].invoice
      /\ payments'[c].order = createOrder(c, clients[u].invoice, clients[u].paid)
      /\ clients[u].paid \in Nat
      /\ \A d \in Checkouts \ {c} : payments'[d] = payments[d]
  BY DEF StoreOrder, IInv, TypeOK
<1>3. OrdersOK'
  BY <1>2 DEF SerialInv, OrdersOK, createOrder, StoreOrder, Stored
<1> QED
  BY <1>1, <1>2, <1>3, OthersKeepSerial DEF StoreOrder

LEMMA GatewaySerial ==
  ASSUME IInv, SerialInv, NEW c \in Checkouts, Authorize(c) \/ CapturePay(c)
  PROVE  SerialInv'
<1>1. \A d \in Checkouts :
        gateway[d].status = "captured" => gateway'[d].amount = gateway[d].amount
  BY DEF Authorize, CapturePay, IInv, TypeOK
<1>2. OrdersOK'
  BY DEF Authorize, CapturePay, SerialInv, OrdersOK, Stored
<1> QED
  BY <1>1, <1>2, OthersKeepSerial DEF Authorize, CapturePay

LEMMA ClientsSerial ==
  ASSUME IInv, SerialInv, NEW u \in Clients,
         AbortOrder(u) \/ \E i \in Invoices : OpenOrder(u, i)
  PROVE  SerialInv'
<1>1. UNCHANGED <<live, invoices, payments, gateway, handlers, credits>>
  BY DEF AbortOrder, OpenOrder
<1>2. OrdersOK'
  BY <1>1 DEF SerialInv, OrdersOK, Stored
<1> QED
  BY <1>1, <1>2, OthersKeepSerial

\* The steps that look something up: what was found still holds at the next.
LEMMA LookupSerial ==
  ASSUME OneHandler, IInv, SerialInv, NEW h \in Handlers,
         \/ \E c \in Checkouts, e \in Events : Receive(h, c, e)
         \/ CheckExisting(h) \/ FindCreated(h) \/ ReadInvoice(h)
  PROVE  SerialInv'
<1> USE DEF IInv, TypeOK
<1>1. UNCHANGED <<live, invoices, payments, gateway, credits>>
  BY DEF Receive, CheckExisting, FindCreated, ReadInvoice
<1>2. \A c \in Checkouts : Recorded(c)' = Recorded(c)
  BY <1>1 DEF Recorded
<1>3. handlers[h] \in Request /\ RequestOK(h) /\ SerialRequestOK(h)
  BY DEF SerialInv
<1>4. ASSUME NEW c \in Checkouts, NEW e \in Events, Receive(h, c, e)
      PROVE  SerialRequestOK(h)'
  BY <1>4 DEF Receive, SerialRequestOK
<1>5. ASSUME CheckExisting(h) PROVE SerialRequestOK(h)'
  <2>1. CASE Recorded(handlers[h].pay)
    BY <1>5, <2>1, IdleSerial DEF CheckExisting, Respond
  <2>2. CASE ~Recorded(handlers[h].pay)
    <3>1. /\ handlers'[h].pc = "find" /\ handlers'[h].pay = handlers[h].pay
          /\ handlers[h].pay \in Checkouts
      BY <1>3, <1>5, <2>2 DEF CheckExisting, Request, RequestOK
    <3> QED
      BY <1>2, <2>2, <3>1 DEF SerialRequestOK
  <2> QED
    BY <2>1, <2>2
<1>6. ASSUME FindCreated(h) PROVE SerialRequestOK(h)'
  <2>1. CASE Pending(handlers[h].pay) = {}
    BY <1>6, <2>1, IdleSerial DEF FindCreated, Respond
  <2>2. CASE Pending(handlers[h].pay) # {}
    <3>1. PICK d \in Pending(handlers[h].pay) :
            handlers' = [handlers EXCEPT ![h] = [@ EXCEPT !.pc = "claim", !.doc = d]]
      BY <1>6, <2>2 DEF FindCreated
    <3>2. /\ handlers'[h].pc = "claim" /\ handlers'[h].doc = d
          /\ handlers'[h].pay = handlers[h].pay /\ handlers[h].pay \in Checkouts
      BY <1>3, <1>6, <3>1 DEF FindCreated, Request, RequestOK
    <3> QED
      BY <1>1, <1>2, <1>3, <1>6, <3>2 DEF FindCreated, SerialRequestOK, Pending
  <2> QED
    BY <2>1, <2>2
<1>7. ASSUME ReadInvoice(h) PROVE SerialRequestOK(h)'
  <2>1. PICK overdue \in BOOLEAN :
          handlers' = [handlers EXCEPT ![h] =
            [@ EXCEPT !.pc = "save", !.old = invoices[InvoiceOf(h)],
                      !.new = CreditOf(h, overdue)]]
    BY <1>7 DEF ReadInvoice, CreditOf
  <2>2. /\ handlers'[h].pc = "save" /\ handlers'[h].doc = handlers[h].doc
        /\ handlers'[h].pay = handlers[h].pay
        /\ handlers'[h].old = invoices[InvoiceOf(h)]
        /\ handlers'[h].new = CreditOf(h, overdue)
    BY <1>3, <2>1 DEF Request
  <2>3. InvoiceOf(h)' = InvoiceOf(h) /\ CreditOf(h, overdue)' = CreditOf(h, overdue)
    BY <1>1, <2>2 DEF InvoiceOf, CreditOf
  <2> QED
    BY <1>1, <1>3, <1>7, <2>2, <2>3 DEF ReadInvoice, SerialRequestOK
<1> QED
  BY <1>1, <1>4, <1>5, <1>6, <1>7, HandlerKeepsSerial

\* The steps that end a request.
LEMMA EndSerial ==
  ASSUME OneHandler, IInv, SerialInv, NEW h \in Handlers,
         ClaimLost(h) \/ Notify(h) \/ AbortWebhook(h)
  PROVE  SerialInv'
<1>1. /\ handlers' = [handlers EXCEPT ![h] = Idle]
      /\ UNCHANGED <<live, invoices, payments, gateway, credits>>
  BY DEF ClaimLost, Notify, AbortWebhook, Respond
<1>2. SerialRequestOK(h)'
  BY <1>1, IdleSerial DEF IInv
<1> QED
  BY <1>1, <1>2, HandlerKeepsSerial

\* A claim records its payment and overwrites no other.
LEMMA ClaimSerial ==
  ASSUME OneHandler, IInv, SerialInv, NEW h \in Handlers, Claim(h)
  PROVE  SerialInv'
<1> DEFINE d == handlers[h].doc
           c == handlers[h].pay
<1>1. /\ handlers[h].pc = "claim" /\ c \in Checkouts /\ d \in Checkouts /\ Stored(d)
      /\ ~Recorded(c) /\ payments[d].status = "CREATED"
  BY DEF IInv, RequestOK, SerialInv, SerialRequestOK, Claim
<1>2. payments[d] \in Document /\ handlers[h] \in Request
  BY <1>1 DEF IInv, TypeOK
<1>3. payments[d].payId = None
  BY <1>1 DEF IInv, DocumentsOK
<1>4. payments'[d] = [payments[d] EXCEPT !.payId = c, !.status = "CAPTURED"]
  BY <1>1 DEF Claim, IInv, TypeOK
<1>5. /\ payments'[d].payId = c /\ payments'[d].order = payments[d].order
      /\ payments'[d].invoice = payments[d].invoice
  <2> DEFINE doc == [payments[d] EXCEPT !.payId = c, !.status = "CAPTURED"]
  <2>1. doc.payId = c /\ doc.order = payments[d].order /\ doc.invoice = payments[d].invoice
    BY <1>1, <1>2, DocumentUpdate
  <2>2. payments'[d] = doc
    BY <1>4
  <2> HIDE DEF doc
  <2> QED
    BY <2>1, <2>2
<1>6. \A e \in Checkouts \ {d} : payments'[e] = payments[e]
  BY DEF Claim, IInv, TypeOK
<1>7. /\ handlers'[h].pc = "invoice" /\ handlers'[h].pay = c /\ handlers'[h].doc = d
  BY <1>2 DEF Claim, IInv, TypeOK, Request
<1>8. UNCHANGED <<live, invoices, credits>>
  BY DEF Claim
<1>9. \A e \in Checkouts : Recorded(e) => Recorded(e)'
  <2> SUFFICES ASSUME NEW e \in Checkouts, Recorded(e) PROVE Recorded(e)'
    OBVIOUS
  <2>1. PICK f \in Checkouts : payments[f].payId = e
    BY DEF Recorded
  <2>2. f # d
    BY <1>3, <2>1, ConstantsAssumption
  <2> QED
    BY <1>6, <2>1, <2>2 DEF Recorded
<1>10. credits[c] = 0
  BY <1>1 DEF IInv, TypeOK, SerialInv, CreditsRecorded
<1>11. SerialRequestOK(h)'
  BY <1>5, <1>7, <1>8, <1>10 DEF SerialRequestOK
<1>12. OrdersOK'
  BY <1>1, <1>5, <1>6, <1>8 DEF SerialInv, OrdersOK, Stored
<1> QED
  BY <1>8, <1>9, <1>11, <1>12 DEF OneHandler, SerialInv, CreditsRecorded, StatusFollowsAmounts

\* Nothing came between the read of the invoice and its save, so the save
\* writes the credit computed.
LEMMA SaveWritesCredit ==
  ASSUME IInv, SerialInv, NEW h \in Handlers, SaveInvoice(h)
  PROVE  /\ handlers[h].pay \in Checkouts /\ handlers[h].doc \in Checkouts
         /\ gateway[handlers[h].pay].status = "captured"
         /\ credits[handlers[h].pay] = 0
         /\ InvoiceOf(h) \in Invoices
         /\ \E overdue \in BOOLEAN :
              invoices' = [invoices EXCEPT ![InvoiceOf(h)] = CreditOf(h, overdue)]
<1>1. /\ handlers[h].pay \in Checkouts /\ handlers[h].doc \in Checkouts
      /\ gateway[handlers[h].pay].status = "captured" /\ Stored(handlers[h].doc)
      /\ credits[handlers[h].pay] = 0
      /\ handlers[h].old = invoices[InvoiceOf(h)]
  BY DEF IInv, RequestOK, Claimed, SerialInv, SerialRequestOK, SaveInvoice
<1>2. InvoiceOf(h) \in Invoices
  BY <1>1 DEF IInv, DocumentsOK, InvoiceOf
<1>3. PICK overdue \in BOOLEAN : handlers[h].new = CreditOf(h, overdue)
  BY DEF SerialInv, SerialRequestOK, SaveInvoice
<1>4. SaveModified(invoices[InvoiceOf(h)], handlers[h].old, handlers[h].new)
        = CreditOf(h, overdue)
  BY <1>1, <1>3 DEF SaveModified, CreditOf
<1> QED
  BY <1>1, <1>2, <1>4 DEF SaveInvoice

\* The credit goes to the invoice the payment's own order was made for.
LEMMA CreditsOwnInvoice ==
  ASSUME IInv, SerialInv, NEW h \in Handlers, SaveInvoice(h)
  PROVE  payments[handlers[h].pay].invoice = InvoiceOf(h)
BY OwnInvoice DEF SerialInv, SaveInvoice, Claimed

LEMMA SaveInvoiceSerial ==
  ASSUME OneHandler, IInv, SerialInv, NEW h \in Handlers, SaveInvoice(h)
  PROVE  SerialInv'
<1> USE ConstantsAssumption
<1> DEFINE i == InvoiceOf(h)
           c == handlers[h].pay
<1>1. /\ c \in Checkouts /\ handlers[h].doc \in Checkouts
      /\ gateway[c].status = "captured" /\ i \in Invoices
  BY SaveWritesCredit
<1>2. PICK overdue \in BOOLEAN : invoices' = [invoices EXCEPT ![i] = CreditOf(h, overdue)]
  BY SaveWritesCredit
<1>3. UNCHANGED <<live, payments, gateway>>
  BY DEF SaveInvoice
<1>4. handlers'[h].pc = "notify"
  BY DEF SaveInvoice, IInv, TypeOK, Request
<1>5. SerialRequestOK(h)'
  BY <1>4 DEF SerialRequestOK
<1>6. Recorded(c)
  BY <1>1 DEF SerialInv, SerialRequestOK, SaveInvoice, Recorded
<1>7. CreditsRecorded'
  BY <1>1, <1>3, <1>6 DEF SaveInvoice, IInv, TypeOK, SerialInv, CreditsRecorded, Recorded
<1>8. StatusFollowsAmounts'
  <2> DEFINE paid == applyPayment(Due[i], invoices[i].amountPaid, fromPaisa(gateway[c].amount))
  <2>1. /\ Due[i] \in Nat /\ invoices[i].amountPaid \in Nat
        /\ invoices[i].amountPaid <= Due[i] /\ gateway[c].amount \in Nat
    BY <1>1 DEF IInv, TypeOK, Account
  <2>2. paid \in Nat /\ paid <= Due[i]
    BY <2>1, CreditClamped
  <2>3. /\ invoices'[i].amountPaid = paid
        /\ invoices'[i].status = computeInvoiceStatus(Due[i], paid, overdue)
    BY <1>1, <1>2 DEF CreditOf, IInv, TypeOK
  <2> HIDE DEF paid
  <2>4. /\ invoices'[i].status = "PAID"
             <=> invoices'[i].amountPaid >= Due[i] /\ Due[i] > 0
        /\ invoices'[i].status = "PARTIAL"
             <=> 0 < invoices'[i].amountPaid /\ invoices'[i].amountPaid < Due[i]
    BY <2>1, <2>2, <2>3, StatusComputed
  <2>5. \A j \in Invoices \ {i} : invoices'[j] = invoices[j]
    BY <1>2 DEF IInv, TypeOK
  <2> QED
    BY <2>4, <2>5 DEF SerialInv, StatusFollowsAmounts
<1> QED
  BY <1>3, <1>5, <1>7, <1>8 DEF OneHandler, SerialInv, OrdersOK, Stored

LEMMA StepSerial == ASSUME OneHandler, IInv, SerialInv, [Next]_vars PROVE SerialInv'
<1>1. ASSUME NEW h \in Handlers,
             \/ \E c \in Checkouts, e \in Events : Receive(h, c, e)
             \/ Step(h) \/ AbortWebhook(h)
      PROVE  SerialInv'
  BY <1>1, LookupSerial, ClaimSerial, SaveInvoiceSerial, EndSerial DEF Step
<1>2. CASE UNCHANGED vars
  BY <1>2 DEF vars, SerialInv, OrdersOK, Stored, SerialRequestOK, CreditsRecorded, Recorded,
     InvoiceOf, CreditOf, StatusFollowsAmounts
<1> QED
  BY <1>1, <1>2, StoreOrderSerial, GatewaySerial, ClientsSerial DEF Next

\* One delivery at a time keeps every status the one its amounts call for,
\* wherever requests stop.
THEOREM SerialStatus == ASSUME OneHandler PROVE Spec => []StatusFollowsAmounts
<1>1. Init => SerialInv
  BY InitSerial
<1>2. IInv /\ SerialInv /\ [Next]_vars => SerialInv'
  BY StepSerial
<1>3. SerialInv => StatusFollowsAmounts
  BY DEF SerialInv
<1> QED
  BY <1>1, <1>2, <1>3, InvariantHolds, PTL DEF Spec

-----------------------------------------------------------------------------
(* Refinement of Ledger *)

Deposited(c) == [id |-> c, invoice |-> payments[c].invoice, amount |-> gateway[c].amount]
Captured == { d \in Checkouts : gateway[d].status = "captured" }
Banked == { Deposited(c) : c \in Captured }
Credited == { c \in Checkouts : credits[c] > 0 }

\* The ledger computes with the same arithmetic.
LEMMA SameArithmetic ==
  /\ \A due, paid, a : L!applyPayment(due, paid, L!fromPaisa(a)) = applyPayment(due, paid, fromPaisa(a))
  /\ \A due, paid, late :
       L!computeInvoiceStatus(due, paid, late) = computeInvoiceStatus(due, paid, late)
BY DEF L!applyPayment, L!toPaisa, L!fromPaisa, L!computeInvoiceStatus,
       applyPayment, toPaisa, fromPaisa, computeInvoiceStatus

LEMMA InitLedger == ASSUME Init PROVE L!Init
<1>1. Captured = {} /\ Banked = {} /\ Credited = {}
  BY DEF Init, Captured, Banked, Credited
<1> QED
  BY <1>1, SameArithmetic DEF Init, L!Init, Captured, Banked, Credited, Deposited

\* A step that captures nothing and saves no invoice is a stutter.
LEMMA StutterLedger ==
  ASSUME IInv, UNCHANGED <<invoices, credits>>,
         Captured' = Captured, \A c \in Captured : Deposited(c)' = Deposited(c)
  PROVE  UNCHANGED L!vars
BY DEF L!vars, Captured, Deposited

\* A capture is banked.
LEMMA CaptureBanks ==
  ASSUME IInv, NEW c \in Checkouts, CapturePay(c)
  PROVE  L!Bank(c)
<1>1. /\ gateway[c].status = "authorized"
      /\ payments[c].invoice \in Invoices
      /\ UNCHANGED <<invoices, payments, credits>>
  BY DEF CapturePay, IInv, GatewayOK, DocumentsOK
<1>2. /\ gateway'[c].status = "captured" /\ gateway'[c].amount = gateway[c].amount
      /\ \A d \in Checkouts \ {c} : gateway'[d] = gateway[d]
  BY DEF CapturePay, IInv, TypeOK
<1>3. Captured' = Captured \cup {c} /\ c \notin Captured
  BY <1>1, <1>2 DEF Captured
<1>4. \A d \in Captured' : Deposited(d)' = Deposited(d)
  BY <1>1, <1>2 DEF Deposited, Captured
<1>5. Banked' = Banked \cup {Deposited(c)}
  BY <1>3, <1>4 DEF Banked
<1>6. \A r \in Banked : r.id # c
  BY <1>3 DEF Banked, Deposited
<1>7. Deposited(c).id = c /\ Deposited(c).invoice \in Invoices
  BY <1>1 DEF Deposited
<1>8. L!Deposit(c) = {}
  BY <1>6 DEF L!Deposit, Banked, Captured, Deposited
<1>9. Deposited(c) \in Banked'
  BY <1>5
<1> QED
  BY <1>1, <1>5, <1>7, <1>8, <1>9 DEF L!Bank, Banked, Captured, Deposited

\* A save of the invoice is the credit of the payment, for the invoice it was
\* made on.
LEMMA SaveCredits ==
  ASSUME IInv, SerialInv, NEW h \in Handlers, SaveInvoice(h),
         NEW c \in Checkouts, c = handlers[h].pay
  PROVE  L!Credit(c)
<1> DEFINE i == InvoiceOf(h)
<1>1. /\ handlers[h].doc \in Checkouts
      /\ gateway[c].status = "captured" /\ credits[c] = 0 /\ i \in Invoices
  BY SaveWritesCredit
<1>2. PICK overdue \in BOOLEAN : invoices' = [invoices EXCEPT ![i] = CreditOf(h, overdue)]
  BY SaveWritesCredit
<1>3. /\ UNCHANGED <<payments, gateway>>
      /\ credits' = [credits EXCEPT ![c] = @ + 1]
  BY DEF SaveInvoice
<1>4. payments[c].invoice = i
  BY CreditsOwnInvoice
<1>5. Deposited(c) \in Banked /\ Deposited(c).id = c
  BY <1>1 DEF Banked, Captured, Deposited
<1>6. Deposited(c) \in L!Deposit(c)
  BY <1>5 DEF L!Deposit, Banked, Captured, Deposited
<1>7. c \notin Credited /\ Credited' = Credited \cup {c}
  BY <1>1, <1>3 DEF Credited, IInv, TypeOK
<1>8. Deposited(c).invoice = i /\ Deposited(c).amount = gateway[c].amount
  BY <1>4 DEF Deposited
<1>9. CreditOf(h, overdue) =
        [amountPaid |-> L!applyPayment(Due[i], invoices[i].amountPaid,
                                       L!fromPaisa(gateway[c].amount)),
         status     |-> L!computeInvoiceStatus(Due[i],
                          L!applyPayment(Due[i], invoices[i].amountPaid,
                                         L!fromPaisa(gateway[c].amount)), overdue)]
  BY SameArithmetic DEF CreditOf
<1>10. Banked' = Banked
  BY <1>3 DEF Banked, Captured, Deposited
<1> HIDE DEF i
<1> DEFINE r == Deposited(c)
<1> HIDE DEF r
<1>11. /\ r \in L!Deposit(c)
       /\ invoices' = [invoices EXCEPT ![r.invoice] =
            [amountPaid |-> L!applyPayment(Due[r.invoice], invoices[r.invoice].amountPaid,
                                           L!fromPaisa(r.amount)),
             status     |-> L!computeInvoiceStatus(Due[r.invoice],
                              L!applyPayment(Due[r.invoice], invoices[r.invoice].amountPaid,
                                             L!fromPaisa(r.amount)), overdue)]]
  BY <1>2, <1>6, <1>8, <1>9 DEF r
<1> QED
  BY <1>7, <1>10, <1>11 DEF L!Credit, Credited, Banked, Captured, Deposited

\* Orders, payers and lookups leave the ledger alone.
LEMMA OtherStepsStutter ==
  ASSUME IInv, [Next]_vars,
         \A c \in Checkouts : ~CapturePay(c), \A h \in Handlers : ~SaveInvoice(h)
  PROVE  UNCHANGED L!vars
<1>1. ASSUME NEW u \in Clients, NEW c \in Checkouts, StoreOrder(u, c)
      PROVE  UNCHANGED L!vars
  <2>1. c \notin Captured
    BY <1>1 DEF StoreOrder, IInv, GatewayOK, Stored, Captured
  <2>2. \A d \in Captured : Deposited(d)' = Deposited(d)
    BY <1>1, <2>1 DEF StoreOrder, IInv, TypeOK, Captured, Deposited
  <2> QED
    BY <1>1, <2>2, StutterLedger DEF StoreOrder, Captured
<1>2. ASSUME NEW c \in Checkouts, Authorize(c)
      PROVE  UNCHANGED L!vars
  <2>1. \A d \in Checkouts \ {c} : gateway'[d] = gateway[d]
    BY <1>2 DEF Authorize, IInv, TypeOK
  <2>2. gateway[c].status = "none" /\ gateway'[c].status = "authorized"
    BY <1>2 DEF Authorize, IInv, TypeOK
  <2>3. Captured' = Captured /\ c \notin Captured
    BY <2>1, <2>2 DEF Captured
  <2>4. \A d \in Captured : Deposited(d)' = Deposited(d)
    BY <1>2, <2>1, <2>3 DEF Authorize, Captured, Deposited
  <2> QED
    BY <1>2, <2>3, <2>4, StutterLedger DEF Authorize
<1>3. ASSUME NEW h \in Handlers, Claim(h)
      PROVE  UNCHANGED L!vars
  <2>1. \A d \in Checkouts : payments'[d].invoice = payments[d].invoice
    <3> SUFFICES ASSUME NEW d \in Checkouts PROVE payments'[d].invoice = payments[d].invoice
      OBVIOUS
    <3>1. payments[d] \in Document /\ handlers[h].pay \in Checkouts
      BY <1>3 DEF Claim, IInv, TypeOK, RequestOK
    <3> DEFINE doc == [payments[d] EXCEPT !.payId = handlers[h].pay, !.status = "CAPTURED"]
    <3>2. payments'[d] = payments[d] \/ payments'[d] = doc
      BY <1>3 DEF Claim, IInv, TypeOK
    <3>3. doc.invoice = payments[d].invoice
      BY <3>1, DocumentUpdate
    <3> HIDE DEF doc
    <3> QED
      BY <3>2, <3>3
  <2> QED
    BY <1>3, <2>1, StutterLedger DEF Claim, Captured, Deposited
<1>4. CASE UNCHANGED <<invoices, payments, gateway, credits>>
  BY <1>4, StutterLedger DEF Captured, Deposited
<1> QED
  BY <1>1, <1>2, <1>3, <1>4 DEF Next, vars, Step, OpenOrder, AbortOrder, Receive,
    CheckExisting, FindCreated, ClaimLost, ReadInvoice, Notify, AbortWebhook

\* Every step is a step of the ledger or leaves it alone.
LEMMA StepLedger ==
  ASSUME IInv, SerialInv, [Next]_vars
  PROVE  [L!Next]_(L!vars)
<1>1. ASSUME NEW c \in Checkouts, CapturePay(c) PROVE L!Next
  <2>1. L!Bank(c)
    BY <1>1, CaptureBanks
  <2> QED
    BY <2>1 DEF L!Next
<1>2. ASSUME NEW h \in Handlers, SaveInvoice(h) PROVE L!Next
  <2>1. PICK c \in Checkouts : c = handlers[h].pay
    BY <1>2, SaveWritesCredit
  <2>2. L!Credit(c)
    BY <1>2, <2>1, SaveCredits
  <2> QED
    BY <2>1, <2>2 DEF L!Next
<1> QED
  BY <1>1, <1>2, OtherStepsStutter

\* One delivery at a time, the webhook implements the ledger: captured money is
\* credited to the invoice its order was made for, as one step, once at most,
\* clamped, wherever requests stop and however events are repeated.
THEOREM Implements == ASSUME OneHandler PROVE Spec => LedgerSpec
<1>1. Init => SerialInv /\ L!Init
  BY InitSerial, InitLedger
<1>2. IInv /\ SerialInv /\ [Next]_vars => SerialInv'
  BY StepSerial
<1>3. IInv /\ SerialInv /\ [Next]_vars => [L!Next]_(L!vars)
  BY StepLedger
<1> QED
  BY <1>1, <1>2, <1>3, InvariantHolds, PTL DEF Spec, LedgerSpec, L!Spec

-----------------------------------------------------------------------------
(* Without stops, no acknowledged money is lost *)

StoredDocs == { d \in Checkouts : Stored(d) }

\* What the gateway took, in the unit of the invoices, and what an invoice was
\* credited of it.
Taken == [c \in Checkouts |-> fromPaisa(gateway[c].amount)]
Received(i) == SumFunctionOnSet(Taken, CreditedTo(i))

Crediting(c) == \E h \in Handlers : handlers[h].pay = c /\ handlers[h].pc \in {"invoice", "save"}
Answering(c) == \E h \in Handlers : handlers[h].pay = c /\ handlers[h].pc = "notify"

\* Where a captured payment is between its claim and its 200.
TrackInv ==
  /\ abortsLeft = 0
  /\ IsFiniteSet(StoredDocs)
  /\ \A c \in Checkouts : Recorded(c) => credits[c] > 0 \/ Crediting(c)
  /\ \A c \in Checkouts : credits[c] > 0 => c \in acked \/ Answering(c)
  /\ \A c \in acked : Recorded(c)
  /\ \A h \in Handlers : handlers[h].pc = "notify" => credits[handlers[h].pay] > 0

AmountsAdd ==
  \A i \in Invoices :
    invoices[i].amountPaid = IF Received(i) < Due[i] THEN Received(i) ELSE Due[i]

\* The order of a payment not recorded has a CREATED document left: what was
\* captured on the order are other payments, each recorded on one document.
LEMMA PendingLeft ==
  ASSUME IInv, IsFiniteSet(StoredDocs), NEW c \in Checkouts, Stored(c), ~Recorded(c)
  PROVE  Pending(c) # {}
<1> SUFFICES ASSUME Pending(c) = {} PROVE FALSE
  OBVIOUS
<1> DEFINE docs == { d \in Checkouts : Stored(d) /\ payments[d].order = payments[c].order }
           payIds == [d \in docs |-> payments[d].payId]
<1>1. ASSUME NEW d \in docs PROVE payIds[d] \in docs \ {c}
  <2>1. payments[d] \in Document /\ payments[d].status # "CREATED"
    BY DEF IInv, TypeOK, Pending
  <2>2. payments[d].status = "CAPTURED"
    BY <2>1 DEF Document, Stored
  <2>3. payments[d].payId \in Checkouts
    BY <2>1, <2>2 DEF Document, IInv, DocumentsOK
  <2>4. /\ gateway[payments[d].payId].status = "captured"
        /\ payments[payments[d].payId].order = payments[d].order
    BY <2>3, ConstantsAssumption DEF IInv, CapturesAreGenuine
  <2>5. Stored(payments[d].payId) /\ payments[d].payId # c
    BY <2>3, <2>4 DEF IInv, GatewayOK, Recorded
  <2> QED
    BY <2>3, <2>4, <2>5
<1>2. \A d, e \in docs : payIds[d] = payIds[e] => d = e
  <2> SUFFICES ASSUME NEW d \in docs, NEW e \in docs, payIds[d] = payIds[e] PROVE d = e
    OBVIOUS
  <2>1. payments[d].payId = payments[e].payId /\ payments[d].payId \in Checkouts
    BY <1>1
  <2> QED
    BY <2>1, ConstantsAssumption DEF IInv, UniqueGatewayPaymentId
<1>3. payIds \in Injection(docs, docs \ {c})
  <2>1. payIds \in [docs -> docs \ {c}]
    BY <1>1
  <2> HIDE DEF payIds
  <2> QED
    BY <1>2, <2>1 DEF Injection, IsInjective
<1>4. c \in docs /\ docs \in SUBSET StoredDocs
  BY DEF StoredDocs
<1> HIDE DEF docs, payIds
<1>5. /\ IsFiniteSet(docs) /\ IsFiniteSet(docs \ {c})
      /\ Cardinality(docs) \in Nat /\ Cardinality(docs \ {c}) = Cardinality(docs) - 1
  BY <1>4, FS_Subset, FS_RemoveElement, FS_CardinalityType
<1>6. Cardinality(docs) <= Cardinality(docs \ {c})
  BY <1>3, <1>5, FS_Injection
<1> QED
  BY <1>5, <1>6

\* Steps of the payer, the gateway and order requests.
LEMMA OthersKeepTrack ==
  ASSUME TrackInv, UNCHANGED <<handlers, acked, credits, abortsLeft>>,
         \A d \in Checkouts : payments'[d].payId = payments[d].payId,
         IsFiniteSet(StoredDocs')
  PROVE  TrackInv'
<1>1. \A c \in Checkouts : Recorded(c)' = Recorded(c)
  BY DEF Recorded
<1>2. \A c \in acked : Recorded(c)'
  BY DEF TrackInv, Recorded
<1> QED
  BY <1>1, <1>2 DEF TrackInv, Crediting, Answering

LEMMA OthersTrack ==
  ASSUME IInv, TrackInv,
         \/ \E u \in Clients, c \in Checkouts : StoreOrder(u, c)
         \/ \E u \in Clients, i \in Invoices : OpenOrder(u, i)
         \/ \E u \in Clients : AbortOrder(u)
         \/ \E c \in Checkouts : Authorize(c) \/ CapturePay(c)
  PROVE  TrackInv'
<1>1. ASSUME NEW u \in Clients, NEW c \in Checkouts, StoreOrder(u, c) PROVE TrackInv'
  <2>1. payments[c].payId = None /\ payments'[c].payId = None
        /\ \A d \in Checkouts \ {c} : payments'[d] = payments[d]
    BY <1>1 DEF StoreOrder, IInv, TypeOK, DocumentsOK
  <2>2. StoredDocs' \subseteq StoredDocs \cup {c} /\ IsFiniteSet(StoredDocs \cup {c})
    BY <2>1, FS_AddElement DEF StoredDocs, Stored, TrackInv
  <2>3. IsFiniteSet(StoredDocs')
    BY <2>2, FS_Subset
  <2> QED
    BY <1>1, <2>1, <2>3, OthersKeepTrack DEF StoreOrder, TrackInv
<1>2. ASSUME NEW c \in Checkouts, Authorize(c) \/ CapturePay(c) PROVE TrackInv'
  BY <1>2, OthersKeepTrack DEF Authorize, CapturePay, StoredDocs, Stored, TrackInv
<1>3. ASSUME NEW u \in Clients, NEW i \in Invoices, OpenOrder(u, i) PROVE TrackInv'
  BY <1>3, OthersKeepTrack DEF OpenOrder, StoredDocs, Stored, TrackInv
<1>4. ASSUME NEW u \in Clients, AbortOrder(u) PROVE FALSE
  BY <1>4 DEF AbortOrder, TrackInv
<1> QED
  BY <1>1, <1>2, <1>3, <1>4

\* The one handler moves without recording a payment.
LEMMA HandlerKeepsTrack ==
  ASSUME OneHandler, TrackInv, NEW h \in Handlers,
         UNCHANGED <<payments, gateway, abortsLeft>>,
         \A c \in Checkouts : Recorded(c) => credits'[c] > 0 \/ Crediting(c)',
         \A c \in Checkouts : credits'[c] > 0 => c \in acked' \/ Answering(c)',
         \A c \in acked' : Recorded(c),
         handlers'[h].pc = "notify" => credits'[handlers'[h].pay] > 0
  PROVE  TrackInv'
<1>1. \A c : Recorded(c)' = Recorded(c)
  BY DEF Recorded
<1>2. StoredDocs' = StoredDocs
  BY DEF StoredDocs, Stored
<1> QED
  BY <1>1, <1>2 DEF OneHandler, TrackInv

\* The steps up to the claim.
LEMMA LookupTrack ==
  ASSUME OneHandler, IInv, SerialInv, TrackInv, NEW h \in Handlers,
         \/ \E c \in Checkouts, e \in Events : Receive(h, c, e)
         \/ CheckExisting(h) \/ FindCreated(h) \/ ReadInvoice(h)
  PROVE  TrackInv'
<1> USE DEF IInv, TypeOK
<1>1. UNCHANGED <<payments, gateway, credits, abortsLeft>>
  BY DEF Receive, CheckExisting, FindCreated, ReadInvoice
<1>2. handlers[h] \in Request /\ RequestOK(h) /\ SerialRequestOK(h)
  BY DEF SerialInv
<1>3. ASSUME handlers[h].pc \notin {"invoice", "save", "notify"},
             handlers'[h].pc # "notify", acked' = acked \cup {handlers[h].pay} \/ acked' = acked,
             acked' # acked => Recorded(handlers[h].pay)
      PROVE  TrackInv'
  <2>1. \A c \in Checkouts : ~Crediting(c) /\ ~Answering(c)
    BY <1>3 DEF OneHandler, Crediting, Answering
  <2>2. \A c \in acked' : Recorded(c)
    BY <1>3 DEF TrackInv
  <2> QED
    BY <1>1, <1>3, <2>1, <2>2, HandlerKeepsTrack DEF TrackInv
<1>4. ASSUME NEW c \in Checkouts, NEW e \in Events, Receive(h, c, e) PROVE TrackInv'
  <2>1. handlers[h].pc = "idle" /\ handlers'[h].pc = "check" /\ acked' = acked
    BY <1>4 DEF Receive
  <2> QED
    BY <1>3, <2>1
<1>5. ASSUME CheckExisting(h) PROVE TrackInv'
  <2>1. handlers[h].pc = "check" /\ handlers'[h].pc # "notify"
    BY <1>2, <1>5 DEF CheckExisting, Respond, Idle, Request
  <2>2. \/ acked' = acked
        \/ acked' = acked \cup {handlers[h].pay} /\ Recorded(handlers[h].pay)
    BY <1>5 DEF CheckExisting, Respond
  <2> QED
    BY <1>3, <2>1, <2>2
<1>6. ASSUME FindCreated(h) PROVE TrackInv'
  <2>1. handlers[h].pay \in Checkouts /\ handlers[h].pc = "find" /\ ~Recorded(handlers[h].pay)
        /\ Stored(handlers[h].pay)
    BY <1>2, <1>6 DEF FindCreated, RequestOK, SerialRequestOK, GatewayOK
  <2>2. Pending(handlers[h].pay) # {}
    BY <2>1, PendingLeft DEF TrackInv
  <2>3. handlers'[h].pc = "claim" /\ acked' = acked
    BY <1>2, <1>6, <2>2 DEF FindCreated, Request
  <2> QED
    BY <1>3, <2>1, <2>3
<1>7. ASSUME ReadInvoice(h) PROVE TrackInv'
  <2>1. PICK overdue \in BOOLEAN :
          handlers' = [handlers EXCEPT ![h] =
            [@ EXCEPT !.pc = "save", !.old = invoices[InvoiceOf(h)],
                      !.new = CreditOf(h, overdue)]]
    BY <1>7 DEF ReadInvoice, CreditOf
  <2>2. /\ handlers[h].pc = "invoice" /\ handlers'[h].pc = "save" /\ acked' = acked
        /\ handlers'[h].pay = handlers[h].pay
    BY <1>2, <1>7, <2>1 DEF ReadInvoice, Request
  <2>3. \A c \in Checkouts : (Crediting(c) => Crediting(c)') /\ ~Answering(c)
    BY <2>2 DEF OneHandler, Crediting, Answering
  <2> QED
    BY <1>1, <2>2, <2>3, HandlerKeepsTrack DEF TrackInv
<1> QED
  BY <1>4, <1>5, <1>6, <1>7

LEMMA ClaimTrack ==
  ASSUME OneHandler, IInv, SerialInv, TrackInv, NEW h \in Handlers,
         Claim(h) \/ ClaimLost(h)
  PROVE  TrackInv'
<1> DEFINE d == handlers[h].doc
           c == handlers[h].pay
<1>1. /\ handlers[h].pc = "claim" /\ c \in Checkouts /\ d \in Checkouts /\ Stored(d)
      /\ ~Recorded(c) /\ payments[d].status = "CREATED"
      /\ handlers[h] \in Request /\ payments[d] \in Document
  BY DEF IInv, TypeOK, RequestOK, SerialInv, SerialRequestOK, Claim, ClaimLost
<1>2. ~ClaimLost(h)
  BY <1>1 DEF ClaimLost, DuplicateKey, Recorded
<1>3. payments[d].payId = None
  BY <1>1 DEF IInv, DocumentsOK
<1>4. payments' = [payments EXCEPT ![d] = [payments[d] EXCEPT !.payId = c, !.status = "CAPTURED"]]
  BY <1>2 DEF Claim
<1>5. payments'[d].payId = c /\ \A e \in Checkouts \ {d} : payments'[e] = payments[e]
  BY <1>1, <1>4 DEF IInv, TypeOK, Document
<1>6. /\ handlers'[h].pc = "invoice" /\ handlers'[h].pay = c
      /\ UNCHANGED <<gateway, acked, credits, abortsLeft>>
  BY <1>1, <1>2 DEF Claim, IInv, TypeOK, Request
<1>7. \A e \in Checkouts : /\ Recorded(e) => Recorded(e)'
                           /\ Recorded(e)' => e = c \/ Recorded(e)
  BY <1>1, <1>3, <1>5, ConstantsAssumption DEF Recorded
<1>8. StoredDocs' \subseteq StoredDocs
  BY <1>1, <1>5 DEF StoredDocs, Stored
<1>9. IsFiniteSet(StoredDocs')
  BY <1>8, FS_Subset DEF TrackInv
<1>10. \A e \in Checkouts : (e = c => Crediting(e)') /\ ~Crediting(e) /\ ~Answering(e)
  BY <1>1, <1>6 DEF OneHandler, Crediting, Answering
<1>11. \A e \in acked : e \in Checkouts
  BY DEF IInv, TypeOK
<1> HIDE DEF c, d
<1>12. \A e \in Checkouts : Recorded(e)' => credits'[e] > 0 \/ Crediting(e)'
  BY <1>6, <1>7, <1>10 DEF TrackInv
<1>13. \A e \in Checkouts : credits'[e] > 0 => e \in acked' \/ Answering(e)'
  BY <1>6, <1>10 DEF TrackInv
<1>14. \A g \in Handlers : handlers'[g].pc # "notify"
  BY <1>6 DEF OneHandler
<1> QED
  BY <1>6, <1>7, <1>9, <1>11, <1>12, <1>13, <1>14 DEF TrackInv

LEMMA SaveTrack ==
  ASSUME OneHandler, IInv, SerialInv, TrackInv, NEW h \in Handlers,
         SaveInvoice(h) \/ Notify(h) \/ AbortWebhook(h)
  PROVE  TrackInv'
<1> DEFINE c == handlers[h].pay
<1>1. handlers[h] \in Request /\ RequestOK(h)
  BY DEF IInv, TypeOK
<1>2. ASSUME SaveInvoice(h) PROVE TrackInv'
  <2>1. /\ handlers[h].pc = "save" /\ c \in Checkouts
        /\ credits' = [credits EXCEPT ![c] = @ + 1]
        /\ handlers'[h].pc = "notify" /\ handlers'[h].pay = c
        /\ UNCHANGED <<payments, gateway, acked, abortsLeft>>
    BY <1>1, <1>2 DEF SaveInvoice, IInv, TypeOK, Request, RequestOK
  <2>2. credits'[c] > 0 /\ \A e \in Checkouts \ {c} : credits'[e] = credits[e]
    BY <2>1 DEF IInv, TypeOK
  <2>3. \A e \in Checkouts : IF e = c THEN Answering(e)' ELSE ~Crediting(e) /\ ~Answering(e)
    BY <2>1 DEF OneHandler, Crediting, Answering
  <2> HIDE DEF c
  <2>4. \A e \in Checkouts : Recorded(e) => credits'[e] > 0 \/ Crediting(e)'
    BY <2>2, <2>3 DEF TrackInv
  <2>5. \A e \in Checkouts : credits'[e] > 0 => e \in acked' \/ Answering(e)'
    BY <2>1, <2>2, <2>3 DEF TrackInv
  <2>6. \A e \in acked' : Recorded(e)
    BY <2>1 DEF TrackInv
  <2> QED
    BY <2>1, <2>2, <2>4, <2>5, <2>6, HandlerKeepsTrack
<1>3. ASSUME Notify(h) PROVE TrackInv'
  <2>1. /\ handlers[h].pc = "notify" /\ c \in Checkouts /\ acked' = acked \cup {c}
        /\ handlers'[h].pc = "idle"
        /\ UNCHANGED <<payments, gateway, credits, abortsLeft>>
    BY <1>1, <1>3 DEF Notify, Respond, Idle, IInv, TypeOK, RequestOK
  <2>2. credits[c] > 0 /\ Recorded(c)
    BY <2>1 DEF TrackInv, SerialInv, CreditsRecorded
  <2>3. \A e \in Checkouts \ {c} : ~Crediting(e) /\ ~Answering(e)
    BY <2>1 DEF OneHandler, Crediting, Answering
  <2> HIDE DEF c
  <2> QED
    BY <2>1, <2>2, <2>3, HandlerKeepsTrack DEF TrackInv
<1>4. ~AbortWebhook(h)
  BY DEF AbortWebhook, TrackInv
<1> QED
  BY <1>2, <1>3, <1>4

LEMMA StepTrack ==
  ASSUME OneHandler, IInv, SerialInv, TrackInv, [Next]_vars
  PROVE  TrackInv'
<1>1. CASE UNCHANGED vars
  BY <1>1 DEF vars, TrackInv, StoredDocs, Stored, Recorded, Crediting, Answering
<1>2. ASSUME NEW h \in Handlers,
             \/ \E c \in Checkouts, e \in Events : Receive(h, c, e)
             \/ Step(h) \/ AbortWebhook(h)
      PROVE  TrackInv'
  BY <1>2, LookupTrack, ClaimTrack, SaveTrack DEF Step
<1> QED
  BY <1>1, <1>2, OthersTrack DEF Next


\* No payment is of nothing.
PaysSomething == \A c \in Checkouts : gateway[c].status # "none" => gateway[c].amount > 0

LEMMA StepPays == ASSUME IInv, PaysSomething, [Next]_vars PROVE PaysSomething'
<1>1. ASSUME NEW c \in Checkouts, Authorize(c) PROVE PaysSomething'
  <2>1. PICK a \in 1..toPaisa(payments[c].amount) :
          gateway' = [gateway EXCEPT ![c] = [status |-> "authorized", amount |-> a]]
    BY <1>1 DEF Authorize
  <2>2. payments[c].amount \in Nat
    BY DEF IInv, TypeOK, Document
  <2>3. toPaisa(payments[c].amount) \in Nat
    BY <2>2 DEF toPaisa
  <2> QED
    BY <2>1, <2>3 DEF IInv, TypeOK, PaysSomething
<1>2. ASSUME NEW c \in Checkouts, CapturePay(c) PROVE PaysSomething'
  BY <1>2 DEF CapturePay, IInv, TypeOK, PaysSomething
<1>3. gateway' = gateway \/ \E c \in Checkouts : Authorize(c) \/ CapturePay(c)
  BY DEF Next, vars, OpenOrder, StoreOrder, AbortOrder, Receive, Step, CheckExisting, FindCreated,
     Claim, ClaimLost, ReadInvoice, SaveInvoice, Notify, AbortWebhook
<1> QED
  BY <1>1, <1>2, <1>3 DEF PaysSomething

\* A payment credited is one the gateway captured, of whole paisa.
LEMMA ReceivedType ==
  ASSUME IInv, SerialInv, IsFiniteSet(StoredDocs), NEW i \in Invoices
  PROVE  /\ IsFiniteSet(CreditedTo(i))
         /\ \A c \in Checkouts : credits[c] > 0 => gateway[c].status = "captured" /\ Stored(c)
         /\ \A c \in Checkouts : Taken[c] \in Nat
         /\ Received(i) \in Nat
         /\ \E k \in Nat : Received(i) = 10 * k
<1>1. \A c \in Checkouts : credits[c] > 0 => gateway[c].status = "captured" /\ Stored(c)
  BY ConstantsAssumption DEF SerialInv, CreditsRecorded, Recorded, IInv, CapturesAreGenuine, GatewayOK
<1>2. CreditedTo(i) \in SUBSET StoredDocs
  BY <1>1 DEF CreditedTo, StoredDocs
<1>3. IsFiniteSet(CreditedTo(i))
  BY <1>2, FS_Subset
<1> DEFINE paisa == [c \in Checkouts |-> gateway[c].amount]
<1>4. \A c \in Checkouts : paisa[c] \in Nat /\ Taken[c] = 10 * paisa[c]
  BY DEF Taken, fromPaisa, IInv, TypeOK
<1>5. CreditedTo(i) \subseteq Checkouts
  BY DEF CreditedTo
<1> HIDE DEF paisa
<1>6. /\ SumFunctionOnSet(paisa, CreditedTo(i)) \in Nat
      /\ Received(i) = 10 * SumFunctionOnSet(paisa, CreditedTo(i))
  BY <1>3, <1>4, <1>5, SumType, SumScale DEF Received
<1> QED
  BY <1>1, <1>3, <1>4, <1>6

\* What came in stays while no invoice is saved.
LEMMA ReceivedKept ==
  ASSUME IInv, SerialInv, IsFiniteSet(StoredDocs), [Next]_vars, \A h \in Handlers : ~SaveInvoice(h),
         NEW i \in Invoices
  PROVE  invoices' = invoices /\ Received(i)' = Received(i)
<1>1. invoices' = invoices /\ credits' = credits
  BY DEF Next, vars, OpenOrder, StoreOrder, AbortOrder, Authorize, CapturePay, Receive, Step,
     CheckExisting, FindCreated, Claim, ClaimLost, ReadInvoice, Notify, AbortWebhook
<1>2. \A c \in Checkouts : credits[c] > 0 => gateway[c].status = "captured" /\ Stored(c)
  BY ReceivedType
<1>3. \A c \in Checkouts : gateway[c].status = "captured" => gateway'[c].amount = gateway[c].amount
  BY PaymentsKept
<1>4. \A c \in Checkouts : Stored(c) => payments'[c].invoice = payments[c].invoice
  BY PaymentsKept
<1>5. CreditedTo(i)' = CreditedTo(i)
  BY <1>1, <1>2, <1>4 DEF CreditedTo
<1>6. /\ IsFiniteSet(CreditedTo(i))
      /\ \A c \in CreditedTo(i) : Taken[c] \in Int /\ Taken[c] = Taken'[c]
  <2>1. IsFiniteSet(CreditedTo(i)) /\ \A c \in Checkouts : Taken[c] \in Nat
    BY ReceivedType
  <2>2. \A c \in CreditedTo(i) : c \in Checkouts /\ gateway'[c].amount = gateway[c].amount
    BY <1>2, <1>3 DEF CreditedTo
  <2>3. \A c \in CreditedTo(i) : Taken'[c] = Taken[c]
    BY <2>2 DEF Taken
  <2> QED
    BY <2>1, <2>2, <2>3
<1>7. SumFunctionOnSet(Taken, CreditedTo(i)) = SumFunctionOnSet(Taken', CreditedTo(i))
  BY <1>6, SumEqual
<1> QED
  BY <1>1, <1>5, <1>7 DEF Received

\* A credit adds a payment to what its own invoice received, and to nothing else.
LEMMA SaveReceives ==
  ASSUME IInv, SerialInv, IsFiniteSet(StoredDocs), NEW h \in Handlers, SaveInvoice(h), NEW j \in Invoices
  PROVE  Received(j)' = Received(j) + IF j = InvoiceOf(h) THEN Taken[handlers[h].pay] ELSE 0
<1>1. PICK c \in Checkouts : c = handlers[h].pay
  BY SaveWritesCredit
<1>2. credits[c] = 0 /\ payments[c].invoice = InvoiceOf(h) /\ InvoiceOf(h) \in Invoices
  BY <1>1, SaveWritesCredit, CreditsOwnInvoice
<1>3. /\ credits'[c] = 1 /\ \A d \in Checkouts \ {c} : credits'[d] = credits[d]
      /\ UNCHANGED <<payments, gateway>>
  BY <1>1, <1>2 DEF SaveInvoice, IInv, TypeOK
<1>4. /\ IsFiniteSet(CreditedTo(j)) /\ Received(j) \in Nat
      /\ \A d \in Checkouts : Taken[d] \in Nat
  BY ReceivedType
<1>5. Taken' = Taken
  BY <1>3 DEF Taken
<1>6. CASE j = InvoiceOf(h)
  <2>1. CreditedTo(j)' = CreditedTo(j) \cup {c} /\ c \notin CreditedTo(j)
    BY <1>2, <1>3, <1>6 DEF CreditedTo
  <2>2. CreditedTo(j) \subseteq Checkouts
    BY DEF CreditedTo
  <2>3. SumFunctionOnSet(Taken, CreditedTo(j) \cup {c}) = Taken[c] + SumFunctionOnSet(Taken, CreditedTo(j))
    BY <1>4, <2>1, <2>2, SumAdd
  <2> QED
    BY <1>1, <1>4, <1>5, <1>6, <2>1, <2>3 DEF Received
<1>7. CASE j # InvoiceOf(h)
  <2>1. CreditedTo(j)' = CreditedTo(j)
    BY <1>2, <1>3, <1>7 DEF CreditedTo
  <2> QED
    BY <1>4, <1>5, <1>7, <2>1 DEF Received
<1> QED
  BY <1>6, <1>7

\* Rounding loses nothing: what an invoice received is whole paisa, and once it
\* is paid in full another payment leaves it so.
LEMMA CreditAdds ==
  ASSUME NEW due \in Nat, NEW received \in Nat, NEW k \in Nat, received = 10 * k,
         NEW a \in Nat, a > 0,
         NEW paid, paid = IF received < due THEN received ELSE due
  PROVE  applyPayment(due, paid, fromPaisa(a))
           = IF received + fromPaisa(a) < due THEN received + fromPaisa(a) ELSE due
<1>1. CASE received < due
  <2>1. fromPaisa(toPaisa(paid + fromPaisa(a))) = received + fromPaisa(a)
    <3>1. paid + fromPaisa(a) = 10 * (k + a)
      BY <1>1 DEF fromPaisa
    <3>2. \A n \in Nat : (10 * n + 5) \div 10 = n
      OBVIOUS
    <3> QED
      BY <1>1, <3>1, <3>2 DEF fromPaisa, toPaisa
  <2> QED
    BY <1>1, <2>1 DEF applyPayment
<1>2. CASE ~ (received < due)
  <2>1. paid = due /\ received >= due
    BY <1>2
  <2>2. fromPaisa(toPaisa(due + fromPaisa(a))) >= due
    BY DEF fromPaisa, toPaisa
  <2>3. received + fromPaisa(a) >= due /\ fromPaisa(toPaisa(due + fromPaisa(a))) \in Int
    BY <2>1 DEF fromPaisa, toPaisa
  <2>4. applyPayment(due, due, fromPaisa(a)) = due
    BY <2>2, <2>3 DEF applyPayment
  <2> QED
    BY <2>1, <2>3, <2>4 DEF fromPaisa
<1> QED
  BY <1>1, <1>2

LEMMA StepAdds ==
  ASSUME IInv, SerialInv, IsFiniteSet(StoredDocs), PaysSomething, AmountsAdd, [Next]_vars
  PROVE  AmountsAdd'
<1>1. CASE \A h \in Handlers : ~SaveInvoice(h)
  BY <1>1, ReceivedKept DEF AmountsAdd
<1>2. ASSUME NEW h \in Handlers, SaveInvoice(h) PROVE AmountsAdd'
  <2>1. PICK c \in Checkouts, i \in Invoices : c = handlers[h].pay /\ i = InvoiceOf(h)
    BY <1>2, SaveWritesCredit
  <2>2. PICK overdue \in BOOLEAN : invoices' = [invoices EXCEPT ![i] = CreditOf(h, overdue)]
    BY <1>2, <2>1, SaveWritesCredit
  <2>3. invoices'[i].amountPaid = applyPayment(Due[i], invoices[i].amountPaid, fromPaisa(gateway[c].amount))
    BY <2>1, <2>2 DEF CreditOf, IInv, TypeOK
  <2>4. gateway[c].amount \in Nat /\ gateway[c].amount > 0
    BY <1>2, <2>1, SaveWritesCredit DEF PaysSomething, IInv, TypeOK
  <2>5. Received(i) \in Nat /\ \E k \in Nat : Received(i) = 10 * k
    BY ReceivedType
  <2>6. invoices[i].amountPaid = IF Received(i) < Due[i] THEN Received(i) ELSE Due[i]
    BY DEF AmountsAdd
  <2>7. Received(i)' = Received(i) + fromPaisa(gateway[c].amount)
    BY <1>2, <2>1, SaveReceives DEF Taken
  <2>8. invoices'[i].amountPaid = IF Received(i)' < Due[i] THEN Received(i)' ELSE Due[i]
    BY <2>3, <2>4, <2>5, <2>6, <2>7, CreditAdds, ConstantsAssumption
  <2>9. ASSUME NEW j \in Invoices \ {i}
        PROVE  invoices'[j] = invoices[j] /\ Received(j)' = Received(j)
    <3>1. Received(j)' = Received(j) + 0 /\ Received(j) \in Nat
      BY <1>2, <2>1, SaveReceives, ReceivedType
    <3> QED
      BY <2>2, <3>1 DEF IInv, TypeOK
  <2> QED
    BY <2>8, <2>9 DEF AmountsAdd
<1> QED
  BY <1>1, <1>2

LEMMA InitMoney == ASSUME Init, MaxAborts = 0 PROVE TrackInv /\ PaysSomething /\ AmountsAdd
<1> USE ConstantsAssumption
<1>1. StoredDocs = {} /\ \A c \in Checkouts : ~Recorded(c)
  BY DEF Init, StoredDocs, Stored, Absent, Recorded
<1>2. TrackInv
  BY <1>1, FS_EmptySet DEF Init, TrackInv, Idle
<1>3. \A i \in Invoices : Received(i) = 0
  <2>1. \A i \in Invoices : CreditedTo(i) = {}
    BY DEF Init, CreditedTo
  <2> QED
    BY <2>1, SumEmpty DEF Received
<1>4. \A i \in Invoices : invoices[i].amountPaid = 0 /\ Due[i] \in Nat
  BY DEF Init
<1> QED
  BY <1>2, <1>3, <1>4 DEF Init, PaysSomething, AmountsAdd

LEMMA AckedCredited ==
  ASSUME IInv, SerialInv, TrackInv, AmountsAdd PROVE AckedMoneyIsCredited
<1> SUFFICES ASSUME \A h \in Handlers : handlers[h].pc = "idle", NEW i \in Invoices
             PROVE  LET received == SumFunction([c \in { d \in acked : payments[d].invoice = i } |->
                                                   fromPaisa(gateway[c].amount)])
                    IN  invoices[i].amountPaid = Min({Due[i], received})
  BY DEF AckedMoneyIsCredited
<1> DEFINE S == { d \in acked : payments[d].invoice = i }
           f == [c \in S |-> fromPaisa(gateway[c].amount)]
<1>1. S = CreditedTo(i)
  <2>1. \A c \in Checkouts : c \in acked <=> credits[c] > 0
    BY DEF TrackInv, Crediting, Answering
  <2>2. acked \subseteq Checkouts
    BY DEF IInv, TypeOK
  <2> QED
    BY <2>1, <2>2 DEF CreditedTo
<1>2. /\ IsFiniteSet(S) /\ Received(i) \in Nat
      /\ \A c \in S : Taken[c] \in Int /\ f[c] \in Int /\ f[c] = Taken[c]
  <2>1. /\ IsFiniteSet(CreditedTo(i)) /\ Received(i) \in Nat
        /\ \A c \in Checkouts : Taken[c] \in Nat
    BY ReceivedType DEF TrackInv
  <2>2. \A c \in S : c \in Checkouts /\ f[c] = Taken[c]
    BY DEF IInv, TypeOK, Taken
  <2> HIDE DEF S, f
  <2> QED
    BY <1>1, <2>1, <2>2
<1>3. SumFunction(f) = SumFunctionOnSet(f, S)
  BY DEF SumFunction
<1>4. SumFunctionOnSet(f, S) = SumFunctionOnSet(Taken, S)
  <2> HIDE DEF f
  <2> QED
    BY <1>2, SumEqual
<1>5. SumFunction(f) = Received(i)
  BY <1>1, <1>3, <1>4 DEF Received
<1>6. Due[i] \in Int
  BY ConstantsAssumption
<1>7. Min({Due[i], Received(i)}) = IF Received(i) < Due[i] THEN Received(i) ELSE Due[i]
  BY <1>2, <1>6, MinOfTwo
<1> HIDE DEF f
<1> QED
  BY <1>5, <1>7 DEF AmountsAdd, f

\* One delivery at a time and no stop: all the money acknowledged to the gateway
\* is on its invoice, for any number of invoices, orders and deliveries, with the
\* stub gateway too.
THEOREM AckedCredits ==
  ASSUME OneHandler, MaxAborts = 0 PROVE Spec => []AckedMoneyIsCredited
<1>1. Init => SerialInv /\ TrackInv /\ PaysSomething /\ AmountsAdd
  BY InitSerial, InitMoney
<1>2. IInv /\ SerialInv /\ TrackInv /\ PaysSomething /\ AmountsAdd /\ [Next]_vars
        => SerialInv' /\ TrackInv' /\ PaysSomething' /\ AmountsAdd'
  <2>1. TrackInv => IsFiniteSet(StoredDocs)
    BY DEF TrackInv
  <2> QED
    BY <2>1, StepSerial, StepTrack, StepPays, StepAdds
<1>3. IInv /\ SerialInv /\ TrackInv /\ AmountsAdd => AckedMoneyIsCredited
  BY AckedCredited
<1> QED
  BY <1>1, <1>2, <1>3, InvariantHolds, PTL DEF Spec

-----------------------------------------------------------------------------
(* The fees report *)

\* The accounts as feesSummary gets them.
Rows(accounts) ==
  { [id |-> i, amountDue |-> Due[i], amountPaid |-> accounts[i].amountPaid,
     status |-> accounts[i].status] : i \in Invoices }
Paid(accounts) == [i \in Invoices |-> accounts[i].amountPaid]

\* Each invoice is counted once, in the class of its status.
LEMMA TotalOverStatuses ==
  ASSUME IsFiniteSet(Invoices), NEW accounts \in [Invoices -> Account],
         NEW amount, NEW value, \A v \in Rows(accounts) : amount[v] = value[v.id] /\ amount[v] \in Int
  PROVE  SumFunction([status \in InvoiceStatus |->
                        SumFunctionOnSet(amount, { v \in Rows(accounts) : v.status = status })])
           = SumFunctionOnSet(value, Invoices)
<1> DEFINE row == [i \in Invoices |-> [id |-> i, amountDue |-> Due[i],
                                       amountPaid |-> accounts[i].amountPaid,
                                       status |-> accounts[i].status]]
           class == [v \in Rows(accounts) |-> v.status]
           totals == [k \in InvoiceStatus |->
                        SumFunctionOnSet(amount, { v \in Rows(accounts) : class[v] = k })]
<1>1. Rows(accounts) = { row[i] : i \in Invoices }
  BY DEF Rows
<1>2. /\ \A i \in Invoices : row[i].id = i /\ row[i] \in Rows(accounts)
      /\ \A v \in Rows(accounts) : class[v] = v.status /\ class[v] \in InvoiceStatus
  BY DEF Rows, Account
<1>3. \A status \in InvoiceStatus : { v \in Rows(accounts) : class[v] = status }
                                      = { v \in Rows(accounts) : v.status = status }
  OBVIOUS
<1>4. SumFunction([status \in InvoiceStatus |->
                     SumFunctionOnSet(amount, { v \in Rows(accounts) : v.status = status })])
        = SumFunctionOnSet(totals, InvoiceStatus)
  BY <1>3 DEF SumFunction
<1> HIDE DEF row, class
<1>5. IsFiniteSet(InvoiceStatus)
  <2>1. InvoiceStatus = ((({} \cup {"PENDING"}) \cup {"PARTIAL"}) \cup {"PAID"}) \cup {"OVERDUE"}
    BY DEF InvoiceStatus
  <2> QED
    BY <2>1, FS_EmptySet, FS_AddElement
<1>6. IsFiniteSet(Rows(accounts))
  <2>1. row \in Surjection(Invoices, Rows(accounts))
    <3>1. row \in [Invoices -> Rows(accounts)]
      BY <1>2 DEF row
    <3> QED
      BY <1>1, <3>1 DEF Surjection
  <2> QED
    BY <2>1, FS_Surjection
<1>7. SumFunctionOnSet(totals, InvoiceStatus) = SumFunctionOnSet(amount, Rows(accounts))
  BY <1>2, <1>5, <1>6, SumByClass
<1>8. SumFunctionOnSet(value, Invoices) = SumFunctionOnSet(amount, { row[i] : i \in Invoices })
  <2>1. \A i \in Invoices : value[i] \in Int /\ value[i] = amount[row[i]]
    BY <1>2
  <2>2. \A i, j \in Invoices : row[i] = row[j] => i = j
    BY <1>2
  <2> QED
    BY <2>1, <2>2, SumRename
<1> HIDE DEF totals
<1> QED
  BY <1>1, <1>4, <1>7, <1>8

\* The report's totals are sums over the invoices, and its count of PAID is theirs.
LEMMA SummaryAddsUp ==
  ASSUME IsFiniteSet(Invoices), NEW accounts \in [Invoices -> Account]
  PROVE  /\ feesSummary(Rows(accounts)).outstanding
              = SumFunctionOnSet(Due, Invoices) - SumFunctionOnSet(Paid(accounts), Invoices)
         /\ feesSummary(Rows(accounts)).byStatus["PAID"]
              = Cardinality({ i \in Invoices : accounts[i].status = "PAID" })
<1> DEFINE due == [v \in Rows(accounts) |-> v.amountDue]
           paid == [v \in Rows(accounts) |-> v.amountPaid]
           Total(amount) ==
             SumFunction([status \in InvoiceStatus |->
                            SumFunctionOnSet(amount, { v \in Rows(accounts) : v.status = status })])
           paidRows == { v \in Rows(accounts) : v.status = "PAID" }
           paidInvoices == { i \in Invoices : accounts[i].status = "PAID" }
<1>1. /\ feesSummary(Rows(accounts)).outstanding = Total(due) - Total(paid)
      /\ feesSummary(Rows(accounts)).byStatus["PAID"] = Cardinality(paidRows)
  BY DEF feesSummary, InvoiceStatus
<1>2. /\ \A v \in Rows(accounts) : due[v] = Due[v.id] /\ due[v] \in Int
      /\ \A v \in Rows(accounts) : paid[v] = Paid(accounts)[v.id] /\ paid[v] \in Int
  BY ConstantsAssumption DEF Rows, Paid, Account
<1> HIDE DEF due, paid
<1>3. /\ Total(due) = SumFunctionOnSet(Due, Invoices)
      /\ Total(paid) = SumFunctionOnSet(Paid(accounts), Invoices)
  BY <1>2, TotalOverStatuses
<1>4. Cardinality(paidRows) = Cardinality(paidInvoices)
  <2> DEFINE ids == [v \in paidRows |-> v.id]
  <2>1. ids \in [paidRows -> paidInvoices]
    BY DEF Rows
  <2>2. \A v, w \in paidRows : ids[v] = ids[w] => v = w
    BY DEF Rows
  <2>3. ASSUME NEW i \in paidInvoices PROVE \E v \in paidRows : ids[v] = i
    <3> DEFINE v == [id |-> i, amountDue |-> Due[i], amountPaid |-> accounts[i].amountPaid,
                     status |-> accounts[i].status]
    <3>1. v \in Rows(accounts)
      BY DEF Rows
    <3>2. v \in paidRows /\ v.id = i
      BY <3>1
    <3> HIDE DEF v
    <3> QED
      BY <3>2
  <2>4. IsFiniteSet(paidInvoices)
    BY FS_Subset
  <2> HIDE DEF ids, paidRows, paidInvoices
  <2>5. ids \in Injection(paidRows, paidInvoices) /\ ids \in Surjection(paidRows, paidInvoices)
    BY <2>1, <2>2, <2>3 DEF Injection, IsInjective, Surjection
  <2> QED
    BY <2>4, <2>5, FS_Injection
<1> QED
  BY <1>1, <1>3, <1>4

\* Nothing takes money off an invoice.
LEMMA PaidGrows ==
  ASSUME IInv, SerialInv, PaysSomething, [Next]_vars, NEW i \in Invoices
  PROVE  invoices[i].amountPaid <= invoices'[i].amountPaid
<1>1. invoices[i].amountPaid \in Nat
  BY DEF IInv, TypeOK, Account
<1>2. ASSUME NEW h \in Handlers, SaveInvoice(h)
      PROVE  invoices[i].amountPaid <= invoices'[i].amountPaid
  <2>1. PICK c \in Checkouts, j \in Invoices : c = handlers[h].pay /\ j = InvoiceOf(h)
    BY <1>2, SaveWritesCredit
  <2>2. PICK overdue \in BOOLEAN : invoices' = [invoices EXCEPT ![j] = CreditOf(h, overdue)]
    BY <1>2, <2>1, SaveWritesCredit
  <2>3. gateway[c].amount \in Nat /\ gateway[c].amount > 0
    BY <1>2, <2>1, SaveWritesCredit DEF PaysSomething, IInv, TypeOK
  <2>4. /\ Due[j] \in Nat /\ invoices[j].amountPaid \in Nat /\ invoices[j].amountPaid <= Due[j]
    BY ConstantsAssumption DEF IInv, TypeOK, Account
  <2>5. \A due, paid, a \in Nat :
          paid <= due /\ a > 0 => paid <= applyPayment(due, paid, fromPaisa(a))
    BY DEF applyPayment, fromPaisa, toPaisa
  <2>6. invoices[j].amountPaid <= CreditOf(h, overdue).amountPaid
    BY <2>1, <2>3, <2>4, <2>5 DEF CreditOf
  <2> QED
    BY <1>1, <2>2, <2>6 DEF IInv, TypeOK
<1>3. (\E h \in Handlers : SaveInvoice(h)) \/ invoices' = invoices
  BY DEF Next, vars, OpenOrder, StoreOrder, AbortOrder, Authorize, CapturePay, Receive, Step,
     CheckExisting, FindCreated, Claim, ClaimLost, ReadInvoice, Notify, AbortWebhook
<1> QED
  BY <1>1, <1>2, <1>3

LEMMA StepOutstanding ==
  ASSUME IsFiniteSet(Invoices), \A i \in Invoices : Due[i] > 0,
         IInv, SerialInv, PaysSomething, [Next]_vars, TypeOK', StatusFollowsAmounts'
  PROVE  /\ Summary.outstanding >= Summary'.outstanding
         /\ Summary'.outstanding >= 0
         /\ Summary'.outstanding = 0 <=> Summary'.byStatus["PAID"] = Cardinality(Invoices)
<1> DEFINE before == Paid(invoices)
           after == Paid(invoices')
           paidUp == { i \in Invoices : invoices'[i].status = "PAID" }
<1>1. invoices \in [Invoices -> Account] /\ invoices' \in [Invoices -> Account]
  BY DEF IInv, TypeOK
<1>2. /\ Summary = feesSummary(Rows(invoices)) /\ Summary' = feesSummary(Rows(invoices'))
  BY DEF Summary, Rows
<1>3. /\ Summary.outstanding = SumFunctionOnSet(Due, Invoices) - SumFunctionOnSet(before, Invoices)
      /\ Summary'.outstanding = SumFunctionOnSet(Due, Invoices) - SumFunctionOnSet(after, Invoices)
      /\ Summary'.byStatus["PAID"] = Cardinality(paidUp)
  BY <1>1, <1>2, SummaryAddsUp
<1>4. \A i \in Invoices : /\ before[i] \in Int /\ after[i] \in Int /\ Due[i] \in Int
                          /\ before[i] <= after[i] /\ after[i] <= Due[i]
                          /\ after[i] = Due[i] <=> i \in paidUp
  <2> SUFFICES ASSUME NEW i \in Invoices
               PROVE  /\ before[i] \in Int /\ after[i] \in Int /\ Due[i] \in Int
                      /\ before[i] <= after[i] /\ after[i] <= Due[i]
                      /\ after[i] = Due[i] <=> i \in paidUp
    OBVIOUS
  <2>1. /\ before[i] = invoices[i].amountPaid /\ before[i] \in Nat
        /\ after[i] = invoices'[i].amountPaid /\ after[i] \in Nat
        /\ Due[i] \in Nat /\ Due[i] > 0 /\ after[i] <= Due[i]
    BY <1>1, ConstantsAssumption DEF Paid, Account, TypeOK
  <2>2. before[i] <= after[i]
    BY <2>1, PaidGrows
  <2>3. i \in paidUp <=> after[i] >= Due[i] /\ Due[i] > 0
    BY <2>1 DEF StatusFollowsAmounts
  <2> QED
    BY <2>1, <2>2, <2>3
<1> HIDE DEF before, after
<1>5. /\ SumFunctionOnSet(Due, Invoices) \in Int /\ SumFunctionOnSet(before, Invoices) \in Int
      /\ SumFunctionOnSet(after, Invoices) \in Int
      /\ SumFunctionOnSet(before, Invoices) <= SumFunctionOnSet(after, Invoices)
      /\ SumFunctionOnSet(after, Invoices) <= SumFunctionOnSet(Due, Invoices)
  BY <1>4, SumType, SumMonotonic
<1>6. SumFunctionOnSet(after, Invoices) = SumFunctionOnSet(Due, Invoices) <=> paidUp = Invoices
  <2>1. ASSUME SumFunctionOnSet(after, Invoices) = SumFunctionOnSet(Due, Invoices)
        PROVE  paidUp = Invoices
    <3>1. \A i \in Invoices : after[i] = Due[i]
      BY <1>4, <1>5, <2>1, SumTight
    <3> QED
      BY <1>4, <3>1
  <2>2. ASSUME paidUp = Invoices
        PROVE  SumFunctionOnSet(after, Invoices) = SumFunctionOnSet(Due, Invoices)
    <3>1. \A i \in Invoices : after[i] \in Int /\ after[i] = Due[i]
      BY <1>4, <2>2
    <3> QED
      BY <3>1, SumEqual
  <2> QED
    BY <2>1, <2>2
<1>7. Cardinality(paidUp) = Cardinality(Invoices) <=> paidUp = Invoices
  <2>1. paidUp \in SUBSET Invoices
    OBVIOUS
  <2> QED
    BY <2>1, FS_Subset
<1> HIDE DEF paidUp
<1> QED
  BY <1>3, <1>5, <1>6, <1>7

\* One delivery at a time, for finitely many invoices none of which is of amount
\* 0: what the fees report shows as outstanding only falls, to zero exactly when
\* it counts every invoice as PAID, wherever requests stop.
THEOREM OutstandingFalls ==
  ASSUME OneHandler, IsFiniteSet(Invoices), \A i \in Invoices : Due[i] > 0
  PROVE  Spec => OutstandingOnlyFalls
<1>1. Init => SerialInv /\ PaysSomething
  <2>1. Init => PaysSomething
    BY DEF Init, PaysSomething
  <2> QED
    BY <2>1, InitSerial
<1>2. IInv /\ SerialInv /\ PaysSomething /\ [Next]_vars => SerialInv' /\ PaysSomething'
  BY StepSerial, StepPays
<1>3. IInv /\ SerialInv /\ PaysSomething /\ [Next]_vars /\ IInv' /\ SerialInv' =>
        /\ Summary.outstanding >= Summary'.outstanding
        /\ Summary'.outstanding >= 0
        /\ Summary'.outstanding = 0 <=> Summary'.byStatus["PAID"] = Cardinality(Invoices)
  <2>1. (IInv' => TypeOK') /\ (SerialInv' => StatusFollowsAmounts')
    BY DEF IInv, SerialInv
  <2> QED
    BY <2>1, StepOutstanding
<1> QED
  BY <1>1, <1>2, <1>3, InvariantHolds, PTL DEF Spec, OutstandingOnlyFalls
=============================================================================

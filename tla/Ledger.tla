------------------------------- MODULE Ledger -------------------------------
(***************************************************************************)
(* What the payment webhook promises about an invoice: money the gateway   *)
(* has taken is credited to its invoice at most once, as one step, clamped *)
(* at the amount due, and the invoice's status follows its amounts.        *)
(***************************************************************************)
EXTENDS Integers, FeeCalc

CONSTANTS Invoices,   \* fee invoices
          Deposits,   \* gateway payment ids
          Due         \* amount due of each invoice

VARIABLES account,    \* per invoice, what is paid and the status shown
          banked,     \* the payments the gateway has captured, in paisa
          credited    \* the ids already credited
vars == <<account, banked, credited>>

Deposit(d) == { r \in banked : r.id = d }

Init ==
  /\ \E late \in [Invoices -> BOOLEAN] :
       account = [i \in Invoices |->
                    [amountPaid |-> 0,
                     status     |-> computeInvoiceStatus(Due[i], 0, late[i])]]
  /\ banked = {}
  /\ credited = {}

\* The gateway takes a payment against an invoice.
Bank(d) ==
  /\ Deposit(d) = {}
  /\ \E r \in banked' : /\ r.id = d
                        /\ r.invoice \in Invoices
                        /\ banked' = banked \cup {r}
  /\ UNCHANGED <<account, credited>>

\* A captured payment is credited, once.
Credit(d) ==
  /\ d \notin credited
  /\ \E r \in Deposit(d), overdue \in BOOLEAN :
       LET i    == r.invoice
           paid == applyPayment(Due[i], account[i].amountPaid, fromPaisa(r.amount))
       IN  account' = [account EXCEPT ![i] =
                         [amountPaid |-> paid,
                          status     |-> computeInvoiceStatus(Due[i], paid, overdue)]]
  /\ credited' = credited \cup {d}
  /\ UNCHANGED banked

Next == \E d \in Deposits : Bank(d) \/ Credit(d)

Spec == Init /\ [][Next]_vars
=============================================================================

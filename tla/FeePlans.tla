------------------------------ MODULE FeePlans ------------------------------
(***************************************************************************)
(* Fee plans and the invoices generated from them: createPlan and          *)
(* generateInvoices (fees.service.ts).                                     *)
(*                                                                         *)
(* A generation walks students x installments with one upsert each and     *)
(* awaits between them: enrolments, payments, another generation or the    *)
(* end of the process may come in between.  No unique index backs the      *)
(* upsert, so MongoDB runs it as a match and, failing that, an insert.     *)
(***************************************************************************)
EXTENDS Integers, FiniteSets, Sequences, FiniteSetsExt, FeeCalc

CONSTANTS Students,
          Plans,         \* bounds the fee plans ever created
          Requests,      \* the createPlan bodies considered
          Generators,    \* generateInvoices requests served at once
          MaxInvoices,   \* bounds the invoices ever created
          MaxCredits,    \* bounds the payments ever credited
          MaxAborts      \* bounds the generations that stop half way

ASSUME FeePlansAssumption ==
  /\ MaxInvoices \in Nat /\ MaxCredits \in Nat /\ MaxAborts \in Nat
  \* installments, possibly none, and splitInto, 0 when absent
  /\ \A r \in Requests : /\ r.total \in Nat
                         /\ r.splitInto \in Nat
                         /\ r.installments \in Seq([label : Nat, amount : Nat])

VARIABLES plans,       \* FeePlan documents: their total and installments
          batch,       \* the students of the plans' batch
          invoices,    \* FeeInvoice documents, each with an id of its own
          generators,  \* generateInvoices requests being served
          billed,      \* history: <<plan, student>> a finished generation covered
          versions,    \* history: invoices as they were before a credit
          creditsLeft, abortsLeft
vars == <<plans, batch, invoices, generators, billed, versions, creditsLeft, abortsLeft>>

NoPlan == [total |-> 0, installments |-> <<>>]
IdleGenerator == [pc |-> "idle", plan |-> 0, covers |-> {}, left |-> {},
                  student |-> 0, k |-> 0]

Init ==
  /\ plans = [p \in Plans |-> NoPlan]
  /\ batch = {}
  /\ invoices = {}
  /\ generators = [g \in Generators |-> IdleGenerator]
  /\ billed = {}
  /\ versions = {}
  /\ creditsLeft = MaxCredits
  /\ abortsLeft = MaxAborts

-----------------------------------------------------------------------------
(* createPlan *)

SumOf(installments) ==
  SumFunction([k \in DOMAIN installments |-> installments[k].amount])

\* The explicit installments win over splitInto.  A label is a number: that of
\* a split installment, "Installment k", is k.
InstallmentsOf(r) ==
  IF r.installments = <<>> /\ r.splitInto > 0
  THEN LET amounts == splitEqualInstallments(r.total, r.splitInto)
       IN  [k \in 1..r.splitInto |-> [label |-> k, amount |-> amounts[k]]]
  ELSE r.installments

Accepts(r) == /\ InstallmentsOf(r) # <<>>
              /\ toPaisa(SumOf(InstallmentsOf(r))) = toPaisa(r.total)

CreatePlan(p, r) ==
  /\ plans[p] = NoPlan
  /\ Accepts(r)
  /\ plans' = [plans EXCEPT ![p] = [total        |-> r.total,
                                    installments |-> InstallmentsOf(r)]]
  /\ UNCHANGED <<batch, invoices, generators, billed, versions, creditsLeft, abortsLeft>>

\* External: a student joins the batch (batches.service.ts).
Enroll(s) ==
  /\ s \notin batch
  /\ batch' = batch \cup {s}
  /\ UNCHANGED <<plans, invoices, generators, billed, versions, creditsLeft, abortsLeft>>

\* External to this module: save() of an invoice writes what differs from the
\* copy that was read.
SaveModified(v, old, paid, status) ==
  [v EXCEPT !.amountPaid = IF paid # old.amountPaid THEN paid ELSE @,
            !.status     = IF status # old.status THEN status ELSE @]

\* External to this module: the webhook credits a payment, in part or in full
\* (Payments).  It computes on a copy that may be of before other credits, so
\* its save may also lower amountPaid, or write a status of other amounts.
Credit(v) ==
  /\ creditsLeft > 0
  /\ \E old \in {v} \cup { x \in versions : x.id = v.id },
        paisa \in 1..toPaisa(v.amountDue), overdue \in BOOLEAN :
       LET paid   == applyPayment(v.amountDue, old.amountPaid, fromPaisa(paisa))
           status == computeInvoiceStatus(v.amountDue, paid, overdue)
       IN  invoices' = (invoices \ {v}) \cup {SaveModified(v, old, paid, status)}
  /\ versions' = versions \cup {v}
  /\ creditsLeft' = creditsLeft - 1
  /\ UNCHANGED <<plans, batch, generators, billed, abortsLeft>>

-----------------------------------------------------------------------------
(* generateInvoices *)

\* Read the plan and the students: those given, or the batch's.
Start(g, p, given) ==
  /\ generators[g].pc = "idle"
  /\ plans[p] # NoPlan
  /\ LET students == IF given = {} THEN batch ELSE given
     IN  \E s \in students :
           generators' = [generators EXCEPT ![g] =
             [pc |-> "match", plan |-> p, covers |-> students,
              left |-> students \ {s}, student |-> s, k |-> 1]]
  /\ UNCHANGED <<plans, batch, invoices, billed, versions, creditsLeft, abortsLeft>>

\* Weakened: the loop over the installments runs once too often.
AdvancePastEnd(g) ==
  /\ generators' = [generators EXCEPT ![g].pc = "match", ![g].k = @ + 1]
  /\ UNCHANGED billed

\* The next installment of the student, the first of another student, or the end.
Advance(g) ==
  LET r == generators[g] IN
  IF r.k < Len(plans[r.plan].installments)
  THEN /\ generators' = [generators EXCEPT ![g].pc = "match", ![g].k = r.k + 1]
       /\ UNCHANGED billed
  ELSE IF r.left # {}
  THEN /\ \E s \in r.left :
            generators' = [generators EXCEPT ![g].pc = "match", ![g].k = 1,
                                             ![g].student = s, ![g].left = @ \ {s}]
       /\ UNCHANGED billed
  ELSE /\ generators' = [generators EXCEPT ![g] = IdleGenerator]
       /\ billed' = billed \cup ({r.plan} \X r.covers)

Installment(g) == plans[generators[g].plan].installments[generators[g].k]

\* Weakened: one invoice per student and plan; every run inserts.
MatchedByPlan(g) == { v \in invoices : /\ v.student = generators[g].student
                                       /\ v.plan = generators[g].plan }
MatchedNever(g) == {}

\* The invoices the upsert's filter matches.
Matched(g) == { v \in invoices : /\ v.student = generators[g].student
                                 /\ v.plan = generators[g].plan
                                 /\ v.label = Installment(g).label }

NewInvoice(g, overdue) ==
  [id         |-> Cardinality(invoices) + 1,
   student    |-> generators[g].student,
   plan       |-> generators[g].plan,
   label      |-> Installment(g).label,
   amountDue  |-> Installment(g).amount,
   amountPaid |-> 0,
   status     |-> computeInvoiceStatus(Installment(g).amount, 0, overdue)]

\* Weakened: $set instead of $setOnInsert, a matched invoice is written afresh.
MatchOverwrites(g) ==
  /\ generators[g].pc = "match"
  /\ Matched(g) # {}
  /\ \E v \in Matched(g), overdue \in BOOLEAN :
       invoices' = (invoices \ {v}) \cup {[NewInvoice(g, overdue) EXCEPT !.id = v.id]}
  /\ Advance(g)
  /\ UNCHANGED <<plans, batch, versions, creditsLeft, abortsLeft>>

\* An invoice matched: $setOnInsert writes nothing.
Match(g) ==
  /\ generators[g].pc = "match"
  /\ Matched(g) # {}
  /\ Advance(g)
  /\ UNCHANGED <<plans, batch, invoices, versions, creditsLeft, abortsLeft>>

NoMatch(g) ==
  /\ generators[g].pc = "match"
  /\ Matched(g) = {}
  /\ generators' = [generators EXCEPT ![g].pc = "insert"]
  /\ UNCHANGED <<plans, batch, invoices, billed, versions, creditsLeft, abortsLeft>>

Insert(g) ==
  /\ generators[g].pc = "insert"
  /\ Cardinality(invoices) < MaxInvoices
  /\ \E overdue \in BOOLEAN : invoices' = invoices \cup {NewInvoice(g, overdue)}
  /\ Advance(g)
  /\ UNCHANGED <<plans, batch, versions, creditsLeft, abortsLeft>>

\* The process dies or a database call throws: the invoices written stay.
Abort(g) ==
  /\ generators[g].pc # "idle"
  /\ abortsLeft > 0
  /\ generators' = [generators EXCEPT ![g] = IdleGenerator]
  /\ abortsLeft' = abortsLeft - 1
  /\ UNCHANGED <<plans, batch, invoices, billed, versions, creditsLeft>>

Next ==
  \/ \E p \in Plans, r \in Requests : CreatePlan(p, r)
  \/ \E s \in Students : Enroll(s)
  \/ \E v \in invoices : Credit(v)
  \/ \E g \in Generators, p \in Plans, given \in SUBSET Students : Start(g, p, given)
  \/ \E g \in Generators : Match(g) \/ NoMatch(g) \/ Insert(g) \/ Abort(g)

Spec == Init /\ [][Next]_vars

-----------------------------------------------------------------------------
(* Properties *)

\* Types, and that a generation only ever visits installments its plan has.
TypeOK ==
  /\ \A p \in Plans : \A k \in DOMAIN plans[p].installments :
       plans[p].installments[k].amount \in Nat
  /\ batch \subseteq Students
  /\ \A v \in invoices : /\ v.student \in Students /\ v.plan \in Plans
                         /\ v.amountDue \in Nat /\ v.amountPaid \in 0..v.amountDue
                         /\ v.status \in InvoiceStatus
  /\ \A g \in Generators : /\ generators[g].pc \in {"idle", "match", "insert"}
                           /\ generators[g].left \subseteq generators[g].covers
                           /\ generators[g].pc # "idle" =>
                                generators[g].k \in
                                  DOMAIN plans[generators[g].plan].installments
  /\ billed \subseteq Plans \X Students
  /\ creditsLeft \in 0..MaxCredits /\ abortsLeft \in 0..MaxAborts

InvoicesOf(p, s) == { v \in invoices : v.plan = p /\ v.student = s }

\* With one generation at a time there is one invoice at most per student,
\* plan and label, although runs stop half way and are repeated.
NoDuplicateInvoices ==
  \A v, w \in invoices :
    v.student = w.student /\ v.plan = w.plan /\ v.label = w.label => v = w

\* A student covered by a finished generation owes what the plan comes to, to
\* the paisa: every installment is invoiced, whatever earlier runs left behind,
\* and however the installments were given (createPlan's check and split).
BilledInFull ==
  \A b \in billed :
    LET owed == SumFunction([v \in InvoicesOf(b[1], b[2]) |-> v.amountDue])
    IN  /\ owed = SumOf(plans[b[1]].installments)
        /\ toPaisa(owed) = toPaisa(plans[b[1]].total)

\* A generation that meets an invoice leaves it alone, whatever has been paid on
\* it and however often the plan is generated; no step at all loses an invoice or
\* changes whose it is and what it asks for.
InvoicesKept ==
  [][/\ generators' # generators => invoices \subseteq invoices'
     /\ \A v \in invoices : \E w \in invoices' :
          /\ w.id = v.id /\ w.student = v.student /\ w.plan = v.plan
          /\ w.label = v.label /\ w.amountDue = v.amountDue]_vars

\* A plan split by splitInto never loses a paisa, spreads the remainder over
\* its earliest installments, and keeps them within a paisa of each other.
SplitIsExact ==
  \A p \in Plans, r \in Requests :
    /\ r.installments = <<>>
    /\ plans[p] # NoPlan
    /\ plans[p] = [total |-> r.total, installments |-> InstallmentsOf(r)]
    => LET parts == plans[p].installments
       IN  /\ SumOf(parts) = fromPaisa(toPaisa(r.total))
           /\ \A j, k \in DOMAIN parts :
                j <= k => parts[j].amount - parts[k].amount \in {0, fromPaisa(1)}
=============================================================================

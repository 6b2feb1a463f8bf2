---------------------------- MODULE FeePlansProofs ----------------------------
(***************************************************************************)
(* Invoice generation for any plans, students, requests, payments and      *)
(* stops: a split loses nothing, invoices are kept and, with one           *)
(* generation at a time, billed once and in full.                          *)
(***************************************************************************)
EXTENDS FeePlans, FiniteSetTheorems, SumTheorems, TLAPS

OneGenerator == \A g, h \in Generators : g = h

Part == [label : Nat, amount : Nat]
PlanType == [total : Nat, installments : Seq(Part)]
InvoiceType == [id : Nat, student : Students, plan : Plans, label : Nat,
                amountDue : Nat, amountPaid : Nat, status : InvoiceStatus]
GeneratorType == [pc : {"idle", "match", "insert"}, plan : Plans \cup {0},
                  covers : SUBSET Students, left : SUBSET Students,
                  student : Students \cup {0}, k : Nat]

\* A generation in progress is at an installment of its plan.
GeneratorOK(g) ==
  LET q == generators[g] IN
  /\ q.left \subseteq q.covers
  /\ q.pc # "idle" =>
       /\ q.plan \in Plans /\ plans[q.plan] # NoPlan /\ q.student \in Students
       /\ q.k \in 1..Len(plans[q.plan].installments)

IInv ==
  /\ plans \in [Plans -> PlanType]
  /\ \A p \in Plans : plans[p] # NoPlan => Len(plans[p].installments) > 0
  /\ batch \subseteq Students
  /\ invoices \subseteq InvoiceType /\ IsFiniteSet(invoices)
  /\ \A v \in invoices : v.amountPaid \in 0..v.amountDue
  /\ versions \subseteq InvoiceType
  /\ generators \in [Generators -> GeneratorType]
  /\ \A g \in Generators : GeneratorOK(g)
  /\ billed \subseteq Plans \X Students
  /\ creditsLeft \in 0..MaxCredits /\ abortsLeft \in 0..MaxAborts

-----------------------------------------------------------------------------
(* The arithmetic of a split *)

\* Every part of a split is an amount: whole paisa, and none negative.
LEMMA SplitAmounts ==
  ASSUME NEW total \in Nat, NEW count \in Nat, count > 0
  PROVE  /\ splitEqualInstallments(total, count)
              = [k \in 1..count |-> splitEqualInstallments(total, count)[k]]
         /\ \A k \in 1..count : splitEqualInstallments(total, count)[k] \in Nat
<1> DEFINE base == toPaisa(total) \div count
<1>1. toPaisa(total) \in Nat
  BY DEF toPaisa
<1> HIDE DEF base
<1>2. base \in Nat
  BY <1>1 DEF base
<1> DEFINE remainder == toPaisa(total) - base * count
<1>3. remainder \in Int
  BY <1>1, <1>2
<1>4. splitEqualInstallments(total, count)
        = [k \in 1..count |-> fromPaisa(base + IF k <= remainder THEN 1 ELSE 0)]
  BY DEF splitEqualInstallments, base
<1> HIDE DEF remainder
<1>5. \A k \in 1..count : fromPaisa(base + IF k <= remainder THEN 1 ELSE 0) \in Nat
  BY <1>2, <1>3 DEF fromPaisa
<1> QED
  BY <1>4, <1>5

\* The installments of an accepted request.
LEMMA AcceptedInstallments ==
  ASSUME NEW r \in Requests, Accepts(r)
  PROVE  InstallmentsOf(r) \in Seq(Part) /\ Len(InstallmentsOf(r)) > 0
<1>1. r.total \in Nat /\ r.splitInto \in Nat /\ r.installments \in Seq(Part)
  BY FeePlansAssumption DEF Part
<1>2. InstallmentsOf(r) # <<>>
  BY DEF Accepts
<1>3. CASE r.installments = <<>> /\ r.splitInto > 0
  <2> DEFINE amounts == splitEqualInstallments(r.total, r.splitInto)
  <2>1. \A k \in 1..r.splitInto : amounts[k] \in Nat
    BY <1>1, <1>3, SplitAmounts
  <2>2. InstallmentsOf(r) = [k \in 1..r.splitInto |-> [label |-> k, amount |-> amounts[k]]]
    BY <1>3 DEF InstallmentsOf
  <2> HIDE DEF amounts
  <2>3. \A k \in 1..r.splitInto : [label |-> k, amount |-> amounts[k]] \in Part
    BY <1>1, <2>1 DEF Part
  <2>4. [k \in 1..r.splitInto |-> [label |-> k, amount |-> amounts[k]]] \in [1..r.splitInto -> Part]
    BY <2>3
  <2>5. InstallmentsOf(r) \in Seq(Part)
    BY <1>1, <2>2, <2>4
  <2> QED
    BY <1>1, <1>3, <2>2, <2>5
<1>4. CASE ~ (r.installments = <<>> /\ r.splitInto > 0)
  <2>1. InstallmentsOf(r) = r.installments
    BY <1>4 DEF InstallmentsOf
  <2> QED
    BY <1>1, <1>2, <2>1
<1> QED
  BY <1>3, <1>4

-----------------------------------------------------------------------------
(* The invariant, action by action *)

LEMMA InitInvariant == Init => IInv
<1> SUFFICES ASSUME Init PROVE IInv
  OBVIOUS
<1>1. NoPlan \in PlanType
  BY DEF NoPlan, PlanType, Part
<1>2. IdleGenerator \in GeneratorType /\ \A g \in Generators : GeneratorOK(g)
  BY DEF Init, IdleGenerator, GeneratorType, GeneratorOK
<1>3. IsFiniteSet({})
  BY FS_EmptySet
<1> QED
  BY <1>1, <1>2, <1>3, FeePlansAssumption DEF Init, IInv

LEMMA CreatePlanStep ==
  ASSUME IInv, NEW p \in Plans, NEW r \in Requests, CreatePlan(p, r)
  PROVE  IInv'
<1> DEFINE x == [total |-> r.total, installments |-> InstallmentsOf(r)]
<1>1. InstallmentsOf(r) \in Seq(Part) /\ Len(InstallmentsOf(r)) > 0
  BY AcceptedInstallments DEF CreatePlan
<1>2. x \in PlanType /\ Len(x.installments) > 0
  BY <1>1, FeePlansAssumption DEF PlanType
<1>3. /\ plans' = [plans EXCEPT ![p] = x] /\ plans[p] = NoPlan
      /\ UNCHANGED <<batch, invoices, generators, billed, versions, creditsLeft, abortsLeft>>
  BY DEF CreatePlan
<1> HIDE DEF x
<1>4. /\ plans' \in [Plans -> PlanType] /\ plans'[p] = x
      /\ \A o \in Plans : plans[o] # NoPlan => plans'[o] = plans[o]
      /\ \A o \in Plans \ {p} : plans'[o] = plans[o]
  BY <1>2, <1>3 DEF IInv
<1>5. \A o \in Plans : plans'[o] # NoPlan => Len(plans'[o].installments) > 0
  BY <1>2, <1>4 DEF IInv
<1>6. \A g \in Generators : GeneratorOK(g)'
  BY <1>3, <1>4 DEF IInv, GeneratorOK
<1> QED
  BY <1>3, <1>4, <1>5, <1>6 DEF IInv

\* A credit replaces an invoice by one of the same student that asks for the
\* same, with no more paid on it than that.
LEMMA Credited ==
  ASSUME IInv, NEW v \in invoices, Credit(v)
  PROVE  \E w \in InvoiceType :
           /\ invoices' = (invoices \ {v}) \cup {w}
           /\ w.id = v.id /\ w.student = v.student /\ w.plan = v.plan
           /\ w.label = v.label /\ w.amountDue = v.amountDue
           /\ w.amountPaid \in 0..w.amountDue
<1>1. v \in InvoiceType /\ v.amountPaid \in 0..v.amountDue
  BY DEF IInv
<1>2. PICK old \in {v} \cup { x \in versions : x.id = v.id },
           paisa \in 1..toPaisa(v.amountDue), overdue \in BOOLEAN :
        LET paid   == applyPayment(v.amountDue, old.amountPaid, fromPaisa(paisa))
            status == computeInvoiceStatus(v.amountDue, paid, overdue)
        IN  invoices' = (invoices \ {v}) \cup {SaveModified(v, old, paid, status)}
  BY DEF Credit
<1> DEFINE paid   == applyPayment(v.amountDue, old.amountPaid, fromPaisa(paisa))
           status == computeInvoiceStatus(v.amountDue, paid, overdue)
           w      == SaveModified(v, old, paid, status)
<1>3. v.amountDue \in Nat /\ old.amountPaid \in Nat /\ paisa \in Nat
  <2>1. old \in InvoiceType
    BY <1>1 DEF IInv
  <2> QED
    BY <1>1, <2>1 DEF InvoiceType, toPaisa
<1>4. paid \in 0..v.amountDue
  BY <1>3 DEF applyPayment, fromPaisa, toPaisa
<1>5. status \in InvoiceStatus
  BY DEF computeInvoiceStatus, InvoiceStatus
<1>6. invoices' = (invoices \ {v}) \cup {w}
  BY <1>2
<1> DEFINE a == IF paid # old.amountPaid THEN paid ELSE v.amountPaid
           b == IF status # old.status THEN status ELSE v.status
<1>7. w = [v EXCEPT !.amountPaid = a, !.status = b]
  BY DEF SaveModified
<1>8. a \in 0..v.amountDue /\ a \in Nat /\ b \in InvoiceStatus
  <2>1. v.amountPaid \in 0..v.amountDue /\ v.status \in InvoiceStatus
    BY <1>1 DEF InvoiceType
  <2> HIDE DEF paid, status
  <2> QED
    BY <1>3, <1>4, <1>5, <2>1
<1> HIDE DEF w, a, b
<1>9. /\ w \in InvoiceType
      /\ w.id = v.id /\ w.student = v.student /\ w.plan = v.plan
      /\ w.label = v.label /\ w.amountDue = v.amountDue
      /\ w.amountPaid \in 0..w.amountDue
  BY <1>1, <1>7, <1>8 DEF InvoiceType
<1> QED
  BY <1>6, <1>9

LEMMA CreditStep ==
  ASSUME IInv, NEW v \in invoices, Credit(v)
  PROVE  IInv'
<1>1. PICK w \in InvoiceType : /\ invoices' = (invoices \ {v}) \cup {w}
                               /\ w.amountPaid \in 0..w.amountDue
  BY Credited
<1>2. IsFiniteSet(invoices')
  BY <1>1, FS_RemoveElement, FS_AddElement DEF IInv
<1>3. UNCHANGED <<plans, batch, generators, billed, abortsLeft>>
  BY DEF Credit
<1>4. \A g \in Generators : GeneratorOK(g)'
  BY <1>3 DEF IInv, GeneratorOK
<1>5. versions' \subseteq InvoiceType /\ creditsLeft' \in 0..MaxCredits
  BY FeePlansAssumption DEF Credit, IInv
<1> QED
  BY <1>1, <1>2, <1>3, <1>4, <1>5 DEF IInv

\* A step that moves one generation, to the record q.
LEMMA PreservedByGenerator ==
  ASSUME IInv, UNCHANGED <<plans, batch, versions, creditsLeft>>, NEW g \in Generators, NEW q \in GeneratorType,
         generators' = [generators EXCEPT ![g] = q], q.left \subseteq q.covers,
         q.pc # "idle" =>
           /\ q.plan \in Plans /\ plans[q.plan] # NoPlan /\ q.student \in Students
           /\ q.k \in 1..Len(plans[q.plan].installments),
         invoices' \subseteq InvoiceType, IsFiniteSet(invoices'),
         \A v \in invoices' : v.amountPaid \in 0..v.amountDue,
         billed' \subseteq Plans \X Students, abortsLeft' \in 0..MaxAborts
  PROVE  IInv'
<1>1. /\ generators' \in [Generators -> GeneratorType] /\ generators'[g] = q
      /\ \A h \in Generators \ {g} : generators'[h] = generators[h]
  BY DEF IInv
<1>2. \A h \in Generators : GeneratorOK(h)'
  BY <1>1 DEF IInv, GeneratorOK
<1> QED
  BY <1>1, <1>2 DEF IInv

LEMMA StartStep ==
  ASSUME IInv, NEW g \in Generators, NEW p \in Plans, NEW given \in SUBSET Students,
         Start(g, p, given)
  PROVE  IInv'
<1> DEFINE students == IF given = {} THEN batch ELSE given
<1>1. PICK s \in students :
        generators' = [generators EXCEPT ![g] =
          [pc |-> "match", plan |-> p, covers |-> students,
           left |-> students \ {s}, student |-> s, k |-> 1]]
  BY DEF Start
<1> DEFINE q == [pc |-> "match", plan |-> p, covers |-> students,
                 left |-> students \ {s}, student |-> s, k |-> 1]
<1>2. students \subseteq Students
  BY DEF IInv
<1> HIDE DEF students
<1>3. /\ q \in GeneratorType /\ q.left \subseteq q.covers /\ q.plan = p
      /\ q.student \in Students /\ q.k = 1
  BY <1>1, <1>2 DEF GeneratorType
<1>4. /\ generators' = [generators EXCEPT ![g] = q] /\ plans[p] # NoPlan
      /\ UNCHANGED <<plans, batch, invoices, billed, versions, creditsLeft, abortsLeft>>
  BY <1>1 DEF Start
<1>5. 1 \in 1..Len(plans[p].installments)
  BY <1>4 DEF IInv, PlanType
<1> HIDE DEF q
<1> QED
  BY <1>3, <1>4, <1>5, PreservedByGenerator DEF IInv

\* Where Advance takes a generation.
LEMMA AdvanceStep ==
  ASSUME IInv, NEW g \in Generators, generators[g].pc # "idle", Advance(g),
         UNCHANGED <<plans, batch, versions, creditsLeft, abortsLeft>>,
         invoices' \subseteq InvoiceType, IsFiniteSet(invoices'),
         \A v \in invoices' : v.amountPaid \in 0..v.amountDue
  PROVE  IInv'
<1> DEFINE r == generators[g]
<1>1. /\ r \in GeneratorType /\ r.left \subseteq r.covers
      /\ r.plan \in Plans /\ plans[r.plan] # NoPlan /\ r.student \in Students
      /\ r.k \in 1..Len(plans[r.plan].installments)
      /\ Len(plans[r.plan].installments) \in Nat
  BY DEF IInv, GeneratorOK, PlanType
<1>2. abortsLeft' \in 0..MaxAborts /\ billed \subseteq Plans \X Students
  BY DEF IInv
<1>3. CASE r.k < Len(plans[r.plan].installments)
  <2> DEFINE q == [r EXCEPT !.pc = "match", !.k = r.k + 1]
  <2>1. /\ q \in GeneratorType /\ q.left = r.left /\ q.covers = r.covers
        /\ q.plan = r.plan /\ q.student = r.student /\ q.k = r.k + 1
    <3>1. r.k + 1 \in Nat /\ r \in GeneratorType
      BY <1>1 DEF GeneratorType
    <3> HIDE DEF r
    <3> QED
      BY <3>1 DEF GeneratorType
  <2>2. generators' = [generators EXCEPT ![g] = q] /\ billed' = billed
    BY <1>3 DEF Advance, IInv
  <2>3. r.k + 1 \in 1..Len(plans[r.plan].installments)
    BY <1>1, <1>3
  <2> HIDE DEF q, r
  <2> QED
    BY <1>1, <1>2, <2>1, <2>2, <2>3, PreservedByGenerator
<1>4. CASE ~ (r.k < Len(plans[r.plan].installments)) /\ r.left # {}
  <2>1. PICK s \in r.left :
          generators' = [generators EXCEPT ![g].pc = "match", ![g].k = 1,
                                           ![g].student = s, ![g].left = @ \ {s}]
    BY <1>4 DEF Advance
  <2> DEFINE q == [r EXCEPT !.pc = "match", !.k = 1, !.student = s, !.left = r.left \ {s}]
  <2>2. s \in Students
    BY <1>1 DEF GeneratorType
  <2>3. /\ q \in GeneratorType /\ q.left \subseteq q.covers /\ q.plan = r.plan
        /\ q.student = s /\ q.k = 1
    <3>1. /\ q.left = r.left \ {s} /\ q.covers = r.covers /\ q.plan = r.plan
          /\ q.student = s /\ q.k = 1
      BY <1>1 DEF GeneratorType
    <3>2. r.left \ {s} \in SUBSET Students
      BY <1>1 DEF GeneratorType
    <3>3. q \in GeneratorType
      BY <1>1, <2>2, <3>2 DEF GeneratorType
    <3> QED
      BY <1>1, <3>1, <3>3
  <2>4. generators' = [generators EXCEPT ![g] = q] /\ billed' = billed
    BY <1>4, <2>1 DEF Advance, IInv
  <2>5. 1 \in 1..Len(plans[r.plan].installments)
    BY <1>1
  <2> HIDE DEF q, r
  <2> QED
    BY <1>1, <1>2, <2>2, <2>3, <2>4, <2>5, PreservedByGenerator
<1>5. CASE ~ (r.k < Len(plans[r.plan].installments)) /\ r.left = {}
  <2>1. /\ generators' = [generators EXCEPT ![g] = IdleGenerator]
        /\ billed' = billed \cup ({r.plan} \X r.covers)
    BY <1>5 DEF Advance
  <2>2. r.covers \subseteq Students
    BY <1>1 DEF GeneratorType
  <2>3. billed' \subseteq Plans \X Students
    BY <1>1, <1>2, <2>1, <2>2
  <2>4. IdleGenerator \in GeneratorType /\ IdleGenerator.pc = "idle"
        /\ IdleGenerator.left \subseteq IdleGenerator.covers
    BY DEF IdleGenerator, GeneratorType
  <2> QED
    BY <1>2, <2>1, <2>3, <2>4, PreservedByGenerator
<1> QED
  BY <1>3, <1>4, <1>5

LEMMA MatchSteps ==
  ASSUME IInv, NEW g \in Generators, Match(g) \/ NoMatch(g)
  PROVE  IInv'
<1>1. CASE Match(g)
  BY <1>1, AdvanceStep DEF Match, IInv
<1>2. CASE NoMatch(g)
  <2> DEFINE q == [generators[g] EXCEPT !.pc = "insert"]
  <2>1. generators[g] \in GeneratorType /\ generators[g].pc = "match" /\ GeneratorOK(g)
    BY <1>2 DEF NoMatch, IInv
  <2>2. /\ q \in GeneratorType /\ q.left = generators[g].left
        /\ q.covers = generators[g].covers /\ q.plan = generators[g].plan
        /\ q.student = generators[g].student /\ q.k = generators[g].k
    BY <2>1 DEF GeneratorType
  <2>3. /\ generators' = [generators EXCEPT ![g] = q]
        /\ UNCHANGED <<plans, batch, invoices, billed, versions, creditsLeft, abortsLeft>>
    BY <1>2 DEF NoMatch, IInv
  <2> HIDE DEF q
  <2> QED
    BY <2>1, <2>2, <2>3, PreservedByGenerator DEF IInv, GeneratorOK
<1> QED
  BY <1>1, <1>2

LEMMA NewInvoiceType ==
  ASSUME IInv, NEW g \in Generators, generators[g].pc # "idle", NEW overdue \in BOOLEAN
  PROVE  /\ NewInvoice(g, overdue) \in InvoiceType
         /\ NewInvoice(g, overdue).amountPaid = 0
         /\ NewInvoice(g, overdue).student = generators[g].student
         /\ NewInvoice(g, overdue).plan = generators[g].plan
         /\ NewInvoice(g, overdue).label = Installment(g).label
<1>1. /\ generators[g].plan \in Plans /\ generators[g].student \in Students
      /\ plans[generators[g].plan] \in PlanType
      /\ generators[g].k \in 1..Len(plans[generators[g].plan].installments)
  BY DEF IInv, GeneratorOK
<1>2. Installment(g) \in Part
  BY <1>1 DEF Installment, PlanType
<1>3. Cardinality(invoices) + 1 \in Nat
  BY FS_CardinalityType DEF IInv
<1>4. computeInvoiceStatus(Installment(g).amount, 0, overdue) \in InvoiceStatus
  BY DEF computeInvoiceStatus, InvoiceStatus
<1> QED
  BY <1>1, <1>2, <1>3, <1>4 DEF NewInvoice, InvoiceType, Part

LEMMA InsertStep ==
  ASSUME IInv, NEW g \in Generators, Insert(g)
  PROVE  IInv'
<1>1. PICK overdue \in BOOLEAN : invoices' = invoices \cup {NewInvoice(g, overdue)}
  BY DEF Insert
<1>2. /\ generators[g].pc # "idle" /\ Advance(g)
      /\ UNCHANGED <<plans, batch, versions, creditsLeft, abortsLeft>>
  BY DEF Insert
<1>3. NewInvoice(g, overdue) \in InvoiceType /\ NewInvoice(g, overdue).amountPaid = 0
  BY <1>2, NewInvoiceType
<1>4. invoices' \subseteq InvoiceType /\ IsFiniteSet(invoices')
  BY <1>1, <1>3, FS_AddElement DEF IInv
<1>5. \A v \in invoices' : v.amountPaid \in 0..v.amountDue
  <2>1. 0 \in 0..NewInvoice(g, overdue).amountDue
    BY <1>3 DEF InvoiceType
  <2> QED
    BY <1>1, <1>3, <2>1 DEF IInv
<1> QED
  BY <1>2, <1>4, <1>5, AdvanceStep

LEMMA AbortStep ==
  ASSUME IInv, NEW g \in Generators, Abort(g)
  PROVE  IInv'
<1>1. IdleGenerator \in GeneratorType /\ IdleGenerator.pc = "idle"
      /\ IdleGenerator.left \subseteq IdleGenerator.covers
  BY DEF IdleGenerator, GeneratorType
<1>2. abortsLeft' \in 0..MaxAborts
  BY FeePlansAssumption DEF Abort, IInv
<1> QED
  BY <1>1, <1>2, PreservedByGenerator DEF Abort, IInv

LEMMA StepInvariant ==
  ASSUME IInv, [Next]_vars
  PROVE  IInv'
<1>1. CASE UNCHANGED vars
  BY <1>1 DEF vars, IInv, GeneratorOK
<1>2. ASSUME NEW s \in Students, Enroll(s) PROVE IInv'
  BY <1>2 DEF Enroll, IInv, GeneratorOK
<1> QED
  BY <1>1, <1>2, CreatePlanStep, CreditStep, StartStep, MatchSteps, InsertStep,
     AbortStep DEF Next

THEOREM InvariantHolds == Spec => []IInv
BY InitInvariant, StepInvariant, PTL DEF Spec

\* Types, and that a generation only visits installments its plan has: a plan
\* does not change once generations read it.
THEOREM TypeCorrect == Spec => []TypeOK
<1>1. IInv => TypeOK
  <2> SUFFICES ASSUME IInv PROVE TypeOK
    OBVIOUS
  <2>1. \A p \in Plans : plans[p].installments \in Seq(Part)
    BY DEF IInv, PlanType
  <2>2. ASSUME NEW p \in Plans, NEW k \in DOMAIN plans[p].installments
        PROVE  plans[p].installments[k].amount \in Nat
    <3>1. plans[p].installments[k] \in Part
      BY <2>1
    <3> QED
      BY <3>1 DEF Part
  <2>3. \A v \in invoices : /\ v.student \in Students /\ v.plan \in Plans
                            /\ v.amountDue \in Nat /\ v.amountPaid \in 0..v.amountDue
                            /\ v.status \in InvoiceStatus
    BY DEF IInv, InvoiceType
  <2>4. ASSUME NEW g \in Generators
        PROVE  /\ generators[g].pc \in {"idle", "match", "insert"}
               /\ generators[g].left \subseteq generators[g].covers
               /\ generators[g].pc # "idle" =>
                    generators[g].k \in DOMAIN plans[generators[g].plan].installments
    BY <2>1 DEF IInv, GeneratorOK, GeneratorType
  <2> QED
    BY <2>2, <2>3, <2>4 DEF IInv, TypeOK
<1> QED
  BY <1>1, InvariantHolds, PTL

-----------------------------------------------------------------------------
(* Invoices are kept, and billed once *)

\* No step loses an invoice or changes whose it is and what it asks for.
LEMMA StepKeeps ==
  ASSUME IInv, [Next]_vars, NEW v \in invoices
  PROVE  \E w \in invoices' :
           /\ w.id = v.id /\ w.student = v.student /\ w.plan = v.plan
           /\ w.label = v.label /\ w.amountDue = v.amountDue
<1>1. CASE v \in invoices'
  BY <1>1
<1>2. ASSUME NEW u \in invoices, Credit(u), v \notin invoices'
      PROVE  \E w \in invoices' :
               /\ w.id = v.id /\ w.student = v.student /\ w.plan = v.plan
               /\ w.label = v.label /\ w.amountDue = v.amountDue
  <2>1. PICK w \in InvoiceType :
          /\ invoices' = (invoices \ {u}) \cup {w}
          /\ w.id = u.id /\ w.student = u.student /\ w.plan = u.plan
          /\ w.label = u.label /\ w.amountDue = u.amountDue
    BY <1>2, Credited
  <2>2. u = v
    BY <1>2, <2>1
  <2> QED
    BY <2>1, <2>2
<1>3. v \in invoices' \/ \E u \in invoices : Credit(u)
  BY DEF Next, vars, CreatePlan, Enroll, Start, Match, NoMatch, Insert, Abort
<1> QED
  BY <1>1, <1>2, <1>3

\* A step of a generation adds an invoice or none, and leaves the others alone.
LEMMA GeneratorKeeps ==
  ASSUME [Next]_vars, generators' # generators
  PROVE  invoices \subseteq invoices'
BY DEF Next, vars, CreatePlan, Enroll, Credit, Start, Match, NoMatch, Insert, Abort

\* A generation leaves every invoice it meets as it is, credited or not, with
\* payments credited between its steps, in part and from stale copies; and no
\* step loses an invoice or changes whose it is and what it asks for.
THEOREM KeptInvoices == Spec => InvoicesKept
<1>1. IInv /\ [Next]_vars =>
        /\ generators' # generators => invoices \subseteq invoices'
        /\ \A v \in invoices : \E w \in invoices' :
             /\ w.id = v.id /\ w.student = v.student /\ w.plan = v.plan
             /\ w.label = v.label /\ w.amountDue = v.amountDue
  BY StepKeeps, GeneratorKeeps
<1> QED
  BY <1>1, InvariantHolds, PTL DEF Spec, InvoicesKept

\* One generation at a time: what its upsert did not match is still missing
\* when it inserts.
MissingOK == \A g \in Generators : generators[g].pc = "insert" => Matched(g) = {}

LEMMA AdvancePc ==
  ASSUME IInv, NEW g \in Generators, Advance(g)
  PROVE  generators'[g].pc # "insert"
<1> DEFINE r == generators[g]
<1>1. r \in GeneratorType
  BY DEF IInv
<1>2. CASE r.k < Len(plans[r.plan].installments)
  <2>1. generators'[g] = [r EXCEPT !.pc = "match", !.k = r.k + 1]
    BY <1>2 DEF Advance, IInv
  <2> QED
    BY <1>1, <2>1 DEF GeneratorType
<1>3. CASE ~ (r.k < Len(plans[r.plan].installments)) /\ r.left # {}
  <2>1. PICK s \in r.left :
          generators'[g] = [r EXCEPT !.pc = "match", !.k = 1, !.student = s, !.left = r.left \ {s}]
    BY <1>3 DEF Advance, IInv
  <2> QED
    BY <1>1, <2>1 DEF GeneratorType
<1>4. CASE ~ (r.k < Len(plans[r.plan].installments)) /\ r.left = {}
  BY <1>4 DEF Advance, IdleGenerator, IInv
<1> QED
  BY <1>2, <1>3, <1>4

LEMMA StepUnique ==
  ASSUME OneGenerator, IInv, MissingOK, NoDuplicateInvoices, [Next]_vars
  PROVE  MissingOK' /\ NoDuplicateInvoices'
<1>1. CASE UNCHANGED vars
  BY <1>1 DEF vars, MissingOK, NoDuplicateInvoices, Matched, Installment
<1>2. ASSUME NEW p \in Plans, NEW r \in Requests, CreatePlan(p, r)
      PROVE  MissingOK' /\ NoDuplicateInvoices'
  <2>1. ASSUME NEW g \in Generators, generators'[g].pc = "insert"
        PROVE  Matched(g)' = {}
    <3>1. /\ generators' = generators /\ invoices' = invoices
          /\ generators[g].plan \in Plans /\ generators[g].plan # p
      BY <1>2, <2>1 DEF CreatePlan, IInv, GeneratorOK
    <3>2. Installment(g)' = Installment(g)
      BY <1>2, <3>1 DEF CreatePlan, Installment, IInv
    <3> QED
      BY <2>1, <3>1, <3>2 DEF MissingOK, Matched
  <2> QED
    BY <1>2, <2>1 DEF MissingOK, CreatePlan, NoDuplicateInvoices
<1>3. ASSUME NEW s \in Students, Enroll(s)
      PROVE  MissingOK' /\ NoDuplicateInvoices'
  BY <1>3 DEF Enroll, MissingOK, NoDuplicateInvoices, Matched, Installment
<1>4. ASSUME NEW v \in invoices, Credit(v)
      PROVE  MissingOK' /\ NoDuplicateInvoices'
  <2>1. PICK w \in InvoiceType :
          /\ invoices' = (invoices \ {v}) \cup {w}
          /\ w.student = v.student /\ w.plan = v.plan /\ w.label = v.label
    BY <1>4, Credited
  <2>2. UNCHANGED <<plans, generators>>
    BY <1>4 DEF Credit
  <2>3. MissingOK'
    BY <2>1, <2>2 DEF MissingOK, Matched, Installment
  <2> QED
    BY <2>1, <2>2, <2>3 DEF NoDuplicateInvoices
<1>5. ASSUME NEW g \in Generators, Insert(g)
      PROVE  MissingOK' /\ NoDuplicateInvoices'
  <2>1. PICK overdue \in BOOLEAN : invoices' = invoices \cup {NewInvoice(g, overdue)}
    BY <1>5 DEF Insert
  <2>2. /\ NewInvoice(g, overdue).student = generators[g].student
        /\ NewInvoice(g, overdue).plan = generators[g].plan
        /\ NewInvoice(g, overdue).label = Installment(g).label
    BY <1>5, NewInvoiceType DEF Insert
  <2>3. NoDuplicateInvoices'
    BY <1>5, <2>1, <2>2 DEF Insert, MissingOK, Matched, NoDuplicateInvoices
  <2>4. generators'[g].pc # "insert"
    BY <1>5, AdvancePc DEF Insert
  <2> QED
    BY <2>3, <2>4 DEF OneGenerator, MissingOK
<1>6. ASSUME NEW g \in Generators,
             \/ Match(g) \/ NoMatch(g) \/ Abort(g)
             \/ \E p \in Plans, given \in SUBSET Students : Start(g, p, given)
      PROVE  MissingOK' /\ NoDuplicateInvoices'
  <2>1. invoices' = invoices /\ plans' = plans
    BY <1>6 DEF Match, NoMatch, Abort, Start
  <2>2. CASE NoMatch(g)
    <3>1. /\ Matched(g) = {} /\ generators'[g].plan = generators[g].plan
          /\ generators'[g].student = generators[g].student
          /\ generators'[g].k = generators[g].k
      BY <2>2 DEF NoMatch, IInv, GeneratorType
    <3> QED
      BY <2>1, <3>1 DEF OneGenerator, MissingOK, Matched, Installment, NoDuplicateInvoices
  <2>3. CASE ~ NoMatch(g)
    <3>1. generators'[g].pc # "insert"
      <4>1. CASE Match(g)
        BY <4>1, AdvancePc DEF Match
      <4>2. CASE Abort(g)
        BY <4>2 DEF Abort, IdleGenerator, IInv
      <4>3. ASSUME NEW p \in Plans, NEW given \in SUBSET Students, Start(g, p, given)
            PROVE  generators'[g].pc # "insert"
        BY <4>3 DEF Start, IInv
      <4> QED
        BY <1>6, <2>3, <4>1, <4>2, <4>3
    <3> QED
      BY <2>1, <3>1 DEF OneGenerator, MissingOK, NoDuplicateInvoices
  <2> QED
    BY <2>2, <2>3
<1> QED
  BY <1>1, <1>2, <1>3, <1>4, <1>5, <1>6 DEF Next

\* With one generation at a time a student has one invoice per plan and label,
\* wherever generations stop and however often they are repeated.
THEOREM BilledOnce == ASSUME OneGenerator PROVE Spec => []NoDuplicateInvoices
<1>1. Init => MissingOK /\ NoDuplicateInvoices
  BY DEF Init, MissingOK, NoDuplicateInvoices, IdleGenerator
<1>2. IInv /\ MissingOK /\ NoDuplicateInvoices /\ [Next]_vars
        => MissingOK' /\ NoDuplicateInvoices'
  BY StepUnique
<1> QED
  BY <1>1, <1>2, InvariantHolds, PTL DEF Spec

-----------------------------------------------------------------------------
(* A split loses nothing *)

\* Adding up m parts of which the first few are one paisa more.
LEMMA PartsSum ==
  ASSUME NEW base \in Nat, NEW extra \in Nat, NEW f, NEW n \in Nat,
         \A k \in 1..n : f[k] = fromPaisa(base + IF k <= extra THEN 1 ELSE 0)
  PROVE  SumFunctionOnSet(f, 1..n) = fromPaisa(base * n + IF n <= extra THEN n ELSE extra)
<1> DEFINE Upto(m) == fromPaisa(base * m + IF m <= extra THEN m ELSE extra)
           T == { m \in Nat : m <= n => SumFunctionOnSet(f, 1..m) = Upto(m) }
<1>1. 0 \in T
  <2>1. 1..0 = {} /\ base * 0 = 0
    OBVIOUS
  <2> QED
    BY <2>1, SumEmpty DEF fromPaisa
<1>2. ASSUME NEW m \in T PROVE m + 1 \in T
  <2> SUFFICES ASSUME m + 1 <= n PROVE SumFunctionOnSet(f, 1..(m + 1)) = Upto(m + 1)
    OBVIOUS
  <2>1. m \in Nat /\ m <= n /\ m + 1 \in 1..n
    OBVIOUS
  <2>2. /\ 1..(m + 1) = (1..m) \cup {m + 1} /\ m + 1 \notin 1..m
        /\ \A k \in (1..m) \cup {m + 1} : k \in 1..n
    BY <2>1
  <2>3. \A k \in 1..n : f[k] \in Int
    BY DEF fromPaisa
  <2>4. SumFunctionOnSet(f, 1..(m + 1)) = f[m + 1] + SumFunctionOnSet(f, 1..m)
    <3> DEFINE S == 1..m
               x == m + 1
    <3>1. IsFiniteSet(S)
      BY <2>1, FS_Interval
    <3>2. x \notin S /\ \A k \in S \cup {x} : f[k] \in Int
      BY <2>1, <2>2, <2>3
    <3>3. 1..(m + 1) = S \cup {x}
      BY <2>2
    <3> HIDE DEF S, x
    <3>4. SumFunctionOnSet(f, S \cup {x}) = f[x] + SumFunctionOnSet(f, S)
      BY <3>1, <3>2, SumAdd
    <3> QED
      BY <3>3, <3>4 DEF S, x
  <2>5. SumFunctionOnSet(f, 1..m) = Upto(m)
    BY <2>1
  <2>6. base * (m + 1) = base * m + base /\ base * m \in Int
    BY <2>1
  <2>7. f[m + 1] = fromPaisa(base + IF m + 1 <= extra THEN 1 ELSE 0)
    BY <2>1
  <2>8. fromPaisa(base + IF m + 1 <= extra THEN 1 ELSE 0) + Upto(m) = Upto(m + 1)
    <3> DEFINE done == base * m
    <3>1. done \in Int /\ base * (m + 1) = done + base
      BY <2>6
    <3> HIDE DEF done
    <3>2. Upto(m) = 10 * (done + IF m <= extra THEN m ELSE extra)
      BY DEF fromPaisa, done
    <3>3. Upto(m + 1) = 10 * (done + base + IF m + 1 <= extra THEN m + 1 ELSE extra)
      BY <3>1 DEF fromPaisa
    <3> HIDE DEF Upto
    <3> QED
      BY <2>1, <3>1, <3>2, <3>3 DEF fromPaisa
  <2> QED
    BY <2>4, <2>5, <2>7, <2>8
<1>3. T = Nat
  <2> HIDE DEF Upto
  <2>1. T \in SUBSET Nat
    OBVIOUS
  <2> HIDE DEF T
  <2> QED
    BY <1>1, <1>2, <2>1, AllNaturals
<1>4. n \in T
  BY <1>3
<1> QED
  BY <1>4

\* The parts of a split: whole paisa that come to the total, the greater first.
LEMMA SplitSum ==
  ASSUME NEW total \in Nat, NEW count \in Nat, count > 0
  PROVE  LET parts == splitEqualInstallments(total, count)
         IN  /\ SumFunctionOnSet(parts, 1..count) = fromPaisa(toPaisa(total))
             /\ \A j, k \in 1..count : j <= k => parts[j] - parts[k] \in {0, fromPaisa(1)}
<1> DEFINE parts == splitEqualInstallments(total, count)
           paisa == toPaisa(total)
           base == paisa \div count
           extra == paisa - base * count
<1>1. paisa \in Nat
  BY DEF toPaisa
<1> HIDE DEF paisa
<1>2. base \in Nat /\ extra \in Nat /\ extra < count
  <2>1. /\ base \in Nat /\ paisa = count * base + (paisa % count)
        /\ paisa % count \in Nat /\ paisa % count < count
    BY <1>1
  <2> HIDE DEF base
  <2>2. count * base = base * count /\ base * count \in Int
    BY <2>1
  <2> QED
    BY <1>1, <2>1, <2>2
<1>3. parts = [k \in 1..count |-> fromPaisa(base + IF k <= extra THEN 1 ELSE 0)]
  BY DEF splitEqualInstallments, paisa
<1>4. base * count + extra = paisa
  <2> HIDE DEF base
  <2>1. base * count \in Int
    BY <1>2
  <2> QED
    BY <1>1, <2>1
<1> HIDE DEF parts, base, extra
<1>5. SumFunctionOnSet(parts, 1..count)
        = fromPaisa(base * count + IF count <= extra THEN count ELSE extra)
  BY <1>2, <1>3, PartsSum
<1>6. SumFunctionOnSet(parts, 1..count) = fromPaisa(paisa)
  BY <1>2, <1>4, <1>5
<1>7. \A j, k \in 1..count : j <= k => parts[j] - parts[k] \in {0, fromPaisa(1)}
  BY <1>2, <1>3 DEF fromPaisa
<1> QED
  BY <1>6, <1>7 DEF parts, paisa

\* A plan split by splitInto never loses a paisa, spreads the remainder over
\* its earliest installments, and keeps them within a paisa of each other.
THEOREM ExactSplit == Spec => []SplitIsExact
<1>1. IInv => SplitIsExact
  <2> SUFFICES ASSUME IInv, NEW p \in Plans, NEW r \in Requests, r.installments = <<>>,
                      plans[p] # NoPlan,
                      plans[p] = [total |-> r.total, installments |-> InstallmentsOf(r)]
               PROVE  /\ SumOf(InstallmentsOf(r)) = fromPaisa(toPaisa(r.total))
                      /\ \A j, k \in DOMAIN InstallmentsOf(r) :
                           j <= k => InstallmentsOf(r)[j].amount - InstallmentsOf(r)[k].amount
                                       \in {0, fromPaisa(1)}
    BY DEF SplitIsExact
  <2> DEFINE n == r.splitInto
             amounts == splitEqualInstallments(r.total, n)
             parts == InstallmentsOf(r)
             due == [k \in 1..n |-> parts[k].amount]
  <2>1. r.total \in Nat /\ r.splitInto \in Nat /\ n \in Nat
    BY FeePlansAssumption
  <2>2. n > 0
    <3>1. InstallmentsOf(r) # <<>>
      BY DEF IInv
    <3> QED
      BY <2>1, <3>1 DEF InstallmentsOf
  <2>3. parts = [k \in 1..n |-> [label |-> k, amount |-> amounts[k]]]
    BY <2>2 DEF InstallmentsOf
  <2>4. /\ SumFunctionOnSet(amounts, 1..n) = fromPaisa(toPaisa(r.total))
        /\ \A j, k \in 1..n : j <= k => amounts[j] - amounts[k] \in {0, fromPaisa(1)}
        /\ \A k \in 1..n : amounts[k] \in Nat
    BY <2>1, <2>2, SplitSum, SplitAmounts
  <2> HIDE DEF amounts, n, parts
  <2>5. /\ DOMAIN parts = 1..n
        /\ \A k \in 1..n : due[k] = amounts[k] /\ parts[k].amount = amounts[k]
    BY <2>3
  <2>6. SumOf(parts) = SumFunctionOnSet(due, 1..n)
    BY <2>5 DEF SumOf, SumFunction
  <2> HIDE DEF due
  <2>7. SumFunctionOnSet(due, 1..n) = SumFunctionOnSet(amounts, 1..n)
    <3> DEFINE S == 1..n
    <3>1. IsFiniteSet(S)
      BY <2>1, FS_Interval
    <3>2. \A k \in S : due[k] \in Int /\ due[k] = amounts[k]
      BY <2>4, <2>5
    <3> HIDE DEF S
    <3>3. SumFunctionOnSet(due, S) = SumFunctionOnSet(amounts, S)
      BY <3>1, <3>2, SumEqual
    <3> QED
      BY <3>3 DEF S
  <2> QED
    BY <2>4, <2>5, <2>6, <2>7 DEF parts
<1> QED
  BY <1>1, InvariantHolds, PTL

-----------------------------------------------------------------------------
(* What a finished generation leaves *)

Parts(p) == plans[p].installments

\* The student has an invoice for the plan's k-th installment.
Invoiced(p, s, k) ==
  \E v \in invoices : v.plan = p /\ v.student = s /\ v.label = Parts(p)[k].label

InvoicedInFull(p, s) == \A k \in DOMAIN Parts(p) : Invoiced(p, s, k)

\* A plan's installments come to its total.
PlansAddUp == \A p \in Plans : toPaisa(SumOf(Parts(p))) = toPaisa(plans[p].total)

\* An invoice is for an installment of its plan.
InvoicesFit ==
  \A v \in invoices : \E k \in DOMAIN Parts(v.plan) :
    v.label = Parts(v.plan)[k].label /\ v.amountDue = Parts(v.plan)[k].amount

\* A generation has done the students it is not to visit any more, and of the
\* one it is at the installments before the one it is at.
ProgressOK(g) ==
  LET q == generators[g] IN
  q.pc # "idle" =>
    /\ \A s \in q.covers \ (q.left \cup {q.student}) : InvoicedInFull(q.plan, s)
    /\ \A k \in DOMAIN Parts(q.plan) : k < q.k => Invoiced(q.plan, q.student, k)

FullInv ==
  /\ PlansAddUp
  /\ InvoicesFit
  /\ \A g \in Generators : ProgressOK(g)
  /\ \A b \in billed : plans[b[1]] # NoPlan /\ InvoicedInFull(b[1], b[2])

DistinctLabels ==
  \A r \in Requests : \A j, k \in DOMAIN r.installments :
    r.installments[j].label = r.installments[k].label => j = k

LabelsTellApart ==
  \A p \in Plans : \A j, k \in DOMAIN Parts(p) :
    Parts(p)[j].label = Parts(p)[k].label => j = k

\* A plan that is there stays as it is.
LEMMA PlanStays ==
  ASSUME IInv, [Next]_vars, NEW p \in Plans, plans[p] # NoPlan
  PROVE  plans'[p] = plans[p]
BY DEF IInv, Next, vars, CreatePlan, Enroll, Credit, Start, Match, NoMatch, Insert, Abort

\* No step loses an invoice, ...
LEMMA InvoiceStays ==
  ASSUME IInv, [Next]_vars, NEW v \in invoices
  PROVE  \E w \in invoices' : w.plan = v.plan /\ w.student = v.student /\ w.label = v.label
BY StepKeeps

\* ... and only a generation adds one, for the installment it is at.
LEMMA InvoiceOrigin ==
  ASSUME IInv, [Next]_vars, NEW w \in invoices'
  PROVE  \/ \E v \in invoices : w.plan = v.plan /\ w.label = v.label /\ w.amountDue = v.amountDue
         \/ \E g \in Generators :
              /\ generators[g].pc # "idle" /\ w.plan = generators[g].plan
              /\ w.label = Installment(g).label /\ w.amountDue = Installment(g).amount
<1>1. CASE w \in invoices
  BY <1>1
<1>2. ASSUME NEW v \in invoices, Credit(v), w \notin invoices
      PROVE  w.plan = v.plan /\ w.label = v.label /\ w.amountDue = v.amountDue
  BY <1>2, Credited
<1>3. ASSUME NEW g \in Generators, Insert(g), w \notin invoices
      PROVE  /\ generators[g].pc # "idle" /\ w.plan = generators[g].plan
             /\ w.label = Installment(g).label /\ w.amountDue = Installment(g).amount
  BY <1>3 DEF Insert, NewInvoice
<1>4. \/ w \in invoices \/ \E v \in invoices : Credit(v)
      \/ \E g \in Generators : Insert(g)
  BY DEF Next, vars, CreatePlan, Enroll, Start, Match, NoMatch, Abort
<1> QED
  BY <1>1, <1>2, <1>3, <1>4

LEMMA InvoicedStays ==
  ASSUME IInv, [Next]_vars, NEW p \in Plans, plans[p] # NoPlan
  PROVE  /\ Parts(p)' = Parts(p)
         /\ \A s, k : Invoiced(p, s, k) => Invoiced(p, s, k)'
<1>1. Parts(p)' = Parts(p)
  BY PlanStays DEF Parts
<1> QED
  BY <1>1, InvoiceStays DEF Invoiced

\* A plan with an invoice is there, as is one that a generation is at.
LEMMA PlanThere ==
  ASSUME IInv, InvoicesFit
  PROVE  /\ \A v \in invoices : v.plan \in Plans /\ plans[v.plan] # NoPlan
         /\ \A g \in Generators : generators[g].pc # "idle" =>
              /\ generators[g].plan \in Plans /\ plans[generators[g].plan] # NoPlan
              /\ generators[g].k \in DOMAIN Parts(generators[g].plan)
              /\ Parts(generators[g].plan) \in Seq(Part)
BY DEF IInv, InvoicesFit, InvoiceType, NoPlan, Parts, GeneratorOK, PlanType

LEMMA StepFits ==
  ASSUME IInv, InvoicesFit, [Next]_vars
  PROVE  InvoicesFit'
<1> SUFFICES ASSUME NEW w \in invoices'
             PROVE  \E k \in DOMAIN Parts(w.plan)' :
                      /\ w.label = Parts(w.plan)'[k].label
                      /\ w.amountDue = Parts(w.plan)'[k].amount
  BY DEF InvoicesFit, Parts
<1>1. ASSUME NEW v \in invoices, w.plan = v.plan, w.label = v.label, w.amountDue = v.amountDue
      PROVE  \E k \in DOMAIN plans'[w.plan].installments :
               /\ w.label = plans'[w.plan].installments[k].label
               /\ w.amountDue = plans'[w.plan].installments[k].amount
  <2>1. plans'[v.plan] = plans[v.plan]
    BY PlanThere, PlanStays
  <2> QED
    BY <1>1, <2>1 DEF InvoicesFit, Parts
<1>2. ASSUME NEW g \in Generators, generators[g].pc # "idle", w.plan = generators[g].plan,
             w.label = Installment(g).label, w.amountDue = Installment(g).amount
      PROVE  \E k \in DOMAIN plans'[w.plan].installments :
               /\ w.label = plans'[w.plan].installments[k].label
               /\ w.amountDue = plans'[w.plan].installments[k].amount
  <2>1. plans'[w.plan] = plans[w.plan] /\ generators[g].k \in DOMAIN plans[w.plan].installments
    BY <1>2, PlanThere, PlanStays DEF Parts
  <2> QED
    BY <1>2, <2>1 DEF Installment
<1> QED
  BY <1>1, <1>2, InvoiceOrigin DEF Parts

LEMMA StepAddsUp ==
  ASSUME IInv, PlansAddUp, [Next]_vars
  PROVE  PlansAddUp'
<1>1. ASSUME NEW p \in Plans, NEW r \in Requests, CreatePlan(p, r)
      PROVE  PlansAddUp'
  <2>1. /\ plans'[p] = [total |-> r.total, installments |-> InstallmentsOf(r)]
        /\ \A o \in Plans \ {p} : plans'[o] = plans[o]
        /\ toPaisa(SumOf(InstallmentsOf(r))) = toPaisa(r.total)
    BY <1>1 DEF CreatePlan, Accepts, IInv
  <2> QED
    BY <2>1 DEF PlansAddUp, Parts
<1>2. plans' = plans \/ \E p \in Plans, r \in Requests : CreatePlan(p, r)
  BY DEF Next, vars, Enroll, Credit, Start, Match, NoMatch, Insert, Abort
<1> QED
  BY <1>1, <1>2 DEF PlansAddUp, Parts

-----------------------------------------------------------------------------
(* The progress of a generation *)

\* Going on from an installment that is invoiced.
LEMMA AdvanceProgress ==
  ASSUME IInv, InvoicesFit, [Next]_vars, NEW g \in Generators, generators[g].pc # "idle",
         ProgressOK(g), Advance(g),
         NEW p, p = generators[g].plan, NEW s, s = generators[g].student,
         Invoiced(p, s, generators[g].k)
           \/ \E w \in invoices' : w.plan = p /\ w.student = s /\ w.label = Installment(g).label
  PROVE  /\ ProgressOK(g)'
         /\ \A b \in billed' \ billed : b[1] = p /\ InvoicedInFull(p, b[2])'
<1> DEFINE q == generators[g]
           n == q.k
<1>1. /\ q \in GeneratorType /\ p \in Plans /\ plans[p] # NoPlan
      /\ Parts(p) \in Seq(Part) /\ n \in DOMAIN Parts(p)
  BY PlanThere DEF IInv
<1>2. /\ Parts(p)' = Parts(p)
      /\ \A t, k : Invoiced(p, t, k) => Invoiced(p, t, k)'
  BY <1>1, InvoicedStays
<1>3. \A k \in DOMAIN Parts(p) : k <= n => Invoiced(p, s, k)'
  <2>1. \A k \in DOMAIN Parts(p) : k < n => Invoiced(p, s, k)'
    BY <1>2 DEF ProgressOK
  <2>2. Invoiced(p, s, n) => \E w \in invoices' :
          w.plan = p /\ w.student = s /\ w.label = Installment(g).label
    <3>1. Installment(g) = Parts(p)[n]
      BY DEF Installment, Parts
    <3> SUFFICES ASSUME NEW v \in invoices, v.plan = p, v.student = s, v.label = Parts(p)[n].label
                 PROVE  \E w \in invoices' :
                          w.plan = p /\ w.student = s /\ w.label = Installment(g).label
      BY DEF Invoiced
    <3>2. PICK w \in invoices' : w.plan = v.plan /\ w.student = v.student /\ w.label = v.label
      BY InvoiceStays
    <3> QED
      BY <3>1, <3>2
  <2>3. PICK w \in invoices' : w.plan = p /\ w.student = s /\ w.label = Installment(g).label
    BY <2>2
  <2>4. w.label = plans'[p].installments[n].label
    BY <1>2, <2>3 DEF Installment, Parts
  <2>5. \A k : k = n => Invoiced(p, s, k)'
    BY <2>3, <2>4 DEF Invoiced, Parts
  <2>6. \A k \in DOMAIN Parts(p) : k <= n => k < n \/ k = n
    BY <1>1
  <2> QED
    BY <2>1, <2>5, <2>6
<1>4. \A t \in q.covers \ (q.left \cup {s}) : InvoicedInFull(p, t)'
  BY <1>2 DEF ProgressOK, InvoicedInFull
<1>5. CASE n < Len(Parts(p))
  <2>1. /\ generators'[g] = [q EXCEPT !.pc = "match", !.k = n + 1] /\ billed' = billed
    BY <1>5 DEF Advance, IInv, Parts
  <2>2. /\ generators'[g].plan = p /\ generators'[g].student = s /\ generators'[g].k = n + 1
        /\ generators'[g].covers = q.covers /\ generators'[g].left = q.left
    BY <1>1, <2>1 DEF GeneratorType
  <2>3. \A k \in DOMAIN Parts(p) : k < n + 1 => k <= n
    BY <1>1
  <2>4. \A k \in DOMAIN Parts(p) : k < n + 1 => Invoiced(p, s, k)'
    BY <1>3, <2>3
  <2> HIDE DEF n, q
  <2> QED
    BY <1>2, <1>4, <2>1, <2>2, <2>4 DEF ProgressOK
<1>6. ASSUME ~ (n < Len(Parts(p)))
      PROVE  \A t \in q.covers \ q.left : InvoicedInFull(p, t)'
  <2>1. \A k \in DOMAIN Parts(p) : k <= n
    BY <1>1, <1>6
  <2>2. InvoicedInFull(p, s)'
    BY <1>2, <1>3, <2>1 DEF InvoicedInFull
  <2> QED
    BY <1>4, <2>2
<1>7. CASE ~ (n < Len(Parts(p))) /\ q.left # {}
  <2>1. PICK t \in q.left :
          /\ generators'[g] = [q EXCEPT !.pc = "match", !.k = 1, !.student = t,
                                        !.left = q.left \ {t}]
          /\ billed' = billed
    BY <1>7 DEF Advance, IInv, Parts
  <2>2. /\ generators'[g].plan = p /\ generators'[g].student = t /\ generators'[g].k = 1
        /\ generators'[g].covers = q.covers /\ generators'[g].left = q.left \ {t}
    BY <1>1, <2>1 DEF GeneratorType
  <2>3. \A k \in DOMAIN Parts(p) : ~ (k < 1)
    BY <1>1
  <2>4. q.covers \ ((q.left \ {t}) \cup {t}) \subseteq q.covers \ q.left
    OBVIOUS
  <2>5. \A o \in q.covers \ ((q.left \ {t}) \cup {t}) : InvoicedInFull(p, o)'
    BY <1>6, <1>7, <2>4
  <2> HIDE DEF n, q
  <2> QED
    BY <1>2, <2>1, <2>2, <2>3, <2>5 DEF ProgressOK
<1>8. CASE ~ (n < Len(Parts(p))) /\ q.left = {}
  <2>1. generators'[g].pc = "idle" /\ billed' = billed \cup ({p} \X q.covers)
    BY <1>8 DEF Advance, IInv, Parts, IdleGenerator
  <2>2. \A t \in q.covers : InvoicedInFull(p, t)'
    BY <1>6, <1>8
  <2> HIDE DEF n, q
  <2> QED
    BY <2>1, <2>2 DEF ProgressOK
<1> QED
  BY <1>5, <1>7, <1>8

\* A generation that does not move, or starts, or only looks.
LEMMA SameProgress ==
  ASSUME IInv, InvoicesFit, [Next]_vars, NEW g \in Generators, ProgressOK(g),
         generators'[g].pc # "idle" =>
           /\ generators[g].pc # "idle"
           /\ \A f \in {"plan", "covers", "left", "student", "k"} :
                generators'[g][f] = generators[g][f]
  PROVE  ProgressOK(g)'
<1> SUFFICES ASSUME generators'[g].pc # "idle" PROVE ProgressOK(g)'
  BY DEF ProgressOK
<1> DEFINE p == generators[g].plan
<1>1. p \in Plans /\ plans[p] # NoPlan /\ generators[g].pc # "idle"
  BY PlanThere
<1>2. /\ generators'[g].plan = p /\ generators'[g].covers = generators[g].covers
      /\ generators'[g].left = generators[g].left /\ generators'[g].k = generators[g].k
      /\ generators'[g].student = generators[g].student
  OBVIOUS
<1>3. PICK o \in Plans : o = p
  BY <1>1
<1>4. /\ Parts(o)' = Parts(o)
      /\ \A s, k : Invoiced(o, s, k) => Invoiced(o, s, k)'
  BY <1>1, <1>3, InvoicedStays
<1>5. \A s : InvoicedInFull(o, s) => InvoicedInFull(o, s)'
  BY <1>4 DEF InvoicedInFull
<1> QED
  BY <1>1, <1>2, <1>3, <1>4, <1>5 DEF ProgressOK

LEMMA StartProgress ==
  ASSUME IInv, NEW g \in Generators, NEW p \in Plans, NEW given \in SUBSET Students,
         Start(g, p, given)
  PROVE  ProgressOK(g)'
<1> DEFINE students == IF given = {} THEN batch ELSE given
<1>1. PICK s \in students :
        generators'[g] = [pc |-> "match", plan |-> p, covers |-> students,
                          left |-> students \ {s}, student |-> s, k |-> 1]
  BY DEF Start, IInv
<1> HIDE DEF students
<1>2. /\ generators'[g].plan = p /\ generators'[g].student = s /\ generators'[g].k = 1
      /\ generators'[g].covers = students /\ generators'[g].left = students \ {s}
  BY <1>1
<1>3. students \ ((students \ {s}) \cup {s}) = {}
  OBVIOUS
<1>4. plans'[p].installments \in Seq(Part)
  BY DEF Start, IInv, PlanType
<1>5. \A k \in DOMAIN Parts(p)' : ~ (k < 1)
  BY <1>4 DEF Parts
<1> QED
  BY <1>2, <1>3, <1>5 DEF ProgressOK

LEMMA OthersUntouched ==
  ASSUME IInv, NEW g \in Generators,
         \/ Match(g) \/ NoMatch(g) \/ Insert(g) \/ Abort(g)
         \/ \E p \in Plans, given \in SUBSET Students : Start(g, p, given)
  PROVE  \A h \in Generators \ {g} : generators'[h] = generators[h]
BY DEF IInv, Match, NoMatch, Insert, Abort, Start, Advance

\* One generation's step, and what the generations that end have billed.
LEMMA GeneratorProgress ==
  ASSUME IInv, FullInv, [Next]_vars, NEW g \in Generators,
         \/ Match(g) \/ NoMatch(g) \/ Insert(g) \/ Abort(g)
         \/ \E p \in Plans, given \in SUBSET Students : Start(g, p, given)
  PROVE  /\ ProgressOK(g)'
         /\ \A b \in billed' \ billed :
              b[1] = generators[g].plan /\ InvoicedInFull(b[1], b[2])'
<1>0. InvoicesFit /\ ProgressOK(g)
  BY DEF FullInv
<1>1. CASE Match(g)
  <2>1. generators[g].pc # "idle" /\ Advance(g)
    BY <1>1 DEF Match
  <2>2. PICK p, s : p = generators[g].plan /\ s = generators[g].student
    OBVIOUS
  <2>3. Invoiced(p, s, generators[g].k)
    BY <1>1, <2>2 DEF Match, Matched, Invoiced, Installment, Parts
  <2>4. /\ ProgressOK(g)'
        /\ \A b \in billed' \ billed : b[1] = p /\ InvoicedInFull(p, b[2])'
    BY <1>0, <2>1, <2>2, <2>3, AdvanceProgress
  <2> QED
    BY <2>2, <2>4
<1>2. CASE NoMatch(g)
  <2>1. generators[g].pc = "match" /\ generators'[g] = [generators[g] EXCEPT !.pc = "insert"]
        /\ billed' = billed
    BY <1>2 DEF NoMatch, IInv
  <2>2. generators[g] \in GeneratorType
    BY DEF IInv
  <2>3. \A f \in {"plan", "covers", "left", "student", "k"} :
          generators'[g][f] = generators[g][f]
    BY <2>1, <2>2 DEF GeneratorType
  <2>4. ProgressOK(g)'
    BY <1>0, <2>1, <2>3, SameProgress
  <2> QED
    BY <2>1, <2>4
<1>3. CASE Insert(g)
  <2>1. generators[g].pc # "idle" /\ Advance(g)
    BY <1>3 DEF Insert
  <2>2. PICK p, s : p = generators[g].plan /\ s = generators[g].student
    OBVIOUS
  <2>3. \E w \in invoices' : w.plan = p /\ w.student = s /\ w.label = Installment(g).label
    BY <1>3, <2>1, <2>2, NewInvoiceType DEF Insert
  <2>4. /\ ProgressOK(g)'
        /\ \A b \in billed' \ billed : b[1] = p /\ InvoicedInFull(p, b[2])'
    BY <1>0, <2>1, <2>2, <2>3, AdvanceProgress
  <2> QED
    BY <2>2, <2>4
<1>4. CASE Abort(g)
  BY <1>4 DEF Abort, IInv, IdleGenerator, ProgressOK
<1>5. ASSUME NEW p \in Plans, NEW given \in SUBSET Students, Start(g, p, given)
      PROVE  ProgressOK(g)' /\ billed' = billed
  BY <1>5, StartProgress DEF Start
<1> QED
  BY <1>1, <1>2, <1>3, <1>4, <1>5

LEMMA StepFull ==
  ASSUME IInv, FullInv, [Next]_vars
  PROVE  FullInv'
<1>1. PlansAddUp' /\ InvoicesFit'
  BY StepFits, StepAddsUp DEF FullInv
<1>2. ASSUME NEW b \in billed
      PROVE  plans'[b[1]] # NoPlan /\ InvoicedInFull(b[1], b[2])'
  <2>1. b[1] \in Plans /\ plans[b[1]] # NoPlan /\ InvoicedInFull(b[1], b[2])
    BY DEF IInv, FullInv
  <2>2. PICK p \in Plans, s \in { b[2] } : p = b[1] /\ s = b[2]
    BY <2>1
  <2>3. plans'[p] # NoPlan /\ InvoicedInFull(p, s)'
    BY <2>1, <2>2, PlanStays, InvoicedStays DEF InvoicedInFull
  <2> QED
    BY <2>2, <2>3
<1>3. ASSUME NEW g \in Generators, generators'[g] = generators[g]
      PROVE  ProgressOK(g)'
  BY <1>3, SameProgress DEF FullInv
<1>4. ASSUME NEW g \in Generators,
             \/ Match(g) \/ NoMatch(g) \/ Insert(g) \/ Abort(g)
             \/ \E p \in Plans, given \in SUBSET Students : Start(g, p, given)
      PROVE  FullInv'
  <2>1. \A h \in Generators \ {g} : generators'[h] = generators[h]
    BY <1>4, OthersUntouched
  <2>2. \A h \in Generators : ProgressOK(h)'
    BY <1>3, <1>4, <2>1, GeneratorProgress
  <2>3. \A b \in billed' \ billed : InvoicedInFull(b[1], b[2])' /\ plans'[b[1]] # NoPlan
    <3>1. \A b \in billed' \ billed :
            b[1] = generators[g].plan /\ InvoicedInFull(b[1], b[2])'
      BY <1>4, GeneratorProgress
    <3>2. billed' # billed => generators[g].pc # "idle"
      BY <1>4 DEF Match, NoMatch, Insert, Abort, Start
    <3>3. billed' # billed => plans'[generators[g].plan] # NoPlan
      BY <3>2, PlanThere, PlanStays DEF FullInv
    <3> QED
      BY <3>1, <3>3
  <2> QED
    BY <1>1, <1>2, <2>2, <2>3 DEF FullInv
<1>5. CASE generators' = generators /\ billed' = billed
  BY <1>1, <1>2, <1>3, <1>5 DEF FullInv
<1>6. \/ generators' = generators /\ billed' = billed
      \/ \E g \in Generators :
           \/ Match(g) \/ NoMatch(g) \/ Insert(g) \/ Abort(g)
           \/ \E p \in Plans, given \in SUBSET Students : Start(g, p, given)
  BY DEF Next, vars, CreatePlan, Enroll, Credit
<1> QED
  BY <1>4, <1>5, <1>6

LEMMA InitFull == Init => FullInv
<1> SUFFICES ASSUME Init PROVE FullInv
  OBVIOUS
<1>1. SumOf(<<>>) = 0
  <2> DEFINE none == [k \in DOMAIN <<>> |-> <<>>[k].amount]
  <2>1. SumFunction(none) = SumFunctionOnSet(none, {})
    BY DEF SumFunction
  <2> HIDE DEF none
  <2> QED
    BY <2>1, SumEmpty DEF SumOf, none
<1>2. PlansAddUp
  BY <1>1 DEF Init, PlansAddUp, Parts, NoPlan
<1> QED
  BY <1>2 DEF Init, FullInv, InvoicesFit, ProgressOK, IdleGenerator

-----------------------------------------------------------------------------
(* What a covered student owes *)

\* A split numbers its installments; given ones are assumed to be told apart.
LEMMA StepLabels ==
  ASSUME DistinctLabels, IInv, LabelsTellApart, [Next]_vars
  PROVE  LabelsTellApart'
<1>1. ASSUME NEW p \in Plans, NEW r \in Requests, CreatePlan(p, r)
      PROVE  LabelsTellApart'
  <2> DEFINE parts == InstallmentsOf(r)
  <2>1. \A j, k \in DOMAIN parts : parts[j].label = parts[k].label => j = k
    <3>1. CASE r.installments = <<>> /\ r.splitInto > 0
      BY <3>1 DEF InstallmentsOf
    <3>2. CASE ~ (r.installments = <<>> /\ r.splitInto > 0)
      BY <3>2 DEF InstallmentsOf, DistinctLabels
    <3> QED
      BY <3>1, <3>2
  <2>2. /\ plans'[p].installments = parts
        /\ \A o \in Plans \ {p} : plans'[o] = plans[o]
    BY <1>1 DEF CreatePlan, IInv
  <2> HIDE DEF parts
  <2> QED
    BY <2>1, <2>2 DEF LabelsTellApart, Parts
<1>2. plans' = plans \/ \E p \in Plans, r \in Requests : CreatePlan(p, r)
  BY DEF Next, vars, Enroll, Credit, Start, Match, NoMatch, Insert, Abort
<1> QED
  BY <1>1, <1>2 DEF LabelsTellApart, Parts

\* The invoices of a covered student are the installments, under other names.
LEMMA OwedInFull ==
  ASSUME IInv, FullInv, LabelsTellApart, NoDuplicateInvoices
  PROVE  BilledInFull
<1> SUFFICES ASSUME NEW b \in billed
             PROVE  LET owed == SumFunction([v \in InvoicesOf(b[1], b[2]) |-> v.amountDue])
                    IN  /\ owed = SumOf(plans[b[1]].installments)
                        /\ toPaisa(owed) = toPaisa(plans[b[1]].total)
  BY DEF BilledInFull
<1> DEFINE p == b[1]
           s == b[2]
           parts == Parts(p)
           D == DOMAIN parts
           due == [k \in D |-> parts[k].amount]
           owes == [v \in InvoicesOf(p, s) |-> v.amountDue]
           invoiceOf == [k \in D |-> CHOOSE v \in InvoicesOf(p, s) : v.label = parts[k].label]
<1>1. p \in Plans /\ parts \in Seq(Part) /\ InvoicedInFull(p, s)
  BY DEF IInv, FullInv, Parts, PlanType
<1>2. \A k \in D : \E v \in InvoicesOf(p, s) : v.label = parts[k].label
  BY <1>1 DEF InvoicedInFull, Invoiced, InvoicesOf
<1>3. \A k \in D : invoiceOf[k] \in InvoicesOf(p, s) /\ invoiceOf[k].label = parts[k].label
  BY <1>2
<1>4. \A j, k \in D : parts[j].label = parts[k].label => j = k
  BY <1>1 DEF LabelsTellApart
<1>5. \A v \in InvoicesOf(p, s) : \E k \in D :
        v.label = parts[k].label /\ v.amountDue = parts[k].amount
  BY DEF FullInv, InvoicesFit, InvoicesOf
<1>6. \A v, w \in InvoicesOf(p, s) : v.label = w.label => v = w
  BY DEF NoDuplicateInvoices, InvoicesOf
<1>7. IsFiniteSet(D) /\ \A k \in D : due[k] \in Int
  <2>1. D = 1..Len(parts) /\ Len(parts) \in Nat
    BY <1>1
  <2>2. IsFiniteSet(D)
    BY <2>1, FS_Interval
  <2>3. \A k \in D : parts[k] \in Part
    BY <1>1
  <2>4. \A x \in Part : x.amount \in Int
    BY DEF Part
  <2> QED
    BY <2>2, <2>3, <2>4
<1>8. \A k \in D : due[k] = parts[k].amount
  OBVIOUS
<1>9. \A v \in InvoicesOf(p, s) : owes[v] = v.amountDue
  OBVIOUS
<1>10. /\ SumOf(plans[p].installments) = SumFunctionOnSet(due, D)
       /\ SumFunction(owes) = SumFunctionOnSet(owes, InvoicesOf(p, s))
  BY DEF SumOf, SumFunction, Parts
<1> HIDE DEF invoiceOf, due, owes, D, parts, p, s
<1>11. \A k \in D : due[k] = owes[invoiceOf[k]]
  BY <1>3, <1>4, <1>5, <1>8, <1>9
<1>12. \A j, k \in D : invoiceOf[j] = invoiceOf[k] => j = k
  BY <1>3, <1>4
<1>13. { invoiceOf[k] : k \in D } = InvoicesOf(p, s)
  BY <1>3, <1>5, <1>6
<1>14. SumFunctionOnSet(due, D) = SumFunctionOnSet(owes, { invoiceOf[k] : k \in D })
  BY <1>7, <1>11, <1>12, SumRename
<1>15. toPaisa(SumOf(plans[p].installments)) = toPaisa(plans[p].total)
  BY <1>1 DEF FullInv, PlansAddUp, Parts
<1> QED
  BY <1>10, <1>13, <1>14, <1>15 DEF owes, p, s

\* A student covered by a finished generation owes what the plan comes to, to
\* the paisa, whatever earlier runs left behind.  One generation at a time, and
\* requests that tell their installments apart: without the first a student is
\* billed twice, without the second an installment is never billed.
THEOREM FullBill ==
  ASSUME OneGenerator, DistinctLabels PROVE Spec => []BilledInFull
<1>1. Init => FullInv /\ LabelsTellApart
  BY InitFull DEF Init, LabelsTellApart, Parts, NoPlan
<1>2. IInv /\ FullInv /\ LabelsTellApart /\ [Next]_vars => FullInv' /\ LabelsTellApart'
  BY StepFull, StepLabels
<1>3. IInv /\ FullInv /\ LabelsTellApart /\ NoDuplicateInvoices => BilledInFull
  BY OwedInFull
<1> QED
  BY <1>1, <1>2, <1>3, InvariantHolds, BilledOnce, PTL DEF Spec

\* A student covered by a finished generation has an invoice with the label of
\* each installment, however many generations overlap, wherever they stop and
\* whatever the labels.
CoveredIsInvoiced == \A b \in billed : InvoicedInFull(b[1], b[2])

THEOREM NothingLeftOut == Spec => []CoveredIsInvoiced
<1>1. FullInv => CoveredIsInvoiced
  BY DEF FullInv, CoveredIsInvoiced
<1> QED
  BY <1>1, InitFull, StepFull, InvariantHolds, PTL DEF Spec

-----------------------------------------------------------------------------
(* Several generations at once *)

InvoicesFor(p, s, l) == { v \in invoices : v.plan = p /\ v.student = s /\ v.label = l }

\* The generations that found the installment missing and are to insert it.
Inserting(p, s, l) ==
  { g \in Generators : /\ generators[g].pc = "insert" /\ generators[g].plan = p
                       /\ generators[g].student = s /\ Installment(g).label = l }

BoundInv ==
  \A p \in Plans, s \in Students, l \in Nat :
    Cardinality(InvoicesFor(p, s, l)) + Cardinality(Inserting(p, s, l)) <= Cardinality(Generators)

BilledPerGenerator ==
  \A p \in Plans, s \in Students, l \in Nat :
    Cardinality(InvoicesFor(p, s, l)) <= Cardinality(Generators)

\* An installment that a generation goes on with is the one it was at.
LEMMA InstallmentStays ==
  ASSUME IInv, [Next]_vars, NEW g \in Generators, generators[g].pc # "idle",
         generators'[g].plan = generators[g].plan, generators'[g].k = generators[g].k
  PROVE  Installment(g)' = Installment(g)
<1>1. generators[g].plan \in Plans /\ plans[generators[g].plan] # NoPlan
  BY DEF IInv, GeneratorOK
<1>2. plans'[generators[g].plan] = plans[generators[g].plan]
  BY <1>1, PlanStays
<1> QED
  BY <1>2 DEF Installment

LEMMA StepBound ==
  ASSUME IsFiniteSet(Generators), IInv, BoundInv, [Next]_vars PROVE BoundInv'
<1> SUFFICES ASSUME NEW p \in Plans, NEW s \in Students, NEW l \in Nat
             PROVE  Cardinality(InvoicesFor(p, s, l)') + Cardinality(Inserting(p, s, l)')
                      <= Cardinality(Generators)
  BY DEF BoundInv
<1> DEFINE V == InvoicesFor(p, s, l)
           W == InvoicesFor(p, s, l)'
           G == Inserting(p, s, l)
           H == Inserting(p, s, l)'
           n == Cardinality(Generators)
<1>1. /\ IsFiniteSet(V) /\ Cardinality(V) \in Nat
      /\ IsFiniteSet(W) /\ Cardinality(W) \in Nat
  <2>1. V \subseteq invoices /\ W \subseteq invoices' /\ IsFiniteSet(invoices)
    BY DEF InvoicesFor, IInv
  <2>2. IsFiniteSet(invoices')
    BY StepInvariant DEF IInv
  <2> HIDE DEF V, W
  <2> QED
    BY <2>1, <2>2, FS_Subset, FS_CardinalityType
<1>2. /\ IsFiniteSet(G) /\ Cardinality(G) \in Nat /\ Cardinality(G) <= n
      /\ IsFiniteSet(H) /\ Cardinality(H) \in Nat /\ Cardinality(H) <= n
      /\ n \in Nat
  <2>1. G \subseteq Generators /\ H \subseteq Generators
    BY DEF Inserting
  <2> HIDE DEF G, H
  <2> QED
    BY <2>1, FS_Subset, FS_CardinalityType
<1>3. Cardinality(V) + Cardinality(G) <= n
  BY DEF BoundInv
\* No more of either ...
<1>4. ASSUME W \subseteq V, H \subseteq G
      PROVE  Cardinality(W) + Cardinality(H) <= n
  <2> HIDE DEF V, W, G, H, n
  <2>1. Cardinality(W) <= Cardinality(V) /\ Cardinality(H) <= Cardinality(G)
    BY <1>1, <1>2, <1>4, FS_Subset
  <2> QED
    BY <1>1, <1>2, <1>3, <2>1
\* ... a generation that does not change what it is to insert ...
<1>5. ASSUME NEW g \in Generators, generators'[g] = generators[g], g \in H
      PROVE  g \in G
  BY <1>5, InstallmentStays DEF Inserting
\* ... and one that is not to insert.
<1>6. ASSUME NEW g \in Generators, generators'[g].pc # "insert",
             \A h \in Generators \ {g} : generators'[h] = generators[h]
      PROVE  H \subseteq G \ {g}
  BY <1>5, <1>6 DEF Inserting
<1>7. CASE generators' = generators /\ invoices' = invoices
  <2>1. W = V /\ H \subseteq G
    BY <1>5, <1>7 DEF InvoicesFor, Inserting
  <2> QED
    BY <1>4, <2>1
<1>8. ASSUME NEW v \in invoices, Credit(v)
      PROVE  Cardinality(W) + Cardinality(H) <= n
  <2>1. PICK w \in InvoiceType :
          /\ invoices' = (invoices \ {v}) \cup {w}
          /\ w.plan = v.plan /\ w.student = v.student /\ w.label = v.label
    BY <1>8, Credited
  <2>2. generators' = generators
    BY <1>8 DEF Credit
  <2>3. H \subseteq G
    BY <1>5, <2>2 DEF Inserting
  <2>4. CASE v \notin V
    <3>1. W \subseteq V
      BY <2>1, <2>2, <2>4 DEF InvoicesFor
    <3> QED
      BY <1>4, <2>3, <3>1
  <2>5. CASE v \in V
    <3>1. W \subseteq (V \ {v}) \cup {w}
      BY <2>1, <2>2 DEF InvoicesFor
    <3> HIDE DEF V, W, G, H, n
    <3>2. /\ IsFiniteSet(V \ {v}) /\ Cardinality(V \ {v}) = Cardinality(V) - 1
      BY <1>1, <2>5, FS_RemoveElement
    <3> DEFINE R == V \ {v}
    <3>5. IsFiniteSet(R) /\ Cardinality(R) = Cardinality(V) - 1
      BY <3>2
    <3> HIDE DEF R
    <3>6. /\ IsFiniteSet(R \cup {w})
          /\ Cardinality(R \cup {w}) = Cardinality(R) \/ Cardinality(R \cup {w}) = Cardinality(R) + 1
      BY <3>5, FS_AddElement
    <3>3. /\ IsFiniteSet((V \ {v}) \cup {w})
          /\ Cardinality((V \ {v}) \cup {w}) <= Cardinality(V)
      BY <1>1, <3>5, <3>6 DEF R
    <3>4. /\ Cardinality((V \ {v}) \cup {w}) \in Nat
          /\ Cardinality(W) <= Cardinality((V \ {v}) \cup {w})
          /\ Cardinality(H) <= Cardinality(G)
      BY <1>2, <2>3, <3>1, <3>3, FS_Subset, FS_CardinalityType
    <3> QED
      BY <1>1, <1>2, <1>3, <3>3, <3>4
  <2> QED
    BY <2>4, <2>5
<1>9. ASSUME NEW g \in Generators, NoMatch(g)
      PROVE  Cardinality(W) + Cardinality(H) <= n
  <2>1. /\ invoices' = invoices /\ \A h \in Generators \ {g} : generators'[h] = generators[h]
        /\ generators'[g] = [generators[g] EXCEPT !.pc = "insert"]
        /\ generators[g].pc = "match" /\ generators[g] \in GeneratorType
    BY <1>9 DEF NoMatch, IInv
  <2>2. /\ generators'[g].plan = generators[g].plan /\ generators'[g].k = generators[g].k
        /\ generators'[g].student = generators[g].student
    BY <2>1 DEF GeneratorType
  <2>3. Installment(g)' = Installment(g)
    BY <2>1, <2>2, InstallmentStays
  <2>4. CASE /\ generators[g].plan = p /\ generators[g].student = s
             /\ Installment(g).label = l
    <3>1. W = {}
      BY <1>9, <2>1, <2>4 DEF NoMatch, Matched, InvoicesFor
    <3> HIDE DEF W, H, n
    <3>2. Cardinality(W) = 0
      BY <3>1, FS_EmptySet
    <3> QED
      BY <1>2, <3>2
  <2>5. CASE ~ (/\ generators[g].plan = p /\ generators[g].student = s
                /\ Installment(g).label = l)
    <3>1. g \notin H
      BY <2>2, <2>3, <2>5 DEF Inserting
    <3>2. H \subseteq G
      BY <1>5, <2>1, <3>1 DEF Inserting
    <3>3. W \subseteq V
      BY <2>1 DEF InvoicesFor
    <3> QED
      BY <1>4, <3>2, <3>3
  <2> QED
    BY <2>4, <2>5
<1>10. ASSUME NEW g \in Generators, Insert(g)
       PROVE  Cardinality(W) + Cardinality(H) <= n
  <2>1. /\ \A h \in Generators \ {g} : generators'[h] = generators[h]
        /\ generators'[g].pc # "insert" /\ generators[g].pc = "insert"
    BY <1>10, OthersUntouched, AdvancePc DEF Insert
  <2>2. H \subseteq G \ {g}
    BY <1>6, <2>1
  <2>3. PICK overdue \in BOOLEAN : invoices' = invoices \cup {NewInvoice(g, overdue)}
    BY <1>10 DEF Insert
  <2> DEFINE v == NewInvoice(g, overdue)
  <2>4. v.student = generators[g].student /\ v.plan = generators[g].plan
        /\ v.label = Installment(g).label
    BY <2>1, NewInvoiceType
  <2> HIDE DEF v
  <2>5. CASE v.plan = p /\ v.student = s /\ v.label = l
    <3>1. W \subseteq V \cup {v} /\ g \in G
      BY <2>1, <2>3, <2>4, <2>5 DEF InvoicesFor, Inserting, v
    <3> HIDE DEF V, W, G, H, n
    <3>5. IsFiniteSet(V \cup {v})
          /\ (Cardinality(V \cup {v}) = Cardinality(V)
              \/ Cardinality(V \cup {v}) = Cardinality(V) + 1)
      BY <1>1, FS_AddElement
    <3>2. IsFiniteSet(V \cup {v}) /\ Cardinality(V \cup {v}) <= Cardinality(V) + 1
      BY <1>1, <3>5
    <3>4. IsFiniteSet(G \ {g}) /\ Cardinality(G \ {g}) = Cardinality(G) - 1
      BY <1>2, <3>1, FS_RemoveElement
    <3>3. /\ Cardinality(V \cup {v}) \in Nat
          /\ Cardinality(W) <= Cardinality(V \cup {v})
          /\ Cardinality(H) <= Cardinality(G \ {g})
      BY <2>2, <3>1, <3>2, <3>4, FS_Subset, FS_CardinalityType
    <3> QED
      BY <1>1, <1>2, <1>3, <3>2, <3>3, <3>4
  <2>6. CASE ~ (v.plan = p /\ v.student = s /\ v.label = l)
    <3>1. W \subseteq V
      BY <2>3, <2>6 DEF InvoicesFor, v
    <3> QED
      BY <1>4, <2>2, <3>1
  <2> QED
    BY <2>5, <2>6
<1>11. ASSUME NEW g \in Generators,
              \/ Match(g) \/ Abort(g)
              \/ \E o \in Plans, given \in SUBSET Students : Start(g, o, given)
       PROVE  Cardinality(W) + Cardinality(H) <= n
  <2>1. invoices' = invoices /\ \A h \in Generators \ {g} : generators'[h] = generators[h]
    BY <1>11, OthersUntouched DEF Match, Abort, Start
  <2>2. generators'[g].pc # "insert"
    <3>1. CASE Match(g)
      BY <3>1, AdvancePc DEF Match
    <3>2. CASE Abort(g)
      BY <3>2 DEF Abort, IdleGenerator, IInv
    <3>3. ASSUME NEW o \in Plans, NEW given \in SUBSET Students, Start(g, o, given)
          PROVE  generators'[g].pc # "insert"
      BY <3>3 DEF Start, IInv
    <3> QED
      BY <1>11, <3>1, <3>2, <3>3
  <2>3. H \subseteq G
    BY <1>6, <2>1, <2>2
  <2>4. W \subseteq V
    BY <2>1 DEF InvoicesFor
  <2> QED
    BY <1>4, <2>3, <2>4
<1>12. \/ generators' = generators /\ invoices' = invoices
       \/ \E v \in invoices : Credit(v)
       \/ \E g \in Generators :
            \/ NoMatch(g) \/ Insert(g) \/ Match(g) \/ Abort(g)
            \/ \E o \in Plans, given \in SUBSET Students : Start(g, o, given)
  BY DEF Next, vars, CreatePlan, Enroll
<1> QED
  BY <1>7, <1>8, <1>9, <1>10, <1>11, <1>12

\* However many generations overlap, stop and are repeated, an installment is
\* billed to a student no more often than generations run at once.
THEOREM BilledByEach ==
  ASSUME IsFiniteSet(Generators) PROVE Spec => []BilledPerGenerator
<1>1. Init => BoundInv
  <2> SUFFICES ASSUME Init, NEW p \in Plans, NEW s \in Students, NEW l \in Nat
               PROVE  Cardinality(InvoicesFor(p, s, l)) + Cardinality(Inserting(p, s, l))
                        <= Cardinality(Generators)
    BY DEF BoundInv
  <2>1. InvoicesFor(p, s, l) = {} /\ Inserting(p, s, l) = {}
    BY DEF Init, InvoicesFor, Inserting, IdleGenerator
  <2> QED
    BY <2>1, FS_EmptySet, FS_CardinalityType
<1>2. IInv /\ BoundInv /\ [Next]_vars => BoundInv'
  BY StepBound
<1>3. IInv /\ BoundInv => BilledPerGenerator
  <2> SUFFICES ASSUME IInv, BoundInv, NEW p \in Plans, NEW s \in Students, NEW l \in Nat
               PROVE  Cardinality(InvoicesFor(p, s, l)) <= Cardinality(Generators)
    BY DEF BilledPerGenerator
  <2>1. /\ InvoicesFor(p, s, l) \subseteq invoices /\ IsFiniteSet(invoices)
        /\ Inserting(p, s, l) \subseteq Generators
    BY DEF InvoicesFor, Inserting, IInv
  <2>2. /\ Cardinality(InvoicesFor(p, s, l)) \in Nat /\ Cardinality(Inserting(p, s, l)) \in Nat
        /\ Cardinality(Generators) \in Nat
    BY <2>1, FS_Subset, FS_CardinalityType
  <2> QED
    BY <2>2 DEF BoundInv
<1> QED
  BY <1>1, <1>2, <1>3, InvariantHolds, PTL DEF Spec
==============================================================================

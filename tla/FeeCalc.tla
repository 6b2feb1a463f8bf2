------------------------------ MODULE FeeCalc ------------------------------
(***************************************************************************)
(* The pure fee arithmetic of fees/fee-calc.ts.  The code keeps amounts in *)
(* rupees and accepts any number of decimals; here they are counted in     *)
(* tenths of a paisa, fine enough to tell a rounded amount from an exact   *)
(* one.  The gateway only knows whole paisa.                               *)
(***************************************************************************)
EXTENDS Integers

InvoiceStatus == {"PENDING", "PARTIAL", "PAID", "OVERDUE"}

\* Math.round(rupees * 100), half up: an amount in whole paisa ...
toPaisa(amount) == (amount + 5) \div 10
\* ... and paisa / 100.
fromPaisa(paisa) == 10 * paisa

\* Weakened: the whole remainder goes to the first installment.
splitRemainderToFirst(total, count) ==
  LET base      == toPaisa(total) \div count
      remainder == toPaisa(total) - base * count
  IN  [k \in 1..count |-> fromPaisa(base + IF k = 1 THEN remainder ELSE 0)]

\* The amounts of count equal installments: the remainder goes, one paisa
\* each, to the earliest of them.
splitEqualInstallments(total, count) ==
  LET base      == toPaisa(total) \div count
      remainder == toPaisa(total) - base * count
  IN  [k \in 1..count |-> fromPaisa(base + IF k <= remainder THEN 1 ELSE 0)]

\* Weakened: PAID only once more than the amount due is paid.
computeInvoiceStatusStrict(amountDue, amountPaid, overdue) ==
  IF amountPaid > amountDue /\ amountDue > 0 THEN "PAID"
  ELSE IF amountPaid > 0 /\ amountPaid <= amountDue THEN "PARTIAL"
  ELSE IF overdue THEN "OVERDUE" ELSE "PENDING"

\* overdue stands for dueDate < now.
computeInvoiceStatus(amountDue, amountPaid, overdue) ==
  IF amountPaid >= amountDue /\ amountDue > 0 THEN "PAID"
  ELSE IF amountPaid > 0 /\ amountPaid < amountDue THEN "PARTIAL"
  ELSE IF overdue THEN "OVERDUE" ELSE "PENDING"

\* Weakened: no clamp.
applyPaymentUnclamped(amountDue, amountPaid, payment) ==
  fromPaisa(toPaisa(amountPaid + payment))

\* Weakened: the payment replaces what was paid.
applyPaymentReplaces(amountDue, amountPaid, payment) ==
  IF payment < amountDue THEN fromPaisa(toPaisa(payment)) ELSE amountDue

\* A credit is rounded to whole paisa and never takes amountPaid above amountDue.
applyPayment(amountDue, amountPaid, payment) ==
  LET rounded == fromPaisa(toPaisa(amountPaid + payment))
  IN  IF rounded < amountDue THEN rounded ELSE amountDue
=============================================================================

------------------------------- MODULE Reports -------------------------------
(***************************************************************************)
(* The three summaries of reports.service.ts, each over the documents of   *)
(* one collection.  Rates and averages are in hundredths, rounded.         *)
(***************************************************************************)
EXTENDS Integers, FiniteSets, FiniteSetsExt, FeeCalc

\* The aggregation sums per status, the loop over the statuses.
feesSummary(invoices) ==
  LET OfStatus(status) == { v \in invoices : v.status = status }
      Total(amount) ==
        SumFunction([status \in InvoiceStatus |-> SumFunctionOnSet(amount, OfStatus(status))])
      billed == Total([v \in invoices |-> v.amountDue])
      collected == Total([v \in invoices |-> v.amountPaid])
  IN  [billed      |-> billed,
       collected   |-> collected,
       outstanding |-> billed - collected,
       byStatus    |-> [status \in InvoiceStatus |-> Cardinality(OfStatus(status))]]

Hundredths(a, b) == (200 * a + b) \div (2 * b)

attendanceSummary(attendance, student) ==
  LET rows    == { a \in attendance : a.student = student }
      present == Cardinality({ a \in rows : a.status \in {"PRESENT", "LATE"} })
      total   == Cardinality(rows)
  IN  [present |-> present, total |-> total,
       rate |-> IF total = 0 THEN 0 ELSE Hundredths(present, total)]

\* For a student with a score.
performanceSummary(scores, student) ==
  LET rows == { x \in scores : x.student = student }
  IN  [avgMarks |-> Hundredths(SumFunction([x \in rows |-> x.marks]), Cardinality(rows)),
       tests    |-> Cardinality(rows)]
=============================================================================

----------------------------- MODULE MCPayments -----------------------------
(***************************************************************************)
(* Payments on small instances, and what a comment of the code says of     *)
(* every schedule but the code keeps only for one delivery at a time.      *)
(***************************************************************************)
EXTENDS Payments

\* An invoice of two paisa can be paid in part; of three, in part again; of
\* 3.3 paisa, never in full.
MCDue2 == [i \in Invoices |-> 20]
MCDue3 == [i \in Invoices |-> 30]
MCDueFraction == [i \in Invoices |-> 33]

\* In production: the stub gateway is for development.
LiveSpec == Init /\ live = TRUE /\ [][Next]_vars

\* A payment is applied to its invoice by one delivery at most: "the unique
\* index makes exactly one win" (applyCapturedPayment).
AppliedOnce == \A c \in Checkouts : credits[c] <= 1
=============================================================================

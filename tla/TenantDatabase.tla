--------------------------- MODULE TenantDatabase ---------------------------
(***************************************************************************)
(* What one institute is promised: its documents are read and written by   *)
(* requests admitted to it, and by no others.                              *)
(***************************************************************************)
CONSTANTS Docs,      \* document ids
          Values,    \* what a document of the institute may hold
          Requests,
          Nothing    \* in place of a value: the institute has no such document

VARIABLES content,   \* the institute's documents
          admitted,  \* the requests acting for the institute
          answers    \* per request, the institute's documents its operation, if it
                     \* was the last one, read or wrote
vars == <<content, admitted, answers>>

Silence == [r \in Requests |-> {}]

Init ==
  /\ content = [d \in Docs |-> Nothing]
  /\ admitted = {}
  /\ answers = Silence

\* A request is admitted, or stops acting for the institute.
Enter(r) ==
  /\ r \notin admitted
  /\ admitted' = admitted \cup {r}
  /\ answers' = Silence
  /\ UNCHANGED content

Exit(r) ==
  /\ r \in admitted
  /\ admitted' = admitted \ {r}
  /\ answers' = Silence
  /\ UNCHANGED content

\* An admitted request reads documents, writes them, or both at once.
Access(r) ==
  /\ r \in admitted
  /\ content' \in [Docs -> Values \cup {Nothing}]
  /\ answers' \in { [Silence EXCEPT ![r] = read] : read \in SUBSET Docs }
  /\ UNCHANGED admitted

\* What goes on outside the institute tells nobody anything about it.
Elsewhere ==
  /\ answers' = Silence
  /\ UNCHANGED <<content, admitted>>

Next ==
  \/ \E r \in Requests : Enter(r) \/ Exit(r) \/ Access(r)
  \/ Elsewhere

Spec == Init /\ [][Next]_vars
=============================================================================

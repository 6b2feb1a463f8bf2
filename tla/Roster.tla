------------------------------- MODULE Roster -------------------------------
(***************************************************************************)
(* Students, batches and test scores of one institute                      *)
(* (students.service.ts, batches.service.ts, academics.service.ts).  Who   *)
(* is in a batch is kept on the student alone, in batchIds; nothing ties   *)
(* the collections together.                                               *)
(*                                                                         *)
(* A clerk is a request, or a client that read a student in order to       *)
(* update it.  Each writes once, so one that stops has done nothing or all.*)
(***************************************************************************)
EXTENDS Naturals, FiniteSets, Reports

CONSTANTS Students, Batches,   \* bound the documents ever created
          MaxMarks,            \* per test, the marks to be had
          Clerks

ASSUME RosterAssumption == \A t \in DOMAIN MaxMarks : MaxMarks[t] \in Nat \ {0}

Tests == DOMAIN MaxMarks

VARIABLES students,   \* Student documents
          batches,    \* Batch documents
          tests,      \* the tests created
          scores,     \* TestScore documents
          clerks      \* what each clerk is in the middle of
vars == <<students, batches, tests, scores, clerks>>

NewStudent == [state |-> "new", batchIds |-> {}]
Free == [pc |-> "idle", about |-> {}, batchIds |-> {}, test |-> {}, marks |-> 0]

Init ==
  /\ students = [s \in Students |-> NewStudent]
  /\ batches = [b \in Batches |-> "new"]
  /\ tests = {}
  /\ scores = {}
  /\ clerks = [c \in Clerks |-> Free]

End(c) == clerks' = [clerks EXCEPT ![c] = Free]

-----------------------------------------------------------------------------
(* Students and batches *)

Here(s) == students[s].state = "here"

\* The batchIds given are not looked up.
CreateStudent(s, batchIds) ==
  /\ students[s].state = "new"
  /\ students' = [students EXCEPT ![s] = [state |-> "here", batchIds |-> batchIds]]
  /\ UNCHANGED <<batches, tests, scores, clerks>>

\* The student's scores stay.
RemoveStudent(s) ==
  /\ Here(s)
  /\ students' = [students EXCEPT ![s].state = "removed"]
  /\ UNCHANGED <<batches, tests, scores, clerks>>

CreateBatch(b) ==
  /\ batches[b] = "new"
  /\ batches' = [batches EXCEPT ![b] = "open"]
  /\ UNCHANGED <<students, tests, scores, clerks>>

\* Its students keep its id.
RemoveBatch(b) ==
  /\ batches[b] = "open"
  /\ batches' = [batches EXCEPT ![b] = "removed"]
  /\ UNCHANGED <<students, tests, scores, clerks>>

\* enroll: the batch is found, ...
StartEnroll(c, b, about) ==
  /\ clerks[c] = Free
  /\ batches[b] = "open"
  /\ clerks' = [clerks EXCEPT ![c] = [Free EXCEPT !.pc = "enroll", !.about = about,
                                                  !.batchIds = {b}]]
  /\ UNCHANGED <<students, batches, tests, scores>>

\* Weakened: $set instead of $addToSet.
SetBatch(s, c) == [students[s] EXCEPT !.batchIds = clerks[c].batchIds]
AddBatch(s, c) == [students[s] EXCEPT !.batchIds = @ \cup clerks[c].batchIds]

\* ... then one updateMany adds it to those students there are.
Enroll(c) ==
  /\ clerks[c].pc = "enroll"
  /\ students' = [s \in Students |-> IF s \in clerks[c].about /\ Here(s)
                                     THEN AddBatch(s, c) ELSE students[s]]
  /\ End(c)
  /\ UNCHANGED <<batches, tests, scores>>

\* A client looks at a student (get), ...
ViewStudent(c, s) ==
  /\ clerks[c] = Free
  /\ Here(s)
  /\ clerks' = [clerks EXCEPT ![c] = [Free EXCEPT !.pc = "edit", !.about = {s},
                                                  !.batchIds = students[s].batchIds]]
  /\ UNCHANGED <<students, batches, tests, scores>>

\* ... puts a batch in or takes one out, and sends the array back (update),
\* which replaces the one there is.
UpdateStudent(c, b) ==
  /\ clerks[c].pc = "edit"
  /\ LET ids == clerks[c].batchIds
     IN  students' = [s \in Students |->
           IF s \in clerks[c].about /\ Here(s)
           THEN [students[s] EXCEPT !.batchIds = IF b \in ids THEN ids \ {b}
                                                             ELSE ids \cup {b}]
           ELSE students[s]]
  /\ End(c)
  /\ UNCHANGED <<batches, tests, scores>>

-----------------------------------------------------------------------------
(* Tests and scores *)

CreateTest(t) ==
  /\ tests' = tests \cup {t}
  /\ UNCHANGED <<students, batches, scores, clerks>>

\* Weakened: the marks are not looked at.
AcceptsAnyMarks(t, marks) == TRUE
AcceptsMarks(t, marks) == marks <= MaxMarks[t]

\* recordScore: the test is found and the marks compared with it; whether the
\* student exists is not asked.
StartScore(c, s, t, marks) ==
  /\ clerks[c] = Free
  /\ t \in tests
  /\ AcceptsMarks(t, marks)
  /\ clerks' = [clerks EXCEPT ![c] = [Free EXCEPT !.pc = "match", !.about = {s},
                                                  !.test = {t}, !.marks = marks]]
  /\ UNCHANGED <<students, batches, tests, scores>>

Matched(c) == { x \in scores : x.student \in clerks[c].about /\ x.test \in clerks[c].test }

\* The upsert finds a score and replaces it, ...
MatchScore(c) ==
  /\ clerks[c].pc = "match"
  /\ \E x \in Matched(c) :
       scores' = (scores \ {x}) \cup {[x EXCEPT !.marks = clerks[c].marks]}
  /\ End(c)
  /\ UNCHANGED <<students, batches, tests>>

\* ... or finds none ...
NoScore(c) ==
  /\ clerks[c].pc = "match"
  /\ Matched(c) = {}
  /\ clerks' = [clerks EXCEPT ![c].pc = "insert"]
  /\ UNCHANGED <<students, batches, tests, scores>>

\* Weakened: no unique index.
NeverDuplicate(c) == FALSE
\* The unique index on (tenant, test, student).
Duplicate(c) == Matched(c) # {}

NewScore(c, s, t) == [id    |-> Cardinality(scores) + 1, student |-> s, test |-> t,
                      marks |-> clerks[c].marks]

\* ... and inserts one; when the index refuses that, MongoDB tries again.
InsertScore(c) ==
  /\ clerks[c].pc = "insert"
  /\ IF Duplicate(c)
     THEN clerks' = [clerks EXCEPT ![c].pc = "match"] /\ UNCHANGED scores
     ELSE /\ \E s \in clerks[c].about, t \in clerks[c].test :
               scores' = scores \cup {NewScore(c, s, t)}
          /\ End(c)
  /\ UNCHANGED <<students, batches, tests>>

Next ==
  \/ \E s \in Students : RemoveStudent(s)
  \/ \E s \in Students, batchIds \in SUBSET Batches : CreateStudent(s, batchIds)
  \/ \E b \in Batches : CreateBatch(b) \/ RemoveBatch(b)
  \/ \E t \in Tests : CreateTest(t)
  \/ \E c \in Clerks :
       \/ \E b \in Batches, about \in SUBSET Students : StartEnroll(c, b, about)
       \/ \E s \in Students : ViewStudent(c, s)
       \/ \E b \in Batches : UpdateStudent(c, b)
       \/ \E s \in Students, t \in Tests : \E marks \in 0 .. MaxMarks[t] + 1 :
            StartScore(c, s, t, marks)
       \/ Enroll(c) \/ MatchScore(c) \/ NoScore(c) \/ InsertScore(c)

Spec == Init /\ [][Next]_vars

-----------------------------------------------------------------------------
(* Properties *)

\* Types, and that scores are for tests that exist, within their marks.
TypeOK ==
  /\ \A s \in Students : /\ students[s].state \in {"new", "here", "removed"}
                         /\ students[s].batchIds \subseteq Batches
                         /\ students[s].state = "new" => students[s] = NewStudent
  /\ batches \in [Batches -> {"new", "open", "removed"}]
  /\ \A x \in scores : /\ x.student \in Students /\ x.test \in tests
                         /\ x.marks \in 0..MaxMarks[x.test]
  /\ \A c \in Clerks : clerks[c].about \subseteq Students

\* A student leaves a batch by an update of that student alone: of enrolments
\* that run at once, with each other or with an update, none takes a batch away.
EnrolmentKept ==
  [][\A s \in Students :
       ~ (students[s].batchIds \subseteq students'[s].batchIds) =>
         \E c \in Clerks : clerks[c].pc = "edit" /\ s \in clerks[c].about
                           /\ clerks'[c] = Free]_vars

\* The performance report counts a student's test once and shows no average
\* above what the tests allow, however often and by however many teachers at
\* once scores are recorded.
PerformanceIsSound ==
  \A s \in { x.student : x \in scores } :
    LET report == performanceSummary(scores, s)
    IN  /\ report.tests <= Cardinality(tests)
        /\ report.avgMarks <= 100 * Max({ MaxMarks[t] : t \in tests })
=============================================================================

----------------------------- MODULE RosterProofs -----------------------------
(***************************************************************************)
(* Enrolments and scores for any number of students, batches, tests and    *)
(* clerks: a test is scored once per student, and the performance report,  *)
(* which counts and averages the scores, rests on that.                    *)
(***************************************************************************)
EXTENDS Roster, FiniteSetTheorems, SumTheorems, TLAPS

StudentType == [state : {"new", "here", "removed"}, batchIds : SUBSET Batches]
ScoreType == [id : Nat, student : Students, test : Tests, marks : Nat]
ClerkType == [pc : {"idle", "enroll", "edit", "match", "insert"},
              about : SUBSET Students, batchIds : SUBSET Batches,
              test : SUBSET Tests, marks : Nat]

\* A clerk who records a score does it for one student and one test, whose
\* marks were looked at.
ClerkOK(c) ==
  clerks[c].pc \in {"match", "insert"} =>
    \E s \in Students, t \in tests : /\ clerks[c].about = {s} /\ clerks[c].test = {t}
                                     /\ clerks[c].marks <= MaxMarks[t]

ScoredOnce ==
  \A x, y \in scores : x.student = y.student /\ x.test = y.test => x = y

IInv ==
  /\ students \in [Students -> StudentType]
  /\ \A s \in Students : students[s].state = "new" => students[s] = NewStudent
  /\ batches \in [Batches -> {"new", "open", "removed"}]
  /\ tests \subseteq Tests
  /\ scores \subseteq ScoreType /\ IsFiniteSet(scores)
  /\ \A x \in scores : x.test \in tests /\ x.marks <= MaxMarks[x.test]
  /\ clerks \in [Clerks -> ClerkType]
  /\ \A c \in Clerks : ClerkOK(c)
  /\ ScoredOnce

LEMMA InitInvariant == Init => IInv
<1> SUFFICES ASSUME Init PROVE IInv
  OBVIOUS
<1>1. NewStudent \in StudentType /\ Free \in ClerkType
  BY DEF NewStudent, StudentType, Free, ClerkType
<1>2. IsFiniteSet({})
  BY FS_EmptySet
<1> QED
  BY <1>1, <1>2 DEF Init, IInv, ClerkOK, ScoredOnce, Free

LEMMA InvariantImplies == ASSUME IInv PROVE TypeOK
BY DEF IInv, TypeOK, StudentType, ScoreType, ClerkType

-----------------------------------------------------------------------------
(* The invariant, action by action *)

\* A step that writes students alone, and at most frees a clerk.
LEMMA PreservedByStudents ==
  ASSUME IInv, UNCHANGED <<batches, tests, scores>>, students' \in [Students -> StudentType],
         \A s \in Students : students'[s].state = "new" => students'[s] = NewStudent,
         clerks' = clerks \/ \E c \in Clerks : End(c)
  PROVE  IInv'
<1>1. Free \in ClerkType /\ Free.pc = "idle"
  BY DEF Free, ClerkType
<1>2. clerks' \in [Clerks -> ClerkType]
  BY <1>1 DEF IInv, End
<1>3. \A c \in Clerks : clerks'[c] = clerks[c] \/ clerks'[c].pc = "idle"
  BY <1>1 DEF IInv, End
<1>4. \A c \in Clerks : ClerkOK(c)'
  BY <1>3 DEF IInv, ClerkOK
<1> QED
  BY <1>2, <1>4 DEF IInv, ScoredOnce

LEMMA StudentSteps ==
  ASSUME IInv, NEW s \in Students,
         RemoveStudent(s) \/ \E batchIds \in SUBSET Batches : CreateStudent(s, batchIds)
  PROVE  IInv'
<1>1. ASSUME RemoveStudent(s) PROVE IInv'
  <2>1. students[s] \in StudentType
    BY DEF IInv
  <2>2. /\ [students[s] EXCEPT !.state = "removed"] \in StudentType
        /\ [students[s] EXCEPT !.state = "removed"].state = "removed"
    BY <2>1 DEF StudentType
  <2>3. /\ students' \in [Students -> StudentType] /\ students'[s].state = "removed"
        /\ \A q \in Students \ {s} : students'[q] = students[q]
    BY <1>1, <2>2 DEF RemoveStudent, IInv
  <2>4. \A q \in Students : students'[q].state = "new" => students'[q] = NewStudent
    BY <2>3 DEF IInv
  <2> QED
    BY <1>1, <2>3, <2>4, PreservedByStudents DEF RemoveStudent
<1>2. ASSUME NEW batchIds \in SUBSET Batches, CreateStudent(s, batchIds) PROVE IInv'
  <2>1. [state |-> "here", batchIds |-> batchIds] \in StudentType
    BY DEF StudentType
  <2>2. /\ students' \in [Students -> StudentType] /\ students'[s].state = "here"
        /\ \A q \in Students \ {s} : students'[q] = students[q]
    BY <1>2, <2>1 DEF CreateStudent, IInv
  <2>3. \A q \in Students : students'[q].state = "new" => students'[q] = NewStudent
    BY <2>2 DEF IInv
  <2> QED
    BY <1>2, <2>2, <2>3, PreservedByStudents DEF CreateStudent
<1> QED
  BY <1>1, <1>2

\* Enrolment and update only reach students there are.
LEMMA BatchIdSteps ==
  ASSUME IInv, NEW c \in Clerks, Enroll(c) \/ \E b \in Batches : UpdateStudent(c, b)
  PROVE  IInv'
<1>1. /\ \A s \in Students : \/ students'[s] = students[s]
                             \/ Here(s) /\ \E ids \in SUBSET Batches :
                                  students'[s] = [students[s] EXCEPT !.batchIds = ids]
      /\ students' = [s \in Students |-> students'[s]]
  <2>1. CASE Enroll(c)
    <3>1. clerks[c].batchIds \in SUBSET Batches
          /\ \A s \in Students : students[s].batchIds \in SUBSET Batches
      BY DEF IInv, ClerkType, StudentType
    <3>2. \A s \in Students : students[s].batchIds \cup clerks[c].batchIds \in SUBSET Batches
      BY <3>1
    <3> QED
      BY <2>1, <3>2 DEF Enroll, AddBatch
  <2>2. ASSUME NEW b \in Batches, UpdateStudent(c, b)
        PROVE  <1>1!1 /\ <1>1!2
    <3>1. clerks[c].batchIds \ {b} \in SUBSET Batches
          /\ clerks[c].batchIds \cup {b} \in SUBSET Batches
      BY DEF IInv, ClerkType
    <3> QED
      BY <2>2, <3>1 DEF UpdateStudent
  <2> QED
    BY <2>1, <2>2
<1>2. ASSUME NEW s \in Students, NEW ids \in SUBSET Batches, Here(s)
      PROVE  /\ [students[s] EXCEPT !.batchIds = ids] \in StudentType
             /\ [students[s] EXCEPT !.batchIds = ids].state = "here"
  BY <1>2 DEF Here, IInv, StudentType
<1>3. /\ \A s \in Students : students'[s] \in StudentType
      /\ \A s \in Students : students'[s].state = "new" => students'[s] = NewStudent
  <2> SUFFICES ASSUME NEW s \in Students
               PROVE  /\ students'[s] \in StudentType
                      /\ students'[s].state = "new" => students'[s] = NewStudent
    OBVIOUS
  <2>1. CASE students'[s] = students[s]
    BY <2>1 DEF IInv
  <2>2. ASSUME Here(s), NEW ids \in SUBSET Batches,
               students'[s] = [students[s] EXCEPT !.batchIds = ids]
        PROVE  students'[s] \in StudentType /\ students'[s].state = "here"
    BY <2>2, <1>2
  <2> QED
    BY <1>1, <2>1, <2>2
<1> QED
  BY <1>1, <1>3, PreservedByStudents DEF Enroll, UpdateStudent

LEMMA BatchSteps ==
  ASSUME IInv, NEW b \in Batches, CreateBatch(b) \/ RemoveBatch(b)
  PROVE  IInv'
BY DEF CreateBatch, RemoveBatch, IInv, ClerkOK, ScoredOnce

LEMMA CreateTestStep ==
  ASSUME IInv, NEW t \in Tests, CreateTest(t)
  PROVE  IInv'
<1>1. tests \subseteq tests' /\ tests' \subseteq Tests
      /\ UNCHANGED <<students, batches, scores, clerks>>
  BY DEF CreateTest, IInv
<1>2. \A c \in Clerks : ClerkOK(c)'
  BY <1>1 DEF IInv, ClerkOK
<1> QED
  BY <1>1, <1>2 DEF IInv, ScoredOnce

\* A step that leaves a clerk with the record q.
LEMMA PreservedByClerk ==
  ASSUME IInv, UNCHANGED <<students, batches, tests>>, NEW c \in Clerks, NEW q \in ClerkType,
         clerks' = [clerks EXCEPT ![c] = q], ClerkOK(c)',
         scores' \subseteq ScoreType, IsFiniteSet(scores'), ScoredOnce',
         \A x \in scores' : x.test \in tests /\ x.marks <= MaxMarks[x.test]
  PROVE  IInv'
<1>1. /\ clerks' \in [Clerks -> ClerkType]
      /\ \A d \in Clerks \ {c} : clerks'[d] = clerks[d]
  BY DEF IInv
<1>2. \A d \in Clerks : ClerkOK(d)'
  BY <1>1 DEF IInv, ClerkOK
<1> QED
  BY <1>1, <1>2 DEF IInv

LEMMA FreeClerk ==
  ASSUME IInv, NEW c \in Clerks, End(c)
  PROVE  /\ Free \in ClerkType /\ clerks' = [clerks EXCEPT ![c] = Free]
         /\ ClerkOK(c)'
<1>1. Free \in ClerkType /\ Free.pc = "idle"
  BY DEF Free, ClerkType
<1>2. clerks'[c] = Free
  BY DEF End, IInv
<1> QED
  BY <1>1, <1>2 DEF End, ClerkOK

LEMMA StartSteps ==
  ASSUME IInv, NEW c \in Clerks,
         \/ \E b \in Batches, about \in SUBSET Students : StartEnroll(c, b, about)
         \/ \E s \in Students : ViewStudent(c, s)
  PROVE  IInv'
<1>1. PICK q \in ClerkType : clerks' = [clerks EXCEPT ![c] = q] /\ q.pc \in {"enroll", "edit"}
  <2>1. ASSUME NEW b \in Batches, NEW about \in SUBSET Students, StartEnroll(c, b, about)
        PROVE  \E q \in ClerkType :
                 clerks' = [clerks EXCEPT ![c] = q] /\ q.pc \in {"enroll", "edit"}
    <3> DEFINE q == [Free EXCEPT !.pc = "enroll", !.about = about, !.batchIds = {b}]
    <3>1. q \in ClerkType /\ q.pc = "enroll"
      BY DEF Free, ClerkType
    <3>2. clerks' = [clerks EXCEPT ![c] = q]
      BY <2>1 DEF StartEnroll
    <3> QED
      BY <3>1, <3>2
  <2>2. ASSUME NEW s \in Students, ViewStudent(c, s)
        PROVE  \E q \in ClerkType :
                 clerks' = [clerks EXCEPT ![c] = q] /\ q.pc \in {"enroll", "edit"}
    <3> DEFINE q == [Free EXCEPT !.pc = "edit", !.about = {s},
                                 !.batchIds = students[s].batchIds]
    <3>1. students[s].batchIds \in SUBSET Batches
      BY DEF IInv, StudentType
    <3>2. q \in ClerkType /\ q.pc = "edit"
      BY <3>1 DEF Free, ClerkType
    <3>3. clerks' = [clerks EXCEPT ![c] = q]
      BY <2>2 DEF ViewStudent
    <3> QED
      BY <3>2, <3>3
  <2> QED
    BY <2>1, <2>2
<1>2. clerks'[c] = q
  BY <1>1 DEF IInv
<1>3. ClerkOK(c)'
  BY <1>1, <1>2 DEF ClerkOK
<1>4. UNCHANGED <<students, batches, tests, scores>>
  BY DEF StartEnroll, ViewStudent
<1> QED
  BY <1>1, <1>3, <1>4, PreservedByClerk DEF IInv, ScoredOnce

LEMMA StartScoreStep ==
  ASSUME IInv, NEW c \in Clerks, NEW s \in Students, NEW t \in Tests, NEW marks \in Nat,
         StartScore(c, s, t, marks)
  PROVE  IInv'
<1> DEFINE q == [Free EXCEPT !.pc = "match", !.about = {s}, !.test = {t}, !.marks = marks]
<1>1. /\ q \in ClerkType /\ q.pc = "match" /\ q.about = {s} /\ q.test = {t}
      /\ q.marks = marks
  BY DEF Free, ClerkType
<1>2. /\ clerks' = [clerks EXCEPT ![c] = q] /\ t \in tests /\ marks <= MaxMarks[t]
      /\ UNCHANGED <<students, batches, tests, scores>>
  BY DEF StartScore, AcceptsMarks
<1> HIDE DEF q
<1>3. clerks'[c] = q
  BY <1>2 DEF IInv
<1>4. ClerkOK(c)'
  BY <1>1, <1>2, <1>3 DEF ClerkOK
<1> QED
  BY <1>1, <1>2, <1>4, PreservedByClerk DEF IInv, ScoredOnce

\* What a clerk at the upsert is about.
LEMMA Scoring ==
  ASSUME IInv, NEW c \in Clerks, clerks[c].pc \in {"match", "insert"}
  PROVE  \E s \in Students, t \in tests :
           /\ clerks[c].about = {s} /\ clerks[c].test = {t}
           /\ clerks[c].marks \in Nat /\ clerks[c].marks <= MaxMarks[t]
           /\ Matched(c) = { x \in scores : x.student = s /\ x.test = t }
BY DEF IInv, ClerkOK, ClerkType, Matched

LEMMA MatchScoreStep ==
  ASSUME IInv, NEW c \in Clerks, MatchScore(c)
  PROVE  IInv'
<1>1. PICK s \in Students, t \in tests :
        /\ clerks[c].marks \in Nat /\ clerks[c].marks <= MaxMarks[t]
        /\ Matched(c) = { x \in scores : x.student = s /\ x.test = t }
  BY Scoring DEF MatchScore
<1>2. PICK x \in Matched(c) :
        scores' = (scores \ {x}) \cup {[x EXCEPT !.marks = clerks[c].marks]}
  BY DEF MatchScore
<1> DEFINE y == [x EXCEPT !.marks = clerks[c].marks]
<1>3. x \in scores /\ x \in ScoreType /\ x.student = s /\ x.test = t
  BY <1>1, <1>2 DEF IInv
<1>4. /\ y \in ScoreType /\ y.student = x.student /\ y.test = x.test
      /\ y.marks = clerks[c].marks
  BY <1>1, <1>3 DEF ScoreType
<1>5. scores' = (scores \ {x}) \cup {y}
  BY <1>2
<1> HIDE DEF y
<1>6. scores' \subseteq ScoreType /\ IsFiniteSet(scores')
  BY <1>4, <1>5, FS_RemoveElement, FS_AddElement DEF IInv
<1>7. ScoredOnce'
  BY <1>3, <1>4, <1>5 DEF IInv, ScoredOnce
<1>8. \A z \in scores' : z.test \in tests /\ z.marks <= MaxMarks[z.test]
  BY <1>1, <1>3, <1>4, <1>5 DEF IInv
<1>9. End(c) /\ UNCHANGED <<students, batches, tests>>
  BY DEF MatchScore
<1> QED
  BY <1>6, <1>7, <1>8, <1>9, FreeClerk, PreservedByClerk

LEMMA NoScoreStep ==
  ASSUME IInv, NEW c \in Clerks, NEW pc \in {"match", "insert"},
         clerks[c].pc \in {"match", "insert"},
         clerks' = [clerks EXCEPT ![c].pc = pc],
         UNCHANGED <<students, batches, tests, scores>>
  PROVE  IInv'
<1> DEFINE q == [clerks[c] EXCEPT !.pc = pc]
<1>1. clerks[c] \in ClerkType /\ ClerkOK(c)
  BY DEF IInv
<1>2. /\ q \in ClerkType /\ q.about = clerks[c].about /\ q.test = clerks[c].test
      /\ q.marks = clerks[c].marks
  BY <1>1 DEF ClerkType
<1>3. clerks' = [clerks EXCEPT ![c] = q] /\ clerks'[c] = q
  BY DEF IInv
<1> HIDE DEF q
<1>4. ClerkOK(c)'
  BY <1>1, <1>2, <1>3 DEF ClerkOK
<1> QED
  BY <1>2, <1>3, <1>4, PreservedByClerk DEF IInv, ScoredOnce

LEMMA InsertScoreStep ==
  ASSUME IInv, NEW c \in Clerks, InsertScore(c)
  PROVE  IInv'
<1>1. PICK s \in Students, t \in tests :
        /\ clerks[c].about = {s} /\ clerks[c].test = {t}
        /\ clerks[c].marks \in Nat /\ clerks[c].marks <= MaxMarks[t]
        /\ Matched(c) = { x \in scores : x.student = s /\ x.test = t }
  BY Scoring DEF InsertScore
<1>2. CASE Duplicate(c)
  BY <1>2, NoScoreStep DEF InsertScore
<1>3. CASE ~ Duplicate(c)
  <2> DEFINE y == NewScore(c, s, t)
  <2>1. Cardinality(scores) + 1 \in Nat
    BY FS_CardinalityType DEF IInv
  <2>2. /\ y \in ScoreType /\ y.student = s /\ y.test = t /\ y.marks = clerks[c].marks
    BY <1>1, <2>1 DEF NewScore, ScoreType, IInv
  <2>3. scores' = scores \cup {y} /\ End(c) /\ UNCHANGED <<students, batches, tests>>
    BY <1>1, <1>3 DEF InsertScore
  <2>4. \A x \in scores : ~ (x.student = s /\ x.test = t)
    BY <1>1, <1>3 DEF Duplicate
  <2> HIDE DEF y
  <2>5. scores' \subseteq ScoreType /\ IsFiniteSet(scores')
    BY <2>2, <2>3, FS_AddElement DEF IInv
  <2>6. ScoredOnce'
    BY <2>2, <2>3, <2>4 DEF IInv, ScoredOnce
  <2>7. \A z \in scores' : z.test \in tests /\ z.marks <= MaxMarks[z.test]
    BY <1>1, <2>2, <2>3 DEF IInv
  <2> QED
    BY <2>3, <2>5, <2>6, <2>7, FreeClerk, PreservedByClerk
<1> QED
  BY <1>2, <1>3

LEMMA StepInvariant ==
  ASSUME IInv, [Next]_vars
  PROVE  IInv'
<1>1. CASE UNCHANGED vars
  BY <1>1 DEF vars, IInv, ClerkOK, ScoredOnce
<1>2. ASSUME NEW c \in Clerks, NoScore(c) PROVE IInv'
  BY <1>2, NoScoreStep DEF NoScore
<1>3. ASSUME NEW c \in Clerks, NEW s \in Students, NEW t \in Tests,
             NEW marks \in 0 .. MaxMarks[t] + 1, StartScore(c, s, t, marks)
      PROVE  IInv'
  <2>1. marks \in Nat
    BY RosterAssumption DEF Tests
  <2> QED
    BY <1>3, <2>1, StartScoreStep
<1> QED
  BY <1>1, <1>2, <1>3, StudentSteps, BatchSteps, CreateTestStep, StartSteps, BatchIdSteps,
     MatchScoreStep, InsertScoreStep DEF Next

THEOREM InvariantHolds == Spec => []IInv
BY InitInvariant, StepInvariant, PTL DEF Spec

\* Types, and that scores are for tests that exist, within their marks.
THEOREM TypeCorrect == Spec => []TypeOK
BY InvariantHolds, InvariantImplies, PTL

\* However many teachers record at once, a student has one score per test.
THEOREM OneScorePerTest == Spec => []ScoredOnce
<1>1. IInv => ScoredOnce
  BY DEF IInv
<1> QED
  BY <1>1, InvariantHolds, PTL

-----------------------------------------------------------------------------
(* Enrolments *)

LEMMA StepKeeps ==
  ASSUME IInv, [Next]_vars, NEW s \in Students,
         ~ (students[s].batchIds \subseteq students'[s].batchIds)
  PROVE  \E c \in Clerks : clerks[c].pc = "edit" /\ s \in clerks[c].about
                           /\ clerks'[c] = Free
<1>1. ASSUME NEW q \in Students, RemoveStudent(q) PROVE FALSE
  <2>1. students[s] \in StudentType
    BY DEF IInv
  <2>2. [students[s] EXCEPT !.state = "removed"].batchIds = students[s].batchIds
    BY <2>1 DEF StudentType
  <2> QED
    BY <1>1, <2>2 DEF RemoveStudent, IInv
<1>2. ASSUME NEW q \in Students, NEW batchIds \in SUBSET Batches, CreateStudent(q, batchIds)
      PROVE  FALSE
  BY <1>2 DEF CreateStudent, IInv, NewStudent
<1>3. ASSUME NEW c \in Clerks, Enroll(c) PROVE FALSE
  <2>1. students[s] \in StudentType
    BY DEF IInv
  <2>2. AddBatch(s, c).batchIds = students[s].batchIds \cup clerks[c].batchIds
    BY <2>1 DEF AddBatch, StudentType
  <2> QED
    BY <1>3, <2>2 DEF Enroll
<1>4. ASSUME NEW c \in Clerks, NEW b \in Batches, UpdateStudent(c, b)
      PROVE  clerks[c].pc = "edit" /\ s \in clerks[c].about /\ clerks'[c] = Free
  BY <1>4 DEF UpdateStudent, End, IInv
<1>5. \/ students' = students
      \/ \E q \in Students : RemoveStudent(q)
      \/ \E q \in Students, batchIds \in SUBSET Batches : CreateStudent(q, batchIds)
      \/ \E c \in Clerks : Enroll(c)
      \/ \E c \in Clerks, b \in Batches : UpdateStudent(c, b)
  BY DEF Next, vars, CreateBatch, RemoveBatch, CreateTest, StartEnroll, ViewStudent,
     StartScore, MatchScore, NoScore, InsertScore
<1> QED
  BY <1>1, <1>2, <1>3, <1>4, <1>5

\* A student leaves a batch by an update of that student alone.
THEOREM KeptEnrolments == Spec => EnrolmentKept
<1>1. ASSUME IInv, [Next]_vars
      PROVE  \A s \in Students :
               ~ (students[s].batchIds \subseteq students'[s].batchIds) =>
                 \E c \in Clerks : clerks[c].pc = "edit" /\ s \in clerks[c].about
                                   /\ clerks'[c] = Free
  BY <1>1, StepKeeps
<1> QED
  BY <1>1, InvariantHolds, PTL DEF Spec, EnrolmentKept

-----------------------------------------------------------------------------
(* The performance report *)

\* A student has no more scores than there are tests.
LEMMA NoMoreScoresThanTests ==
  ASSUME IInv, IsFiniteSet(tests), NEW s
  PROVE  /\ IsFiniteSet({ x \in scores : x.student = s })
         /\ Cardinality({ x \in scores : x.student = s }) <= Cardinality(tests)
<1> DEFINE rows == { x \in scores : x.student = s }
           testOf == [x \in rows |-> x.test]
<1>1. testOf \in [rows -> tests]
  BY DEF IInv
<1>2. \A x, y \in rows : testOf[x] = testOf[y] => x = y
  BY DEF IInv, ScoredOnce
<1> HIDE DEF rows, testOf
<1>3. testOf \in Injection(rows, tests)
  BY <1>1, <1>2 DEF Injection, IsInjective
<1>4. IsFiniteSet(rows) /\ Cardinality(rows) <= Cardinality(tests)
  BY <1>3, FS_Injection
<1> QED
  BY <1>4 DEF rows

\* An average of marks, none above m, is not above m.
LEMMA AverageBound ==
  ASSUME NEW sum \in Int, NEW n \in Nat \ {0}, NEW m \in Nat, sum <= m * n
  PROVE  Hundredths(sum, n) <= 100 * m
<1>1. m * n \in Int /\ (2 * n) * (100 * m + 1) = 200 * (m * n) + 2 * n
  OBVIOUS
<1>2. 200 * sum + n < (2 * n) * (100 * m + 1)
  BY <1>1
<1>3. 200 * sum + n \in Int /\ 2 * n \in Nat \ {0} /\ 100 * m \in Int
  OBVIOUS
<1>4. (200 * sum + n) \div (2 * n) <= 100 * m
  BY <1>2, <1>3, DivBound
<1> QED
  BY <1>4 DEF Hundredths

LEMMA SoundReport ==
  ASSUME IInv, IsFiniteSet(tests) PROVE PerformanceIsSound
<1> SUFFICES ASSUME NEW x \in scores
             PROVE  LET report == performanceSummary(scores, x.student)
                    IN  /\ report.tests <= Cardinality(tests)
                        /\ report.avgMarks <= 100 * Max({ MaxMarks[t] : t \in tests })
  BY DEF PerformanceIsSound
<1> DEFINE rows == { y \in scores : y.student = x.student }
           marks == [y \in rows |-> y.marks]
           allowed == { MaxMarks[t] : t \in tests }
           most == Max(allowed)
<1>1. IsFiniteSet(rows) /\ Cardinality(rows) <= Cardinality(tests)
  BY NoMoreScoresThanTests
<1>2. Cardinality(rows) \in Nat \ {0}
  <2>1. x \in rows
    OBVIOUS
  <2> QED
    BY <1>1, <2>1, FS_CardinalityType, FS_EmptySet
<1>3. most \in Nat /\ \A t \in tests : MaxMarks[t] <= most
  <2>1. \A t \in tests : MaxMarks[t] \in Nat
    BY RosterAssumption DEF IInv, Tests
  <2>2. IsFiniteSet(allowed)
    <3> DEFINE most1 == [t \in tests |-> MaxMarks[t]]
    <3>1. most1 \in Surjection(tests, allowed)
      BY DEF Surjection
    <3> QED
      BY <3>1, FS_Surjection
  <2>3. allowed # {} /\ allowed \subseteq Nat
    BY <2>1 DEF IInv
  <2> QED
    BY <2>1, <2>2, <2>3, FiniteMax
<1>4. \A y \in rows : marks[y] \in Int /\ marks[y] <= most
  BY <1>3, RosterAssumption DEF IInv, ScoreType, Tests
<1> HIDE DEF most
<1>5. SumFunctionOnSet(marks, rows) \in Int /\ SumFunctionOnSet(marks, rows) <= most * Cardinality(rows)
  <2> HIDE DEF rows, marks
  <2> QED
    BY <1>1, <1>3, <1>4, SumType, SumBound
<1>6. SumFunction(marks) = SumFunctionOnSet(marks, rows)
  BY DEF SumFunction
<1>7. Hundredths(SumFunction(marks), Cardinality(rows)) <= 100 * most
  <2> HIDE DEF rows, marks
  <2> QED
    BY <1>2, <1>3, <1>5, <1>6, AverageBound
<1>8. /\ performanceSummary(scores, x.student).tests = Cardinality(rows)
      /\ performanceSummary(scores, x.student).avgMarks
           = Hundredths(SumFunction(marks), Cardinality(rows))
  BY DEF performanceSummary
<1> QED
  BY <1>1, <1>7, <1>8 DEF most

TestsFinite == IsFiniteSet(tests)

\* The performance report counts a student's test once and shows no average
\* above what the tests allow, however many teachers record at once.
THEOREM ReportIsSound == Spec => []PerformanceIsSound
<1>1. Init => TestsFinite
  BY FS_EmptySet DEF Init, TestsFinite
<1>2. TestsFinite /\ [Next]_vars => TestsFinite'
  <2>1. ASSUME NEW t \in Tests, CreateTest(t), TestsFinite PROVE TestsFinite'
    BY <2>1, FS_AddElement DEF CreateTest, TestsFinite
  <2>2. ASSUME [Next]_vars PROVE tests' = tests \/ \E t \in Tests : CreateTest(t)
    BY <2>2 DEF Next, vars, RemoveStudent, CreateStudent, CreateBatch, RemoveBatch, StartEnroll,
       ViewStudent, UpdateStudent, StartScore, Enroll, MatchScore, NoScore, InsertScore
  <2> QED
    BY <2>1, <2>2 DEF TestsFinite
<1>3. IInv /\ TestsFinite => PerformanceIsSound
  BY SoundReport DEF TestsFinite
<1> QED
  BY <1>1, <1>2, <1>3, InvariantHolds, PTL DEF Spec
=============================================================================

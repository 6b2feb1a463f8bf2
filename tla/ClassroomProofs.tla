--------------------------- MODULE ClassroomProofs ---------------------------
(***************************************************************************)
(* Records, grades and notices for any number of students, batches, rolls  *)
(* and requests.                                                           *)
(***************************************************************************)
EXTENDS Classroom, FiniteSetTheorems, TLAPS

Entries == Students \X {"PRESENT", "ABSENT"}
RequestType ==
  [pc : {"idle", "match", "insert", "findStudent", "notify", "dispatch", "send", "save",
         "review"},
   type : {"absence", "graded"}, batch : Batches \cup {0}, entries : SUBSET Entries,
   student : Students \cup {0}, status : {"PRESENT", "ABSENT"}, file : Nat, note : Nat,
   outcome : {"SENT", "FAILED"}]
RecordType == [id : Nat, student : Students, batch : Batches, status : {"PRESENT", "ABSENT"}]
NoteType == [type : {"absence", "graded"}, about : Students \cup {0},
             status : {"QUEUED", "SENT", "FAILED"}, lost : BOOLEAN]
WorkType == [file : Nat, graded : Nat]

InPipeline(q) == q.pc \in {"dispatch", "send", "save"}

\* What a request carries at each of its stretches.
RequestOK(q) ==
  /\ q \in RequestType
  /\ q.pc \in {"match", "insert", "findStudent", "notify", "review"} => q.student \in Students
  /\ q.pc \in {"match", "insert"} => q.batch \in Batches /\ q.type = "absence"
  /\ q.entries # {} => q.batch \in Batches
  /\ q.pc = "review" => q.type = "graded" /\ q.file > 0

RequestsOK ==
  /\ requests \in [Requests -> RequestType]
  /\ \A r \in Requests : RequestOK(requests[r])

\* The unique index, and what it keeps out.
RecordsOK ==
  /\ attendance \subseteq RecordType /\ IsFiniteSet(attendance)
  /\ \A a, b \in attendance : a.student = b.student /\ a.batch = b.batch => a = b

\* A notification in the pipeline belongs to one request.
NotesOK ==
  /\ notes \in Seq(NoteType)
  /\ \A r \in Requests : requests[r].note \in 0..Len(notes)
  /\ \A r \in Requests : InPipeline(requests[r]) =>
       requests[r].note > 0 /\ notes[requests[r].note].status = "QUEUED"
  /\ \A q, r \in Requests :
       InPipeline(requests[q]) /\ InPipeline(requests[r]) /\ requests[q].note = requests[r].note
       => q = r

\* A teacher looks at the file there is, unless it was replaced meanwhile.
ReviewOK(r) ==
  requests[r].pc = "review" =>
    /\ requests[r].file <= work[requests[r].student].file
    /\ requests[r].student \notin raced =>
         requests[r].file = work[requests[r].student].file

GradesOK ==
  /\ work \in [Students -> WorkType]
  /\ \A s \in Students : work[s].graded <= work[s].file
  /\ raced \subseteq Students
  /\ \A r \in Requests : ReviewOK(r)
  /\ GradeIsOfFile

CountersOK ==
  /\ removed \subseteq Students
  /\ orphans \subseteq DOMAIN notes
  /\ requestsLeft \in 0..MaxRequests /\ abortsLeft \in 0..MaxAborts

IInv == RequestsOK /\ RecordsOK /\ NotesOK /\ GradesOK /\ CountersOK

LEMMA IdleOK == RequestOK(Idle) /\ Idle.pc = "idle" /\ Idle.note = 0
BY DEF RequestOK, RequestType, Idle

LEMMA InitInvariant == Init => IInv
<1> SUFFICES ASSUME Init PROVE IInv
  OBVIOUS
<1>1. RequestsOK
  BY IdleOK DEF Init, RequestsOK, RequestOK
<1>2. RecordsOK
  BY FS_EmptySet DEF Init, RecordsOK
<1>3. NotesOK
  BY IdleOK DEF Init, NotesOK, InPipeline
<1>4. GradesOK
  BY IdleOK DEF Init, GradesOK, NoWork, WorkType, ReviewOK, GradeIsOfFile
<1>5. CountersOK
  BY ClassroomAssumption DEF Init, CountersOK
<1> QED
  BY <1>1, <1>2, <1>3, <1>4, <1>5 DEF IInv

LEMMA InvariantImplies == ASSUME IInv PROVE TypeOK
<1>1. \A s \in Students : work[s].file \in Nat /\ work[s].graded \in 0..work[s].file
  BY DEF IInv, GradesOK, WorkType
<1>2. \A a \in attendance : /\ a.student \in Students /\ a.batch \in Batches
                            /\ a.status \in {"PRESENT", "ABSENT"}
  BY DEF IInv, RecordsOK, RecordType
<1>3. \A n \in DOMAIN notes : notes[n].status \in {"QUEUED", "SENT", "FAILED"}
  <2>1. \A n \in DOMAIN notes : notes[n] \in NoteType
    BY DEF IInv, NotesOK
  <2> QED
    BY <2>1 DEF NoteType
<1>4. \A r \in Requests : InPipeline(requests[r]) =>
        requests[r].note \in DOMAIN notes /\ notes[requests[r].note].status = "QUEUED"
  BY DEF IInv, NotesOK
<1> QED
  BY <1>1, <1>2, <1>3, <1>4 DEF IInv, NotesOK, CountersOK, GradesOK, InPipeline, TypeOK

-----------------------------------------------------------------------------
(* The invariant, action by action *)

\* A request that goes on outside the pipeline, without a file to grade.
LEMMA Goes ==
  ASSUME IInv, NEW r \in Requests, NEW q, RequestOK(q), q.note \in 0..Len(notes),
         ~ InPipeline(q), q.pc # "review",
         requests' = [requests EXCEPT ![r] = q], UNCHANGED <<notes, work, raced>>
  PROVE  RequestsOK' /\ NotesOK' /\ GradesOK'
<1>1. /\ requests' \in [Requests -> RequestType] /\ requests'[r] = q
      /\ \A p \in Requests \ {r} : requests'[p] = requests[p]
  BY DEF IInv, RequestsOK, RequestOK
<1>2. RequestsOK'
  BY <1>1 DEF IInv, RequestsOK, RequestOK
<1>3. NotesOK'
  BY <1>1 DEF IInv, NotesOK, InPipeline
<1>4. \A p \in Requests : ReviewOK(p)'
  BY <1>1 DEF IInv, GradesOK, ReviewOK
<1> QED
  BY <1>2, <1>3, <1>4 DEF IInv, GradesOK, GradeIsOfFile

\* The marking loop takes one of its entries.
LEMMA NextEntry ==
  ASSUME NEW b \in Batches, NEW entries \in SUBSET Entries, NEW e \in entries
  PROVE  /\ RequestOK(Marking(b, entries, e)) /\ Marking(b, entries, e).note = 0
         /\ Marking(b, entries, e).pc = "match"
<1>1. e[1] \in Students /\ e[2] \in {"PRESENT", "ABSENT"}
  BY DEF Entries
<1> QED
  BY <1>1, IdleOK DEF Marking, Idle, RequestOK, RequestType

\* Where a request goes after a notice or an entry without one.
LEMMA Returns ==
  ASSUME IInv, NEW r \in Requests, Return(r)
  PROVE  \E q : /\ RequestOK(q) /\ q.note = 0 /\ q.pc \in {"idle", "match"}
                /\ requests' = [requests EXCEPT ![r] = q]
<1>1. CASE requests[r].entries = {}
  BY <1>1, IdleOK DEF Return, End
<1>2. CASE requests[r].entries # {}
  <2>1. requests[r].entries \in SUBSET Entries /\ requests[r].batch \in Batches
    BY <1>2 DEF IInv, RequestsOK, RequestOK, RequestType
  <2>2. PICK e \in requests[r].entries :
          requests' = [requests EXCEPT ![r] =
                         Marking(requests[r].batch, requests[r].entries, e)]
    BY <1>2 DEF Return
  <2> QED
    BY <2>1, <2>2, NextEntry
<1> QED
  BY <1>1, <1>2

\* A request that goes on to pc with what it has.
LEMMA GoesTo ==
  ASSUME IInv, NEW r \in Requests, NEW pc \in {"match", "insert", "findStudent", "notify"},
         requests[r].pc \in {"match", "insert", "findStudent"},
         pc \in {"match", "insert"} => requests[r].pc \in {"match", "insert"},
         requests' = [requests EXCEPT ![r].pc = pc], UNCHANGED <<notes, work, raced>>
  PROVE  RequestsOK' /\ NotesOK' /\ GradesOK'
<1> DEFINE q == [requests[r] EXCEPT !.pc = pc]
<1>1. requests[r] \in RequestType /\ RequestOK(requests[r]) /\ requests[r].note \in 0..Len(notes)
  BY DEF IInv, RequestsOK, NotesOK
<1>2. RequestOK(q) /\ q.pc = pc /\ q.note = requests[r].note
  BY <1>1 DEF RequestOK, RequestType
<1>3. requests' = [requests EXCEPT ![r] = q]
  BY DEF IInv, RequestsOK
<1>4. ~ InPipeline(q) /\ q.pc # "review"
  BY <1>2 DEF InPipeline
<1> HIDE DEF q
<1> QED
  BY <1>1, <1>2, <1>3, <1>4, Goes

LEMMA AfterWrite ==
  ASSUME IInv, NEW r \in Requests, requests[r].pc \in {"match", "insert"}, Written(r),
         UNCHANGED <<notes, work, raced>>
  PROVE  RequestsOK' /\ NotesOK' /\ GradesOK'
<1>1. CASE requests[r].status = "ABSENT"
  BY <1>1, GoesTo DEF Written
<1>2. CASE requests[r].status # "ABSENT"
  <2>1. PICK q : /\ RequestOK(q) /\ q.note = 0 /\ q.pc \in {"idle", "match"}
                 /\ requests' = [requests EXCEPT ![r] = q]
    BY <1>2, Returns DEF Written
  <2>2. ~ InPipeline(q) /\ q.pc # "review" /\ q.note \in 0..Len(notes)
    BY <2>1 DEF InPipeline, IInv, NotesOK
  <2> QED
    BY <2>1, <2>2, Goes
<1> QED
  BY <1>1, <1>2

LEMMA RemoveStep ==
  ASSUME IInv, NEW s \in Students, RemoveStudent(s)
  PROVE  IInv'
BY DEF RemoveStudent, IInv, RequestsOK, RequestOK, RecordsOK, NotesOK, GradesOK, ReviewOK,
       GradeIsOfFile, CountersOK, InPipeline

\* A new file is ungraded; who looks at the old one is noted.
LEMMA SubmitStep ==
  ASSUME IInv, NEW s \in Students, Submit(s)
  PROVE  IInv'
<1>1. /\ work' = [work EXCEPT ![s] = Resubmitted(work[s])]
      /\ raced' = IF Reviewers(s) = {} THEN raced \ {s} ELSE raced \cup {s}
      /\ UNCHANGED <<removed, attendance, notes, requests, orphans, requestsLeft, abortsLeft>>
  BY DEF Submit
<1>2. work[s].file \in Nat
  BY DEF IInv, GradesOK, WorkType
<1>3. Resubmitted(work[s]) = [file |-> work[s].file + 1, graded |-> 0]
  BY DEF Resubmitted
<1>4. /\ work' \in [Students -> WorkType]
      /\ work'[s].file = work[s].file + 1 /\ work'[s].graded = 0
      /\ \A t \in Students \ {s} : work'[t] = work[t]
  BY <1>1, <1>2, <1>3 DEF IInv, GradesOK, WorkType
<1>5. raced' \subseteq Students /\ \A t \in Students \ {s} : t \in raced' <=> t \in raced
  BY <1>1 DEF IInv, GradesOK
<1>6. \A t \in Students : work'[t].graded <= work'[t].file
  BY <1>2, <1>4 DEF IInv, GradesOK
<1>7. GradeIsOfFile'
  BY <1>4, <1>5 DEF IInv, GradesOK, GradeIsOfFile
<1>8. ASSUME NEW r \in Requests PROVE ReviewOK(r)'
  <2>1. requests[r] \in RequestType /\ RequestOK(requests[r])
    BY DEF IInv, RequestsOK
  <2>2. CASE requests[r].pc = "review" /\ requests[r].student = s
    <3>1. s \in raced'
      BY <1>1, <2>2 DEF Reviewers
    <3>2. requests[r].file <= work[s].file + 1
      BY <1>2, <2>1, <2>2 DEF IInv, GradesOK, ReviewOK, RequestType
    <3> QED
      BY <1>1, <1>4, <2>2, <3>1, <3>2 DEF ReviewOK
  <2>3. CASE requests[r].pc = "review" /\ requests[r].student # s
    <3>1. requests[r].student \in Students \ {s}
      BY <2>1, <2>3 DEF RequestOK
    <3>2. ReviewOK(r)
      BY DEF IInv, GradesOK
    <3> QED
      BY <1>1, <1>4, <1>5, <2>3, <3>1, <3>2 DEF ReviewOK
  <2> QED
    BY <1>1, <2>2, <2>3 DEF ReviewOK
<1>9. GradesOK'
  BY <1>4, <1>5, <1>6, <1>7, <1>8 DEF GradesOK
<1> QED
  BY <1>1, <1>9 DEF IInv, RequestsOK, RequestOK, RecordsOK, NotesOK, InPipeline, CountersOK

LEMMA StartMarkStep ==
  ASSUME IInv, NEW r \in Requests, NEW b \in Batches, NEW entries \in Rolls,
         StartMark(r, b, entries)
  PROVE  IInv'
<1>1. entries \in SUBSET Entries
  BY ClassroomAssumption DEF Entries
<1>2. PICK e \in entries : requests' = [requests EXCEPT ![r] = Marking(b, entries, e)]
  BY DEF StartMark
<1>3. /\ RequestOK(Marking(b, entries, e)) /\ ~ InPipeline(Marking(b, entries, e))
      /\ Marking(b, entries, e).pc # "review" /\ Marking(b, entries, e).note \in 0..Len(notes)
  BY <1>1, NextEntry DEF InPipeline, IInv, NotesOK
<1>4. RequestsOK' /\ NotesOK' /\ GradesOK'
  BY <1>2, <1>3, Goes DEF StartMark
<1> QED
  BY <1>4, ClassroomAssumption DEF StartMark, IInv, RecordsOK, CountersOK

LEMMA MatchStep ==
  ASSUME IInv, NEW r \in Requests, Match(r)
  PROVE  IInv'
<1>1. /\ requests[r].pc = "match" /\ Written(r)
      /\ UNCHANGED <<removed, work, notes, raced, orphans, requestsLeft, abortsLeft>>
  BY DEF Match
<1>2. RequestsOK' /\ NotesOK' /\ GradesOK'
  BY <1>1, AfterWrite
<1>3. RecordsOK'
  <2>1. PICK a \in Matched(r) :
          attendance' = (attendance \ {a}) \cup {[a EXCEPT !.status = requests[r].status]}
    BY DEF Match
  <2> DEFINE b == [a EXCEPT !.status = requests[r].status]
  <2>2. a \in attendance /\ a \in RecordType
    BY <2>1 DEF Matched, IInv, RecordsOK
  <2>3. requests[r].status \in {"PRESENT", "ABSENT"}
    BY DEF IInv, RequestsOK, RequestType
  <2>4. b \in RecordType /\ b.student = a.student /\ b.batch = a.batch
    BY <2>2, <2>3 DEF RecordType
  <2>5. IsFiniteSet(attendance')
    BY <2>1, FS_AddElement, FS_RemoveElement DEF IInv, RecordsOK
  <2> HIDE DEF b
  <2>6. attendance' = (attendance \ {a}) \cup {b}
    BY <2>1 DEF b
  <2>7. \A c \in attendance \ {a} : ~ (c.student = b.student /\ c.batch = b.batch)
    BY <2>2, <2>4 DEF IInv, RecordsOK
  <2>8. \A c, d \in attendance' : c.student = d.student /\ c.batch = d.batch => c = d
    BY <2>6, <2>7 DEF IInv, RecordsOK
  <2>9. attendance' \subseteq RecordType
    BY <2>4, <2>6 DEF IInv, RecordsOK
  <2> QED
    BY <2>5, <2>8, <2>9 DEF RecordsOK
<1> QED
  BY <1>1, <1>2, <1>3 DEF IInv, CountersOK

\* The index refuses what it must.
LEMMA InsertStep ==
  ASSUME IInv, NEW r \in Requests, Insert(r)
  PROVE  IInv'
<1>1. /\ requests[r].pc = "insert"
      /\ UNCHANGED <<removed, work, notes, raced, orphans, requestsLeft, abortsLeft>>
  BY DEF Insert
<1>2. CASE Duplicate(r)
  <2>1. requests' = [requests EXCEPT ![r].pc = "match"] /\ UNCHANGED attendance
    BY <1>2 DEF Insert
  <2>2. RequestsOK' /\ NotesOK' /\ GradesOK'
    BY <1>1, <2>1, GoesTo
  <2> QED
    BY <1>1, <2>1, <2>2 DEF IInv, RecordsOK, CountersOK
<1>3. CASE ~ Duplicate(r)
  <2>1. Matched(r) = {} /\ attendance' = attendance \cup {NewRecord(r)} /\ Written(r)
    BY <1>3 DEF Insert, Duplicate
  <2>2. RequestsOK' /\ NotesOK' /\ GradesOK'
    BY <1>1, <2>1, AfterWrite
  <2>3. /\ requests[r].student \in Students /\ requests[r].batch \in Batches
        /\ requests[r].status \in {"PRESENT", "ABSENT"}
    BY <1>1 DEF IInv, RequestsOK, RequestOK, RequestType
  <2>4. Cardinality(attendance) \in Nat
    BY FS_CardinalityType DEF IInv, RecordsOK
  <2>5. /\ NewRecord(r) \in RecordType /\ NewRecord(r).student = requests[r].student
        /\ NewRecord(r).batch = requests[r].batch
    BY <2>3, <2>4 DEF NewRecord, RecordType
  <2>6. \A a \in attendance : ~ (/\ a.student = NewRecord(r).student
                                 /\ a.batch = NewRecord(r).batch)
    BY <2>1, <2>5 DEF Matched
  <2>7. IsFiniteSet(attendance')
    BY <2>1, FS_AddElement DEF IInv, RecordsOK
  <2>8. RecordsOK'
    BY <2>1, <2>5, <2>6, <2>7 DEF IInv, RecordsOK
  <2> QED
    BY <1>1, <2>2, <2>8 DEF IInv, CountersOK
<1> QED
  BY <1>2, <1>3

LEMMA NoMatchStep ==
  ASSUME IInv, NEW r \in Requests, NoMatch(r)
  PROVE  IInv'
<1>1. RequestsOK' /\ NotesOK' /\ GradesOK'
  BY GoesTo DEF NoMatch
<1> QED
  BY <1>1 DEF NoMatch, IInv, RecordsOK, CountersOK

LEMMA FindStudentStep ==
  ASSUME IInv, NEW r \in Requests, FindStudent(r)
  PROVE  IInv'
<1>1. /\ requests[r].pc = "findStudent"
      /\ UNCHANGED <<removed, attendance, work, notes, raced, orphans, requestsLeft, abortsLeft>>
  BY DEF FindStudent
<1>2. CASE Here(requests[r].student)
  BY <1>1, <1>2, GoesTo DEF FindStudent, IInv, RecordsOK, CountersOK
<1>3. CASE ~ Here(requests[r].student)
  <2>1. PICK q : /\ RequestOK(q) /\ q.note = 0 /\ q.pc \in {"idle", "match"}
                 /\ requests' = [requests EXCEPT ![r] = q]
    BY <1>3, Returns DEF FindStudent
  <2>2. ~ InPipeline(q) /\ q.pc # "review" /\ q.note \in 0..Len(notes)
    BY <2>1 DEF InPipeline, IInv, NotesOK
  <2>3. RequestsOK' /\ NotesOK' /\ GradesOK'
    BY <1>1, <2>1, <2>2, Goes
  <2> QED
    BY <1>1, <2>3 DEF IInv, RecordsOK, CountersOK
<1> QED
  BY <1>2, <1>3
\* A request in the pipeline keeps its notification, which stays QUEUED; the
\* other notifications are not touched.
LEMMA StaysInPipeline ==
  ASSUME IInv, NEW r \in Requests, NEW q, RequestOK(q), q.pc \in {"dispatch", "send", "save"},
         q.note = requests[r].note, InPipeline(requests[r]),
         requests' = [requests EXCEPT ![r] = q],
         notes' \in Seq(NoteType), Len(notes') = Len(notes),
         \A n \in 1..Len(notes) : notes'[n].status = notes[n].status,
         UNCHANGED <<removed, attendance, work, raced, orphans, requestsLeft, abortsLeft>>
  PROVE  IInv'
<1>1. /\ requests' \in [Requests -> RequestType] /\ requests'[r] = q
      /\ \A p \in Requests \ {r} : requests'[p] = requests[p]
  BY DEF IInv, RequestsOK, RequestOK
<1>2. RequestsOK'
  BY <1>1 DEF IInv, RequestsOK, RequestOK
<1>3. NotesOK'
  <2>1. \A p \in Requests : requests'[p].note = requests[p].note
    BY <1>1
  <2>2. \A p \in Requests : InPipeline(requests'[p]) <=> InPipeline(requests[p])
    BY <1>1 DEF InPipeline
  <2>3. \A p \in Requests : requests[p].note \in 0..Len(notes)
    BY DEF IInv, NotesOK
  <2>4. ASSUME NEW p \in Requests, InPipeline(requests[p])
        PROVE  requests[p].note > 0 /\ notes'[requests[p].note].status = "QUEUED"
    <3>1. requests[p].note \in 1..Len(notes) /\ notes[requests[p].note].status = "QUEUED"
      BY <2>3, <2>4 DEF IInv, NotesOK
    <3> QED
      BY <3>1
  <2> QED
    BY <2>1, <2>2, <2>3, <2>4 DEF IInv, NotesOK
<1>4. \A p \in Requests : ReviewOK(p)'
  BY <1>1 DEF IInv, GradesOK, ReviewOK
<1>5. DOMAIN notes' = DOMAIN notes
  BY DEF IInv, NotesOK
<1> QED
  BY <1>2, <1>3, <1>4, <1>5 DEF IInv, RecordsOK, GradesOK, GradeIsOfFile, CountersOK

LEMMA FindDevicesStep ==
  ASSUME IInv, NEW r \in Requests, FindDevices(r)
  PROVE  IInv'
<1>1. PICK pc \in {"send", "save"}, outcome \in {"SENT", "FAILED"} :
        requests' = [requests EXCEPT ![r] = [requests[r] EXCEPT !.pc = pc, !.outcome = outcome]]
  <2>1. requests \in [Requests -> RequestType] /\ requests[r].outcome \in {"SENT", "FAILED"}
    BY DEF IInv, RequestsOK, RequestType
  <2>2. [requests[r] EXCEPT !.pc = "send"]
          = [requests[r] EXCEPT !.pc = "send", !.outcome = requests[r].outcome]
    BY <2>1 DEF RequestType
  <2>3. \/ requests' = [requests EXCEPT ![r] = [requests[r] EXCEPT !.pc = "save", !.outcome = "FAILED"]]
        \/ requests' = [requests EXCEPT ![r] = [requests[r] EXCEPT !.pc = "save", !.outcome = "SENT"]]
        \/ requests' = [requests EXCEPT ![r] = [requests[r] EXCEPT !.pc = "send"]]
    BY <2>1 DEF FindDevices
  <2> QED
    BY <2>1, <2>2, <2>3
<1> DEFINE q == [requests[r] EXCEPT !.pc = pc, !.outcome = outcome]
<1>2. requests[r] \in RequestType /\ RequestOK(requests[r]) /\ requests[r].pc = "dispatch"
  BY DEF FindDevices, IInv, RequestsOK
<1>3. RequestOK(q) /\ q.pc = pc /\ q.note = requests[r].note
  BY <1>2 DEF RequestOK, RequestType
<1> HIDE DEF q
<1>4. requests' = [requests EXCEPT ![r] = q]
  BY <1>1 DEF q
<1> QED
  BY <1>2, <1>3, <1>4, StaysInPipeline DEF FindDevices, InPipeline, IInv, NotesOK

LEMMA SendStep ==
  ASSUME IInv, NEW r \in Requests, Send(r)
  PROVE  IInv'
<1> DEFINE q == [requests[r] EXCEPT !.pc = "save", !.outcome = "SENT"]
<1>1. requests[r] \in RequestType /\ RequestOK(requests[r]) /\ requests[r].pc = "send"
  BY DEF Send, IInv, RequestsOK
<1>2. RequestOK(q) /\ q.pc = "save" /\ q.note = requests[r].note
  BY <1>1 DEF RequestOK, RequestType
<1>3. requests' = [requests EXCEPT ![r] = q]
  BY DEF Send, IInv, RequestsOK
<1>4. PICK lost \in BOOLEAN : notes' = [notes EXCEPT ![requests[r].note].lost = lost]
  BY DEF Send
<1>5. requests[r].note \in 1..Len(notes)
  BY <1>1 DEF InPipeline, IInv, NotesOK
<1>6. notes[requests[r].note] \in NoteType
  BY <1>5 DEF IInv, NotesOK
<1>7. [notes[requests[r].note] EXCEPT !.lost = lost] \in NoteType
  BY <1>6 DEF NoteType
<1>8. notes' \in Seq(NoteType) /\ Len(notes') = Len(notes)
  BY <1>4, <1>5, <1>7 DEF IInv, NotesOK
<1>9. \A n \in 1..Len(notes) : notes'[n].status = notes[n].status
  BY <1>4, <1>6 DEF IInv, NotesOK, NoteType
<1> HIDE DEF q
<1> QED
  BY <1>1, <1>2, <1>3, <1>8, <1>9, StaysInPipeline DEF Send, InPipeline

\* The notification is the request's own, so no other one still relies on it.
LEMMA SaveNoteStep ==
  ASSUME IInv, NEW r \in Requests, SaveNote(r)
  PROVE  IInv'
<1>1. /\ requests[r].pc = "save" /\ Return(r)
      /\ notes' = [notes EXCEPT ![requests[r].note].status = requests[r].outcome]
      /\ UNCHANGED <<removed, attendance, work, raced, orphans, requestsLeft, abortsLeft>>
  BY DEF SaveNote
<1>2. PICK q : /\ RequestOK(q) /\ q.note = 0 /\ q.pc \in {"idle", "match"}
               /\ requests' = [requests EXCEPT ![r] = q]
  BY <1>1, Returns
<1>3. requests[r].note \in 1..Len(notes) /\ requests[r].outcome \in {"SENT", "FAILED"}
  BY <1>1 DEF InPipeline, IInv, NotesOK, RequestsOK, RequestType
<1>4. notes[requests[r].note] \in NoteType
  BY <1>3 DEF IInv, NotesOK
<1>5. [notes[requests[r].note] EXCEPT !.status = requests[r].outcome] \in NoteType
  BY <1>3, <1>4 DEF NoteType
<1>6. notes' \in Seq(NoteType) /\ Len(notes') = Len(notes) /\ DOMAIN notes' = DOMAIN notes
  BY <1>1, <1>3, <1>5 DEF IInv, NotesOK
<1>7. \A n \in 1..Len(notes) : n # requests[r].note => notes'[n] = notes[n]
  BY <1>1 DEF IInv, NotesOK
<1>8. /\ requests' \in [Requests -> RequestType] /\ requests'[r] = q
      /\ \A p \in Requests \ {r} : requests'[p] = requests[p]
  BY <1>2 DEF IInv, RequestsOK, RequestOK
<1>9. RequestsOK'
  BY <1>2, <1>8 DEF IInv, RequestsOK, RequestOK
<1>10. NotesOK'
  <2>1. ~ InPipeline(q) /\ q.note \in 0..Len(notes)
    BY <1>2 DEF InPipeline, IInv, NotesOK
  <2>2. \A p \in Requests : InPipeline(requests'[p]) => p # r /\ InPipeline(requests[p])
    BY <1>8, <2>1
  <2>3. \A p \in Requests : requests'[p].note \in 0..Len(notes')
    BY <1>6, <1>8, <2>1 DEF IInv, NotesOK
  <2>4. ASSUME NEW p \in Requests, InPipeline(requests'[p])
        PROVE  requests'[p].note > 0 /\ notes'[requests'[p].note].status = "QUEUED"
    <3>1. requests[p].note \in 1..Len(notes) /\ notes[requests[p].note].status = "QUEUED"
          /\ requests[p].note # requests[r].note
      BY <1>1, <2>2, <2>4 DEF IInv, NotesOK, InPipeline
    <3> QED
      BY <1>7, <1>8, <2>2, <2>4, <3>1
  <2> QED
    BY <1>6, <1>8, <2>2, <2>3, <2>4 DEF IInv, NotesOK
<1>11. \A p \in Requests : ReviewOK(p)'
  BY <1>1, <1>2, <1>8 DEF IInv, GradesOK, ReviewOK
<1> QED
  BY <1>1, <1>6, <1>9, <1>10, <1>11
  DEF IInv, RecordsOK, GradesOK, GradeIsOfFile, CountersOK

\* The new notification is nobody else's.
LEMMA NotifyStep ==
  ASSUME IInv, NEW r \in Requests, Notify(r)
  PROVE  IInv'
<1> DEFINE n == Len(notes) + 1
           q == [requests[r] EXCEPT !.pc = "dispatch", !.note = n, !.student = 0,
                                    !.status = "PRESENT"]
<1>1. requests[r] \in RequestType /\ RequestOK(requests[r]) /\ requests[r].pc = "notify"
  BY DEF Notify, IInv, RequestsOK
<1>2. Len(notes) \in Nat
  BY DEF IInv, NotesOK
<1>3. RequestOK(q) /\ q.pc = "dispatch" /\ q.note = n
  <2>1. n \in Nat
    BY <1>2
  <2> HIDE DEF n
  <2>2. /\ q \in RequestType /\ q.pc = "dispatch" /\ q.note = n
        /\ q.entries = requests[r].entries /\ q.batch = requests[r].batch
    BY <1>1, <2>1 DEF RequestType
  <2> HIDE DEF q
  <2> QED
    BY <1>1, <2>2 DEF RequestOK
<1>4. NewNote(r) \in NoteType /\ NewNote(r).status = "QUEUED"
  BY <1>1 DEF NewNote, NoteType, RequestType
<1>5. /\ notes' = Append(notes, NewNote(r)) /\ notes' \in Seq(NoteType) /\ Len(notes') = n
      /\ notes'[n] = NewNote(r) /\ \A m \in 1..Len(notes) : notes'[m] = notes[m]
      /\ DOMAIN notes \subseteq DOMAIN notes'
  BY <1>4 DEF Notify, IInv, NotesOK
<1>6. requests' = [requests EXCEPT ![r] = q]
  BY <1>5 DEF Notify, IInv, RequestsOK
<1> HIDE DEF q, n
<1>7. /\ requests' \in [Requests -> RequestType] /\ requests'[r] = q
      /\ \A p \in Requests \ {r} : requests'[p] = requests[p]
  BY <1>3, <1>6 DEF IInv, RequestsOK, RequestOK
<1>8. RequestsOK'
  BY <1>3, <1>7 DEF IInv, RequestsOK, RequestOK
<1>9. NotesOK'
  <2>1. n \in Nat /\ n > 0 /\ n = Len(notes) + 1
    BY <1>2 DEF n
  <2>2. \A p \in Requests \ {r} : requests'[p].note \in 0..Len(notes)
    BY <1>7 DEF IInv, NotesOK
  <2>3. \A p \in Requests : requests'[p].note \in 0..Len(notes')
    BY <1>2, <1>3, <1>5, <1>7, <2>1, <2>2
  <2>4. ASSUME NEW p \in Requests, InPipeline(requests'[p])
        PROVE  requests'[p].note > 0 /\ notes'[requests'[p].note].status = "QUEUED"
    <3>1. CASE p = r
      BY <1>3, <1>4, <1>5, <1>7, <2>1, <3>1
    <3>2. CASE p # r
      <4>1. requests[p].note \in 1..Len(notes) /\ notes[requests[p].note].status = "QUEUED"
        BY <1>7, <2>4, <3>2 DEF IInv, NotesOK
      <4> QED
        BY <1>5, <1>7, <3>2, <4>1
    <3> QED
      BY <3>1, <3>2
  <2>5. \A p \in Requests \ {r} : requests'[p].note # requests'[r].note
    BY <1>2, <1>3, <1>7, <2>1, <2>2
  <2> QED
    BY <1>5, <1>7, <2>3, <2>4, <2>5 DEF IInv, NotesOK
<1>10. \A p \in Requests : ReviewOK(p)'
  BY <1>3, <1>7 DEF Notify, IInv, GradesOK, ReviewOK
<1> QED
  BY <1>5, <1>8, <1>9, <1>10
  DEF Notify, IInv, RecordsOK, GradesOK, GradeIsOfFile, CountersOK

LEMMA ReviewStep ==
  ASSUME IInv, NEW r \in Requests, NEW s \in Students, Review(r, s)
  PROVE  IInv'
<1> DEFINE q == [Idle EXCEPT !.pc = "review", !.type = "graded", !.student = s,
                             !.file = work[s].file]
<1>1. work[s].file \in Nat /\ work[s].file > 0
  BY DEF Review, IInv, GradesOK, WorkType
<1>2. /\ RequestOK(q) /\ q.pc = "review" /\ q.note = 0 /\ q.student = s
      /\ q.file = work[s].file
  BY <1>1 DEF Idle, RequestOK, RequestType
<1>3. requests' = [requests EXCEPT ![r] = q]
  BY DEF Review
<1> HIDE DEF q
<1>4. /\ requests' \in [Requests -> RequestType] /\ requests'[r] = q
      /\ \A p \in Requests \ {r} : requests'[p] = requests[p]
  BY <1>2, <1>3 DEF IInv, RequestsOK, RequestOK
<1>5. RequestsOK'
  BY <1>2, <1>4 DEF IInv, RequestsOK, RequestOK
<1>6. NotesOK'
  <2>1. ~ InPipeline(q) /\ q.note \in 0..Len(notes)
    BY <1>2 DEF InPipeline, IInv, NotesOK
  <2> QED
    BY <1>4, <2>1 DEF Review, IInv, NotesOK, InPipeline
<1>7. \A p \in Requests : ReviewOK(p)'
  BY <1>1, <1>2, <1>4 DEF Review, IInv, GradesOK, ReviewOK
<1> QED
  BY <1>5, <1>6, <1>7, ClassroomAssumption
  DEF Review, IInv, RecordsOK, GradesOK, GradeIsOfFile, CountersOK

\* The grade is of the file the teacher saw: the one there is, unless raced.
LEMMA GradeStep ==
  ASSUME IInv, NEW r \in Requests, Grade(r)
  PROVE  IInv'
<1> DEFINE q == [requests[r] EXCEPT !.pc = "findStudent", !.file = 0]
           s == requests[r].student
           f == requests[r].file
<1>1. /\ requests[r] \in RequestType /\ RequestOK(requests[r]) /\ requests[r].pc = "review"
      /\ requests[r].note \in 0..Len(notes)
  BY DEF Grade, IInv, RequestsOK, NotesOK
<1>2. RequestOK(q) /\ q.pc = "findStudent" /\ q.note = requests[r].note
  BY <1>1 DEF RequestOK, RequestType
<1>3. requests' = [requests EXCEPT ![r] = q]
  BY DEF Grade, IInv, RequestsOK
<1>4. /\ s \in Students /\ f \in Nat /\ f <= work[s].file
      /\ s \notin raced => f = work[s].file
  BY <1>1 DEF RequestOK, RequestType, IInv, GradesOK, ReviewOK
<1>5. work' = [work EXCEPT ![s].graded = f]
  BY DEF Grade
<1> HIDE DEF q, s, f
<1>6. /\ requests' \in [Requests -> RequestType] /\ requests'[r] = q
      /\ \A p \in Requests \ {r} : requests'[p] = requests[p]
  BY <1>2, <1>3 DEF IInv, RequestsOK, RequestOK
<1>7. RequestsOK'
  BY <1>2, <1>6 DEF IInv, RequestsOK, RequestOK
<1>8. NotesOK'
  <2>1. ~ InPipeline(q) /\ q.note \in 0..Len(notes)
    BY <1>1, <1>2 DEF InPipeline
  <2> QED
    BY <1>6, <2>1 DEF Grade, IInv, NotesOK, InPipeline
<1>9. /\ work' \in [Students -> WorkType]
      /\ work'[s].graded = f
      /\ \A t \in Students : work'[t].file = work[t].file
      /\ \A t \in Students \ {s} : work'[t] = work[t]
  <2>1. work[s] \in WorkType
    BY <1>4 DEF IInv, GradesOK
  <2>2. /\ [work[s] EXCEPT !.graded = f] \in WorkType
        /\ [work[s] EXCEPT !.graded = f].file = work[s].file
        /\ [work[s] EXCEPT !.graded = f].graded = f
    BY <1>4, <2>1 DEF WorkType
  <2> QED
    BY <1>4, <1>5, <2>2 DEF IInv, GradesOK
<1>10. \A p \in Requests : ReviewOK(p)'
  <2> SUFFICES ASSUME NEW p \in Requests, p # r, requests[p].pc = "review"
               PROVE  ReviewOK(p)'
    BY <1>2, <1>6 DEF ReviewOK
  <2>1. requests[p].student \in Students /\ ReviewOK(p)
    BY DEF IInv, RequestsOK, RequestOK, GradesOK
  <2> QED
    BY <1>6, <1>9, <2>1 DEF Grade, ReviewOK
<1>11. GradeIsOfFile'
  BY <1>4, <1>9 DEF Grade, IInv, GradesOK, GradeIsOfFile
<1>12. GradesOK'
  BY <1>4, <1>9, <1>10, <1>11 DEF Grade, IInv, GradesOK
<1> QED
  BY <1>7, <1>8, <1>12 DEF Grade, IInv, RecordsOK, CountersOK

LEMMA AbortStep ==
  ASSUME IInv, NEW r \in Requests, Abort(r)
  PROVE  IInv'
<1>1. requests' = [requests EXCEPT ![r] = Idle]
  BY DEF Abort, End
<1>2. Idle.note \in 0..Len(notes) /\ ~ InPipeline(Idle) /\ Idle.pc # "review"
  BY IdleOK DEF IInv, NotesOK, InPipeline
<1>3. RequestsOK' /\ NotesOK' /\ GradesOK'
  BY <1>1, <1>2, IdleOK, Goes DEF Abort
<1>4. {requests[r].note} \ {0} \subseteq DOMAIN notes
  BY DEF IInv, NotesOK
<1> QED
  BY <1>3, <1>4, ClassroomAssumption DEF Abort, IInv, RecordsOK, CountersOK

LEMMA StepInvariant == IInv /\ [Next]_vars => IInv'
<1> SUFFICES ASSUME IInv, [Next]_vars PROVE IInv'
  OBVIOUS
<1>1. CASE UNCHANGED vars
  BY <1>1 DEF vars, IInv, RequestsOK, RequestOK, RecordsOK, NotesOK, InPipeline, GradesOK,
              ReviewOK, GradeIsOfFile, CountersOK
<1>2. CASE \E s \in Students : RemoveStudent(s) \/ Submit(s)
  BY <1>2, RemoveStep, SubmitStep
<1>3. ASSUME NEW r \in Requests,
             \/ \E b \in Batches, entries \in Rolls : StartMark(r, b, entries)
             \/ \E s \in Students : Review(r, s)
             \/ Grade(r) \/ Step(r) \/ Abort(r)
      PROVE  IInv'
  BY <1>3, StartMarkStep, ReviewStep, GradeStep, AbortStep, MatchStep, NoMatchStep, InsertStep,
     FindStudentStep, NotifyStep, FindDevicesStep, SendStep, SaveNoteStep DEF Step
<1> QED
  BY <1>1, <1>2, <1>3 DEF Next

THEOREM InvariantHolds == Spec => []IInv
BY InitInvariant, StepInvariant, PTL DEF Spec
\* Types, and that a notification in the pipeline has one request.
THEOREM TypeCorrect == Spec => []TypeOK
BY InvariantHolds, InvariantImplies, PTL

\* The grade shown with a file was given to that file, unless it was replaced
\* under a teacher's eyes.
THEOREM GradesOfFiles == Spec => []GradeIsOfFile
<1>1. IInv => GradeIsOfFile
  BY DEF IInv, GradesOK
<1> QED
  BY <1>1, InvariantHolds, PTL

\* With finitely many batches, the report counts no class twice.
THEOREM CountedOnce == ASSUME IsFiniteSet(Batches) PROVE Spec => []ClassesCountedOnce
<1>1. ASSUME IInv PROVE ClassesCountedOnce
  <2> SUFFICES ASSUME NEW s \in Students
               PROVE  attendanceSummary(attendance, s).total <= Cardinality(Batches)
    BY DEF ClassesCountedOnce
  <2> DEFINE rows == { a \in attendance : a.student = s }
             batchOf == [a \in rows |-> a.batch]
  <2>1. attendanceSummary(attendance, s).total = Cardinality(rows)
    BY DEF attendanceSummary
  <2>2. batchOf \in Injection(rows, Batches)
    <3>1. \A a \in rows : a.batch \in Batches
      BY <1>1 DEF IInv, RecordsOK, RecordType
    <3>2. \A a, b \in rows : a.batch = b.batch => a = b
      BY <1>1 DEF IInv, RecordsOK
    <3> QED
      BY <3>1, <3>2 DEF Injection, IsInjective
  <2>3. Cardinality(rows) <= Cardinality(Batches)
    BY <2>2, FS_Injection
  <2> QED
    BY <2>1, <2>3
<1> QED
  BY <1>1, InvariantHolds, PTL

-----------------------------------------------------------------------------
(* Notices: no step but a stop adds to Untold, and a stop adds one at most. *)

Fewer == IsFiniteSet(Untold) /\ Cardinality(Untold) <= MaxAborts - abortsLeft

Events == {"absence", "graded"}

LEMMA Told ==
  ASSUME \A s \in Students : Here(s)' => Here(s),
         \A t \in Events, s \in Students :
           /\ OnRecord(t, s)' => OnRecord(t, s) \/ Announcing(t, s)'
           /\ Announced(t, s) => Announced(t, s)'
           /\ Announcing(t, s) => Announcing(t, s)' \/ Announced(t, s)' \/ ~ Here(s)'
  PROVE  Untold' \subseteq Untold
<1> SUFFICES ASSUME NEW e \in Untold' PROVE e \in Untold
  OBVIOUS
<1>1. /\ e \in Events \X Students /\ Here(e[2])' /\ OnRecord(e[1], e[2])'
      /\ ~ Announced(e[1], e[2])' /\ ~ Announcing(e[1], e[2])'
  BY DEF Untold, Events
<1>2. e[1] \in Events /\ e[2] \in Students
  BY <1>1
<1> QED
  BY <1>1, <1>2 DEF Untold, Events

\* What was announced stays so, if the notifications only grow.
LEMMA AnnouncedKept ==
  ASSUME IInv, NEW n \in Nat, n >= Len(notes), DOMAIN notes' = 1..n,
         \A m \in 1..Len(notes) :
           notes'[m].type = notes[m].type /\ notes'[m].about = notes[m].about
  PROVE  \A t, s : Announced(t, s) => Announced(t, s)'
BY DEF IInv, NotesOK, Announced

\* A step of a request that announced nothing, and records nothing.
LEMMA Silent ==
  ASSUME NEW r \in Requests, requests[r].pc \notin {"findStudent", "notify"},
         \A p \in Requests \ {r} : requests'[p] = requests[p],
         \A t, s : Announced(t, s) => Announced(t, s)',
         \A t \in Events, s \in Students : OnRecord(t, s)' => OnRecord(t, s) \/ Announcing(t, s)',
         UNCHANGED removed
  PROVE  Untold' \subseteq Untold
<1>1. \A t, s : Announcing(t, s) => Announcing(t, s)'
  BY DEF Announcing
<1> QED
  BY <1>1, Told DEF Here

LEMMA OthersUnchanged ==
  ASSUME IInv, NEW r \in Requests, NEW q, requests' = [requests EXCEPT ![r] = q]
  PROVE  requests'[r] = q /\ \A p \in Requests \ {r} : requests'[p] = requests[p]
BY DEF IInv, RequestsOK

LEMMA ReturnsAlone ==
  ASSUME IInv, NEW r \in Requests, Return(r)
  PROVE  \A p \in Requests \ {r} : requests'[p] = requests[p]
BY Returns, OthersUnchanged

\* An absence is written by a request that goes on to announce it.
LEMMA WrittenTold ==
  ASSUME IInv, NEW r \in Requests, requests[r].pc \in {"match", "insert"}, Written(r),
         NEW a, a.student = requests[r].student, a.status = requests[r].status,
         NEW old \in SUBSET attendance, attendance' = old \cup {a},
         UNCHANGED <<removed, work, notes>>
  PROVE  Untold' \subseteq Untold
<1>1. requests[r].type = "absence" /\ requests \in [Requests -> RequestType]
  BY DEF IInv, RequestsOK, RequestOK
<1>2. \A p \in Requests \ {r} : requests'[p] = requests[p]
  BY <1>1, ReturnsAlone DEF Written
<1>3. ASSUME requests[r].status = "ABSENT", NEW s, s = requests[r].student
      PROVE  Announcing("absence", s)'
  <2>1. requests' = [requests EXCEPT ![r].pc = "findStudent"]
    BY <1>3 DEF Written
  <2>2. /\ requests'[r].pc = "findStudent" /\ requests'[r].type = "absence"
        /\ requests'[r].student = s
    BY <1>1, <1>3, <2>1 DEF RequestType
  <2> QED
    BY <2>2 DEF Announcing
<1>4. ASSUME NEW t \in Events, NEW s \in Students, OnRecord(t, s)'
      PROVE  OnRecord(t, s) \/ Announcing(t, s)'
  <2>1. CASE t = "graded"
    BY <1>4, <2>1 DEF OnRecord
  <2>2. CASE t = "absence"
    <3>1. PICK b \in attendance' : b.student = s /\ b.status = "ABSENT"
      BY <1>4, <2>2 DEF OnRecord
    <3>2. CASE b = a
      BY <1>3, <2>2, <3>1, <3>2
    <3>3. CASE b # a
      BY <2>2, <3>1, <3>3 DEF OnRecord
    <3> QED
      BY <3>2, <3>3
  <2> QED
    BY <2>1, <2>2 DEF Events
<1>5. \A t, s : Announced(t, s) => Announced(t, s)'
  BY DEF Announced
<1> QED
  BY <1>2, <1>4, <1>5, Silent

LEMMA MatchTold == ASSUME IInv, NEW r \in Requests, Match(r) PROVE Untold' \subseteq Untold
<1>1. PICK a \in Matched(r) :
        attendance' = (attendance \ {a}) \cup {[a EXCEPT !.status = requests[r].status]}
  BY DEF Match
<1> DEFINE b == [a EXCEPT !.status = requests[r].status]
<1>2. b.student = requests[r].student /\ b.status = requests[r].status
  BY DEF Matched, IInv, RecordsOK, RecordType
<1> HIDE DEF b
<1>3. attendance' = (attendance \ {a}) \cup {b} /\ attendance \ {a} \in SUBSET attendance
  BY <1>1 DEF b
<1> QED
  BY <1>2, <1>3, WrittenTold DEF Match

LEMMA InsertTold == ASSUME IInv, NEW r \in Requests, Insert(r) PROVE Untold' \subseteq Untold
<1>1. CASE Duplicate(r)
  <2>1. \A p \in Requests \ {r} : requests'[p] = requests[p]
    BY <1>1 DEF Insert, IInv, RequestsOK
  <2> QED
    BY <1>1, <2>1, Silent DEF Insert, Announced, OnRecord
<1>2. CASE ~ Duplicate(r)
  <2>1. /\ NewRecord(r).student = requests[r].student
        /\ NewRecord(r).status = requests[r].status
    BY DEF NewRecord
  <2> QED
    BY <1>2, <2>1, WrittenTold DEF Insert
<1> QED
  BY <1>1, <1>2

LEMMA FindStudentTold ==
  ASSUME IInv, NEW r \in Requests, FindStudent(r)
  PROVE  Untold' \subseteq Untold
<1>1. /\ requests[r].pc = "findStudent" /\ requests \in [Requests -> RequestType]
      /\ UNCHANGED <<removed, attendance, work, notes>>
  BY DEF FindStudent, IInv, RequestsOK
<1>2. ASSUME NEW t \in Events, NEW s \in Students, Announcing(t, s)
      PROVE  Announcing(t, s)' \/ ~ Here(s)'
  <2>1. PICK p \in Requests : /\ requests[p].pc \in {"findStudent", "notify"}
                              /\ requests[p].type = t /\ requests[p].student = s
    BY <1>2 DEF Announcing
  <2>2. CASE ~ Here(requests[r].student)
    <3>1. \A q \in Requests \ {r} : requests'[q] = requests[q]
      BY <2>2, ReturnsAlone DEF FindStudent
    <3> QED
      BY <1>1, <2>1, <2>2, <3>1 DEF Announcing, Here
  <2>3. CASE Here(requests[r].student)
    <3>1. requests' = [requests EXCEPT ![r].pc = "notify"]
      BY <2>3 DEF FindStudent
    <3>2. /\ requests'[p].pc \in {"findStudent", "notify"}
          /\ requests'[p].type = t /\ requests'[p].student = s
      BY <1>1, <2>1, <3>1 DEF RequestType
    <3> QED
      BY <3>2 DEF Announcing
  <2> QED
    BY <2>2, <2>3
<1> QED
  BY <1>1, <1>2, Told DEF OnRecord, Announced, Here

\* What the request was about to announce is announced now.
LEMMA NotifyTold ==
  ASSUME IInv, NEW r \in Requests, Notify(r)
  PROVE  Untold' \subseteq Untold
<1>1. /\ notes \in Seq(NoteType) /\ Len(notes) \in Nat
      /\ notes' = Append(notes, NewNote(r)) /\ UNCHANGED <<removed, attendance, work>>
  BY DEF Notify, IInv, NotesOK
<1>2. /\ DOMAIN notes' = 1..(Len(notes) + 1)
      /\ notes'[Len(notes) + 1] = NewNote(r)
      /\ \A m \in 1..Len(notes) : notes'[m] = notes[m]
  BY <1>1
<1>3. \A t, s : Announced(t, s) => Announced(t, s)'
  BY <1>1, <1>2, AnnouncedKept
<1>4. \A p \in Requests \ {r} : requests'[p] = requests[p]
  BY DEF Notify, IInv, RequestsOK
<1>5. ASSUME NEW t, NEW s, t = requests[r].type, s = requests[r].student
      PROVE  Announced(t, s)'
  <2>1. NewNote(r).type = requests[r].type /\ NewNote(r).about = requests[r].student
    BY DEF NewNote
  <2>2. Len(notes) + 1 \in DOMAIN notes'
    BY <1>1, <1>2
  <2> QED
    BY <1>2, <1>5, <2>1, <2>2 DEF Announced
<1>6. \A t, s : Announcing(t, s) => Announcing(t, s)' \/ Announced(t, s)'
  BY <1>4, <1>5 DEF Announcing
<1> QED
  BY <1>1, <1>3, <1>6, Told DEF OnRecord, Here

LEMMA DispatchTold ==
  ASSUME IInv, NEW r \in Requests, FindDevices(r) \/ Send(r) \/ SaveNote(r)
  PROVE  Untold' \subseteq Untold
<1>1. /\ requests[r].pc \notin {"findStudent", "notify"}
      /\ UNCHANGED <<removed, attendance, work>>
  BY DEF FindDevices, Send, SaveNote
<1>2. \A p \in Requests \ {r} : requests'[p] = requests[p]
  BY ReturnsAlone DEF FindDevices, Send, SaveNote, IInv, RequestsOK
<1>3. /\ Len(notes) \in Nat /\ DOMAIN notes' = 1..Len(notes)
      /\ \A m \in 1..Len(notes) :
           notes'[m].type = notes[m].type /\ notes'[m].about = notes[m].about
  <2>1. /\ notes \in Seq(NoteType) /\ Len(notes) \in Nat /\ DOMAIN notes = 1..Len(notes)
        /\ \A m \in 1..Len(notes) : notes[m] \in NoteType
    BY DEF IInv, NotesOK
  <2>2. CASE FindDevices(r)
    BY <2>1, <2>2 DEF FindDevices
  <2>3. CASE Send(r)
    BY <2>1, <2>3 DEF Send, NoteType
  <2>4. CASE SaveNote(r)
    BY <2>1, <2>4 DEF SaveNote, NoteType
  <2> QED
    BY <2>2, <2>3, <2>4
<1>4. \A t, s : Announced(t, s) => Announced(t, s)'
  BY <1>3, AnnouncedKept
<1> QED
  BY <1>1, <1>2, <1>4, Silent DEF OnRecord

LEMMA StartTold ==
  ASSUME IInv, NEW r \in Requests,
         \/ \E b \in Batches, entries \in Rolls : StartMark(r, b, entries)
         \/ \E s \in Students : Review(r, s)
         \/ NoMatch(r)
  PROVE  Untold' \subseteq Untold
<1>1. /\ requests[r].pc \notin {"findStudent", "notify"}
      /\ UNCHANGED <<removed, attendance, work, notes>>
  BY IdleOK DEF StartMark, Review, NoMatch
<1>2. \A p \in Requests \ {r} : requests'[p] = requests[p]
  BY DEF StartMark, Review, NoMatch, IInv, RequestsOK
<1> QED
  BY <1>1, <1>2, Silent DEF OnRecord, Announced

\* A grade is written by a request that goes on to announce it.
LEMMA GradeTold ==
  ASSUME IInv, NEW r \in Requests, Grade(r)
  PROVE  Untold' \subseteq Untold
<1>1. /\ requests \in [Requests -> RequestType] /\ requests[r].pc = "review"
      /\ requests[r].type = "graded" /\ UNCHANGED <<removed, attendance, notes>>
  BY DEF Grade, IInv, RequestsOK, RequestOK
<1>2. /\ requests'[r].pc = "findStudent" /\ requests'[r].type = "graded"
      /\ requests'[r].student = requests[r].student
      /\ \A p \in Requests \ {r} : requests'[p] = requests[p]
  BY <1>1 DEF Grade, RequestType
<1>3. \A s : s = requests[r].student => Announcing("graded", s)'
  BY <1>2 DEF Announcing
<1>4. \A s \in Students : s # requests[r].student => work'[s] = work[s]
  BY DEF Grade, IInv, GradesOK
<1>5. \A t \in Events, s \in Students : OnRecord(t, s)' => OnRecord(t, s) \/ Announcing(t, s)'
  BY <1>1, <1>3, <1>4 DEF OnRecord, Events
<1> QED
  BY <1>1, <1>2, <1>5, Silent DEF Announced

LEMMA StudentTold ==
  ASSUME IInv, NEW s \in Students, RemoveStudent(s) \/ Submit(s)
  PROVE  Untold' \subseteq Untold
<1>1. UNCHANGED <<attendance, notes, requests>> /\ \A t \in Students : Here(t)' => Here(t)
  BY DEF RemoveStudent, Submit, Here
<1>2. \A t \in Students : work'[t].graded > 0 => work[t].graded > 0
  BY DEF RemoveStudent, Submit, Resubmitted, IInv, GradesOK, WorkType
<1> QED
  BY <1>1, <1>2, Told DEF OnRecord, Announced, Announcing

\* A stop forgets the one notice its request was about to give.
LEMMA AbortTold ==
  ASSUME IInv, NEW r \in Requests, Abort(r)
  PROVE  Untold' \subseteq Untold \cup {<<requests[r].type, requests[r].student>>}
<1> SUFFICES ASSUME NEW e \in Untold', e \notin Untold
             PROVE  e = <<requests[r].type, requests[r].student>>
  OBVIOUS
<1>1. /\ UNCHANGED <<removed, attendance, work, notes>>
      /\ \A p \in Requests \ {r} : requests'[p] = requests[p]
  BY DEF Abort, End, IInv, RequestsOK
<1>2. /\ e \in Events \X Students /\ Here(e[2]) /\ OnRecord(e[1], e[2])
      /\ ~ Announced(e[1], e[2]) /\ ~ Announcing(e[1], e[2])'
  BY <1>1 DEF Untold, Events, Here, OnRecord, Announced
<1>3. Announcing(e[1], e[2])
  BY <1>2 DEF Untold, Events
<1>4. e[1] = requests[r].type /\ e[2] = requests[r].student
  BY <1>1, <1>2, <1>3 DEF Announcing
<1> QED
  BY <1>2, <1>4

LEMMA StepFewer == ASSUME IInv, Fewer, [Next]_vars PROVE Fewer'
<1>1. abortsLeft \in Int /\ MaxAborts \in Int
  BY ClassroomAssumption DEF IInv, CountersOK
<1>2. ASSUME Untold' \subseteq Untold, UNCHANGED abortsLeft PROVE Fewer'
  <2>1. /\ IsFiniteSet(Untold') /\ Cardinality(Untold') <= Cardinality(Untold)
        /\ Cardinality(Untold) \in Nat /\ Cardinality(Untold') \in Nat
    BY <1>2, FS_Subset, FS_CardinalityType DEF Fewer
  <2> QED
    BY <1>1, <1>2, <2>1 DEF Fewer
<1>3. CASE UNCHANGED vars
  BY <1>3 DEF vars, Fewer, Untold, Here, OnRecord, Announced, Announcing
<1>4. CASE \E s \in Students : RemoveStudent(s) \/ Submit(s)
  BY <1>2, <1>4, StudentTold DEF RemoveStudent, Submit
<1>5. ASSUME NEW r \in Requests,
             \/ \E b \in Batches, entries \in Rolls : StartMark(r, b, entries)
             \/ \E s \in Students : Review(r, s)
             \/ Grade(r) \/ Step(r)
      PROVE  Fewer'
  <2>1. Untold' \subseteq Untold
    BY <1>5, StartTold, GradeTold, MatchTold, InsertTold, FindStudentTold, NotifyTold,
       DispatchTold DEF Step
  <2>2. UNCHANGED abortsLeft
    BY <1>5 DEF StartMark, Review, Grade, Step, Match, NoMatch, Insert, FindStudent, Notify,
                FindDevices, Send, SaveNote
  <2> QED
    BY <1>2, <2>1, <2>2
<1>6. ASSUME NEW r \in Requests, Abort(r) PROVE Fewer'
  <2> DEFINE more == Untold \cup {<<requests[r].type, requests[r].student>>}
  <2>1. /\ IsFiniteSet(more) /\ Cardinality(more) <= Cardinality(Untold) + 1
        /\ Cardinality(Untold) \in Nat
    <3>1. IsFiniteSet(Untold) /\ Cardinality(Untold) \in Nat
      BY FS_CardinalityType DEF Fewer
    <3> DEFINE x == <<requests[r].type, requests[r].student>>
    <3> HIDE DEF x
    <3>2. /\ IsFiniteSet(Untold \cup {x})
          /\ Cardinality(Untold \cup {x}) =
               IF x \in Untold THEN Cardinality(Untold) ELSE Cardinality(Untold) + 1
      BY <3>1, FS_AddElement
    <3> QED
      BY <3>1, <3>2 DEF x
  <2>2. Untold' \subseteq more
    BY <1>6, AbortTold
  <2> HIDE DEF more
  <2>3. /\ IsFiniteSet(Untold') /\ Cardinality(Untold') <= Cardinality(more)
        /\ Cardinality(Untold') \in Nat /\ Cardinality(more) \in Nat
    BY <2>1, <2>2, FS_Subset, FS_CardinalityType
  <2>4. abortsLeft' = abortsLeft - 1
    BY <1>6 DEF Abort
  <2> QED
    BY <1>1, <2>1, <2>3, <2>4 DEF Fewer
<1> QED
  BY <1>3, <1>4, <1>5, <1>6 DEF Next

LEMMA InitFewer == ASSUME Init PROVE Fewer
<1>1. Untold = {}
  BY DEF Init, Untold, OnRecord, NoWork
<1> QED
  BY <1>1, FS_EmptySet, ClassroomAssumption DEF Init, Fewer

\* Who is marked absent or graded is told of it, but for one notice per stop.
THEOREM AllAnnounced == Spec => []EventsAnnounced
<1>1. Init => Fewer
  BY InitFewer
<1>2. IInv /\ Fewer /\ [Next]_vars => Fewer'
  BY StepFewer
<1>3. Fewer => EventsAnnounced
  BY DEF Fewer, EventsAnnounced
<1> QED
  BY <1>1, <1>2, <1>3, InvariantHolds, PTL DEF Spec
=============================================================================

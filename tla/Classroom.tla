------------------------------ MODULE Classroom ------------------------------
(***************************************************************************)
(* Attendance, one assignment's submissions and grades, and the            *)
(* notifications both send (attendance.service.ts, academics.service.ts,   *)
(* notifications.service.ts, push.service.ts), over the students they read.*)
(*                                                                         *)
(* One class day.  A request is served in stretches between two awaits.    *)
(***************************************************************************)
EXTENDS Naturals, Sequences, FiniteSets, FiniteSetsExt, Reports

CONSTANTS Students, Batches,
          Rolls,         \* the attendance entries considered: <<student, status>>
          Requests,
          MaxFiles,      \* bounds the files ever submitted
          MaxNotes,      \* bounds the notifications ever created
          MaxRequests,   \* bounds the marking and grading requests served
          MaxAborts      \* bounds those that stop half way

ASSUME ClassroomAssumption ==
  /\ \A entries \in Rolls : /\ entries # {}
                            /\ entries \subseteq Students \X {"PRESENT", "ABSENT"}
  /\ MaxFiles \in Nat /\ MaxNotes \in Nat /\ MaxRequests \in Nat /\ MaxAborts \in Nat

VARIABLES removed,      \* the students whose Student document is deleted
          attendance,   \* Attendance documents of the day
          work,         \* per student, the file submitted and the file graded, or 0
          notes,        \* Notification documents
          requests,     \* marking and grading requests being served
          raced,        \* history: students who resubmitted under a teacher's eyes
          orphans,      \* history: notifications whose request stopped
          requestsLeft, abortsLeft
vars == <<removed, attendance, work, notes, requests, raced, orphans,
          requestsLeft, abortsLeft>>

Idle == [pc |-> "idle", type |-> "absence", batch |-> 0, entries |-> {},
         student |-> 0, status |-> "PRESENT", file |-> 0, note |-> 0, outcome |-> "SENT"]

NoWork == [file |-> 0, graded |-> 0]

Init ==
  /\ removed = {}
  /\ attendance = {}
  /\ work = [s \in Students |-> NoWork]
  /\ notes = <<>>
  /\ requests = [r \in Requests |-> Idle]
  /\ raced = {}
  /\ orphans = {}
  /\ requestsLeft = MaxRequests
  /\ abortsLeft = MaxAborts

Here(s) == s \notin removed

\* External to this module: students.service.ts deletes the profile alone.
RemoveStudent(s) ==
  /\ Here(s)
  /\ removed' = removed \cup {s}
  /\ UNCHANGED <<attendance, work, notes, requests, raced, orphans, requestsLeft, abortsLeft>>

End(r) == requests' = [requests EXCEPT ![r] = Idle]

-----------------------------------------------------------------------------
(* Notifications.  notify is called from "notify" on, with the addressee's *)
(* id at hand, and returns to its caller through Return.                   *)

\* The marking loop at one of its entries.
Marking(b, entries, e) ==
  [Idle EXCEPT !.pc = "match", !.batch = b, !.entries = entries \ {e},
               !.student = e[1], !.status = e[2]]

\* The next entry of the marking loop, or the response.
Return(r) ==
  IF requests[r].entries = {}
  THEN End(r)
  ELSE \E e \in requests[r].entries :
         requests' = [requests EXCEPT ![r] =
                        Marking(requests[r].batch, requests[r].entries, e)]

NewNote(r) == [type   |-> requests[r].type, about |-> requests[r].student,
               status |-> "QUEUED", lost |-> FALSE]

\* notify: the record is created QUEUED.
Notify(r) ==
  /\ requests[r].pc = "notify"
  /\ Len(notes) < MaxNotes
  /\ notes' = Append(notes, NewNote(r))
  /\ requests' = [requests EXCEPT ![r].pc = "dispatch", ![r].note = Len(notes'),
                                  ![r].student = 0, ![r].status = "PRESENT"]
  /\ UNCHANGED <<removed, attendance, work, raced, orphans, requestsLeft, abortsLeft>>

\* dispatch: the addressee's devices are looked up.  The lookup may throw,
\* which is caught; without a device, or with push disabled, nothing is sent.
FindDevices(r) ==
  /\ requests[r].pc = "dispatch"
  /\ \/ requests' = [requests EXCEPT ![r].pc = "save", ![r].outcome = "FAILED"]
     \/ requests' = [requests EXCEPT ![r].pc = "save", ![r].outcome = "SENT"]
     \/ requests' = [requests EXCEPT ![r].pc = "send"]
  /\ UNCHANGED <<removed, attendance, work, notes, raced, orphans, requestsLeft, abortsLeft>>

\* push.send: the gateway's errors are swallowed, all of them.
Send(r) ==
  /\ requests[r].pc = "send"
  /\ requests' = [requests EXCEPT ![r].pc = "save", ![r].outcome = "SENT"]
  /\ \E lost \in BOOLEAN : notes' = [notes EXCEPT ![requests[r].note].lost = lost]
  /\ UNCHANGED <<removed, attendance, work, raced, orphans, requestsLeft, abortsLeft>>

\* Weakened: only what was sent is saved.
SaveNoteIfSent(r) ==
  /\ requests[r].pc = "save"
  /\ notes' = IF requests[r].outcome = "SENT"
              THEN [notes EXCEPT ![requests[r].note].status = "SENT"] ELSE notes
  /\ Return(r)
  /\ UNCHANGED <<removed, attendance, work, raced, orphans, requestsLeft, abortsLeft>>

\* Weakened: a failed dispatch is tried again.
SaveNoteRetries(r) ==
  /\ requests[r].pc = "save"
  /\ notes' = [notes EXCEPT ![requests[r].note].status = requests[r].outcome]
  /\ IF requests[r].outcome = "FAILED"
     THEN requests' = [requests EXCEPT ![r].pc = "dispatch"]
     ELSE Return(r)
  /\ UNCHANGED <<removed, attendance, work, raced, orphans, requestsLeft, abortsLeft>>

SaveNote(r) ==
  /\ requests[r].pc = "save"
  /\ notes' = [notes EXCEPT ![requests[r].note].status = requests[r].outcome]
  /\ Return(r)
  /\ UNCHANGED <<removed, attendance, work, raced, orphans, requestsLeft, abortsLeft>>

-----------------------------------------------------------------------------
(* Attendance: mark *)

StartMark(r, b, entries) ==
  /\ requests[r] = Idle
  /\ requestsLeft > 0
  /\ requestsLeft' = requestsLeft - 1
  /\ \E e \in entries :
       requests' = [requests EXCEPT ![r] = Marking(b, entries, e)]
  /\ UNCHANGED <<removed, attendance, work, notes, raced, orphans, abortsLeft>>

Matched(r) == { a \in attendance : /\ a.student = requests[r].student
                                   /\ a.batch = requests[r].batch }

\* The entry is written: on to the notice, or to the next entry.
Written(r) ==
  IF requests[r].status = "ABSENT"
  THEN requests' = [requests EXCEPT ![r].pc = "findStudent"]
  ELSE Return(r)

\* Weakened: only a day's first mark is announced.
MatchSilently(r) ==
  /\ requests[r].pc = "match"
  /\ \E a \in Matched(r) :
       attendance' = (attendance \ {a}) \cup {[a EXCEPT !.status = requests[r].status]}
  /\ Return(r)
  /\ UNCHANGED <<removed, work, notes, raced, orphans, requestsLeft, abortsLeft>>

\* The upsert finds the day's record and updates it, ...
Match(r) ==
  /\ requests[r].pc = "match"
  /\ \E a \in Matched(r) :
       attendance' = (attendance \ {a}) \cup {[a EXCEPT !.status = requests[r].status]}
  /\ Written(r)
  /\ UNCHANGED <<removed, work, notes, raced, orphans, requestsLeft, abortsLeft>>

\* ... or finds none ...
NoMatch(r) ==
  /\ requests[r].pc = "match"
  /\ Matched(r) = {}
  /\ requests' = [requests EXCEPT ![r].pc = "insert"]
  /\ UNCHANGED <<removed, attendance, work, notes, raced, orphans, requestsLeft, abortsLeft>>

\* Weakened: no unique index.
NeverDuplicate(r) == FALSE
\* The unique index on (tenant, student, batch, date).
Duplicate(r) == Matched(r) # {}

NewRecord(r) == [id    |-> Cardinality(attendance) + 1, student |-> requests[r].student,
                 batch |-> requests[r].batch, status |-> requests[r].status]

\* ... and inserts; when the index refuses that, MongoDB tries the upsert again.
Insert(r) ==
  /\ requests[r].pc = "insert"
  /\ IF Duplicate(r)
     THEN /\ requests' = [requests EXCEPT ![r].pc = "match"]
          /\ UNCHANGED attendance
     ELSE /\ attendance' = attendance \cup {NewRecord(r)}
          /\ Written(r)
  /\ UNCHANGED <<removed, work, notes, raced, orphans, requestsLeft, abortsLeft>>

\* Whom to tell: the parent, or the student's user.  A student removed
\* meanwhile has neither.
FindStudent(r) ==
  /\ requests[r].pc = "findStudent"
  /\ IF Here(requests[r].student)
     THEN requests' = [requests EXCEPT ![r].pc = "notify"]
     ELSE Return(r)
  /\ UNCHANGED <<removed, attendance, work, notes, raced, orphans, requestsLeft, abortsLeft>>

-----------------------------------------------------------------------------
(* Academics: submit and grade, on one assignment *)

Reviewers(s) == { r \in Requests : requests[r].pc = "review" /\ requests[r].student = s }

\* Weakened: the grade stays.
ResubmittedGraded(w) == [w EXCEPT !.file = @ + 1]
\* A new file; the grade and the feedback are unset.
Resubmitted(w) == [file |-> w.file + 1, graded |-> 0]

Submit(s) ==
  /\ MapThenSumSet(LAMBDA t : work[t].file, Students) < MaxFiles
  /\ work' = [work EXCEPT ![s] = Resubmitted(@)]
  /\ raced' = IF Reviewers(s) = {} THEN raced \ {s} ELSE raced \cup {s}
  /\ UNCHANGED <<removed, attendance, notes, requests, orphans, requestsLeft, abortsLeft>>

\* A teacher looks at what is submitted, ...
Review(r, s) ==
  /\ requests[r] = Idle
  /\ requestsLeft > 0
  /\ work[s].file > 0
  /\ requestsLeft' = requestsLeft - 1
  /\ requests' = [requests EXCEPT ![r] =
       [Idle EXCEPT !.pc = "review", !.type = "graded", !.student = s,
                    !.file = work[s].file]]
  /\ UNCHANGED <<removed, attendance, work, notes, raced, orphans, abortsLeft>>

\* ... and grades it.  The grade goes to the submission, whatever its file now.
Grade(r) ==
  /\ requests[r].pc = "review"
  /\ work' = [work EXCEPT ![requests[r].student].graded = requests[r].file]
  /\ requests' = [requests EXCEPT ![r].pc = "findStudent", ![r].file = 0]
  /\ UNCHANGED <<removed, attendance, notes, raced, orphans, requestsLeft, abortsLeft>>

-----------------------------------------------------------------------------

\* The process dies or a database call throws: what is written stays.
Abort(r) ==
  /\ requests[r].pc # "idle"
  /\ abortsLeft > 0
  /\ abortsLeft' = abortsLeft - 1
  /\ orphans' = orphans \cup ({requests[r].note} \ {0})
  /\ End(r)
  /\ UNCHANGED <<removed, attendance, work, notes, raced, requestsLeft>>

\* The stretches of a request that run by themselves.
Step(r) ==
  \/ Match(r) \/ NoMatch(r) \/ Insert(r) \/ FindStudent(r)
  \/ Notify(r) \/ FindDevices(r) \/ Send(r) \/ SaveNote(r)

Next ==
  \/ \E s \in Students : RemoveStudent(s) \/ Submit(s)
  \/ \E r \in Requests :
       \/ \E b \in Batches, entries \in Rolls :
            StartMark(r, b, entries)
       \/ \E s \in Students : Review(r, s)
       \/ Grade(r) \/ Step(r) \/ Abort(r)

Spec == Init /\ [][Next]_vars
\* Node runs every callback that is ready: a request that can go on does.
FairSpec == Spec /\ \A r \in Requests : WF_vars(Step(r))

-----------------------------------------------------------------------------
(* Properties *)

\* Types, and that a request in the pipeline has a notification of its own.
TypeOK ==
  /\ removed \subseteq Students
  /\ \A s \in Students : work[s].file \in Nat /\ work[s].graded \in 0..work[s].file
  /\ \A a \in attendance : /\ a.student \in Students /\ a.batch \in Batches
                           /\ a.status \in {"PRESENT", "ABSENT"}
  /\ \A n \in DOMAIN notes : notes[n].status \in {"QUEUED", "SENT", "FAILED"}
  /\ LET pipeline == { r \in Requests : requests[r].pc \in {"dispatch", "send", "save"} }
     IN  /\ \A r \in pipeline : /\ requests[r].note \in DOMAIN notes
                                /\ notes[requests[r].note].status = "QUEUED"
         /\ \A q, r \in pipeline : requests[q].note = requests[r].note => q = r
  /\ raced \subseteq Students /\ orphans \subseteq DOMAIN notes
  /\ requestsLeft \in 0..MaxRequests /\ abortsLeft \in 0..MaxAborts

\* The attendance report counts no class twice: a student has one record per
\* class and day, however many teachers mark it at once and however often.
ClassesCountedOnce ==
  \A s \in Students : attendanceSummary(attendance, s).total <= Cardinality(Batches)

Announced(type, s) == \E n \in DOMAIN notes : notes[n].type = type /\ notes[n].about = s
Announcing(type, s) ==
  \E r \in Requests : /\ requests[r].pc \in {"findStudent", "notify"}
                       /\ requests[r].type = type /\ requests[r].student = s

OnRecord(type, s) ==
  IF type = "graded" THEN work[s].graded > 0
                     ELSE \E a \in attendance : a.student = s /\ a.status = "ABSENT"

\* The absences and grades nobody has been told of, or is about to be.
Untold ==
  { e \in {"absence", "graded"} \X Students :
      Here(e[2]) /\ OnRecord(e[1], e[2]) /\ ~ Announced(e[1], e[2]) /\ ~ Announcing(e[1], e[2]) }

\* Who is marked absent or graded has been told, or is about to be: every
\* request that stops costs one notice at the most.
EventsAnnounced == Cardinality(Untold) <= MaxAborts - abortsLeft

\* The grade shown with a file was given to that file, unless the file was
\* replaced under a teacher's eyes.
GradeIsOfFile ==
  \A s \in Students \ raced : work[s].graded \in {0, work[s].file}

Queued(n) == n \in DOMAIN notes /\ notes[n].status = "QUEUED"

\* A notification does not stay QUEUED: its request marks it SENT or FAILED, or
\* has stopped.
QueuedIsDispatched ==
  \A n \in 1..MaxNotes :
    Queued(n) ~> ~ Queued(n) \/ n \in orphans

\* What notifications.service.ts says of dispatch: a send that fails marks the
\* record FAILED.
SentIsSent ==
  \A n \in DOMAIN notes : notes[n].lost => notes[n].status # "SENT"
=============================================================================

------------------------- MODULE RegistrationProofs -------------------------
(***************************************************************************)
(* Proofs about Registration, for every set of members, processes, caps    *)
(* and requests: types, live rows, and how far the caps can be exceeded.   *)
(***************************************************************************)
EXTENDS Registration, FiniteSetTheorems, TLAPS

-----------------------------------------------------------------------------
(* Type correctness.                                                       *)

LEMMA IdleJobType == IdleJob \in Jobs /\ JobOK(IdleJob)
  BY DEF IdleJob, Jobs, JobOK, Steps, NoRow, RegistrationStates

(* What is carried from row to row keeps its type.                         *)
LEMMA BatchLeftType ==
  ASSUME NEW j, JobOK(j)
  PROVE  /\ BatchLeft(j) \in Jobs
         /\ BatchLeft(j).step = "idle"
         /\ BatchLeft(j).user = Nobody
         /\ BatchLeft(j).rest = j.rest
         /\ j.rest # {} => BatchLeft(j).goal \in RegistrationStates
  <1>1. CASE j.rest = {}
    BY <1>1, IdleJobType DEF BatchLeft, IdleJob, JobOK
  <1>2. CASE j.rest # {}
    <2>1. j.goal \in RegistrationStates /\ j.rest \in SUBSET LoadedRows
      BY <1>2 DEF JobOK, Jobs
    <2> QED
      BY <1>2, <2>1 DEF BatchLeft, IdleJob, Jobs, Steps, NoRow
  <1> QED
    BY <1>1, <1>2

LEMMA ResumeType ==
  ASSUME NEW j, JobOK(j)
  PROVE  JobOK(Resume(j))
  <1>1. CASE j.rest = {}
    BY <1>1, IdleJobType DEF Resume
  <1>2. CASE j.rest # {}
    BY <1>2, BatchLeftType DEF Resume, Jobs, JobOK, Steps
  <1> QED
    BY <1>1, <1>2

LEMMA PromotingType ==
  ASSUME NEW j, JobOK(j), NEW c \in Caps
  PROVE  JobOK(Promoting(j, c))
  BY BatchLeftType DEF Promoting, Jobs, JobOK, Steps

LEMMA ContinueType ==
  ASSUME TypeOK, NEW w \in Workers, NEW j, JobOK(j), Continue(w, j)
  PROVE  job' \in [Workers -> Jobs] /\ \A x \in Workers : JobOK(job'[x])
  BY DEF TypeOK, Continue, JobOK

LEMMA FinishType ==
  ASSUME TypeOK, NEW w \in Workers, Finish(w)
  PROVE  job' \in [Workers -> Jobs] /\ \A x \in Workers : JobOK(job'[x])
  BY IdleJobType, ContinueType DEF Finish

LEMMA FetchedType ==
  ASSUME TypeOK, NEW u \in Users, NEW step \in {"cancel", "decide", "check_in"},
         NEW goal \in RegistrationStates \cup {NoRow},
         step = "decide" => goal \in RegistrationStates
  PROVE  JobOK(Fetched(u, step, goal))
  BY DEF TypeOK, Fetched, IdleJob, Jobs, JobOK, Steps, NoRow, RegistrationStates

(* The default state of a new row is a state.                              *)
LEMMA DefaultStateType ==
  ASSUME NEW c
  PROVE  DefaultState(c) \in RegistrationStates
  BY DEF DefaultState, RegistrationStates

LEMMA AfterDeleteType ==
  ASSUME TypeOK, NEW w \in Workers, job[w].step = "cancel"
  PROVE  JobOK(AfterDelete(w))
  <1>1. JobOK(job[w]) /\ job[w].cap \in Caps
    BY DEF TypeOK, JobOK
  <1> QED
    BY <1>1, IdleJobType, PromotingType DEF AfterDelete

LEMMA AfterLoopType ==
  ASSUME TypeOK, NEW w \in Workers
  PROVE  JobOK(AfterLoop(w))
  <1>1. JobOK(job[w]) /\ job[w].promoted \in SUBSET Users
    BY DEF TypeOK, Jobs
  <1>2. JobOK([BatchLeft(job[w]) EXCEPT !.step = "mail", !.promoted = job[w].promoted])
    BY <1>1, BatchLeftType DEF Jobs, JobOK, Steps
  <1> QED
    BY <1>1, <1>2, ResumeType DEF AfterLoop

LEMMA SetStateType ==
  ASSUME TypeOK, NEW w \in Workers, NEW new \in RegistrationStates,
         job[w].user \in Users, job[w].cap \in Caps, SetState(w, new)
  PROVE  /\ state' \in [Users -> RegistrationStates \cup {NoRow}]
         /\ job' \in [Workers -> Jobs]
         /\ \A x \in Workers : JobOK(job'[x])
         /\ UNCHANGED <<ahead, checked_in, event, sweep>>
  <1>1. /\ JobOK(job[w])
        /\ max_registration \in Caps
    BY DEF TypeOK
  <1>2. \A c \in {job[w].cap, max_registration} : JobOK(Promoting(job[w], c))
    BY <1>1, PromotingType
  <1>3. \E j : JobOK(j) /\ Continue(w, j)
    BY <1>1, <1>2, ResumeType DEF SetState
  <1>4. job' \in [Workers -> Jobs] /\ \A x \in Workers : JobOK(job'[x])
    BY <1>3, ContinueType
  <1> QED
    BY <1>4 DEF TypeOK, SetState

LEMMA StartType ==
  ASSUME TypeOK, NEW w \in Workers, Request(w)
  PROVE  TypeOK'
  <1>1. UNCHANGED <<rows, event, sweep, history>>
    BY DEF Request, RsvpStart, CancelStart, DecideStart, BatchStart, CheckInStart, EditStart
  <1>2. ASSUME NEW kind, NEW j, JobOK(j), Start(w, kind, j)
        PROVE  TypeOK'
    <2>1. job' \in [Workers -> Jobs] /\ \A x \in Workers : JobOK(job'[x])
      BY <1>2, ContinueType DEF Start
    <2> QED
      BY <1>1, <2>1 DEF TypeOK, rows, event, history
  <1>3. ASSUME NEW u \in Users, RsvpStart(w, u)
        PROVE  TypeOK'
    <2>1. JobOK([IdleJob EXCEPT !.step = "choose", !.user = u, !.cap = max_registration])
      BY DEF TypeOK, IdleJob, Jobs, JobOK, Steps, NoRow, RegistrationStates
    <2> QED
      BY <1>2, <1>3, <2>1 DEF RsvpStart
  <1>4. ASSUME NEW u \in Users, CancelStart(w, u)
        PROVE  TypeOK'
    <2>1. JobOK(Fetched(u, "cancel", NoRow))
      BY FetchedType
    <2> QED
      BY <1>2, <1>4, <2>1 DEF CancelStart
  <1>5. ASSUME NEW u \in Users, NEW goal \in Decisions, DecideStart(w, u, goal)
        PROVE  TypeOK'
    <2>1. JobOK(Fetched(u, "decide", goal))
      BY FetchedType, DecisionsAssumption DEF RegistrationStates
    <2> QED
      BY <1>2, <1>5, <2>1 DEF DecideStart
  <1>8. ASSUME NEW S \in SUBSET Users, NEW goal \in Decisions \ {"Waitlisted"},
               BatchStart(w, S, goal)
        PROVE  TypeOK'
    <2>1. goal \in RegistrationStates
      BY DecisionsAssumption DEF RegistrationStates
    <2>2. ASSUME NEW u \in S
          PROVE  [user |-> u, seen |-> state[u], live |-> TRUE] \in LoadedRows
      BY <1>8 DEF BatchStart, Registered, LoadedRows, TypeOK
    <2>3. {[user |-> u, seen |-> state[u], live |-> TRUE] : u \in S} \in SUBSET LoadedRows
      BY <2>2
    <2>4. ASSUME NEW R \in SUBSET LoadedRows
          PROVE  JobOK([IdleJob EXCEPT !.step = "next", !.goal = goal, !.rest = R])
      BY <2>1, <2>4 DEF IdleJob, Jobs, JobOK, Steps, NoRow
    <2> QED
      BY <1>2, <1>8, <2>3, <2>4 DEF BatchStart
  <1>6. ASSUME NEW u \in Users, CheckInStart(w, u)
        PROVE  TypeOK'
    <2>1. JobOK(Fetched(u, "check_in", "Confirmed"))
      BY FetchedType DEF RegistrationStates
    <2> QED
      BY <1>2, <1>6, <2>1 DEF CheckInStart
  <1>7. ASSUME EditStart(w)
        PROVE  TypeOK'
    <2>1. JobOK([IdleJob EXCEPT !.step = "edit", !.cap = max_registration,
                                !.processed = auto_absent_processed])
      BY DEF TypeOK, IdleJob, Jobs, JobOK, Steps, NoRow, RegistrationStates
    <2> QED
      BY <1>2, <1>7, <2>1 DEF EditStart
  <1> QED
    BY <1>3, <1>4, <1>5, <1>6, <1>7, <1>8 DEF Request

LEMMA StepType ==
  ASSUME TypeOK, NEW w \in Workers, Step(w)
  PROVE  TypeOK'
  <1> USE DEF rows, event, history
  <1>0. job[w] \in Jobs /\ JobOK(job[w])
    BY DEF TypeOK
  <1>1. ASSUME RsvpChoose(w)
        PROVE  TypeOK'
    <2>1. JobOK([job[w] EXCEPT !.step = "insert", !.goal = DefaultState(job[w].cap),
                               !.older = Registered])
      BY <1>0, <1>1, DefaultStateType DEF RsvpChoose, JobOK, Jobs, Steps, Registered
    <2>2. job' \in [Workers -> Jobs] /\ \A x \in Workers : JobOK(job'[x])
      BY <1>1, <2>1, ContinueType DEF RsvpChoose
    <2> QED
      BY <1>1, <2>2 DEF TypeOK, RsvpChoose
  <1>2. CASE RsvpInsert(w)
    <2>1. job' \in [Workers -> Jobs] /\ \A x \in Workers : JobOK(job'[x])
      BY <1>2, FinishType DEF RsvpInsert
    <2>2. job[w].goal \in RegistrationStates /\ job[w].user \in Users
      BY <1>0, <1>2 DEF RsvpInsert, JobOK
    <2>3. ahead' \in [Users -> SUBSET Users]
      <3>1. PICK S \in SUBSET Registered : ahead' = PlacedAfter(job[w].user, S)
        BY <1>2 DEF RsvpInsert, CreatedAfter
      <3> QED
        BY <2>2, <3>1 DEF PlacedAfter, Registered, TypeOK
    <2> QED
      BY <1>2, <2>1, <2>2, <2>3 DEF TypeOK, RsvpInsert
  <1>3. CASE RsvpDuplicate(w)
    BY <1>3, FinishType DEF TypeOK, RsvpDuplicate
  <1>4. CASE CancelLate(w)
    <2>1. job[w].user \in Users /\ job[w].cap \in Caps /\ "Absent" \in RegistrationStates
      BY <1>0, <1>4 DEF CancelLate, JobOK, RegistrationStates
    <2> QED
      BY <1>4, <2>1, SetStateType DEF TypeOK, CancelLate
  <1>5. CASE CancelInTime(w)
    <2>1. JobOK(AfterDelete(w))
      BY <1>5, AfterDeleteType DEF CancelInTime
    <2>2. ASSUME NEW x \in Workers
          PROVE  JobOK(job'[x])
      <3> DEFINE u == job[w].user
                 left == {[r EXCEPT !.live = @ /\ r.user # u] : r \in job[x].rest}
      <3>1. JobOK(job[x]) /\ job[x].rest \in SUBSET LoadedRows /\ job[x].live \in BOOLEAN
        BY DEF TypeOK, JobOK, Jobs
      <3>2. ASSUME NEW r \in LoadedRows
            PROVE  [r EXCEPT !.live = @ /\ r.user # u] \in LoadedRows
        BY DEF LoadedRows
      <3>3. left \in SUBSET LoadedRows /\ (left # {} => job[x].rest # {})
        BY <3>1, <3>2
      <3>4. ASSUME NEW R \in SUBSET LoadedRows, R # {} => job[x].rest # {}, NEW b \in BOOLEAN,
                   NEW o \in SUBSET Users
            PROVE  JobOK([job[x] EXCEPT !.live = b, !.older = o, !.rest = R])
        BY <3>1, <3>4 DEF JobOK, Jobs
      <3>5. /\ (job[x].live /\ job[x].user # u) \in BOOLEAN
            /\ job[x].older \ {u} \in SUBSET Users
        BY <3>1 DEF JobOK, Jobs
      <3>6. JobOK([job[x] EXCEPT !.live = job[x].live /\ job[x].user # u,
                                 !.older = job[x].older \ {u}, !.rest = left])
        BY <3>3, <3>4, <3>5
      <3>7. CASE x = w
        BY <1>5, <2>1, <3>7 DEF CancelInTime, JobsWithoutRow
      <3>8. CASE x # w
        <4>1. job'[x] = [job[x] EXCEPT !.live = job[x].live /\ job[x].user # u,
                                       !.older = job[x].older \ {u}, !.rest = left]
          BY <1>5, <3>8 DEF CancelInTime, JobsWithoutRow
        <4> QED
          BY <3>6, <4>1
      <3> QED
        BY <3>7, <3>8
    <2>3. job' \in [Workers -> Jobs]
      BY <1>5, <2>2 DEF CancelInTime, JobsWithoutRow, JobOK
    <2> QED
      BY <1>5, <2>2, <2>3 DEF TypeOK, CancelInTime
  <1>6. CASE CancelAgain(w)
    <2>1. job' \in [Workers -> Jobs] /\ \A x \in Workers : JobOK(job'[x])
      BY <1>6, AfterDeleteType, ContinueType DEF CancelAgain
    <2> QED
      BY <1>6, <2>1 DEF TypeOK, CancelAgain
  <1>7. CASE Decide(w)
    <2>1. job[w].user \in Users /\ job[w].cap \in Caps /\ job[w].goal \in RegistrationStates
      BY <1>0, <1>7 DEF Decide, JobOK
    <2> QED
      BY <1>7, <2>1, SetStateType DEF TypeOK, Decide
  <1>8. CASE DecideNothing(w) \/ PromoteMail(w)
    <2>1. job' \in [Workers -> Jobs] /\ \A x \in Workers : JobOK(job'[x])
      BY <1>0, <1>8, ResumeType, ContinueType DEF DecideNothing, PromoteMail
    <2> QED
      BY <1>8, <2>1 DEF TypeOK, DecideNothing, PromoteMail
  <1>9. CASE CheckIn(w)
    <2>1. job' \in [Workers -> Jobs] /\ \A x \in Workers : JobOK(job'[x])
      BY <1>9, FinishType DEF CheckIn
    <2>2. job[w].user \in Users /\ "Confirmed" \in RegistrationStates
      BY <1>0, <1>9 DEF CheckIn, JobOK, RegistrationStates
    <2> QED
      BY <1>9, <2>1, <2>2 DEF TypeOK, CheckIn
  <1>10. CASE PromoteCount(w)
    <2>1. JobOK([job[w] EXCEPT !.step = "pick"])
      BY <1>0, <1>10 DEF PromoteCount, JobOK, Jobs, Steps
    <2>2. job' \in [Workers -> Jobs] /\ \A x \in Workers : JobOK(job'[x])
      BY <1>10, <2>1, AfterLoopType, ContinueType DEF PromoteCount
    <2> QED
      BY <1>10, <2>2 DEF TypeOK, PromoteCount
  <1>11. CASE PromotePick(w)
    <2>1. PICK u \in Users :
             Continue(w, [job[w] EXCEPT !.step = "confirm", !.user = u, !.seen = "Waitlisted"])
      BY <1>11 DEF PromotePick
    <2>2. JobOK([job[w] EXCEPT !.step = "confirm", !.user = u, !.seen = "Waitlisted"])
      BY <1>0, <1>11 DEF PromotePick, JobOK, Jobs, Steps, RegistrationStates
    <2>3. job' \in [Workers -> Jobs] /\ \A x \in Workers : JobOK(job'[x])
      BY <2>1, <2>2, ContinueType
    <2> QED
      BY <1>11, <2>3 DEF TypeOK, PromotePick
  <1>12. CASE PromoteNobody(w)
    <2>1. job' \in [Workers -> Jobs] /\ \A x \in Workers : JobOK(job'[x])
      BY <1>12, AfterLoopType, ContinueType DEF PromoteNobody
    <2> QED
      BY <1>12, <2>1 DEF TypeOK, PromoteNobody
  <1>13. CASE PromoteConfirm(w)
    <2>1. /\ job[w].user \in Users
          /\ job[w].cap \in Caps
          /\ job[w].promoted \cup {job[w].user} \in SUBSET Users
      BY <1>0, <1>13 DEF PromoteConfirm, JobOK, Jobs
    <2>2. JobOK(Promoting(job[w], job[w].cap))
      BY <1>0, <2>1, PromotingType
    <2>3. Promoting(job[w], job[w].cap).step = "count"
      BY <1>0, BatchLeftType DEF Promoting, Jobs
    <2>6. JobOK([Promoting(job[w], job[w].cap)
                   EXCEPT !.promoted = job[w].promoted \cup {job[w].user}])
      BY <2>1, <2>2, <2>3 DEF JobOK, Jobs
    <2>4. job' \in [Workers -> Jobs] /\ \A x \in Workers : JobOK(job'[x])
      BY <1>13, <2>6, ContinueType DEF PromoteConfirm
    <2>5. "Confirmed" \in RegistrationStates
      BY DEF RegistrationStates
    <2> QED
      BY <1>13, <2>1, <2>4, <2>5 DEF TypeOK, PromoteConfirm
  <1>14. CASE BatchNext(w)
    <2>1. PICK r \in job[w].rest :
             Continue(w, [job[w] EXCEPT !.step = "decide", !.user = r.user, !.seen = r.seen,
                                        !.live = r.live, !.cap = max_registration,
                                        !.rest = job[w].rest \ {r}])
      BY <1>14 DEF BatchNext
    <2>2. r \in LoadedRows /\ max_registration \in Caps /\ job[w].goal \in RegistrationStates
      BY <1>0 DEF JobOK, Jobs, TypeOK
    <2>3. JobOK([job[w] EXCEPT !.step = "decide", !.user = r.user, !.seen = r.seen,
                               !.live = r.live, !.cap = max_registration,
                               !.rest = job[w].rest \ {r}])
      BY <1>0, <2>2 DEF JobOK, Jobs, Steps, LoadedRows
    <2>4. job' \in [Workers -> Jobs] /\ \A x \in Workers : JobOK(job'[x])
      BY <2>1, <2>3, ContinueType
    <2> QED
      BY <1>14, <2>4 DEF TypeOK, BatchNext
  <1>15. CASE RowGone(w)
    BY <1>15, FinishType DEF TypeOK, RowGone
  <1>16. CASE EditSave(w)
    <2>1. job[w].processed \in BOOLEAN
      BY <1>0 DEF Jobs
    <2> QED
      BY <1>16, <2>1, FinishType DEF TypeOK, EditSave, Raises
  <1> QED
    BY <1>1, <1>2, <1>3, <1>4, <1>5, <1>6, <1>7, <1>8, <1>9, <1>10, <1>11, <1>12,
       <1>13, <1>14, <1>15, <1>16 DEF Step

LEMMA SweepType ==
  ASSUME TypeOK, Sweep
  PROVE  TypeOK'
  <1> USE DEF rows, event, history
  <1>1. CASE SweepSelect
    BY <1>1 DEF TypeOK, SweepSelect
  <1>2. CASE SweepUpdate
    BY <1>2 DEF TypeOK, SweepUpdate, RegistrationStates
  <1>3. CASE SweepMark
    BY <1>3 DEF TypeOK, SweepMark
  <1>4. CASE SweepCrash
    BY <1>4 DEF TypeOK, SweepCrash
  <1> QED
    BY <1>1, <1>2, <1>3, <1>4 DEF Sweep

(* Every variable keeps its type, in every instance of the specification.  *)
THEOREM TypeCorrect == Spec => []TypeOK
  <1>1. Init => TypeOK
    BY IdleJobType DEF Init, TypeOK, NoRow
  <1>2. TypeOK /\ [Next]_vars => TypeOK'
    <2> SUFFICES ASSUME TypeOK, [Next]_vars
                 PROVE  TypeOK'
      OBVIOUS
    <2>1. CASE \E w \in Workers : Request(w)
      BY <2>1, StartType
    <2>2. CASE \E w \in Workers : Step(w)
      BY <2>2, StepType
    <2>3. CASE Sweep
      BY <2>3, SweepType
    <2>4. CASE ClockMoves
      BY <2>4 DEF TypeOK, ClockMoves, rows, history
    <2>5. CASE UNCHANGED vars
      BY <2>5 DEF TypeOK, vars, rows, event, history
    <2> QED
      BY <2>1, <2>2, <2>3, <2>4, <2>5 DEF Next
  <1> QED
    BY <1>1, <1>2, PTL DEF Spec

-----------------------------------------------------------------------------
(* Deleted rows stay deleted.  NoResurrection follows because a request    *)
(* that may still write a row (live) holds a row that exists: the database *)
(* tells every other request when its row is deleted.                      *)

RowSteps == {"cancel", "decide", "check_in", "confirm"}

RowExists(j) ==
  /\ j.step \in RowSteps /\ j.live => state[j.user] # NoRow
  /\ \A r \in j.rest : r.live => state[r.user] # NoRow

LiveRows == \A w \in Workers : RowExists(job[w])

(* No action but a cancellation deletes rows, so what other requests hold  *)
(* stays; it remains to look at the request that moved.                    *)
LEMMA LiveRowsFrame ==
  ASSUME TypeOK, LiveRows, NEW w \in Workers, NEW j, Continue(w, j),
         j.step \in RowSteps /\ j.live => state'[j.user] # NoRow,
         j.rest \subseteq job[w].rest,
         \A u \in Users : state[u] # NoRow => state'[u] # NoRow
  PROVE  LiveRows'
  <1> SUFFICES ASSUME NEW x \in Workers
               PROVE  RowExists(job[x])'
    BY DEF LiveRows
  <1>0. RowExists(job[x]) /\ RowExists(job[w])
    BY DEF LiveRows
  <1>1. CASE x = w
    <2>1. job'[x] = j
      BY <1>1 DEF Continue, TypeOK
    <2>2. \A r \in job[w].rest : r.user \in Users
      BY DEF TypeOK, Jobs, LoadedRows
    <2> QED
      BY <1>0, <2>1, <2>2 DEF RowExists
  <1>2. CASE x # w
    <2>1. job'[x] = job[x]
      BY <1>2 DEF Continue, TypeOK
    <2>2. job[x].step \in RowSteps => job[x].user \in Users
      BY DEF TypeOK, JobOK, RowSteps
    <2>3. \A r \in job[x].rest : r.user \in Users
      BY DEF TypeOK, Jobs, LoadedRows
    <2> QED
      BY <1>0, <2>1, <2>2, <2>3 DEF RowExists
  <1> QED
    BY <1>1, <1>2

(* Jobs that hold no row to write, and no more of a batch than w had.      *)
Plain(w, j) == j.step \notin RowSteps /\ j.rest \subseteq job[w].rest

LEMMA PlainJobs ==
  ASSUME TypeOK, NEW w \in Workers
  PROVE  /\ Plain(w, IdleJob)
         /\ Plain(w, Resume(job[w]))
         /\ Plain(w, AfterDelete(w))
         /\ Plain(w, AfterLoop(w))
         /\ \A c : Plain(w, Promoting(job[w], c))
  <1>1. /\ BatchLeft(job[w]) \in Jobs
        /\ BatchLeft(job[w]).rest = job[w].rest
    BY BatchLeftType DEF TypeOK
  <1>2. Plain(w, IdleJob) /\ \A c : Plain(w, Promoting(job[w], c))
    BY <1>1 DEF Plain, IdleJob, Promoting, Jobs, RowSteps
  <1>3. Plain(w, Resume(job[w])) /\ Plain(w, AfterDelete(w))
    BY <1>1, <1>2 DEF Resume, AfterDelete, Plain, Jobs, RowSteps
  <1>4. Plain(w, AfterLoop(w))
    BY <1>1, <1>3 DEF AfterLoop, Plain, Jobs, RowSteps
  <1> QED
    BY <1>2, <1>3, <1>4

(* The frame for a request that goes on with a plain job.                  *)
LEMMA PlainFrame ==
  ASSUME TypeOK, LiveRows, NEW w \in Workers, NEW j, Continue(w, j), Plain(w, j),
         \A u \in Users : state[u] # NoRow => state'[u] # NoRow
  PROVE  LiveRows'
  BY LiveRowsFrame DEF Plain

LEMMA RequestLiveRows ==
  ASSUME TypeOK, LiveRows, NEW w \in Workers, Request(w)
  PROVE  LiveRows'
  <1>1. state' = state
    BY DEF Request, RsvpStart, CancelStart, DecideStart, BatchStart, CheckInStart, EditStart,
           rows
  <1>2. ASSUME NEW u \in Users, RsvpStart(w, u)
        PROVE  LiveRows'
    <2>1. Plain(w, [IdleJob EXCEPT !.step = "choose", !.user = u, !.cap = max_registration])
      BY DEF IdleJob, RowSteps, Plain
    <2> QED
      BY <1>1, <1>2, <2>1, PlainFrame DEF RsvpStart, Start
  <1>3. ASSUME NEW u \in Users, NEW kind, NEW step, NEW goal, state[u] # NoRow,
               Start(w, kind, Fetched(u, step, goal))
        PROVE  LiveRows'
    <2>1. Fetched(u, step, goal).user = u /\ Fetched(u, step, goal).rest = {}
      BY DEF Fetched, IdleJob
    <2> QED
      BY <1>1, <1>3, <2>1, LiveRowsFrame DEF Start
  <1>4. CASE EditStart(w)
    <2>1. Plain(w, [IdleJob EXCEPT !.step = "edit", !.cap = max_registration,
                                   !.processed = auto_absent_processed])
      BY DEF IdleJob, RowSteps, Plain
    <2> QED
      BY <1>1, <1>4, <2>1, PlainFrame DEF EditStart, Start
  <1>5. ASSUME NEW S \in SUBSET Users, NEW goal, BatchStart(w, S, goal)
        PROVE  LiveRows'
    <2> DEFINE loaded == {[user |-> u, seen |-> state[u], live |-> TRUE] : u \in S}
               j == [IdleJob EXCEPT !.step = "next", !.goal = goal, !.rest = loaded]
    <2>1. Continue(w, j)
      BY <1>5 DEF BatchStart, Start
    <2>2. j.step \notin RowSteps /\ j.rest = loaded
      BY DEF IdleJob, RowSteps
    <2>3. \A r \in loaded : state[r.user] # NoRow
      BY <1>5 DEF BatchStart, Registered
    <2>4. ASSUME NEW x \in Workers
          PROVE  RowExists(job[x])'
      <3>1. CASE x = w
        <4>1. job'[x] = j
          BY <2>1, <3>1 DEF Continue, TypeOK
        <4> HIDE DEF j, loaded
        <4> QED
          BY <1>1, <2>2, <2>3, <4>1 DEF RowExists
      <3>2. CASE x # w
        <4>1. job'[x] = job[x]
          BY <2>1, <3>2 DEF Continue, TypeOK
        <4> QED
          BY <1>1, <4>1 DEF RowExists, LiveRows
      <3> QED
        BY <3>1, <3>2
    <2> QED
      BY <2>4 DEF LiveRows
  <1> QED
    BY <1>2, <1>3, <1>4, <1>5 DEF Request, CancelStart, DecideStart, CheckInStart

LEMMA SetStateLiveRows ==
  ASSUME TypeOK, LiveRows, NEW w \in Workers, NEW new \in RegistrationStates,
         job[w].user \in Users, SetState(w, new)
  PROVE  LiveRows'
  <1>1. \A u \in Users : state[u] # NoRow => state'[u] # NoRow
    BY DEF SetState, TypeOK, RegistrationStates, NoRow
  <1>2. \E j : Continue(w, j) /\ Plain(w, j)
    BY PlainJobs DEF SetState
  <1> QED
    BY <1>1, <1>2, PlainFrame

LEMMA StepLiveRows ==
  ASSUME TypeOK, LiveRows, NEW w \in Workers, Step(w)
  PROVE  LiveRows'
  <1> USE DEF rows
  <1>0. job[w] \in Jobs /\ JobOK(job[w])
    BY DEF TypeOK
  <1>1. CASE RsvpChoose(w)
    <2>1. Plain(w, [job[w] EXCEPT !.step = "insert", !.goal = DefaultState(job[w].cap),
                                  !.older = Registered])
      BY <1>0 DEF Jobs, RowSteps, Plain
    <2> QED
      BY <1>1, <2>1, PlainFrame DEF RsvpChoose
  <1>2. CASE RsvpInsert(w)
    <2>1. \A u \in Users : state[u] # NoRow => state'[u] # NoRow
      BY <1>2 DEF RsvpInsert, TypeOK
    <2> QED
      BY <1>2, <2>1, PlainJobs, PlainFrame DEF RsvpInsert, Finish
  <1>3. CASE RsvpDuplicate(w) \/ DecideNothing(w) \/ PromoteMail(w) \/ RowGone(w) \/ EditSave(w)
    BY <1>3, PlainJobs, PlainFrame
    DEF RsvpDuplicate, DecideNothing, PromoteMail, RowGone, EditSave, Finish
  <1>4. CASE CancelLate(w)
    BY <1>0, <1>4, SetStateLiveRows DEF CancelLate, JobOK, RegistrationStates
  <1>5. CASE CancelInTime(w)
    <2> SUFFICES ASSUME NEW x \in Workers
                 PROVE  RowExists(job[x])'
      BY DEF LiveRows
    <2> DEFINE u == job[w].user
               left == {[r EXCEPT !.live = @ /\ r.user # u] : r \in job[x].rest}
    <2>1. job[x] \in Jobs /\ JobOK(job[x]) /\ RowExists(job[x])
      BY DEF TypeOK, LiveRows
    <2>2. \A v \in Users : v # u /\ state[v] # NoRow => state'[v] # NoRow
      BY <1>5 DEF CancelInTime, TypeOK
    <2>3. CASE x = w
      <3>1. job'[x] = AfterDelete(w)
        BY <1>5, <2>3 DEF CancelInTime, JobsWithoutRow
      <3>2. AfterDelete(w).rest = {} /\ AfterDelete(w).step \notin RowSteps
        BY <1>0, <1>5, PlainJobs DEF Plain, CancelInTime, JobOK
      <3> QED
        BY <3>1, <3>2 DEF RowExists
    <2>4. CASE x # w
      <3>1. job'[x] = [job[x] EXCEPT !.live = job[x].live /\ job[x].user # u,
                                     !.older = job[x].older \ {u}, !.rest = left]
        BY <1>5, <2>4 DEF CancelInTime, JobsWithoutRow
      <3>2. /\ job'[x].step = job[x].step
            /\ job'[x].user = job[x].user
            /\ job'[x].live = (job[x].live /\ job[x].user # u)
            /\ job'[x].rest = left
        BY <2>1, <3>1 DEF Jobs
      <3>3. job[x].step \in RowSteps => job[x].user \in Users
        BY <2>1 DEF JobOK, RowSteps
      <3>4. ASSUME NEW r \in left, r.live
            PROVE  state'[r.user] # NoRow
        <4>1. PICK q \in job[x].rest : r = [q EXCEPT !.live = @ /\ q.user # u]
          OBVIOUS
        <4>2. q \in LoadedRows
          BY <2>1 DEF Jobs
        <4>3. r.user = q.user /\ q.live /\ q.user # u /\ q.user \in Users
          BY <3>4, <4>1, <4>2 DEF LoadedRows
        <4> QED
          BY <2>1, <2>2, <4>3 DEF RowExists
      <3> HIDE DEF left
      <3> QED
        BY <2>1, <2>2, <3>2, <3>3, <3>4 DEF RowExists
    <2> QED
      BY <2>3, <2>4
  <1>6. CASE CancelAgain(w)
    BY <1>6, PlainJobs, PlainFrame DEF CancelAgain
  <1>7. CASE Decide(w)
    BY <1>0, <1>7, SetStateLiveRows DEF Decide, JobOK
  <1>8. CASE CheckIn(w)
    <2>1. \A u \in Users : state[u] # NoRow => state'[u] # NoRow
      BY <1>8 DEF CheckIn, TypeOK, NoRow
    <2> QED
      BY <1>8, <2>1, PlainJobs, PlainFrame DEF CheckIn, Finish
  <1>9. CASE PromoteCount(w) \/ PromoteNobody(w)
    <2>1. Plain(w, [job[w] EXCEPT !.step = "pick"])
      BY <1>0 DEF Jobs, RowSteps, Plain
    <2> QED
      BY <1>9, <2>1, PlainJobs, PlainFrame DEF PromoteCount, PromoteNobody
  <1>10. CASE PromotePick(w)
    <2>1. PICK u \in Users :
             /\ state[u] = "Waitlisted"
             /\ Continue(w, [job[w] EXCEPT !.step = "confirm", !.user = u, !.seen = "Waitlisted"])
      BY <1>10 DEF PromotePick, FirstInLine, Waiting
    <2>2. /\ [job[w] EXCEPT !.step = "confirm", !.user = u, !.seen = "Waitlisted"].user = u
          /\ [job[w] EXCEPT !.step = "confirm", !.user = u, !.seen = "Waitlisted"].rest
               = job[w].rest
      BY <1>0 DEF Jobs
    <2>3. state' = state /\ state[u] # NoRow
      BY <1>10, <2>1 DEF PromotePick, NoRow
    <2> QED
      BY <2>1, <2>2, <2>3, LiveRowsFrame
  <1>11. CASE PromoteConfirm(w)
    <2>1. \A u \in Users : state[u] # NoRow => state'[u] # NoRow
      BY <1>11 DEF PromoteConfirm, TypeOK, NoRow
    <2>2. Promoting(job[w], job[w].cap) \in Jobs /\ Plain(w, Promoting(job[w], job[w].cap))
      BY <1>0, <1>11, PlainJobs, PromotingType DEF PromoteConfirm, JobOK
    <2>3. Plain(w, [Promoting(job[w], job[w].cap)
                      EXCEPT !.promoted = job[w].promoted \cup {job[w].user}])
      BY <2>2 DEF Plain, Jobs
    <2> QED
      BY <1>11, <2>1, <2>3, PlainFrame DEF PromoteConfirm
  <1>12. CASE BatchNext(w)
    <2>1. PICK r \in job[w].rest :
             Continue(w, [job[w] EXCEPT !.step = "decide", !.user = r.user, !.seen = r.seen,
                                        !.live = r.live, !.cap = max_registration,
                                        !.rest = job[w].rest \ {r}])
      BY <1>12 DEF BatchNext
    <2> DEFINE j == [job[w] EXCEPT !.step = "decide", !.user = r.user, !.seen = r.seen,
                                   !.live = r.live, !.cap = max_registration,
                                   !.rest = job[w].rest \ {r}]
    <2>2. j.user = r.user /\ j.live = r.live /\ j.rest \subseteq job[w].rest
      BY <1>0 DEF Jobs
    <2>3. r.live => state[r.user] # NoRow
      BY DEF LiveRows, RowExists
    <2>4. state' = state
      BY <1>12 DEF BatchNext
    <2> HIDE DEF j
    <2> QED
      BY <2>1, <2>2, <2>3, <2>4, LiveRowsFrame DEF j
  <1> QED
    BY <1>1, <1>2, <1>3, <1>4, <1>5, <1>6, <1>7, <1>8, <1>9, <1>10, <1>11,
       <1>12 DEF Step

THEOREM LiveRowsInvariant == Spec => []LiveRows
  <1>1. Init => LiveRows
    BY DEF Init, LiveRows, RowExists, IdleJob, RowSteps
  <1>2. TypeOK /\ LiveRows /\ [Next]_vars => LiveRows'
    <2> SUFFICES ASSUME TypeOK, LiveRows, [Next]_vars
                 PROVE  LiveRows'
      OBVIOUS
    <2>1. CASE \E w \in Workers : Request(w)
      BY <2>1, RequestLiveRows
    <2>2. CASE \E w \in Workers : Step(w)
      BY <2>2, StepLiveRows
    <2>3. CASE SweepUpdate
      <3>1. \A u \in Users : state[u] # NoRow => state'[u] # NoRow
        BY <2>3 DEF SweepUpdate, NoRow
      <3>2. \A w \in Workers : job[w].step \in RowSteps => job[w].user \in Users
        BY DEF TypeOK, JobOK, RowSteps
      <3>3. \A w \in Workers : \A r \in job[w].rest : r.user \in Users
        BY DEF TypeOK, Jobs, LoadedRows
      <3> QED
        BY <2>3, <3>1, <3>2, <3>3 DEF LiveRows, RowExists, SweepUpdate
    <2>4. CASE SweepSelect \/ SweepMark \/ SweepCrash \/ ClockMoves \/ UNCHANGED vars
      BY <2>4 DEF LiveRows, RowExists, SweepSelect, SweepMark, SweepCrash, ClockMoves, vars,
                  rows
    <2> QED
      BY <2>1, <2>2, <2>3, <2>4 DEF Next, Sweep
  <1> QED
    BY <1>1, <1>2, TypeCorrect, PTL DEF Spec

(* Whatever the requests in flight, a deleted row comes back only through  *)
(* an RSVP of its member.                                                  *)
THEOREM DeletedRowsStayDeleted == Spec => NoResurrection
  <1>1. TypeOK /\ LiveRows /\ [Next]_vars
        => [\A u \in Users :
              state[u] = NoRow /\ state'[u] # NoRow
                 => \E w \in Workers : job[w].step = "insert" /\ job[w].user = u]_vars
    <2> SUFFICES ASSUME TypeOK, LiveRows, Next, NEW u \in Users,
                        state[u] = NoRow, state'[u] # NoRow
                 PROVE  \E w \in Workers : job[w].step = "insert" /\ job[w].user = u
      OBVIOUS
    <2>1. CASE \E w \in Workers : Request(w)
      BY <2>1 DEF Request, RsvpStart, CancelStart, DecideStart, BatchStart, CheckInStart,
                  EditStart, rows
    <2>2. CASE \E w \in Workers : Step(w)
      <3>1. PICK w \in Workers : Step(w)
        BY <2>2
      <3>2. RowExists(job[w])
        BY DEF LiveRows
      <3>3. CASE RsvpInsert(w)
        BY <3>3 DEF RsvpInsert, TypeOK
      <3>4. CASE CancelLate(w) \/ Decide(w)
        BY <3>2, <3>4 DEF CancelLate, Decide, SetState, RowExists, RowSteps, TypeOK
      <3>5. CASE CancelInTime(w)
        BY <3>5 DEF CancelInTime, TypeOK
      <3>6. CASE CheckIn(w) \/ PromoteConfirm(w)
        BY <3>2, <3>6 DEF CheckIn, PromoteConfirm, RowExists, RowSteps, TypeOK
      <3> QED
        BY <3>1, <3>3, <3>4, <3>5, <3>6
        DEF Step, RsvpChoose, RsvpDuplicate, CancelAgain, DecideNothing, BatchNext, PromoteCount,
            PromotePick, PromoteNobody, PromoteMail, RowGone, EditSave, rows
    <2>3. CASE Sweep
      BY <2>3 DEF Sweep, SweepSelect, SweepUpdate, SweepMark, SweepCrash, NoShows, NoRow, rows
    <2>4. CASE ClockMoves
      BY <2>4 DEF ClockMoves, rows
    <2> QED
      BY <2>1, <2>2, <2>3, <2>4 DEF Next
  <1> QED
    BY <1>1, TypeCorrect, LiveRowsInvariant, PTL DEF Spec, NoResurrection

-----------------------------------------------------------------------------
(***************************************************************************)
(* How far an event can be overbooked, for any number of web processes.    *)
(*                                                                         *)
(* A request that has counted a free seat and has not yet taken it is      *)
(* "pending".  The seats taken without a lead, together with the pending   *)
(* requests, never exceed the largest cap by more than the number of       *)
(* further processes: whoever joins the pending saw fewer seats taken than *)
(* the cap, and there are at most as many pending as processes; whoever    *)
(* takes a seat ceases to be pending.                                      *)
(***************************************************************************)

ByRule == Seated \ granted

Pending == {w \in Workers :
              \/ job[w].step = "insert" /\ job[w].goal \in SeatHolding
              \/ job[w].step \in {"pick", "confirm"}}

SeatsBelow(m) == Cardinality(ByRule) + Cardinality(Pending) <= m + Cardinality(Workers) - 1

(* m bounds every cap, and none of the caps means unlimited.               *)
BoundsCaps(m) == m \in Caps /\ \A c \in Caps : 0 < c /\ c <= m

-----------------------------------------------------------------------------
(* Counting.                                                               *)

LEMMA Finite ==
  /\ IsFiniteSet(ByRule) /\ Cardinality(ByRule) \in Nat
  /\ IsFiniteSet(Pending) /\ Cardinality(Pending) \in Nat
  /\ Cardinality(Workers) \in Nat
  /\ IsFiniteSet(ByRule') /\ Cardinality(ByRule') \in Nat
  /\ IsFiniteSet(Pending') /\ Cardinality(Pending') \in Nat
  /\ Cardinality(Pending') <= Cardinality(Workers)
  <1>1. ByRule \subseteq Users /\ ByRule' \subseteq Users
    BY DEF ByRule, Seated
  <1>2. Pending \subseteq Workers /\ Pending' \subseteq Workers
    BY DEF Pending
  <1> QED
    BY <1>1, <1>2, UsersAssumption, WorkersAssumption, FS_Subset, FS_CardinalityType

(* A step that gives out no seat by rule and makes nobody pending.         *)
LEMMA Fewer ==
  ASSUME NEW m \in Nat, SeatsBelow(m), ByRule' \subseteq ByRule, Pending' \subseteq Pending
  PROVE  SeatsBelow(m)'
  <1>1. Cardinality(ByRule') <= Cardinality(ByRule)
    BY Finite, FS_Subset
  <1>2. Cardinality(Pending') <= Cardinality(Pending)
    BY Finite, FS_Subset
  <1> QED
    BY <1>1, <1>2, Finite DEF SeatsBelow

(* A pending request takes its seat.                                       *)
LEMMA Taken ==
  ASSUME NEW m \in Nat, SeatsBelow(m), NEW u, NEW w \in Pending,
         ByRule' \subseteq ByRule \cup {u}, Pending' \subseteq Pending \ {w}
  PROVE  SeatsBelow(m)'
  <1>1. /\ IsFiniteSet(ByRule \cup {u})
        /\ Cardinality(ByRule \cup {u}) = IF u \in ByRule THEN Cardinality(ByRule)
                                          ELSE Cardinality(ByRule) + 1
    BY Finite, FS_AddElement
  <1>2. Cardinality(ByRule') <= Cardinality(ByRule \cup {u})
    BY <1>1, FS_Subset
  <1>3. Cardinality(ByRule') <= Cardinality(ByRule) + 1
    BY <1>1, <1>2, Finite
  <1>4. IsFiniteSet(Pending \ {w}) /\ Cardinality(Pending \ {w}) = Cardinality(Pending) - 1
    BY Finite, FS_RemoveElement
  <1>5. Cardinality(Pending') <= Cardinality(Pending) - 1
    BY <1>4, FS_Subset
  <1> QED
    BY <1>3, <1>5, Finite DEF SeatsBelow

(* A request finds a seat free and becomes pending.                        *)
LEMMA FoundFree ==
  ASSUME NEW m, BoundsCaps(m), NEW c \in Caps, RegistrationAllowed(c), ByRule' = ByRule
  PROVE  SeatsBelow(m)'
  <1>1. Seated \subseteq Users /\ IsFiniteSet(Seated)
    BY UsersAssumption, FS_Subset DEF Seated
  <1>2. Cardinality(ByRule) <= Cardinality(Seated)
    BY <1>1, FS_Subset DEF ByRule
  <1>3. Cardinality(Seated) \in Nat /\ c \in Nat /\ m \in Nat /\ c <= m /\ 0 < c
    BY <1>1, FS_CardinalityType, CapsAssumption DEF BoundsCaps
  <1>4. Cardinality(Seated) < c
    BY <1>3 DEF RegistrationAllowed, active_registration_count
  <1> QED
    BY <1>2, <1>3, <1>4, Finite DEF SeatsBelow

-----------------------------------------------------------------------------
(* The steps.                                                              *)

(* Only the request that moves can become pending.                         *)
LEMMA PendingFrame ==
  ASSUME TypeOK, NEW w \in Workers, NEW j, Continue(w, j),
         j.step \notin {"insert", "pick", "confirm"}
  PROVE  Pending' \subseteq Pending
  BY DEF Pending, Continue, TypeOK

(* Jobs that are not pending.                                              *)
Calm(j) == j.step \notin {"insert", "pick", "confirm"}

LEMMA CalmJobs ==
  ASSUME TypeOK, NEW w \in Workers
  PROVE  /\ Calm(IdleJob)
         /\ Calm(Resume(job[w]))
         /\ Calm(AfterDelete(w))
         /\ Calm(AfterLoop(w))
         /\ \A c : Calm(Promoting(job[w], c))
  <1>1. BatchLeft(job[w]) \in Jobs
    BY BatchLeftType DEF TypeOK
  <1>2. Calm(IdleJob) /\ Calm(Resume(job[w])) /\ \A c : Calm(Promoting(job[w], c))
    BY <1>1 DEF Calm, IdleJob, Promoting, Resume, Jobs
  <1>3. Calm(AfterDelete(w)) /\ Calm(AfterLoop(w))
    BY <1>1, <1>2 DEF AfterDelete, AfterLoop, Calm, Jobs
  <1> QED
    BY <1>2, <1>3

LEMMA CalmFrame ==
  ASSUME TypeOK, NEW w \in Workers, NEW j, Continue(w, j), Calm(j)
  PROVE  Pending' \subseteq Pending
  BY PendingFrame DEF Calm

LEMMA RequestSeats ==
  ASSUME TypeOK, NEW m \in Nat, SeatsBelow(m), NEW w \in Workers, Request(w)
  PROVE  SeatsBelow(m)'
  <1>1. ByRule' = ByRule
    BY DEF Request, RsvpStart, CancelStart, DecideStart, BatchStart, CheckInStart, EditStart,
           rows, history, ByRule, Seated
  <1>2. ASSUME NEW u, RsvpStart(w, u)
        PROVE  Pending' \subseteq Pending
    <2>1. Calm([IdleJob EXCEPT !.step = "choose", !.user = u, !.cap = max_registration])
      BY DEF Calm, IdleJob
    <2> QED
      BY <1>2, <2>1, CalmFrame DEF RsvpStart, Start
  <1>3. ASSUME NEW u, NEW kind, NEW step \in {"cancel", "decide", "check_in"}, NEW goal,
               Start(w, kind, Fetched(u, step, goal))
        PROVE  Pending' \subseteq Pending
    <2>1. Calm(Fetched(u, step, goal))
      BY DEF Calm, Fetched, IdleJob
    <2> QED
      BY <1>3, <2>1, CalmFrame DEF Start
  <1>4. ASSUME NEW S, NEW goal, BatchStart(w, S, goal)
        PROVE  Pending' \subseteq Pending
    <2> DEFINE loaded == {[user |-> u, seen |-> state[u], live |-> TRUE] : u \in S}
    <2>1. Calm([IdleJob EXCEPT !.step = "next", !.goal = goal, !.rest = loaded])
      BY DEF Calm, IdleJob
    <2> QED
      BY <1>4, <2>1, CalmFrame DEF BatchStart, Start
  <1>5. CASE EditStart(w)
    <2>1. Calm([IdleJob EXCEPT !.step = "edit", !.cap = max_registration,
                               !.processed = auto_absent_processed])
      BY DEF Calm, IdleJob
    <2> QED
      BY <1>1, <1>5, <2>1, CalmFrame, Fewer DEF EditStart, Start
  <1> QED
    BY <1>1, <1>2, <1>3, <1>4, <1>5, Fewer DEF Request, CancelStart, DecideStart, CheckInStart

(* A row that set_state writes takes no seat by rule, if a seat it is      *)
(* given is recorded in granted.                                           *)
LEMMA SetStateSeats ==
  ASSUME TypeOK, NEW m \in Nat, SeatsBelow(m), NEW w \in Workers, NEW new, SetState(w, new),
         job[w].user \in Users,
         granted \ {job[w].user} \subseteq granted',
         new \in SeatHolding => job[w].user \in granted'
  PROVE  SeatsBelow(m)'
  <1>1. \E j : Continue(w, j) /\ Calm(j)
    BY CalmJobs DEF SetState
  <1>2. ByRule' \subseteq ByRule
    BY DEF SetState, ByRule, Seated, TypeOK
  <1> QED
    BY <1>1, <1>2, CalmFrame, Fewer

LEMMA StepSeats ==
  ASSUME TypeOK, NEW m, BoundsCaps(m), SeatsBelow(m), NEW w \in Workers, Step(w)
  PROVE  SeatsBelow(m)'
  <1> USE DEF rows, history
  <1>0. job[w] \in Jobs /\ JobOK(job[w]) /\ m \in Nat
    BY CapsAssumption DEF TypeOK, BoundsCaps
  <1>1. CASE RsvpChoose(w)
    <2> DEFINE goal == DefaultState(job[w].cap)
    <2>1. ByRule' = ByRule
      BY <1>1 DEF RsvpChoose, ByRule, Seated
    <2>2. CASE RegistrationAllowed(job[w].cap)
      BY <1>0, <1>1, <2>1, <2>2, FoundFree DEF RsvpChoose, JobOK
    <2>3. CASE ~RegistrationAllowed(job[w].cap)
      <3>1. goal = "Waitlisted"
        BY <2>3 DEF DefaultState
      <3>2. job' = [job EXCEPT ![w] = [job[w] EXCEPT !.step = "insert", !.goal = "Waitlisted",
                                                     !.older = Registered]]
        BY <1>1, <3>1 DEF RsvpChoose, Continue
      <3>3. Pending' \subseteq Pending
        BY <1>0, <3>2 DEF Pending, Jobs, SeatHolding, TypeOK
      <3> QED
        BY <1>0, <2>1, <3>3, Fewer
    <2> QED
      BY <2>2, <2>3
  <1>2. CASE RsvpInsert(w)
    <2>1. Pending' \subseteq Pending /\ w \notin Pending'
      BY <1>2, CalmJobs, CalmFrame DEF RsvpInsert, Finish, Continue, TypeOK, Pending, Calm
    <2>2. CASE job[w].goal \in SeatHolding
      <3>1. w \in Pending
        BY <1>2, <2>2 DEF RsvpInsert, Pending
      <3>2. ByRule' \subseteq ByRule \cup {job[w].user}
        BY <1>2 DEF RsvpInsert, ByRule, Seated, TypeOK
      <3> QED
        BY <1>0, <2>1, <3>1, <3>2, Taken
    <2>3. CASE job[w].goal \notin SeatHolding
      <3>1. ByRule' \subseteq ByRule
        BY <1>2, <2>3 DEF RsvpInsert, ByRule, Seated, TypeOK
      <3> QED
        BY <1>0, <2>1, <3>1, Fewer
    <2> QED
      BY <2>2, <2>3
  <1>3. CASE RsvpDuplicate(w) \/ DecideNothing(w) \/ PromoteMail(w) \/ RowGone(w)
    <2>1. ByRule' = ByRule
      BY <1>3 DEF RsvpDuplicate, DecideNothing, PromoteMail, RowGone, ByRule, Seated
    <2>2. Pending' \subseteq Pending
      BY <1>3, CalmJobs, CalmFrame DEF RsvpDuplicate, DecideNothing, PromoteMail, RowGone, Finish
    <2> QED
      BY <1>0, <2>1, <2>2, Fewer
  <1>4. CASE CancelLate(w)
    <2>1. job[w].user \in Users /\ "Absent" \notin SeatHolding
      BY <1>0, <1>4 DEF CancelLate, JobOK, SeatHolding
    <2> QED
      BY <1>0, <1>4, <2>1, SetStateSeats DEF CancelLate
  <1>5. CASE CancelInTime(w)
    <2>1. NoRow \notin SeatHolding
      BY DEF NoRow, SeatHolding
    <2>2. ByRule' \subseteq ByRule
      BY <1>5, <2>1 DEF CancelInTime, ByRule, Seated, TypeOK
    <2>3. ASSUME NEW x \in Workers, x # w
          PROVE  job'[x].step = job[x].step /\ job'[x].goal = job[x].goal
      <3>1. PICK b, o, R : job'[x] = [job[x] EXCEPT !.live = b, !.older = o, !.rest = R]
        BY <1>5, <2>3 DEF CancelInTime, JobsWithoutRow
      <3>2. job[x] \in Jobs
        BY DEF TypeOK
      <3> QED
        BY <3>1, <3>2 DEF Jobs
    <2>4. w \notin Pending'
      BY <1>5, CalmJobs DEF CancelInTime, JobsWithoutRow, Pending, Calm
    <2>5. Pending' \subseteq Pending
      BY <2>3, <2>4 DEF Pending
    <2> QED
      BY <1>0, <2>2, <2>5, Fewer
  <1>6. CASE CancelAgain(w)
    <2>1. ByRule' = ByRule
      BY <1>6 DEF CancelAgain, ByRule, Seated
    <2> QED
      BY <1>0, <1>6, <2>1, CalmJobs, CalmFrame, Fewer DEF CancelAgain
  <1>7. CASE Decide(w)
    <2>1. job[w].user \in Users
      BY <1>0, <1>7 DEF Decide, JobOK
    <2> QED
      BY <1>0, <1>7, <2>1, SetStateSeats DEF Decide
  <1>8. CASE CheckIn(w)
    <2>1. ByRule' \subseteq ByRule
      BY <1>8 DEF CheckIn, ByRule, Seated, TypeOK
    <2> QED
      BY <1>0, <1>8, <2>1, CalmJobs, CalmFrame, Fewer DEF CheckIn, Finish
  <1>9. CASE PromoteCount(w)
    <2>1. ByRule' = ByRule
      BY <1>9 DEF PromoteCount, ByRule, Seated
    <2>2. CASE RegistrationAllowed(job[w].cap)
      BY <1>0, <1>9, <2>1, <2>2, FoundFree DEF PromoteCount, JobOK
    <2>3. CASE ~RegistrationAllowed(job[w].cap)
      BY <1>0, <1>9, <2>1, <2>3, CalmJobs, CalmFrame, Fewer DEF PromoteCount
    <2> QED
      BY <2>2, <2>3
  <1>10. CASE PromotePick(w)
    <2>1. ByRule' = ByRule /\ w \in Pending
      BY <1>10 DEF PromotePick, ByRule, Seated, Pending
    <2>2. Pending' \subseteq Pending
      BY <1>10, <2>1 DEF PromotePick, Pending, Continue, TypeOK
    <2> QED
      BY <1>0, <2>1, <2>2, Fewer
  <1>11. CASE PromoteNobody(w)
    <2>1. ByRule' = ByRule
      BY <1>11 DEF PromoteNobody, ByRule, Seated
    <2> QED
      BY <1>0, <1>11, <2>1, CalmJobs, CalmFrame, Fewer DEF PromoteNobody
  <1>12. CASE PromoteConfirm(w)
    <2> DEFINE j == [Promoting(job[w], job[w].cap)
                       EXCEPT !.promoted = job[w].promoted \cup {job[w].user}]
    <2>1. job[w].cap \in Caps
      BY <1>0, <1>12 DEF PromoteConfirm, JobOK
    <2>2. Promoting(job[w], job[w].cap) \in Jobs
      BY <1>0, <2>1, PromotingType DEF JobOK
    <2>3. Calm(j)
      BY <2>2, CalmJobs DEF Calm, Jobs
    <2>4. Continue(w, j)
      BY <1>12 DEF PromoteConfirm
    <2> HIDE DEF j
    <2>5. Pending' \subseteq Pending /\ w \notin Pending' /\ w \in Pending
      BY <1>12, <2>3, <2>4, CalmFrame DEF PromoteConfirm, Pending, Calm, Continue, TypeOK
    <2>6. ByRule' \subseteq ByRule \cup {job[w].user}
      BY <1>12 DEF PromoteConfirm, ByRule, Seated, TypeOK
    <2> QED
      BY <1>0, <2>5, <2>6, Taken
  <1>13. CASE EditSave(w)
    <2>1. ByRule' = ByRule
      BY <1>13 DEF EditSave, ByRule, Seated
    <2> QED
      BY <1>0, <1>13, <2>1, CalmJobs, CalmFrame, Fewer DEF EditSave, Finish
  <1>14. CASE BatchNext(w)
    <2>1. ByRule' = ByRule
      BY <1>14 DEF BatchNext, ByRule, Seated
    <2>2. PICK r \in job[w].rest :
             Continue(w, [job[w] EXCEPT !.step = "decide", !.user = r.user, !.seen = r.seen,
                                        !.live = r.live, !.cap = max_registration,
                                        !.rest = job[w].rest \ {r}])
      BY <1>14 DEF BatchNext
    <2>3. Calm([job[w] EXCEPT !.step = "decide", !.user = r.user, !.seen = r.seen,
                              !.live = r.live, !.cap = max_registration,
                              !.rest = job[w].rest \ {r}])
      BY <1>0 DEF Calm, Jobs
    <2> QED
      BY <1>0, <2>1, <2>2, <2>3, CalmFrame, Fewer
  <1> QED
    BY <1>1, <1>2, <1>3, <1>4, <1>5, <1>6, <1>7, <1>8, <1>9, <1>10, <1>11, <1>12, <1>13,
       <1>14 DEF Step

LEMMA SweepSeats ==
  ASSUME NEW m \in Nat, SeatsBelow(m), Sweep \/ ClockMoves \/ UNCHANGED vars
  PROVE  SeatsBelow(m)'
  <1>1. Pending' = Pending
    BY DEF Sweep, SweepSelect, SweepUpdate, SweepMark, SweepCrash, ClockMoves, vars, Pending
  <1>2. CASE SweepUpdate
    <2>1. ByRule' \subseteq ByRule
      BY <1>2 DEF SweepUpdate, ByRule, Seated, SeatHolding
    <2> QED
      BY <1>1, <2>1, Fewer
  <1>3. CASE SweepSelect \/ SweepMark \/ SweepCrash \/ ClockMoves \/ UNCHANGED vars
    <2>1. ByRule' = ByRule
      BY <1>3 DEF SweepSelect, SweepMark, SweepCrash, ClockMoves, vars, rows, history, ByRule,
                  Seated
    <2> QED
      BY <1>1, <2>1, Fewer
  <1> QED
    BY <1>2, <1>3 DEF Sweep

(* Seats that no lead gave exceed the largest cap by at most one for each  *)
(* web process beyond the first; with one process the cap is kept.         *)
THEOREM OverbookingIsBounded == Spec => []OverbookingBounded
  <1> DEFINE Inv == \A m \in Caps : BoundsCaps(m) => SeatsBelow(m)
  <1>1. Init => Inv
    <2> SUFFICES ASSUME Init, NEW m \in Caps, BoundsCaps(m)
                 PROVE  SeatsBelow(m)
      OBVIOUS
    <2>1. ByRule = {} /\ Pending = {}
      BY DEF Init, ByRule, Seated, NoRow, SeatHolding, Pending, IdleJob
    <2>2. Cardinality(ByRule) = 0 /\ Cardinality(Pending) = 0
      BY <2>1, FS_EmptySet
    <2>3. Cardinality(Workers) \in Nat /\ Cardinality(Workers) # 0
      BY WorkersAssumption, FS_CardinalityType, FS_EmptySet
    <2>4. m \in Nat /\ 0 < m
      BY CapsAssumption DEF BoundsCaps
    <2> QED
      BY <2>2, <2>3, <2>4 DEF SeatsBelow
  <1>2. TypeOK /\ Inv /\ [Next]_vars => Inv'
    <2> SUFFICES ASSUME TypeOK, Inv, [Next]_vars, NEW m \in Caps, BoundsCaps(m)
                 PROVE  SeatsBelow(m)'
      BY DEF BoundsCaps
    <2>1. m \in Nat /\ SeatsBelow(m)
      BY CapsAssumption
    <2> QED
      BY <2>1, RequestSeats, StepSeats, SweepSeats DEF Next
  <1>3. TypeOK /\ Inv => OverbookingBounded
    <2> SUFFICES ASSUME NEW m \in Caps, SeatsBelow(m)
                 PROVE  Cardinality(Seated \ granted) <= m + Cardinality(Workers) - 1
      BY DEF OverbookingBounded, BoundsCaps
    <2>1. m \in Nat
      BY CapsAssumption
    <2> QED
      BY <2>1, Finite DEF SeatsBelow, ByRule
  <1> QED
    BY <1>1, <1>2, <1>3, TypeCorrect, PTL DEF Spec
=============================================================================

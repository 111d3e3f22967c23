------------------------- MODULE NotificationProofs -------------------------
(***************************************************************************)
(* Theorems about EventNotifications, for any events, workers, processes,  *)
(* forms and bounds.                                                       *)
(***************************************************************************)
EXTENDS EventNotifications, FiniteSetTheorems, SequenceTheorems, TLAPS

(* What each stage fires.                                                  *)
LEMMA FiresType ==
  ASSUME NEW k \in Stages
  PROVE  /\ Len(Fires(k)) \in {0, 1, 2}
         /\ DOMAIN Fires(k) = 1..Len(Fires(k))
         /\ \A i \in DOMAIN Fires(k) :
              /\ i \in {1, 2}
              /\ Fires(k)[i] \in Notices
              /\ Fires(k)[i] # "AdminOnCreate"
              /\ k # FEEDBACK => Fires(k)[i] \in Modes
              /\ k = FEEDBACK => i = 1 /\ Fires(k)[i] = "FeedbackRequest"
  <1> USE DEF Fires, Stages, Notices, Modes, STATE_INIT, STATE_INITIAL_NOTIFICATIONS,
              STATE_REMINDER1, STATE_REMINDER2, STATE_PRESENTATION_UPDATE, FEEDBACK
  <1>1. k \in {0, 1, 2, 3, 4, 6}
    OBVIOUS
  <1>2. CASE k = 0
    BY <1>2
  <1>3. CASE k = 1
    BY <1>3
  <1>4. CASE k = 2
    BY <1>4
  <1>5. CASE k = 3
    BY <1>5
  <1>6. CASE k = 4
    BY <1>6
  <1>7. CASE k = 6
    BY <1>7
  <1> QED BY <1>1, <1>2, <1>3, <1>4, <1>5, <1>6, <1>7

(* A notice belongs to one stage, and to one place in it.                  *)
LEMMA FiresDistinct ==
  ASSUME NEW k \in Stages, NEW l \in Stages, NEW i \in DOMAIN Fires(k), NEW j \in DOMAIN Fires(l),
         Fires(k)[i] = Fires(l)[j]
  PROVE  k = l /\ i = j
  <1> USE DEF Fires, Stages, STATE_INIT, STATE_INITIAL_NOTIFICATIONS,
              STATE_REMINDER1, STATE_REMINDER2, STATE_PRESENTATION_UPDATE, FEEDBACK
  <1>1. k \in {0, 1, 2, 3, 4, 6} /\ l \in {0, 1, 2, 3, 4, 6}
    OBVIOUS
  <1>2. i \in {1, 2} /\ j \in {1, 2}
    BY FiresType
  <1> QED BY <1>1, <1>2, FiresType

-----------------------------------------------------------------------------
(* Type correctness.                                                       *)

BrokerOK ==
    /\ tasks \in Seq(TaskRows)
    /\ queue \in Seq(Nat) /\ \A i \in DOMAIN queue : queue[i] \in DOMAIN tasks

JobsOK == job \in [Workers -> Jobs] /\ \A w \in Workers : JobOK(job[w], created, DOMAIN tasks)

DataOK ==
    /\ created \subseteq Events
    /\ event \in [Events -> Rows]
    /\ \A e \in Events \ created : event[e] = DefaultRow

RequestsOK == request \in [Processes -> Copies] /\ \A p \in Processes : RequestOK(request[p])

CountersOK ==
    /\ time \in Nat /\ requests \in Nat /\ faults \in Nat
    /\ issued \in [Events -> [Notices -> Nat]]
    /\ repeats \in [Events -> [Stages -> Nat]]
    /\ published \in [Events -> Nat]

(* The type invariant, part by part.                                       *)
LEMMA TypeParts == TypeOK <=> DataOK /\ BrokerOK /\ JobsOK /\ RequestsOK /\ CountersOK
  BY DEF TypeOK, DataOK, BrokerOK, JobsOK, RequestsOK, CountersOK

(* What happens to the task rows and the queue.                            *)
LEMMA TaskCreated ==
  ASSUME BrokerOK, NEW e \in Events, NEW m \in Modes, tasks' = Append(tasks, Task(e, m))
  PROVE  /\ tasks' \in Seq(TaskRows)
         /\ Len(tasks) \in Nat
         /\ DOMAIN tasks = 1..Len(tasks) /\ DOMAIN tasks' = 1..(Len(tasks) + 1)
         /\ tasks'[Len(tasks) + 1] = Task(e, m)
         /\ \A t \in DOMAIN tasks : tasks'[t] = tasks[t]
  <1>1. Task(e, m) \in TaskRows
    BY DEF Task, TaskRows
  <1>2. tasks \in Seq(TaskRows)
    BY DEF BrokerOK
  <1> HIDE DEF Task
  <1> QED BY <1>1, <1>2, LenProperties, AppendProperties

(* One task row replaced.                                                  *)
LEMMA TaskUpdated ==
  ASSUME BrokerOK, NEW t \in DOMAIN tasks, NEW r \in TaskRows, tasks' = [tasks EXCEPT ![t] = r]
  PROVE  /\ tasks' \in Seq(TaskRows)
         /\ DOMAIN tasks' = DOMAIN tasks
         /\ \A i \in DOMAIN tasks : tasks'[i] = IF i = t THEN r ELSE tasks[i]
  BY LenProperties, ExceptSeq DEF BrokerOK

(* A row of the table.                                                     *)
LEMMA RowOfTask ==
  ASSUME BrokerOK, NEW t \in DOMAIN tasks
  PROVE  tasks[t] \in TaskRows
  BY LenProperties, ElementOfSeq DEF BrokerOK

(* The row of a run that was cut short.                                    *)
LEMMA CutShortType ==
  ASSUME NEW r \in TaskRows, NEW n \in Nat
  PROVE  CutShort(r, n) \in TaskRows
  <1>1. r.sent + n \in Nat /\ r.lost + 1 \in Nat
    BY DEF TaskRows
  <1>2. CutShort(r, n) = [r EXCEPT !.sent = r.sent + n, !.lost = r.lost + 1]
    BY DEF CutShort, TaskRows
  <1> QED BY <1>1, <1>2 DEF TaskRows

(* The row of a task that is run once more.                                *)
LEMMA BegunType ==
  ASSUME NEW t, tasks[t] \in TaskRows
  PROVE  /\ Begun(t) \in TaskRows
         /\ Begun(t).event = tasks[t].event /\ Begun(t).mode = tasks[t].mode
         /\ Begun(t).executed = tasks[t].executed
         /\ Begun(t).sent = tasks[t].sent /\ Begun(t).lost = tasks[t].lost
         /\ Begun(t).twice = IF \E v \in Workers : Running(v, t) THEN tasks[t].twice + 1 ELSE tasks[t].twice
  <1> DEFINE r == [tasks[t] EXCEPT !.twice = tasks[t].twice + 1]
  <1>1. Begun(t) = IF \E v \in Workers : Running(v, t) THEN r ELSE tasks[t]
    BY DEF Begun
  <1>2. tasks[t].twice + 1 \in Nat
    BY DEF TaskRows
  <1>3. /\ r \in TaskRows
        /\ r.event = tasks[t].event /\ r.mode = tasks[t].mode /\ r.executed = tasks[t].executed
        /\ r.sent = tasks[t].sent /\ r.lost = tasks[t].lost /\ r.twice = tasks[t].twice + 1
    BY <1>2 DEF TaskRows
  <1> HIDE DEF r
  <1> QED BY <1>1, <1>3

(* A message put on the queue.                                             *)
LEMMA Queued ==
  ASSUME BrokerOK, NEW t \in DOMAIN tasks', t \in Nat, DOMAIN tasks \subseteq DOMAIN tasks',
         tasks' \in Seq(TaskRows), queue' = Append(queue, t)
  PROVE  BrokerOK'
  <1>1. /\ queue \in Seq(Nat) /\ queue' \in Seq(Nat)
        /\ Len(queue') = Len(queue) + 1
        /\ \A i \in 1..Len(queue) : queue'[i] = queue[i]
        /\ queue'[Len(queue) + 1] = t
    BY AppendProperties DEF BrokerOK
  <1>2. DOMAIN queue = 1..Len(queue) /\ DOMAIN queue' = 1..Len(queue') /\ Len(queue) \in Nat
    BY <1>1, LenProperties
  <1>3. ASSUME NEW i \in DOMAIN queue'
        PROVE  queue'[i] \in DOMAIN tasks'
    <2>1. CASE i \in 1..Len(queue)
      BY <2>1, <1>1, <1>2 DEF BrokerOK
    <2>2. CASE i = Len(queue) + 1
      BY <2>2, <1>1
    <2> QED BY <1>3, <1>1, <1>2, <2>1, <2>2
  <1> QED BY <1>1, <1>3 DEF BrokerOK

(* The first message.                                                      *)
LEMMA HeadOfQueue ==
  ASSUME BrokerOK, queue # <<>>
  PROVE  Head(queue) \in DOMAIN tasks /\ Head(queue) \in Nat
  <1>1. queue \in Seq(Nat) /\ Head(queue) = queue[1] /\ 1 \in DOMAIN queue
    BY LenProperties, EmptySeq DEF BrokerOK
  <1> QED BY <1>1, ElementOfSeq, LenProperties DEF BrokerOK

(* A message taken off the queue.                                          *)
LEMMA Dequeued ==
  ASSUME BrokerOK, queue # <<>>, queue' = Tail(queue),
         tasks' \in Seq(TaskRows), DOMAIN tasks' = DOMAIN tasks
  PROVE  /\ BrokerOK'
         /\ Head(queue) \in DOMAIN tasks
         /\ \A i \in DOMAIN queue : i = 1 \/ (i - 1 \in DOMAIN queue' /\ queue'[i - 1] = queue[i])
         /\ 1 \in DOMAIN queue /\ queue[1] = Head(queue)
  <1>1. /\ queue \in Seq(Nat) /\ queue' \in Seq(Nat)
        /\ Len(queue') = Len(queue) - 1
        /\ \A i \in 1..Len(queue') : queue'[i] = queue[i + 1]
    BY HeadTailProperties DEF BrokerOK
  <1>2. /\ DOMAIN queue = 1..Len(queue) /\ DOMAIN queue' = 1..Len(queue')
        /\ Len(queue) \in Nat \ {0}
    BY <1>1, LenProperties, EmptySeq
  <1>3. Head(queue) = queue[1] /\ 1 \in DOMAIN queue
    BY <1>1, <1>2
  <1>4. \A i \in DOMAIN queue' : i + 1 \in DOMAIN queue /\ queue'[i] = queue[i + 1]
    BY <1>1, <1>2
  <1>5. \A i \in DOMAIN queue : i = 1 \/ (i - 1 \in DOMAIN queue' /\ queue'[i - 1] = queue[i])
    BY <1>1, <1>2
  <1> QED BY <1>1, <1>3, <1>4, <1>5 DEF BrokerOK

(* What happens to the memory of the workers.                              *)
LEMMA JobsContinue ==
  ASSUME JobsOK, NEW w \in Workers, NEW j, Continue(w, j), JobOK(j, created', DOMAIN tasks'),
         DOMAIN tasks \subseteq DOMAIN tasks', created \subseteq created'
  PROVE  JobsOK'
  BY DEF JobsOK, JobOK, Continue

(* A step no worker takes.                                                 *)
LEMMA JobsUnchanged ==
  ASSUME JobsOK, job' = job, DOMAIN tasks \subseteq DOMAIN tasks', created \subseteq created'
  PROVE  JobsOK'
  BY DEF JobsOK, JobOK

(* The memory of an idle worker,                                           *)
LEMMA IdleJobOK == \A known, ids : JobOK(IdleJob, known, ids)
  BY DEF JobOK, Jobs, IdleJob, Serving, Handling, Stages, STATE_INIT, STATE_PRESENTATION_UPDATE

(* of one about to run a query,                                            *)
LEMMA QueryJobOK ==
  ASSUME NEW k \in Stages, NEW now \in Nat
  PROVE  \A known, ids : JobOK([IdleJob EXCEPT !.step = "query", !.stage = k, !.now = now], known, ids)
  BY DEF JobOK, Jobs, IdleJob, Serving, Handling

(* and of one that took a message.                                         *)
LEMMA HandleJobOK ==
  ASSUME NEW t \in Nat
  PROVE  \A known, ids : t \in ids =>
            JobOK([IdleJob EXCEPT !.step = "handle", !.task = t], known, ids)
  <1>1. STATE_INIT \in Stages
    BY DEF Stages, STATE_INIT, STATE_PRESENTATION_UPDATE
  <1>2. [IdleJob EXCEPT !.step = "handle", !.task = t] \in Jobs
    BY <1>1 DEF Jobs, IdleJob, Serving, Handling
  <1> QED BY <1>2 DEF JobOK, IdleJob, Serving, Handling

(* A sweep after it queued a message.                                      *)
LEMMA NextJob ==
  ASSUME NEW j \in Jobs, NEW s \in {"create", "pre_save"}, NEW n \in {1, 2}
  PROVE  LET i == [j EXCEPT !.step = s, !.next = n, !.task = 0]
         IN  /\ i \in Jobs
             /\ i.step = s /\ i.next = n /\ i.stage = j.stage
             /\ i.event = j.event /\ i.todo = j.todo
  BY DEF Jobs, Serving

(* A sweep after it saved an event or ran a query.                         *)
LEMMA LoopOnContinues ==
  ASSUME NEW w \in Workers, NEW j \in Jobs, LoopOn(w, j), j.todo \subseteq created,
         tasks' = tasks, created' = created
  PROVE  \E i : JobOK(i, created', DOMAIN tasks') /\ Continue(w, i)
  <1> USE DEF Stages, STATE_INIT, STATE_PRESENTATION_UPDATE, FEEDBACK
  <1>1. CASE j.todo # {}
    <2>1. PICK e \in j.todo :
            Continue(w, [j EXCEPT !.event = e, !.todo = @ \ {e}, !.next = 1, !.was_public = FALSE,
                                  !.step = CASE j.stage = FEEDBACK -> "mail"
                                             [] j.stage = STATE_PRESENTATION_UPDATE -> "pre_save"
                                             [] OTHER -> "create"])
      BY <1>1 DEF LoopOn
    <2>2. j.stage \notin {FEEDBACK, STATE_PRESENTATION_UPDATE} => 1 \in DOMAIN Fires(j.stage)
      BY DEF Fires, Jobs, STATE_INITIAL_NOTIFICATIONS, STATE_REMINDER1, STATE_REMINDER2
    <2> DEFINE i == [j EXCEPT !.event = e, !.todo = @ \ {e}, !.next = 1, !.was_public = FALSE,
                              !.step = CASE j.stage = FEEDBACK -> "mail"
                                         [] j.stage = STATE_PRESENTATION_UPDATE -> "pre_save"
                                         [] OTHER -> "create"]
    <2>3. JobOK(i, created', DOMAIN tasks')
      BY <2>2 DEF JobOK, Jobs, Serving, Handling
    <2> QED BY <2>1, <2>3
  <1>2. CASE j.todo = {} /\ j.stage < STATE_PRESENTATION_UPDATE
    <2> DEFINE i == [IdleJob EXCEPT !.step = "query", !.stage = j.stage + 1, !.now = j.now]
    <2>1. Continue(w, i)
      BY <1>2 DEF LoopOn
    <2>2. j.stage + 1 \in Stages /\ j.now \in Nat
      BY <1>2 DEF Jobs
    <2>3. JobOK(i, created', DOMAIN tasks')
      BY <2>2 DEF JobOK, Jobs, IdleJob, Serving, Handling
    <2> QED BY <2>1, <2>3
  <1>3. CASE j.todo = {} /\ ~(j.stage < STATE_PRESENTATION_UPDATE)
    BY <1>3, IdleJobOK DEF LoopOn
  <1> QED BY <1>1, <1>2, <1>3

(* The counters of repeats,                                                *)
LEMMA RepeatType ==
  ASSUME repeats \in [Events -> [Stages -> Nat]], NEW e \in Events, NEW ks, Repeat(e, ks)
  PROVE  /\ repeats' \in [Events -> [Stages -> Nat]]
         /\ \A f \in Events, k \in Stages :
               repeats'[f][k] = IF f = e /\ k \in ks THEN repeats[f][k] + 1 ELSE repeats[f][k]
  BY DEF Repeat

(* of publications,                                                        *)
LEMMA EmitType ==
  ASSUME published \in [Events -> Nat], NEW e \in Events, Emit(e)
  PROVE  /\ published' \in [Events -> Nat]
         /\ \A f \in Events : published'[f] >= published[f]
         /\ published'[e] > 0
  BY DEF Emit

(* and of notices.                                                         *)
LEMMA IssuedType ==
  ASSUME issued \in [Events -> [Notices -> Nat]], NEW e \in Events, NEW m \in Notices,
         issued' = [issued EXCEPT ![e][m] = @ + 1]
  PROVE  /\ issued' \in [Events -> [Notices -> Nat]]
         /\ \A f \in Events, n \in Notices :
               issued'[f][n] = IF f = e /\ n = m THEN issued[f][n] + 1 ELSE issued[f][n]
  OBVIOUS

(* A row that a sweep has marked.                                          *)
LEMMA MarkedType ==
  ASSUME NEW row \in Rows, NEW k \in Stages
  PROVE  /\ Marked(row, k) \in Rows
         /\ \A l \in Stages : Passed(Marked(row, k), l) =>
               Passed(row, l) \/ l = k \/ (k # FEEDBACK /\ l # FEEDBACK /\ l <= k)
         /\ Passed(Marked(row, k), k)
         /\ Marked(row, k).public = row.public
         /\ Marked(row, k).deleted = row.deleted
  <1> USE DEF Rows, Stages, FEEDBACK, STATE_INIT, STATE_PRESENTATION_UPDATE, STATE_FINISHED
  <1>1. CASE k = FEEDBACK
    BY <1>1 DEF Marked, Passed
  <1>2. CASE k # FEEDBACK
    <2>1. k + 1 \in STATE_INIT..STATE_FINISHED /\ k \in Nat
      BY <1>2
    <2>2. /\ Marked(row, k) \in Rows
          /\ Marked(row, k).notification_state = k + 1
          /\ Marked(row, k).feedback_requested = row.feedback_requested
          /\ Marked(row, k).public = row.public
          /\ Marked(row, k).deleted = row.deleted
      BY <1>2, <2>1 DEF Marked
    <2> QED BY <1>2, <2>1, <2>2 DEF Passed
  <1> QED BY <1>1, <1>2

(* A row filled from a form.                                               *)
LEMMA FilledType ==
  ASSUME NEW row \in Rows, NEW form \in Forms
  PROVE  /\ Filled(row, form) \in Rows
         /\ \A l \in Stages : Passed(Filled(row, form), l) <=> Passed(row, l)
         /\ Filled(row, form).public = row.public
         /\ Filled(row, form).deleted = row.deleted
         /\ Filled(row, form).notification_state = row.notification_state
  BY FormsAssumption DEF Filled, Rows, Passed

(* The row of a new event.                                                 *)
LEMMA DefaultRowType == DefaultRow \in Rows
  BY DEF DefaultRow, Rows, STATE_INIT, STATE_FINISHED

(* The sweeps.                                                             *)
LEMMA SweepTypes ==
  ASSUME TypeOK, NEW w \in Workers, SweepStep(w)
  PROVE  TypeOK'
  <1>0. DataOK /\ BrokerOK /\ JobsOK /\ RequestsOK /\ CountersOK /\ JobOK(job[w], created, DOMAIN tasks) /\ job[w] \in Jobs
    BY TypeParts DEF JobsOK
  <1>1. CASE SweepQuery(w)
    <2>1. UNCHANGED <<database, broker, time, request, requests, issued, published>>
          /\ faults' \in {faults, faults + 1}
      BY <1>1 DEF SweepQuery, Fault
    <2>2. DataOK' /\ RequestsOK' /\ BrokerOK'
      BY <2>1, <1>0 DEF DataOK, RequestsOK, RequestOK, BrokerOK, database, broker
    <2>3. repeats' \in [Events -> [Stages -> Nat]]
      BY <1>0, <1>1 DEF SweepQuery, CountersOK, Jobs
    <2>4. CountersOK'
      BY <2>1, <2>3, <1>0 DEF CountersOK
    <2> DEFINE j == [job[w] EXCEPT !.todo = Matching(job[w].stage, job[w].now)]
    <2>5. j \in Jobs /\ j.todo \subseteq created
      BY <1>0 DEF Jobs, Matching, DataOK
    <2>6. LoopOn(w, j)
      BY <1>1 DEF SweepQuery
    <2> HIDE DEF j
    <2>7. \E i : JobOK(i, created', DOMAIN tasks') /\ Continue(w, i)
      BY <2>1, <2>5, <2>6, LoopOnContinues DEF broker, database
    <2>8. JobsOK'
      BY <2>1, <2>7, <1>0, JobsContinue DEF broker, database
    <2> QED BY <2>2, <2>4, <2>8, TypeParts DEF TypeOK, DataOK, BrokerOK, JobsOK, RequestsOK, CountersOK
  <1>2. CASE SweepCreate(w)
    <2> DEFINE e == job[w].event
               m == Fires(job[w].stage)[job[w].next]
               j == [job[w] EXCEPT !.step = "delay", !.task = Len(tasks) + 1]
    <2>1. e \in Events /\ job[w].stage \in Stages /\ job[w].stage # FEEDBACK
          /\ job[w].next \in DOMAIN Fires(job[w].stage)
      BY <1>0, <1>2 DEF SweepCreate, JobOK, Jobs, Serving, DataOK
    <2>2. m \in Modes /\ m \in Notices
      BY <2>1, FiresType
    <2>3. /\ tasks' = Append(tasks, Task(e, m)) /\ issued' = [issued EXCEPT ![e][m] = @ + 1]
          /\ Continue(w, j)
          /\ UNCHANGED <<database, queue, time, request, bounds, repeats, published>>
      BY <1>2 DEF SweepCreate
    <2> HIDE DEF e, m
    <2>4. /\ tasks' \in Seq(TaskRows) /\ Len(tasks) \in Nat
          /\ DOMAIN tasks = 1..Len(tasks) /\ DOMAIN tasks' = 1..(Len(tasks) + 1)
      BY <1>0, <2>1, <2>2, <2>3, TaskCreated
    <2>5. BrokerOK'
      BY <1>0, <2>3, <2>4 DEF BrokerOK
    <2>6. JobOK(j, created', DOMAIN tasks')
      <3>1. Len(tasks) + 1 \in DOMAIN tasks' /\ Len(tasks) + 1 \in Nat /\ created' = created
        BY <2>3, <2>4 DEF database
      <3>2. job[w].step = "create"
        BY <1>2 DEF SweepCreate
      <3> QED BY <1>0, <2>1, <3>1, <3>2 DEF JobOK, Jobs, Serving, Handling
    <2> HIDE DEF j
    <2>7. JobsOK'
      BY <1>0, <2>3, <2>4, <2>6, JobsContinue DEF database
    <2>8. CountersOK'
      BY <1>0, <2>1, <2>2, <2>3, IssuedType DEF CountersOK, bounds
    <2>9. DataOK' /\ RequestsOK'
      BY <1>0, <2>3 DEF DataOK, RequestsOK, RequestOK, database
    <2> QED BY <2>5, <2>7, <2>8, <2>9 DEF TypeOK, DataOK, BrokerOK, JobsOK, RequestsOK, CountersOK
  <1>3. CASE SweepDelay(w)
    <2>1. /\ job[w].task \in DOMAIN tasks /\ job[w].stage \in Stages /\ job[w].event \in Events
          /\ job[w].next \in DOMAIN Fires(job[w].stage) /\ job[w].stage # FEEDBACK
          /\ job[w].task \in Nat
      BY <1>0, <1>3 DEF SweepDelay, JobOK, Jobs, Serving, DataOK
    <2>2. BrokerOK'
      <3>1. tasks' = tasks /\ queue' = Append(queue, job[w].task)
        BY <1>3 DEF SweepDelay
      <3> QED BY <1>0, <2>1, <3>1, Queued DEF BrokerOK
    <2>3. \E j : JobOK(j, created', DOMAIN tasks') /\ Continue(w, j)
      <3>0. tasks' = tasks /\ created' = created /\ job[w].step = "delay"
        BY <1>3 DEF SweepDelay, database
      <3>1. CASE job[w].next < Len(Fires(job[w].stage))
        <4> DEFINE j == [job[w] EXCEPT !.step = "create", !.next = 2, !.task = 0]
        <4>0. job[w].next = 1 /\ Len(Fires(job[w].stage)) = 2
          BY <2>1, <3>1, FiresType
        <4>1. 2 \in DOMAIN Fires(job[w].stage)
          BY <2>1, <4>0, FiresType
        <4>2. /\ j \in Jobs
              /\ j.step = "create" /\ j.next = 2 /\ j.stage = job[w].stage
              /\ j.event = job[w].event /\ j.todo = job[w].todo
          BY <1>0, NextJob
        <4>3. job[w].event \in created /\ job[w].todo \subseteq created
          BY <1>0, <3>0 DEF JobOK, Serving
        <4>4. JobOK(j, created', DOMAIN tasks')
          <5> HIDE DEF j
          <5> QED BY <2>1, <3>0, <4>1, <4>2, <4>3 DEF JobOK, Serving, Handling
        <4> QED BY <1>3, <3>1, <4>0, <4>4 DEF SweepDelay
      <3>2. CASE ~(job[w].next < Len(Fires(job[w].stage)))
        <4> DEFINE j == [job[w] EXCEPT !.step = "pre_save", !.task = 0]
        <4>1. JobOK(j, created', DOMAIN tasks')
          BY <1>0, <2>1, <3>0 DEF JobOK, Jobs, Serving, Handling
        <4> QED BY <1>3, <3>2, <4>1 DEF SweepDelay
      <3> QED BY <3>1, <3>2
    <2>4. JobsOK'
      BY <1>0, <1>3, <2>3, JobsContinue DEF SweepDelay, database
    <2>5. DataOK' /\ RequestsOK' /\ CountersOK'
      BY <1>0, <1>3 DEF SweepDelay, DataOK, RequestsOK, RequestOK, CountersOK, database, bounds, history
    <2> QED BY <2>2, <2>4, <2>5 DEF TypeOK, DataOK, BrokerOK, JobsOK, RequestsOK, CountersOK
  <1>4. CASE FeedbackMail(w)
    <2> DEFINE j == [job[w] EXCEPT !.step = "pre_save"]
    <2>1. job[w].event \in Events /\ "FeedbackRequest" \in Notices
      BY <1>0, <1>4 DEF FeedbackMail, JobOK, Serving, Notices, DataOK
    <2>2. Continue(w, j) /\ UNCHANGED <<database, broker, time, request, bounds, repeats, published>>
      BY <1>4 DEF FeedbackMail
    <2>3. JobOK(j, created', DOMAIN tasks')
      BY <1>0, <1>4, <2>2 DEF FeedbackMail, JobOK, Jobs, Serving, Handling, broker, database
    <2> HIDE DEF j
    <2>4. JobsOK'
      BY <1>0, <2>2, <2>3, JobsContinue DEF broker, database
    <2>5. CountersOK'
      BY <1>0, <1>4, <2>1, <2>2, IssuedType DEF CountersOK, bounds, FeedbackMail
    <2>6. DataOK' /\ RequestsOK' /\ BrokerOK'
      BY <1>0, <2>2 DEF DataOK, RequestsOK, RequestOK, BrokerOK, database, broker
    <2> QED BY <2>4, <2>5, <2>6 DEF TypeOK, DataOK, BrokerOK, JobsOK, RequestsOK, CountersOK
  <1>5. CASE SweepPreSave(w)
    <2> DEFINE j == [job[w] EXCEPT !.step = "save", !.was_public = event[job[w].event].public]
    <2>1. event[job[w].event].public \in BOOLEAN
      BY <1>0, <1>5 DEF SweepPreSave, JobOK, Serving, DataOK, Rows
    <2>2. Continue(w, j) /\ UNCHANGED <<database, broker, time, request, bounds, history>>
      BY <1>5 DEF SweepPreSave
    <2>3. JobOK(j, created', DOMAIN tasks')
      BY <1>0, <1>5, <2>1, <2>2 DEF SweepPreSave, JobOK, Jobs, Serving, Handling, broker, database
    <2> HIDE DEF j
    <2>4. JobsOK'
      BY <1>0, <2>2, <2>3, JobsContinue DEF broker, database
    <2>5. DataOK' /\ RequestsOK' /\ BrokerOK' /\ CountersOK'
      BY <1>0, <2>2 DEF DataOK, RequestsOK, RequestOK, BrokerOK, CountersOK, database, broker, bounds, history
    <2> QED BY <2>4, <2>5 DEF TypeOK, DataOK, BrokerOK, JobsOK, RequestsOK, CountersOK
  <1>6. CASE SweepSave(w)
    <2> DEFINE e == job[w].event
               row == Marked(event[e], job[w].stage)
    <2>1. /\ e \in Events /\ e \in created /\ event[e] \in Rows /\ job[w].stage \in Stages
          /\ job[w].todo \subseteq created
      BY <1>0, <1>6 DEF SweepSave, JobOK, Jobs, Serving, DataOK
    <2>2. row \in Rows
      BY <2>1, MarkedType
    <2>3. /\ SaveRow(e, row)
          /\ UNCHANGED <<created, broker, time, request, bounds, issued, published>>
      BY <1>6 DEF SweepSave
    <2>4. \E i : JobOK(i, created', DOMAIN tasks') /\ Continue(w, i)
      <3>1. CASE LoopOn(w, job[w])
        BY <1>0, <2>1, <2>3, <3>1, LoopOnContinues DEF broker
      <3>2. CASE ~LoopOn(w, job[w])
        <4> DEFINE i == [job[w] EXCEPT !.step = "emit"]
        <4>1. Continue(w, i)
          BY <1>6, <3>2 DEF SweepSave
        <4>2. JobOK(i, created', DOMAIN tasks')
          BY <1>0, <2>1, <2>3 DEF JobOK, Jobs, Serving, Handling
        <4> QED BY <4>1, <4>2
      <3> QED BY <3>1, <3>2
    <2>5. JobsOK'
      BY <1>0, <2>3, <2>4, JobsContinue DEF broker
    <2>6. repeats' \in [Events -> [Stages -> Nat]]
      BY <1>0, <2>1, <2>3, RepeatType DEF SaveRow, CountersOK
    <2>7. CountersOK'
      BY <1>0, <2>3, <2>6 DEF CountersOK, bounds
    <2>8. RequestsOK' /\ BrokerOK'
      BY <1>0, <2>3 DEF RequestsOK, RequestOK, BrokerOK, broker
    <2>9. DataOK'
      BY <1>0, <2>1, <2>2, <2>3 DEF SaveRow, DataOK
    <2> QED BY <2>5, <2>7, <2>8, <2>9 DEF TypeOK, DataOK, BrokerOK, JobsOK, RequestsOK, CountersOK
  <1>7. CASE SweepEmit(w)
    <2> DEFINE e == job[w].event
    <2>1. e \in Events /\ job[w].todo \subseteq created
      BY <1>0, <1>7 DEF SweepEmit, JobOK, Serving, DataOK
    <2>2. /\ Emit(e) /\ LoopOn(w, job[w])
          /\ UNCHANGED <<database, broker, time, request, bounds, issued, repeats>>
      BY <1>7 DEF SweepEmit
    <2>3. \E i : JobOK(i, created', DOMAIN tasks') /\ Continue(w, i)
      BY <1>0, <2>1, <2>2, LoopOnContinues DEF broker, database
    <2>4. JobsOK'
      BY <1>0, <2>2, <2>3, JobsContinue DEF broker, database
    <2>5. CountersOK'
      BY <1>0, <2>1, <2>2, EmitType DEF CountersOK, bounds
    <2>6. DataOK' /\ RequestsOK' /\ BrokerOK'
      BY <1>0, <2>2 DEF DataOK, RequestsOK, RequestOK, BrokerOK, broker, database
    <2> QED BY <2>4, <2>5, <2>6 DEF TypeOK, DataOK, BrokerOK, JobsOK, RequestsOK, CountersOK
  <1> QED BY <1>1, <1>2, <1>3, <1>4, <1>5, <1>6, <1>7 DEF SweepStep

(* The tasks.                                                              *)
LEMMA TaskTypes ==
  ASSUME TypeOK, NEW w \in Workers,
         TaskStep(w) \/ TaskStart(w) \/ TaskSkip(w) \/ TaskFail(w)
  PROVE  TypeOK'
  <1>0. /\ DataOK /\ BrokerOK /\ JobsOK /\ RequestsOK /\ CountersOK
        /\ JobOK(job[w], created, DOMAIN tasks) /\ job[w] \in Jobs
    BY TypeParts DEF JobsOK
  <1>1. UNCHANGED <<database, time, request, requests, history>> /\ faults' \in {faults, faults + 1}
    BY DEF TaskStep, TaskHandle, TaskMark, TaskStart, TaskSkip, TaskFail, Fault, bounds
  <1>2. DataOK' /\ RequestsOK' /\ CountersOK'
    BY <1>0, <1>1 DEF DataOK, RequestsOK, RequestOK, CountersOK, database, history
  <1>3. CASE TaskStart(w)
    <2> DEFINE j == [IdleJob EXCEPT !.step = "handle", !.task = Head(queue)]
    <2>1. /\ queue # <<>> /\ queue' = Tail(queue) /\ Continue(w, j)
          /\ tasks' = [tasks EXCEPT ![Head(queue)] = Begun(Head(queue))]
      BY <1>3 DEF TaskStart, TakeMessage
    <2>2. Head(queue) \in DOMAIN tasks /\ Head(queue) \in Nat
      BY <1>0, <2>1, HeadOfQueue
    <2>3. tasks' \in Seq(TaskRows) /\ DOMAIN tasks' = DOMAIN tasks
      BY <1>0, <2>1, <2>2, RowOfTask, BegunType, TaskUpdated
    <2>4. JobOK(j, created', DOMAIN tasks')
      BY <2>2, <2>3, HandleJobOK
    <2> HIDE DEF j
    <2>5. JobsOK' /\ BrokerOK'
      BY <1>0, <1>1, <2>1, <2>3, <2>4, JobsContinue, Dequeued DEF database
    <2> QED BY <1>2, <2>5 DEF TypeOK, DataOK, BrokerOK, JobsOK, RequestsOK, CountersOK
  <1>4. CASE TaskSkip(w)
    <2>1. queue # <<>> /\ queue' = Tail(queue) /\ tasks' = tasks /\ job' = job
      BY <1>4 DEF TaskSkip, TakeMessage
    <2>2. BrokerOK'
      BY <1>0, <2>1, Dequeued DEF BrokerOK
    <2>3. JobsOK'
      BY <1>0, <1>1, <2>1, JobsUnchanged DEF database
    <2> QED BY <1>2, <2>2, <2>3 DEF TypeOK, DataOK, BrokerOK, JobsOK, RequestsOK, CountersOK
  <1>5. CASE TaskHandle(w) \/ TaskMark(w) \/ TaskFail(w)
    <2> DEFINE t == job[w].task
    <2>1. t \in DOMAIN tasks /\ tasks[t] \in TaskRows /\ queue' = queue
      BY <1>0, <1>5, RowOfTask DEF TaskHandle, TaskMark, TaskFail, JobOK, Handling
    <2>2. \E r \in TaskRows : tasks' = [tasks EXCEPT ![t] = r]
      <3>1. CASE TaskHandle(w)
        <4>1. [tasks[t] EXCEPT !.sent = @ + 1] \in TaskRows
          BY <2>1 DEF TaskRows
        <4>2. tasks' = [tasks EXCEPT ![t] = [tasks[t] EXCEPT !.sent = @ + 1]]
          BY <3>1 DEF TaskHandle
        <4> QED BY <4>1, <4>2
      <3>2. CASE TaskMark(w)
        <4>1. [tasks[t] EXCEPT !.executed = TRUE] \in TaskRows
          BY <2>1 DEF TaskRows
        <4>2. tasks' = [tasks EXCEPT ![t] = [tasks[t] EXCEPT !.executed = TRUE]]
          BY <3>2 DEF TaskMark
        <4> QED BY <4>1, <4>2
      <3>3. CASE TaskFail(w)
        <4>1. PICK n \in {0, 1} :
                 tasks' = [tasks EXCEPT ![t] = CutShort(@, n)]
          BY <3>3 DEF TaskFail
        <4>2. CutShort(tasks[t], n) \in TaskRows
          BY <2>1, CutShortType
        <4>3. tasks' = [tasks EXCEPT ![t] = CutShort(tasks[t], n)]
          BY <4>1
        <4> QED BY <4>2, <4>3
      <3> QED BY <1>5, <3>1, <3>2, <3>3
    <2> HIDE DEF t
    <2>3. tasks' \in Seq(TaskRows) /\ DOMAIN tasks' = DOMAIN tasks
      BY <1>0, <2>1, <2>2, TaskUpdated
    <2>4. BrokerOK'
      BY <1>0, <2>1, <2>3 DEF BrokerOK
    <2>5. \E j : JobOK(j, created', DOMAIN tasks') /\ Continue(w, j)
      <3>1. CASE TaskHandle(w)
        <4> DEFINE j == [job[w] EXCEPT !.step = "mark"]
        <4>1. JobOK(j, created', DOMAIN tasks')
          BY <1>0, <1>1, <2>3, <3>1 DEF TaskHandle, JobOK, Jobs, Serving, Handling, database
        <4> QED BY <3>1, <4>1 DEF TaskHandle
      <3>2. CASE TaskMark(w) \/ TaskFail(w)
        BY <3>2, IdleJobOK DEF TaskMark, TaskFail
      <3> QED BY <1>5, <3>1, <3>2
    <2>6. JobsOK'
      BY <1>0, <1>1, <2>3, <2>5, JobsContinue DEF database
    <2> QED BY <1>2, <2>4, <2>6 DEF TypeOK, DataOK, BrokerOK, JobsOK, RequestsOK, CountersOK
  <1> QED BY <1>3, <1>4, <1>5 DEF TaskStep

(* The start of a sweep, the clock, the crash of a worker, and a message   *)
(* that is delivered again.                                                *)
LEMMA OtherTypes ==
  ASSUME TypeOK,
         \/ \E w \in Workers : DispatchStart(w) \/ FeedbackStart(w) \/ Crash(w)
         \/ \E t \in DOMAIN tasks : Redeliver(t)
         \/ Tick
  PROVE  TypeOK'
  <1>0. DataOK /\ BrokerOK /\ JobsOK /\ RequestsOK /\ CountersOK
    BY TypeParts
  <1>1. UNCHANGED <<database, request, requests, issued, published>>
    BY DEF DispatchStart, FeedbackStart, SweepStart, Crash, Redeliver, Tick, bounds, history
  <1>2. DataOK' /\ RequestsOK'
    BY <1>0, <1>1 DEF DataOK, RequestsOK, RequestOK, database
  <1>3. ASSUME NEW w \in Workers, DispatchStart(w) \/ FeedbackStart(w)
        PROVE  TypeOK'
    <2>1. PICK k \in {STATE_INIT, FEEDBACK} : SweepStart(w, k)
      BY <1>3 DEF DispatchStart, FeedbackStart
    <2> DEFINE j == [IdleJob EXCEPT !.step = "query", !.stage = k, !.now = time]
    <2>2. Continue(w, j) /\ UNCHANGED <<broker, time, bounds, history>>
      BY <2>1 DEF SweepStart
    <2>3. JobOK(j, created', DOMAIN tasks')
      <3>1. k \in Stages /\ time \in Nat
        BY <1>0 DEF CountersOK, Stages, STATE_INIT, STATE_PRESENTATION_UPDATE, FEEDBACK
      <3> QED BY <3>1, QueryJobOK
    <2> HIDE DEF j
    <2>4. JobsOK' /\ BrokerOK' /\ CountersOK'
      BY <1>0, <1>1, <2>2, <2>3, JobsContinue DEF database, broker, bounds, history, BrokerOK, CountersOK
    <2> QED BY <1>2, <2>4 DEF TypeOK, DataOK, BrokerOK, JobsOK, RequestsOK, CountersOK
  <1>4. ASSUME NEW w \in Workers, Crash(w)
        PROVE  TypeOK'
    <2>1. JobOK(job[w], created, DOMAIN tasks) /\ job[w] \in Jobs
      BY <1>0 DEF JobsOK
    <2>2. tasks' \in Seq(TaskRows) /\ DOMAIN tasks' = DOMAIN tasks /\ queue' = queue
      <3>1. CASE job[w].step \in Handling
        <4> DEFINE t == job[w].task
                   r == CutShort(tasks[t], 0)
        <4>1. t \in DOMAIN tasks /\ tasks[t] \in TaskRows
          BY <1>0, <2>1, <3>1, RowOfTask DEF JobOK
        <4>2. r \in TaskRows
          BY <4>1, CutShortType
        <4>3. tasks' = [tasks EXCEPT ![t] = r] /\ queue' = queue
          BY <1>4, <3>1 DEF Crash
        <4> HIDE DEF t, r
        <4> QED BY <1>0, <4>1, <4>2, <4>3, TaskUpdated
      <3>2. CASE job[w].step \notin Handling
        BY <1>0, <1>4, <3>2 DEF Crash, BrokerOK
      <3> QED BY <3>1, <3>2
    <2>3. BrokerOK'
      BY <1>0, <2>2 DEF BrokerOK
    <2>4. JobsOK'
      BY <1>0, <1>1, <1>4, <2>2, IdleJobOK, JobsContinue DEF Crash, database
    <2>5. repeats' \in [Events -> [Stages -> Nat]]
      <3>1. CASE UNCHANGED repeats
        BY <1>0, <3>1 DEF CountersOK
      <3>2. CASE ~UNCHANGED repeats
        <4>1. Repeat(job[w].event, {job[w].stage})
              /\ job[w].step \in {"delay", "pre_save", "save", "create"}
          BY <1>4, <3>2 DEF Crash
        <4>2. job[w].event \in Events
          BY <1>0, <2>1, <4>1 DEF JobOK, Serving, DataOK
        <4> QED BY <1>0, <4>1, <4>2, RepeatType DEF CountersOK
      <3> QED BY <3>1, <3>2
    <2>6. CountersOK'
      BY <1>0, <1>1, <1>4, <2>5 DEF Crash, Fault, CountersOK
    <2> QED BY <1>2, <2>3, <2>4, <2>6 DEF TypeOK, DataOK, BrokerOK, JobsOK, RequestsOK, CountersOK
  <1>5. ASSUME NEW t \in DOMAIN tasks, Redeliver(t)
        PROVE  TypeOK'
    <2>1. tasks' = tasks /\ queue' = Append(queue, t) /\ job' = job /\ t \in Nat
      BY <1>0, <1>5, LenProperties DEF Redeliver, BrokerOK
    <2>2. BrokerOK'
      BY <1>0, <2>1, Queued DEF BrokerOK
    <2>3. JobsOK' /\ CountersOK'
      BY <1>0, <1>1, <1>5, <2>1, JobsUnchanged DEF Redeliver, Fault, CountersOK, history, database
    <2> QED BY <1>2, <2>2, <2>3 DEF TypeOK, DataOK, BrokerOK, JobsOK, RequestsOK, CountersOK
  <1>6. CASE Tick
    <2>1. UNCHANGED <<broker, job, faults, history>> /\ time' = time + 1
      BY <1>6 DEF Tick, bounds
    <2>2. JobsOK' /\ BrokerOK' /\ CountersOK'
      BY <1>0, <1>1, <2>1, JobsUnchanged DEF broker, database, history, BrokerOK, CountersOK
    <2> QED BY <1>2, <2>2 DEF TypeOK, DataOK, BrokerOK, JobsOK, RequestsOK, CountersOK
  <1> QED BY <1>3, <1>4, <1>5, <1>6

(* The web requests.                                                       *)
LEMMA LoadTypes ==
  ASSUME TypeOK, NEW p \in Processes, NEW e \in Events, NEW copy \in Rows, NEW all \in BOOLEAN,
         Load(p, e, copy, all)
  PROVE  TypeOK'
  <1>0. /\ DataOK /\ BrokerOK /\ JobsOK /\ RequestsOK /\ CountersOK
    BY TypeParts
  <1> DEFINE r == [IdleRequest EXCEPT !.step = "pre_save", !.event = e, !.copy = copy, !.all = all]
  <1>1. /\ request' = [request EXCEPT ![p] = r] /\ e \in created /\ requests' = requests + 1
        /\ UNCHANGED <<database, broker, time, job, faults, history>>
    BY DEF Load, Arrives
  <1>2. r \in Copies /\ r.event = e /\ r.copy = copy
    BY DEF Copies, IdleRequest
  <1> HIDE DEF r
  <1>3. RequestsOK'
    BY <1>0, <1>1, <1>2 DEF RequestsOK, RequestOK, database
  <1>4. DataOK' /\ BrokerOK' /\ JobsOK' /\ CountersOK'
    BY <1>0, <1>1, JobsUnchanged DEF DataOK, BrokerOK, CountersOK, database, broker, history
  <1> QED BY <1>3, <1>4 DEF TypeOK, DataOK, BrokerOK, JobsOK, RequestsOK, CountersOK

(* The save of a web request.                                              *)
LEMMA RequestTypes ==
  ASSUME TypeOK, NEW p \in Processes, PreSave(p) \/ Save(p) \/ EmitPublished(p)
  PROVE  TypeOK'
  <1>0. /\ DataOK /\ BrokerOK /\ JobsOK /\ RequestsOK /\ CountersOK
        /\ request[p] \in Copies /\ RequestOK(request[p])
    BY TypeParts DEF RequestsOK
  <1> DEFINE e == request[p].event
  <1>1. e \in created /\ e \in Events /\ event[e] \in Rows /\ request[p].copy \in Rows
    BY <1>0 DEF PreSave, Save, EmitPublished, RequestOK, DataOK
  <1>2. CASE PreSave(p)
    <2> DEFINE r == [request[p] EXCEPT !.step = "save", !.was_public = event[e].public]
    <2>1. /\ request' = [request EXCEPT ![p] = r]
          /\ UNCHANGED <<database, broker, time, job, bounds, history>>
      BY <1>0, <1>2 DEF PreSave, RequestsOK, Copies
    <2>2. r \in Copies /\ r.event = e /\ r.copy = request[p].copy
      BY <1>0, <1>1 DEF Copies, Rows
    <2> HIDE DEF r
    <2>3. RequestsOK'
      BY <1>0, <1>1, <2>1, <2>2 DEF RequestsOK, RequestOK, database
    <2>4. DataOK' /\ BrokerOK' /\ JobsOK' /\ CountersOK'
      BY <1>0, <2>1, JobsUnchanged DEF DataOK, BrokerOK, CountersOK, database, broker, bounds, history
    <2> QED BY <2>3, <2>4 DEF TypeOK, DataOK, BrokerOK, JobsOK, RequestsOK, CountersOK
  <1>3. CASE Save(p)
    <2> DEFINE copy == request[p].copy
               row == IF request[p].all THEN copy ELSE [event[e] EXCEPT !.deleted = copy.deleted]
               r == [request[p] EXCEPT !.step = "emit"]
    <2>1. /\ SaveRow(e, row)
          /\ request' = [request EXCEPT ![p] = r] \/ request' = [request EXCEPT ![p] = IdleRequest]
          /\ UNCHANGED <<created, broker, time, job, bounds, issued, published>>
      BY <1>0, <1>3 DEF Save, RequestsOK, Copies
    <2>0. r \in Copies /\ r.event = e /\ r.copy = copy
      BY <1>0 DEF Copies
    <2> HIDE DEF r
    <2>2. row \in Rows
      BY <1>1 DEF Rows
    <2> HIDE DEF row, e
    <2>3. DataOK'
      BY <1>0, <1>1, <2>1, <2>2 DEF DataOK, SaveRow
    <2>4. repeats' \in [Events -> [Stages -> Nat]]
      BY <1>0, <1>1, <2>1, RepeatType DEF SaveRow, CountersOK
    <2>5. CountersOK'
      BY <1>0, <2>1, <2>4 DEF CountersOK, bounds
    <2>6. RequestsOK'
      <3>1. CASE request' = [request EXCEPT ![p] = r]
        BY <1>0, <1>1, <2>0, <2>1, <3>1 DEF RequestsOK, RequestOK
      <3>2. CASE request' = [request EXCEPT ![p] = IdleRequest]
        BY <1>0, <2>1, <3>2 DEF RequestsOK, RequestOK, IdleRequest, Copies
      <3> QED BY <2>1, <3>1, <3>2
    <2>7. BrokerOK' /\ JobsOK'
      BY <1>0, <2>1, JobsUnchanged DEF BrokerOK, broker
    <2> QED BY <2>3, <2>5, <2>6, <2>7 DEF TypeOK, DataOK, BrokerOK, JobsOK, RequestsOK, CountersOK
  <1>4. CASE EmitPublished(p)
    <2>1. /\ Emit(e) /\ request' = [request EXCEPT ![p] = IdleRequest]
          /\ UNCHANGED <<database, broker, time, job, bounds, issued, repeats>>
      BY <1>4 DEF EmitPublished
    <2>2. RequestsOK'
      BY <1>0, <2>1 DEF RequestsOK, RequestOK, IdleRequest, Copies, database
    <2> HIDE DEF e
    <2>3. CountersOK'
      BY <1>0, <1>1, <2>1, EmitType DEF CountersOK, bounds
    <2>4. DataOK' /\ BrokerOK' /\ JobsOK'
      BY <1>0, <2>1, JobsUnchanged DEF DataOK, BrokerOK, broker, database
    <2> QED BY <2>2, <2>3, <2>4 DEF TypeOK, DataOK, BrokerOK, JobsOK, RequestsOK, CountersOK
  <1> QED BY <1>2, <1>3, <1>4

(* The arrival of a web request.                                           *)
LEMMA ArrivalTypes ==
  ASSUME TypeOK, NEW p \in Processes, NEW e \in Events,
         \/ EventNew(p, e) \/ EditStart(p, e) \/ PublishStart(p, e) \/ ArchiveStart(p, e)
         \/ \E d \in BOOLEAN : SetDeleted(p, e, d)
  PROVE  TypeOK'
  <1>0. DataOK /\ BrokerOK /\ JobsOK /\ RequestsOK /\ CountersOK /\ event[e] \in Rows
    BY TypeParts DEF DataOK
  <1>1. CASE EventNew(p, e)
    <2>1. PICK form \in Forms : event' = [event EXCEPT ![e] = Filled(DefaultRow, form)]
      BY <1>1 DEF EventNew
    <2>2. Filled(DefaultRow, form) \in Rows
      BY FilledType, DefaultRowType
    <2>3. /\ created' = created \cup {e}
          /\ tasks' = Append(tasks, Task(e, "AdminOnCreate")) /\ queue' = Append(queue, Len(tasks) + 1)
          /\ issued' = [issued EXCEPT ![e]["AdminOnCreate"] = @ + 1]
          /\ requests' = requests + 1
          /\ UNCHANGED <<time, job, request, faults, repeats, published>>
      BY <1>1 DEF EventNew, Arrives
    <2>4. DataOK'
      BY <1>0, <2>1, <2>2, <2>3 DEF DataOK
    <2>5. "AdminOnCreate" \in Modes /\ "AdminOnCreate" \in Notices
      BY DEF Modes, Notices
    <2>6. /\ tasks' \in Seq(TaskRows) /\ Len(tasks) \in Nat
          /\ DOMAIN tasks = 1..Len(tasks) /\ DOMAIN tasks' = 1..(Len(tasks) + 1)
      BY <1>0, <2>3, <2>5, TaskCreated
    <2>7. BrokerOK'
      <3>1. Len(tasks) + 1 \in DOMAIN tasks' /\ Len(tasks) + 1 \in Nat /\ DOMAIN tasks \subseteq DOMAIN tasks'
        BY <2>6
      <3> QED BY <1>0, <2>3, <2>6, <3>1, Queued
    <2>8. JobsOK'
      BY <1>0, <2>3, <2>6, JobsUnchanged
    <2>9. RequestsOK'
      BY <1>0, <2>3 DEF RequestsOK, RequestOK
    <2>10. CountersOK'
      BY <1>0, <2>3, <2>5, IssuedType DEF CountersOK
    <2> QED BY <2>4, <2>7, <2>8, <2>9, <2>10
            DEF TypeOK, DataOK, BrokerOK, JobsOK, RequestsOK, CountersOK
  <1>2. CASE EditStart(p, e)
    <2>1. PICK form \in Forms : Load(p, e, Filled(event[e], form), TRUE)
      BY <1>2 DEF EditStart
    <2> QED BY <1>0, <2>1, FilledType, LoadTypes
  <1>3. CASE PublishStart(p, e)
    <2>1. [event[e] EXCEPT !.public = ~@] \in Rows
      BY <1>0 DEF Rows
    <2> QED BY <1>3, <2>1, LoadTypes DEF PublishStart
  <1>4. CASE ArchiveStart(p, e)
    <2>1. [event[e] EXCEPT !.deleted = TRUE] \in Rows
      BY <1>0 DEF Rows
    <2> QED BY <1>4, <2>1, LoadTypes DEF ArchiveStart
  <1>5. ASSUME NEW d \in BOOLEAN, SetDeleted(p, e, d)
        PROVE  TypeOK'
    <2>1. /\ event' = [event EXCEPT ![e] = [event[e] EXCEPT !.deleted = d]] /\ e \in created
          /\ requests' = requests + 1
          /\ UNCHANGED <<created, broker, time, job, request, faults, history>>
      BY <1>5 DEF SetDeleted, Arrives
    <2>2. [event[e] EXCEPT !.deleted = d] \in Rows
      BY <1>0 DEF Rows
    <2>3. DataOK'
      BY <1>0, <2>1, <2>2 DEF DataOK
    <2>4. BrokerOK' /\ JobsOK' /\ RequestsOK' /\ CountersOK'
      BY <1>0, <2>1, JobsUnchanged DEF BrokerOK, RequestsOK, RequestOK, CountersOK, broker, history
    <2> QED BY <2>3, <2>4 DEF TypeOK, DataOK, BrokerOK, JobsOK, RequestsOK, CountersOK
  <1> QED BY <1>1, <1>2, <1>3, <1>4, <1>5

(* Initially,                                                              *)
LEMMA TypeInit == Init => TypeOK
  <1> SUFFICES ASSUME Init PROVE TypeOK
    OBVIOUS
  <1>1. DataOK
    BY DefaultRowType DEF Init, DataOK
  <1>2. tasks = <<>> /\ queue = <<>> /\ DOMAIN queue = {}
    BY DEF Init
  <1>3. BrokerOK
    BY <1>2 DEF BrokerOK
  <1>4. JobsOK
    BY IdleJobOK DEF Init, JobsOK, JobOK
  <1>5. RequestsOK
    BY DEF Init, RequestsOK, RequestOK, IdleRequest, Copies
  <1>6. CountersOK
    BY DEF Init, CountersOK
  <1> QED BY <1>1, <1>3, <1>4, <1>5, <1>6, TypeParts

(* and by every step.                                                      *)
LEMMA TypeNext == TypeOK /\ [Next]_vars => TypeOK'
  <1> SUFFICES ASSUME TypeOK, [Next]_vars PROVE TypeOK'
    OBVIOUS
  <1>1. CASE UNCHANGED vars
    BY <1>1 DEF vars, database, broker, bounds, history, TypeOK, RequestOK
  <1>2. CASE Next
    BY <1>2, SweepTypes, TaskTypes, OtherTypes, RequestTypes, ArrivalTypes DEF Next
  <1> QED BY <1>1, <1>2

(* The rows, the messages, the jobs and the requests have the types the    *)
(* code gives them; no job and no message names a row that does not exist. *)
THEOREM NotificationsTypeCorrect == Spec => []TypeOK
  <1>1. Init => TypeOK
    BY TypeInit
  <1>2. TypeOK /\ [Next]_vars => TypeOK'
    BY TypeNext
  <1> QED BY <1>1, <1>2, PTL DEF Spec

-----------------------------------------------------------------------------
(* Repeated notices.                                                       *)

(* A job that has still to issue the i-th notice of stage k for event e.   *)
Pending(j, e, k, i) ==
    /\ j.stage = k
    /\ \/ e \in j.todo
       \/ /\ j.event = e
          /\ \/ j.step = "create" /\ j.next <= i
             \/ j.step = "delay" /\ j.next < i
             \/ j.step = "mail"

Keeps(j, e, k) == j.stage = k /\ (e \in j.todo \/ (e = j.event /\ j.step # "emit"))

Waiting(e, k, i) == {w \in Workers : Pending(job[w], e, k, i)}

(* What was issued, and what the workers have still to issue.              *)
Within(e, k, i) ==
    issued[e][Fires(k)[i]] + Cardinality(Waiting(e, k, i)) <= 1 + repeats[e][k]

(* A query can still return the event: one issue more is to come.          *)
Unstarted(e, k, i) ==
    ~Passed(event[e], k) /\ (\A w \in Workers : ~Holds(w, e, k))
        => issued[e][Fires(k)[i]] <= repeats[e][k]

Apart == \A w \in Workers : job[w].event \notin job[w].todo

Accounts ==
    /\ TypeOK
    /\ Apart
    /\ \A e \in Events, k \in Stages : \A i \in DOMAIN Fires(k) : Within(e, k, i) /\ Unstarted(e, k, i)

(* What Within and Unstarted count.                                        *)
LEMMA CounterTypes ==
  ASSUME TypeOK, NEW e \in Events, NEW k \in Stages, NEW i \in DOMAIN Fires(k)
  PROVE  /\ issued[e][Fires(k)[i]] \in Nat /\ repeats[e][k] \in Nat
         /\ IsFiniteSet(Waiting(e, k, i)) /\ Cardinality(Waiting(e, k, i)) \in Nat
  <1>1. Fires(k)[i] \in Notices
    BY FiresType
  <1>2. Waiting(e, k, i) \subseteq Workers
    BY DEF Waiting
  <1>3. IsFiniteSet(Waiting(e, k, i))
    BY <1>2, WorkersAssumption, FS_Subset
  <1> QED BY <1>1, <1>3, FS_CardinalityType DEF TypeOK

(* Holds, said of the memory of a worker.                                  *)
LEMMA HoldsKeeps == \A w, e, k : Holds(w, e, k) <=> Keeps(job[w], e, k)
  BY DEF Holds, Keeps

(* A notice still to issue is for an event the job keeps.                  *)
LEMMA PendingKeeps == \A j, e, k, i : Pending(j, e, k, i) => Keeps(j, e, k)
  BY DEF Pending, Keeps

(* A step of one worker changes its own memory only.                       *)
LEMMA ContinueJobs ==
  ASSUME TypeOK, NEW w \in Workers, NEW j, Continue(w, j)
  PROVE  job'[w] = j /\ \A v \in Workers : v # w => job'[v] = job[v]
  BY DEF TypeOK, Continue

(* The event being served is not among those to come.                      *)
LEMMA ContinueApart ==
  ASSUME Accounts, NEW w \in Workers, NEW j, Continue(w, j), j.event \notin j.todo
  PROVE  Apart'
  BY ContinueJobs DEF Accounts, Apart

(* A step that issues no i-th notice of stage k for event e.               *)
LEMMA Kept ==
  ASSUME Accounts, TypeOK', NEW e \in Events, NEW k \in Stages, NEW i \in DOMAIN Fires(k),
         issued'[e][Fires(k)[i]] = issued[e][Fires(k)[i]],
         repeats'[e][k] >= repeats[e][k],
         \A v \in Workers : Pending(job'[v], e, k, i) => Pending(job[v], e, k, i),
         ~Passed(event'[e], k) /\ (\A v \in Workers : ~Keeps(job'[v], e, k))
            => \/ repeats'[e][k] > repeats[e][k]
               \/ ~Passed(event[e], k) /\ \A v \in Workers : ~Keeps(job[v], e, k)
               \/ \E v \in Workers : Pending(job[v], e, k, i)
  PROVE  Within(e, k, i)' /\ Unstarted(e, k, i)'
  <1> DEFINE n == issued[e][Fires(k)[i]]
             c == Cardinality(Waiting(e, k, i))
             d == Cardinality(Waiting(e, k, i)')
  <1>1. n \in Nat /\ repeats[e][k] \in Nat /\ c \in Nat
    BY CounterTypes DEF Accounts
  <1>2. repeats'[e][k] \in Nat
    BY DEF TypeOK
  <1>3. n + c <= 1 + repeats[e][k]
    BY DEF Accounts, Within
  <1>4. Waiting(e, k, i)' \subseteq Waiting(e, k, i)
    BY DEF Waiting
  <1>5. d \in Nat /\ d <= c
    BY <1>4, CounterTypes, FS_Subset, FS_CardinalityType DEF Accounts
  <1>6. Within(e, k, i)'
    BY <1>1, <1>2, <1>3, <1>5 DEF Within
  <1>7. ASSUME ~Passed(event'[e], k), \A v \in Workers : ~Keeps(job'[v], e, k)
        PROVE  n <= repeats'[e][k]
    <2>1. CASE repeats'[e][k] > repeats[e][k]
      BY <1>1, <1>2, <1>3, <2>1
    <2>2. CASE ~Passed(event[e], k) /\ \A v \in Workers : ~Keeps(job[v], e, k)
      <3>1. n <= repeats[e][k]
        BY <2>2, HoldsKeeps DEF Accounts, Unstarted
      <3> QED BY <1>1, <1>2, <3>1
    <2>3. CASE \E v \in Workers : Pending(job[v], e, k, i)
      <3>1. Waiting(e, k, i) # {}
        BY <2>3 DEF Waiting
      <3>2. c # 0
        BY <3>1, CounterTypes, FS_EmptySet DEF Accounts
      <3> HIDE DEF n, c
      <3> QED BY <1>1, <1>2, <1>3, <3>2
    <2> QED BY <1>7, <2>1, <2>2, <2>3
  <1>8. Unstarted(e, k, i)'
    BY <1>7, HoldsKeeps DEF Unstarted, Holds, Keeps
  <1> QED BY <1>6, <1>8

(* The loop keeps the events still to be served, and only those.           *)
LEMMA LoopOnKeeps ==
  ASSUME NEW w \in Workers, NEW j \in Jobs, LoopOn(w, j), j.todo \subseteq Events
  PROVE  \E i : /\ Continue(w, i)
                /\ i.event \notin i.todo
                /\ \A e \in Events, k \in Stages :
                      /\ Keeps(i, e, k) <=> k = j.stage /\ e \in j.todo
                      /\ \A n : Pending(i, e, k, n) => k = j.stage /\ e \in j.todo
  <1>1. CASE j.todo # {}
    <2>1. PICK e \in j.todo :
            Continue(w, [j EXCEPT !.event = e, !.todo = @ \ {e}, !.next = 1, !.was_public = FALSE,
                                  !.step = CASE j.stage = FEEDBACK -> "mail"
                                             [] j.stage = STATE_PRESENTATION_UPDATE -> "pre_save"
                                             [] OTHER -> "create"])
      BY <1>1 DEF LoopOn
    <2> DEFINE i == [j EXCEPT !.event = e, !.todo = @ \ {e}, !.next = 1, !.was_public = FALSE,
                              !.step = CASE j.stage = FEEDBACK -> "mail"
                                         [] j.stage = STATE_PRESENTATION_UPDATE -> "pre_save"
                                         [] OTHER -> "create"]
    <2>2. i.event = e /\ i.todo = j.todo \ {e} /\ i.stage = j.stage /\ i.step # "emit"
      BY DEF Jobs
    <2> HIDE DEF i
    <2>3. \A f \in Events, k \in Stages :
             /\ Keeps(i, f, k) <=> k = j.stage /\ f \in j.todo
             /\ \A n : Pending(i, f, k, n) => k = j.stage /\ f \in j.todo
      BY <2>2, PendingKeeps DEF Keeps
    <2> QED BY <2>1, <2>2, <2>3 DEF i
  <1>2. CASE j.todo = {}
    <2>1. \E i : Continue(w, i) /\ i.event = Nothing /\ i.todo = {}
      <3>1. CASE j.stage < STATE_PRESENTATION_UPDATE
        <4> DEFINE i == [IdleJob EXCEPT !.step = "query", !.stage = j.stage + 1, !.now = j.now]
        <4>1. Continue(w, i)
          BY <1>2, <3>1 DEF LoopOn
        <4>2. i.event = Nothing /\ i.todo = {}
          BY DEF IdleJob
        <4> QED BY <4>1, <4>2
      <3>2. CASE ~(j.stage < STATE_PRESENTATION_UPDATE)
        BY <1>2, <3>2 DEF LoopOn, IdleJob
      <3> QED BY <3>1, <3>2
    <2> QED BY <1>2, <2>1, EventsAssumption, PendingKeeps DEF Keeps
  <1> QED BY <1>1, <1>2

(* A job between sweeps keeps no event.                                    *)
LEMMA RestKeepsNone ==
  ASSUME NEW j, NEW known, NEW ids, JobOK(j, known, ids), j.step \notin Serving
  PROVE  /\ j.event \notin j.todo
         /\ \A e \in Events : \A k : ~Keeps(j, e, k) /\ \A n : ~Pending(j, e, k, n)
  BY EventsAssumption, PendingKeeps DEF JobOK, Keeps

(* Steps of tasks and the starts of sweeps.                                *)
LEMMA RestAccounts ==
  ASSUME Accounts, TypeOK', NEW w \in Workers, NEW j, Continue(w, j),
         job[w].step \notin Serving, j.step \notin Serving,
         UNCHANGED <<event, issued, repeats>>
  PROVE  Accounts'
  <1>1. job'[w] = j /\ \A v \in Workers : v # w => job'[v] = job[v]
    BY ContinueJobs DEF Accounts
  <1>2. JobOK(job[w], created, DOMAIN tasks) /\ JobOK(j, created', DOMAIN tasks')
    BY <1>1 DEF Accounts, TypeOK
  <1>3. Apart'
    BY <1>2, RestKeepsNone, ContinueApart
  <1>4. ASSUME NEW e \in Events, NEW k \in Stages, NEW i \in DOMAIN Fires(k)
        PROVE  Within(e, k, i)' /\ Unstarted(e, k, i)'
    <2>1. ~Keeps(job[w], e, k) /\ ~Pending(j, e, k, i)
      BY <1>2, RestKeepsNone
    <2>2. repeats[e][k] \in Nat
      BY CounterTypes DEF Accounts
    <2> QED BY <1>1, <2>1, <2>2, Kept
  <1> QED BY <1>3, <1>4 DEF Accounts

(* Steps of the web processes, of the broker and of the clock.             *)
LEMMA OutsideAccounts ==
  ASSUME Accounts, TypeOK', job' = job,
         \A e \in Events, k \in Stages : \A i \in DOMAIN Fires(k) :
            issued'[e][Fires(k)[i]] = issued[e][Fires(k)[i]],
         \A e \in Events, k \in Stages :
            \/ repeats'[e][k] > repeats[e][k]
            \/ repeats'[e][k] = repeats[e][k] /\ (Passed(event[e], k) => Passed(event'[e], k))
  PROVE  Accounts'
  <1>1. Apart'
    BY DEF Accounts, Apart
  <1>2. ASSUME NEW e \in Events, NEW k \in Stages, NEW i \in DOMAIN Fires(k)
        PROVE  Within(e, k, i)' /\ Unstarted(e, k, i)'
    <2>1. repeats[e][k] \in Nat /\ repeats'[e][k] \in Nat
      BY DEF Accounts, TypeOK
    <2>2. repeats'[e][k] >= repeats[e][k]
      BY <2>1
    <2> QED BY <2>2, Kept
  <1> QED BY <1>1, <1>2 DEF Accounts

(* A save takes back only stages that it counts as repeats.                *)
LEMMA SaveRowCounts ==
  ASSUME TypeOK, NEW e \in Events, NEW row \in Rows, SaveRow(e, row)
  PROVE  /\ event'[e] = row /\ \A f \in Events : f # e => event'[f] = event[f]
         /\ \A f \in Events, k \in Stages :
            /\ repeats[f][k] \in Nat
            /\ \/ repeats'[f][k] = repeats[f][k] + 1
               \/ repeats'[f][k] = repeats[f][k] /\ (Passed(event[f], k) => Passed(event'[f], k))
  <1>1. event' = [event EXCEPT ![e] = row] /\ event \in [Events -> Rows]
        /\ Repeat(e, {k \in Stages : Passed(event[e], k) /\ ~Passed(row, k)})
        /\ repeats \in [Events -> [Stages -> Nat]]
    BY DEF SaveRow, TypeOK
  <1>2. event'[e] = row /\ \A f \in Events : f # e => event'[f] = event[f]
    BY <1>1
  <1>3. \A f \in Events, k \in Stages :
           repeats'[f][k] = IF f = e /\ k \in {l \in Stages : Passed(event[e], l) /\ ~Passed(row, l)}
                            THEN repeats[f][k] + 1 ELSE repeats[f][k]
    BY <1>1, RepeatType
  <1> QED BY <1>1, <1>2, <1>3

(* A query takes up events nobody keeps, or counts the overlap.            *)
LEMMA QueryAccounts ==
  ASSUME Accounts, TypeOK', NEW w \in Workers, SweepQuery(w)
  PROVE  Accounts'
  <1> DEFINE s == job[w].stage
             found == Matching(s, job[w].now)
             j == [job[w] EXCEPT !.todo = found]
  <1>1. /\ TypeOK /\ job[w] \in Jobs /\ job[w].step = "query" /\ s \in Stages
        /\ JobOK(job[w], created, DOMAIN tasks)
    BY DEF Accounts, TypeOK, SweepQuery, Jobs
  <1>2. \A e \in Events, k \in Stages : ~Keeps(job[w], e, k) /\ \A n : ~Pending(job[w], e, k, n)
    BY <1>1, RestKeepsNone DEF Serving
  <1>3. j \in Jobs /\ found \subseteq Events /\ j.todo = found /\ j.stage = s
    BY <1>1 DEF Jobs, Matching, TypeOK
  <1>4. LoopOn(w, j) /\ UNCHANGED <<event, issued>>
    BY DEF SweepQuery, database
  <1>5. \A e \in Events, k \in Stages :
           repeats'[e][k] = IF e \in found /\ k = s /\ \E v \in Workers : Keeps(job[v], e, s)
                            THEN repeats[e][k] + 1 ELSE repeats[e][k]
    <2>1. repeats' = [e \in Events |->
                        IF e \in {f \in found : \E v \in Workers : Holds(v, f, s)}
                        THEN [repeats[e] EXCEPT ![s] = @ + 1] ELSE repeats[e]]
      BY DEF SweepQuery
    <2>2. \A e \in Events : repeats[e] \in [Stages -> Nat]
      BY <1>1 DEF TypeOK
    <2> HIDE DEF found, s
    <2>3. \A e \in Events : repeats'[e] = IF e \in found /\ \E v \in Workers : Keeps(job[v], e, s)
                                         THEN [repeats[e] EXCEPT ![s] = @ + 1] ELSE repeats[e]
      BY <2>1, HoldsKeeps
    <2>4. ASSUME NEW e \in Events, NEW k \in Stages
          PROVE  repeats'[e][k] = IF e \in found /\ k = s /\ \E v \in Workers : Keeps(job[v], e, s)
                                  THEN repeats[e][k] + 1 ELSE repeats[e][k]
      <3>1. CASE e \in found /\ \E v \in Workers : Keeps(job[v], e, s)
        <4>1. repeats'[e] = [repeats[e] EXCEPT ![s] = @ + 1]
          BY <2>3, <3>1
        <4> QED BY <2>2, <3>1, <4>1
      <3>2. CASE ~(e \in found /\ \E v \in Workers : Keeps(job[v], e, s))
        <4>1. repeats'[e] = repeats[e]
          BY <2>3, <3>2
        <4> QED BY <3>2, <4>1
      <3> QED BY <3>1, <3>2
    <2> QED BY <2>4
  <1>6. \A e \in found : ~Passed(event[e], s)
    <2>1. ASSUME NEW e \in found
          PROVE  /\ s # FEEDBACK => event[e].notification_state = s
                 /\ s = FEEDBACK => ~event[e].feedback_requested
      BY DEF Matching
    <2>2. s # FEEDBACK => ~(s > s)
      BY <1>1 DEF Stages, STATE_INIT, STATE_PRESENTATION_UPDATE
    <2> HIDE DEF found, s
    <2> QED BY <2>1, <2>2 DEF Passed
  <1> HIDE DEF j, found, s
  <1>7. PICK i : /\ Continue(w, i)
                 /\ i.event \notin i.todo
                 /\ \A e \in Events, k \in Stages :
                       /\ Keeps(i, e, k) <=> k = s /\ e \in found
                       /\ \A n : Pending(i, e, k, n) => k = s /\ e \in found
    <2>1. j.todo \subseteq Events
      BY <1>3
    <2>2. \E i : /\ Continue(w, i)
                 /\ i.event \notin i.todo
                 /\ \A e \in Events, k \in Stages :
                       /\ Keeps(i, e, k) <=> k = j.stage /\ e \in j.todo
                       /\ \A n : Pending(i, e, k, n) => k = j.stage /\ e \in j.todo
      BY <1>3, <1>4, <2>1, LoopOnKeeps
    <2> QED BY <1>3, <2>2
  <1>8. job'[w] = i /\ \A v \in Workers : v # w => job'[v] = job[v]
    BY <1>1, <1>7, ContinueJobs
  <1>9. Apart'
    BY <1>7, ContinueApart
  <1>10. ASSUME NEW e \in Events, NEW k \in Stages, NEW n \in DOMAIN Fires(k)
         PROVE  Within(e, k, n)' /\ Unstarted(e, k, n)'
    <2>1. /\ issued[e][Fires(k)[n]] \in Nat /\ repeats[e][k] \in Nat
          /\ IsFiniteSet(Waiting(e, k, n)) /\ Cardinality(Waiting(e, k, n)) \in Nat
      BY <1>1, CounterTypes
    <2>2. CASE k = s /\ e \in found
      <3>1. Unstarted(e, k, n)'
        BY <1>7, <1>8, <2>2, HoldsKeeps DEF Unstarted, Holds, Keeps
      <3>2. issued'[e][Fires(k)[n]] = issued[e][Fires(k)[n]]
        BY <1>4
      <3>3. Waiting(e, k, n)' \subseteq Waiting(e, k, n) \cup {w}
        BY <1>8 DEF Waiting
      <3>4. /\ IsFiniteSet(Waiting(e, k, n) \cup {w})
            /\ Cardinality(Waiting(e, k, n) \cup {w}) <= Cardinality(Waiting(e, k, n)) + 1
        BY <2>1, FS_AddElement
      <3>5. /\ Cardinality(Waiting(e, k, n)') \in Nat
            /\ Cardinality(Waiting(e, k, n)') <= Cardinality(Waiting(e, k, n) \cup {w})
            /\ Cardinality(Waiting(e, k, n) \cup {w}) \in Nat
        BY <3>3, <3>4, FS_Subset, FS_CardinalityType
      <3>6. CASE \E v \in Workers : Keeps(job[v], e, s)
        <4>1. repeats'[e][k] = repeats[e][k] + 1
          BY <1>5, <2>2, <3>6
        <4>2. issued[e][Fires(k)[n]] + Cardinality(Waiting(e, k, n)) <= 1 + repeats[e][k]
          BY DEF Accounts, Within
        <4>3. Within(e, k, n)'
          BY <2>1, <3>2, <3>4, <3>5, <4>1, <4>2 DEF Within
        <4> QED BY <3>1, <4>3
      <3>7. CASE \A v \in Workers : ~Keeps(job[v], e, s)
        <4>1. repeats'[e][k] = repeats[e][k]
          BY <1>5, <2>2, <3>7
        <4>2. issued[e][Fires(k)[n]] <= repeats[e][k]
          BY <1>6, <2>2, <3>7, HoldsKeeps DEF Accounts, Unstarted
        <4>3. Waiting(e, k, n) = {}
          BY <2>2, <3>7, PendingKeeps DEF Waiting
        <4>4. Cardinality(Waiting(e, k, n)) = 0
          BY <4>3, FS_EmptySet
        <4>5. Within(e, k, n)'
          BY <2>1, <3>2, <3>4, <3>5, <4>1, <4>2, <4>4 DEF Within
        <4> QED BY <3>1, <4>5
      <3> QED BY <3>6, <3>7
    <2>3. CASE ~(k = s /\ e \in found)
      <3>1. repeats'[e][k] = repeats[e][k] /\ ~Pending(i, e, k, n)
        BY <1>5, <1>7, <2>3
      <3>2. \A v \in Workers : Keeps(job[v], e, k) => Keeps(job'[v], e, k)
        BY <1>2, <1>8
      <3> QED BY <1>4, <1>8, <2>1, <3>1, <3>2, Kept
    <2> QED BY <2>2, <2>3
  <1> QED BY <1>9, <1>10 DEF Accounts

(* A notice is issued by the worker that had still to issue it.            *)
LEMMA IssueAccounts ==
  ASSUME Accounts, TypeOK', NEW w \in Workers, NEW j, Continue(w, j),
         NEW e \in Events, NEW k \in Stages, NEW n \in DOMAIN Fires(k),
         issued' = [issued EXCEPT ![e][Fires(k)[n]] = @ + 1], UNCHANGED <<event, repeats>>,
         job[w].event = e, job[w].stage = k, Pending(job[w], e, k, n),
         j.event = e, j.stage = k, j.todo = job[w].todo, ~Pending(j, e, k, n),
         job[w].step # "emit", j.step # "emit",
         \A i \in DOMAIN Fires(k) : Pending(j, e, k, i) => Pending(job[w], e, k, i)
  PROVE  Accounts'
  <1>1. job'[w] = j /\ (\A v \in Workers : v # w => job'[v] = job[v]) /\ TypeOK
    BY ContinueJobs DEF Accounts
  <1>2. Apart'
    BY ContinueApart DEF Accounts, Apart
  <1>3. \A f \in Events : \A l : Keeps(j, f, l) <=> Keeps(job[w], f, l)
    BY DEF Keeps
  <1>4. \A f \in Events, l \in Stages : \A i \in DOMAIN Fires(l) :
           Pending(j, f, l, i) => Pending(job[w], f, l, i)
    BY DEF Pending
  <1>5. issued \in [Events -> [Notices -> Nat]] /\ Fires(k)[n] \in Notices
    BY <1>1, FiresType DEF TypeOK
  <1>6. ASSUME NEW f \in Events, NEW l \in Stages, NEW i \in DOMAIN Fires(l)
        PROVE  Within(f, l, i)' /\ Unstarted(f, l, i)'
    <2>1. /\ issued[f][Fires(l)[i]] \in Nat /\ repeats[f][l] \in Nat
          /\ IsFiniteSet(Waiting(f, l, i)) /\ Cardinality(Waiting(f, l, i)) \in Nat
      BY <1>1, CounterTypes
    <2>2. CASE f = e /\ l = k /\ i = n
      <3>1. issued'[f][Fires(l)[i]] = issued[f][Fires(l)[i]] + 1
        BY <1>5, <2>2, IssuedType
      <3>2. Waiting(f, l, i)' = Waiting(f, l, i) \ {w} /\ w \in Waiting(f, l, i)
        <4>1. \A v \in Workers : Pending(job'[v], f, l, i) <=> Pending(job[v], f, l, i) /\ v # w
          BY <1>1, <2>2
        <4>2. Pending(job[w], f, l, i)
          BY <2>2
        <4>3. Waiting(f, l, i)' = {v \in Workers : Pending(job'[v], f, l, i)}
          BY DEF Waiting
        <4>4. Waiting(f, l, i) = {v \in Workers : Pending(job[v], f, l, i)}
          BY DEF Waiting
        <4> HIDE DEF Pending
        <4> QED BY <4>1, <4>2, <4>3, <4>4, Zenon
      <3>3. Cardinality(Waiting(f, l, i)') = Cardinality(Waiting(f, l, i)) - 1
        <4>1. Cardinality(Waiting(f, l, i) \ {w}) = Cardinality(Waiting(f, l, i)) - 1
          BY <2>1, <3>2, FS_RemoveElement
        <4> QED BY <3>2, <4>1
      <3>4. Within(f, l, i)'
        <4>1. issued[f][Fires(l)[i]] + Cardinality(Waiting(f, l, i)) <= 1 + repeats[f][l]
          BY DEF Accounts, Within
        <4>2. repeats'[f][l] = repeats[f][l]
          OBVIOUS
        <4> QED BY <2>1, <3>1, <3>3, <4>1, <4>2 DEF Within
      <3>5. Unstarted(f, l, i)'
        <4>1. Keeps(job'[w], f, l)
          BY <1>1, <2>2 DEF Keeps
        <4> QED BY <4>1, HoldsKeeps DEF Unstarted, Holds, Keeps
      <3> QED BY <3>4, <3>5
    <2>3. CASE ~(f = e /\ l = k /\ i = n)
      <3>1. ~(f = e /\ Fires(l)[i] = Fires(k)[n])
        BY <2>3, FiresDistinct
      <3>2. Fires(l)[i] \in Notices
        BY FiresType
      <3>3. issued'[f][Fires(l)[i]] = issued[f][Fires(l)[i]]
        BY <1>5, <3>1, <3>2, IssuedType
      <3> QED BY <1>1, <1>3, <1>4, <2>1, <3>3, Kept
    <2> QED BY <2>2, <2>3
  <1> QED BY <1>2, <1>6 DEF Accounts

(* The memory of a worker, in a state of the right type.                   *)
LEMMA JobFacts ==
  ASSUME TypeOK, NEW w \in Workers
  PROVE  /\ job[w] \in Jobs /\ JobOK(job[w], created, DOMAIN tasks)
         /\ job[w].stage \in Stages /\ job[w].next \in Nat
         /\ job[w].step \in Serving => job[w].event \in Events /\ job[w].todo \subseteq Events
  <1>1. job[w] \in Jobs /\ JobOK(job[w], created, DOMAIN tasks) /\ created \subseteq Events
    BY DEF TypeOK
  <1>2. job[w].stage \in Stages /\ job[w].next \in Nat
    BY <1>1 DEF Jobs
  <1>3. job[w].step \in Serving => job[w].event \in Events /\ job[w].todo \subseteq Events
    BY <1>1 DEF JobOK
  <1> QED BY <1>1, <1>2, <1>3

(* A task row is created for a notice that was pending.                    *)
LEMMA CreateAccounts ==
  ASSUME Accounts, TypeOK', NEW w \in Workers, SweepCreate(w)
  PROVE  Accounts'
  <1> DEFINE e == job[w].event
             k == job[w].stage
             n == job[w].next
             j == [job[w] EXCEPT !.step = "delay", !.task = Len(tasks) + 1]
  <1>1. /\ TypeOK /\ job[w] \in Jobs /\ job[w].step = "create" /\ n \in Nat
        /\ e \in Events /\ k \in Stages /\ n \in DOMAIN Fires(k)
    <2>1. TypeOK /\ job[w].step = "create"
      BY DEF Accounts, SweepCreate
    <2> QED BY <2>1, JobFacts DEF JobOK, Serving
  <1>2. /\ Continue(w, j) /\ UNCHANGED <<event, repeats>>
        /\ issued' = [issued EXCEPT ![e][Fires(k)[n]] = @ + 1]
    BY DEF SweepCreate, database
  <1>3. j.step = "delay" /\ j.event = e /\ j.stage = k /\ j.todo = job[w].todo /\ j.next = n
    BY <1>1 DEF Jobs
  <1>4. e \notin job[w].todo
    BY DEF Accounts, Apart
  <1>5. Pending(job[w], e, k, n)
    BY <1>1 DEF Pending
  <1> HIDE DEF j
  <1>6. ~Pending(j, e, k, n)
    BY <1>1, <1>3, <1>4 DEF Pending
  <1>7. ASSUME NEW i \in DOMAIN Fires(k), Pending(j, e, k, i)
        PROVE  Pending(job[w], e, k, i)
    <2>1. n < i /\ i \in Nat
      BY <1>1, <1>3, <1>4, <1>7, FiresType DEF Pending
    <2> QED BY <1>1, <2>1 DEF Pending
  <1>8. job[w].step # "emit" /\ j.step # "emit" /\ job[w].event = e /\ job[w].stage = k
    BY <1>1, <1>3
  <1>9. j.event = e /\ j.stage = k /\ j.todo = job[w].todo
    BY <1>3
  <1> HIDE DEF e, k, n
  <1> QED BY <1>1, <1>2, <1>5, <1>6, <1>7, <1>8, <1>9, IssueAccounts

(* The feedback mails were pending.                                        *)
LEMMA MailAccounts ==
  ASSUME Accounts, TypeOK', NEW w \in Workers, FeedbackMail(w)
  PROVE  Accounts'
  <1> DEFINE e == job[w].event
             j == [job[w] EXCEPT !.step = "pre_save"]
  <1>1. /\ TypeOK /\ job[w] \in Jobs /\ job[w].step = "mail"
        /\ e \in Events /\ FEEDBACK \in Stages /\ job[w].stage = FEEDBACK
    <2>1. TypeOK /\ job[w].step = "mail"
      BY DEF Accounts, FeedbackMail
    <2> QED BY <2>1, JobFacts DEF JobOK, Serving
  <1>2. 1 \in DOMAIN Fires(FEEDBACK) /\ Fires(FEEDBACK)[1] = "FeedbackRequest"
    BY DEF Fires, FEEDBACK, STATE_INIT, STATE_INITIAL_NOTIFICATIONS, STATE_REMINDER1,
           STATE_REMINDER2, STATE_PRESENTATION_UPDATE
  <1>3. /\ Continue(w, j) /\ UNCHANGED <<event, repeats>>
        /\ issued' = [issued EXCEPT ![e][Fires(FEEDBACK)[1]] = @ + 1]
    BY <1>2 DEF FeedbackMail, database
  <1>4. j.step = "pre_save" /\ j.event = e /\ j.stage = FEEDBACK /\ j.todo = job[w].todo
    BY <1>1 DEF Jobs
  <1>5. e \notin job[w].todo
    BY DEF Accounts, Apart
  <1>6. Pending(job[w], e, FEEDBACK, 1)
    BY <1>1 DEF Pending
  <1> HIDE DEF j
  <1>7. \A i : ~Pending(j, e, FEEDBACK, i)
    BY <1>4, <1>5 DEF Pending
  <1> QED BY <1>1, <1>2, <1>3, <1>4, <1>6, <1>7, IssueAccounts

(* A worker that saves an event, or emits for one it has saved, keeps the  *)
(* events still to be served, and only those.                              *)
LEMMA SweepLeaves ==
  ASSUME TypeOK, NEW w \in Workers, SweepSave(w) \/ SweepEmit(w)
  PROVE  \E j : /\ Continue(w, j)
                /\ job[w].event \notin job[w].todo => j.event \notin j.todo
                /\ \A e \in Events, k \in Stages :
                      /\ Keeps(j, e, k) <=> k = job[w].stage /\ e \in job[w].todo
                      /\ \A n : Pending(j, e, k, n) => k = job[w].stage /\ e \in job[w].todo
  <1>1. job[w] \in Jobs /\ job[w].todo \subseteq Events
    BY JobFacts DEF SweepSave, SweepEmit, Serving
  <1>2. CASE LoopOn(w, job[w])
    BY <1>1, <1>2, LoopOnKeeps
  <1>3. CASE ~LoopOn(w, job[w])
    <2> DEFINE j == [job[w] EXCEPT !.step = "emit"]
    <2>1. Continue(w, j)
      BY <1>3 DEF SweepSave, SweepEmit
    <2>2. j.step = "emit" /\ j.stage = job[w].stage /\ j.event = job[w].event /\ j.todo = job[w].todo
      BY <1>1 DEF Jobs
    <2> HIDE DEF j
    <2> QED BY <1>1, <2>1, <2>2 DEF Keeps, Pending
  <1> QED BY <1>2, <1>3

(* The other steps of a sweep, and the crash of its worker.                *)
LEMMA SweepAccounts ==
  ASSUME Accounts, TypeOK', NEW w \in Workers,
         SweepDelay(w) \/ SweepPreSave(w) \/ SweepSave(w) \/ SweepEmit(w) \/ Crash(w)
  PROVE  Accounts'
  <1> DEFINE s == job[w].stage
             g == job[w].event
  <1>1. TypeOK /\ job[w] \in Jobs /\ JobOK(job[w], created, DOMAIN tasks) /\ s \in Stages
    BY DEF Accounts, TypeOK, Jobs
  <1>2. g \notin job[w].todo
    BY DEF Accounts, Apart
  <1>3. issued' = issued
    BY DEF SweepDelay, SweepPreSave, SweepSave, SweepEmit, Crash, history
  <1>4. CASE SweepDelay(w) \/ SweepPreSave(w)
    <2>1. g \in Events /\ UNCHANGED <<event, repeats>>
      BY <1>1, <1>4 DEF SweepDelay, SweepPreSave, database, history, JobOK, Serving, TypeOK
    <2>2. \E j : /\ Continue(w, j) /\ j.event = g /\ j.todo = job[w].todo /\ j.stage = s
                 /\ j.step # "emit"
                 /\ \A i \in DOMAIN Fires(s) : Pending(j, g, s, i) => Pending(job[w], g, s, i)
      <3>1. CASE SweepDelay(w)
        <4>1. job[w].step = "delay" /\ job[w].next \in {1, 2}
          BY <1>1, <3>1 DEF SweepDelay, Jobs
        <4>2. CASE job[w].next < Len(Fires(job[w].stage))
          <5> DEFINE j == [job[w] EXCEPT !.step = "create", !.next = @ + 1, !.task = 0]
          <5>1. Continue(w, j)
            BY <3>1, <4>2 DEF SweepDelay
          <5>2. /\ j.step = "create" /\ j.next = job[w].next + 1
                /\ j.event = g /\ j.todo = job[w].todo /\ j.stage = s
            BY <1>1 DEF Jobs
          <5> HIDE DEF j
          <5>3. ASSUME NEW i \in DOMAIN Fires(s), Pending(j, g, s, i)
                PROVE  Pending(job[w], g, s, i)
            <6>1. job[w].next + 1 <= i /\ i \in {1, 2}
              BY <1>1, <1>2, <5>2, <5>3, FiresType DEF Pending
            <6>2. job[w].next < i
              BY <4>1, <6>1
            <6> QED BY <4>1, <6>2 DEF Pending
          <5> QED BY <5>1, <5>2, <5>3
        <4>3. CASE ~(job[w].next < Len(Fires(job[w].stage)))
          <5> DEFINE j == [job[w] EXCEPT !.step = "pre_save", !.task = 0]
          <5>1. Continue(w, j)
            BY <3>1, <4>3 DEF SweepDelay
          <5>2. j.step = "pre_save" /\ j.event = g /\ j.todo = job[w].todo /\ j.stage = s
            BY <1>1 DEF Jobs
          <5> HIDE DEF j
          <5>3. \A i : ~Pending(j, g, s, i)
            BY <1>2, <5>2 DEF Pending
          <5> QED BY <5>1, <5>2, <5>3
        <4> QED BY <4>2, <4>3
      <3>2. CASE SweepPreSave(w)
        <4> DEFINE j == [job[w] EXCEPT !.step = "save", !.was_public = event[job[w].event].public]
        <4>1. Continue(w, j)
          BY <3>2 DEF SweepPreSave
        <4>2. j.step = "save" /\ j.event = g /\ j.todo = job[w].todo /\ j.stage = s
          BY <1>1 DEF Jobs
        <4> HIDE DEF j
        <4>3. \A i : ~Pending(j, g, s, i)
          BY <1>2, <4>2 DEF Pending
        <4> QED BY <4>1, <4>2, <4>3
      <3> QED BY <1>4, <3>1, <3>2
    <2>3. PICK j : /\ Continue(w, j) /\ j.event = g /\ j.todo = job[w].todo /\ j.stage = s
                   /\ j.step # "emit"
                   /\ \A i \in DOMAIN Fires(s) : Pending(j, g, s, i) => Pending(job[w], g, s, i)
      BY <2>2
    <2>4. job'[w] = j /\ (\A v \in Workers : v # w => job'[v] = job[v])
      BY <1>1, <2>3, ContinueJobs
    <2>5. Apart'
      BY <1>2, <2>3, ContinueApart
    <2>6. ASSUME NEW e \in Events, NEW k \in Stages, NEW i \in DOMAIN Fires(k)
          PROVE  Within(e, k, i)' /\ Unstarted(e, k, i)'
      <3>1. Keeps(j, e, k) <=> Keeps(job[w], e, k)
        BY <1>4, <2>3 DEF Keeps, SweepDelay, SweepPreSave
      <3>2. Pending(j, e, k, i) => Pending(job[w], e, k, i)
        <4>1. CASE e = g /\ k = s
          BY <2>3, <4>1
        <4>2. CASE ~(e = g /\ k = s)
          BY <2>3, <4>2 DEF Pending
        <4> QED BY <4>1, <4>2
      <3>3. repeats[e][k] \in Nat
        BY <1>1, CounterTypes
      <3> HIDE DEF g, s
      <3> QED BY <1>3, <2>1, <2>4, <3>1, <3>2, <3>3, Kept
    <2> QED BY <2>5, <2>6 DEF Accounts
  <1>5. CASE SweepSave(w)
    <2> DEFINE row == Marked(event[g], s)
    <2>1. /\ g \in Events /\ event[g] \in Rows /\ job[w].todo \subseteq Events
      BY <1>1, <1>5 DEF SweepSave, JobOK, Serving, Jobs, TypeOK
    <2>2. row \in Rows /\ Passed(row, s)
      BY <1>1, <2>1, MarkedType
    <2>3. SaveRow(g, row)
      BY <1>5 DEF SweepSave
    <2> HIDE DEF row, g, s
    <2>4. /\ event'[g] = row /\ \A f \in Events : f # g => event'[f] = event[f]
          /\ \A f \in Events, k \in Stages :
             /\ repeats[f][k] \in Nat
             /\ \/ repeats'[f][k] = repeats[f][k] + 1
                \/ repeats'[f][k] = repeats[f][k] /\ (Passed(event[f], k) => Passed(event'[f], k))
      BY <1>1, <2>1, <2>2, <2>3, SaveRowCounts
    <2>5. PICK j : /\ Continue(w, j)
                   /\ j.event \notin j.todo
                   /\ \A e \in Events, k \in Stages :
                         /\ Keeps(j, e, k) <=> k = job[w].stage /\ e \in job[w].todo
                         /\ \A n : Pending(j, e, k, n) => k = job[w].stage /\ e \in job[w].todo
      BY <1>1, <1>2, <1>5, SweepLeaves DEF g
    <2>6. job'[w] = j /\ (\A v \in Workers : v # w => job'[v] = job[v])
      BY <1>1, <2>5, ContinueJobs
    <2>7. Apart'
      BY <2>5, ContinueApart
    <2>8. ASSUME NEW e \in Events, NEW k \in Stages, NEW i \in DOMAIN Fires(k)
          PROVE  Within(e, k, i)' /\ Unstarted(e, k, i)'
      <3>1. Pending(j, e, k, i) => Pending(job[w], e, k, i)
        BY <2>5 DEF Pending
      <3>2. repeats'[e][k] >= repeats[e][k]
        BY <2>4
      <3>3. ASSUME ~Passed(event'[e], k), \A v \in Workers : ~Keeps(job'[v], e, k)
            PROVE  \/ repeats'[e][k] > repeats[e][k]
                   \/ ~Passed(event[e], k) /\ \A v \in Workers : ~Keeps(job[v], e, k)
        <4>1. CASE repeats'[e][k] = repeats[e][k] + 1
          BY <2>4, <4>1
        <4>2. CASE Passed(event[e], k) => Passed(event'[e], k)
          <5>1. ~(e = g /\ k = s)
            BY <2>2, <2>4, <3>3
          <5>2. ~Keeps(job[w], e, k)
            <6>1. ~Keeps(j, e, k)
              BY <2>6, <3>3
            <6> QED BY <2>5, <5>1, <6>1 DEF Keeps, g, s
          <5> QED BY <2>6, <3>3, <4>2, <5>2
        <4> QED BY <2>4, <4>1, <4>2
      <3> QED BY <1>3, <2>6, <3>1, <3>2, <3>3, Kept
    <2> QED BY <2>7, <2>8 DEF Accounts
  <1>7. CASE SweepEmit(w)
    <2>1. UNCHANGED <<event, repeats>> /\ job[w].step = "emit"
      BY <1>7 DEF SweepEmit, database
    <2>2. PICK j : /\ Continue(w, j)
                   /\ j.event \notin j.todo
                   /\ \A e \in Events, k \in Stages :
                         /\ Keeps(j, e, k) <=> k = job[w].stage /\ e \in job[w].todo
                         /\ \A n : Pending(j, e, k, n) => k = job[w].stage /\ e \in job[w].todo
      BY <1>1, <1>2, <1>7, SweepLeaves
    <2>3. job'[w] = j /\ (\A v \in Workers : v # w => job'[v] = job[v])
      BY <1>1, <2>2, ContinueJobs
    <2>4. Apart'
      BY <2>2, ContinueApart
    <2>5. ASSUME NEW e \in Events, NEW k \in Stages, NEW i \in DOMAIN Fires(k)
          PROVE  Within(e, k, i)' /\ Unstarted(e, k, i)'
      <3>1. Pending(j, e, k, i) => Pending(job[w], e, k, i)
        BY <2>2 DEF Pending
      <3>2. Keeps(j, e, k) <=> Keeps(job[w], e, k)
        BY <2>1, <2>2 DEF Keeps
      <3>3. repeats[e][k] \in Nat
        BY <1>1, CounterTypes
      <3> QED BY <1>3, <2>1, <2>3, <3>1, <3>2, <3>3, Kept
    <2> QED BY <2>4, <2>5 DEF Accounts
  <1>6. CASE Crash(w)
    <2>1. Continue(w, IdleJob) /\ event' = event
      BY <1>6 DEF Crash, database
    <2>2. job'[w] = IdleJob /\ (\A v \in Workers : v # w => job'[v] = job[v])
      BY <1>1, <2>1, ContinueJobs
    <2>3. IdleJob.event \notin IdleJob.todo
          /\ \A e \in Events : \A k : ~Keeps(IdleJob, e, k) /\ \A n : ~Pending(IdleJob, e, k, n)
      <3>1. IdleJob.step \notin Serving
        BY DEF IdleJob, Serving
      <3> QED BY <3>1, IdleJobOK, RestKeepsNone
    <2>4. Apart'
      BY <2>1, <2>3, ContinueApart
    <2> DEFINE again == \/ job[w].step \in {"delay", "pre_save", "save"}
                        \/ job[w].step = "create" /\ job[w].next > 1
    <2>5. CASE ~again
      <3>1. repeats' = repeats
        BY <1>6, <2>5 DEF Crash
      <3>2. ASSUME NEW e \in Events, NEW k \in Stages, NEW i \in DOMAIN Fires(k)
            PROVE  Within(e, k, i)' /\ Unstarted(e, k, i)'
        <4>1. Keeps(job[w], e, k) => Pending(job[w], e, k, i)
          <5> SUFFICES ASSUME Keeps(job[w], e, k) PROVE Pending(job[w], e, k, i)
            OBVIOUS
          <5>1. CASE e \in job[w].todo
            BY <5>1 DEF Keeps, Pending
          <5>2. CASE e = job[w].event /\ job[w].step # "emit"
            <6>1. job[w].step \in Serving
              BY <1>1, RestKeepsNone
            <6>2. job[w].step = "mail" \/ (job[w].step = "create" /\ ~(job[w].next > 1))
              BY <2>5, <5>2, <6>1 DEF Serving
            <6>3. i \in {1, 2} /\ job[w].next \in {1, 2}
              BY <1>1, FiresType DEF Jobs
            <6>4. ~(job[w].next > 1) => job[w].next <= i
              BY <6>3
            <6> QED BY <5>2, <6>2, <6>4 DEF Keeps, Pending
          <5> QED BY <5>1, <5>2 DEF Keeps
        <4>2. repeats[e][k] \in Nat
          BY <1>1, CounterTypes
        <4> QED BY <1>3, <2>1, <2>2, <2>3, <3>1, <4>1, <4>2, Kept
      <3> QED BY <2>4, <3>2 DEF Accounts
    <2>6. CASE again
      <3>1. Repeat(g, {s}) /\ g \in Events
        <4>1. job[w].step \in Serving
          BY <2>6 DEF Serving
        <4>2. Repeat(g, {s})
          BY <1>6, <2>6 DEF Crash
        <4> QED BY <1>1, <4>1, <4>2, JobFacts
      <3>2. \A e \in Events, k \in Stages :
               repeats'[e][k] = IF e = g /\ k \in {s} THEN repeats[e][k] + 1 ELSE repeats[e][k]
        <4>1. repeats \in [Events -> [Stages -> Nat]]
          BY <1>1 DEF TypeOK
        <4> HIDE DEF g, s
        <4>2. ASSUME NEW e \in Events, NEW k \in Stages
              PROVE  repeats'[e][k] = IF e = g /\ k \in {s} THEN repeats[e][k] + 1 ELSE repeats[e][k]
          BY <3>1, <4>1, RepeatType
        <4> QED BY <4>2
      <3>3. ASSUME NEW e \in Events, NEW k \in Stages, NEW i \in DOMAIN Fires(k)
            PROVE  Within(e, k, i)' /\ Unstarted(e, k, i)'
        <4>1. repeats[e][k] \in Nat
          BY <1>1, CounterTypes
        <4>2. CASE e = g /\ k = s
          <5>1. repeats'[e][k] = repeats[e][k] + 1
            BY <3>2, <4>2
          <5>2. repeats'[e][k] > repeats[e][k] /\ repeats'[e][k] >= repeats[e][k]
            BY <4>1, <5>1
          <5> HIDE DEF again, g, s
          <5> QED BY <1>3, <2>2, <2>3, <5>2, Kept
        <4>3. CASE ~(e = g /\ k = s)
          <5>1. repeats'[e][k] = repeats[e][k]
            BY <3>2, <4>3
          <5>2. Keeps(job[w], e, k) => Pending(job[w], e, k, i)
            BY <4>3 DEF Keeps, Pending
          <5> QED BY <1>3, <2>1, <2>2, <2>3, <4>1, <5>1, <5>2, Kept
        <4> QED BY <4>2, <4>3
      <3> QED BY <2>4, <3>3 DEF Accounts
    <2> QED BY <2>5, <2>6
  <1> QED BY <1>4, <1>5, <1>6, <1>7

(* Everything that is not a step of a sweep.                               *)
LEMMA OtherAccounts ==
  ASSUME Accounts, TypeOK', Next,
         ~\E w \in Workers : SweepStep(w) \/ Crash(w)
  PROVE  Accounts'
  <1>0. TypeOK
    BY DEF Accounts
  <1>1. ASSUME NEW w \in Workers, DispatchStart(w) \/ FeedbackStart(w)
        PROVE  Accounts'
    <2>1. PICK k : SweepStart(w, k)
      BY <1>1 DEF DispatchStart, FeedbackStart
    <2> DEFINE j == [IdleJob EXCEPT !.step = "query", !.stage = k, !.now = time]
    <2>2. Continue(w, j) /\ job[w].step \notin Serving /\ UNCHANGED <<event, issued, repeats>>
      BY <2>1 DEF SweepStart, Serving, database, history
    <2>3. j.step \notin Serving
      BY DEF IdleJob, Serving
    <2> QED BY <2>2, <2>3, RestAccounts
  <1>2. ASSUME NEW w \in Workers, TaskStart(w)
        PROVE  Accounts'
    <2> DEFINE j == [IdleJob EXCEPT !.step = "handle", !.task = Head(queue)]
    <2>1. Continue(w, j) /\ job[w].step \notin Serving /\ UNCHANGED <<event, issued, repeats>>
      BY <1>2 DEF TaskStart, TakeMessage, Serving, database, history
    <2>2. j.step \notin Serving
      BY DEF IdleJob, Serving
    <2> QED BY <2>1, <2>2, RestAccounts
  <1>3. ASSUME NEW w \in Workers, TaskHandle(w)
        PROVE  Accounts'
    <2> DEFINE j == [job[w] EXCEPT !.step = "mark"]
    <2>1. Continue(w, j) /\ job[w].step \notin Serving /\ UNCHANGED <<event, issued, repeats>>
      BY <1>3 DEF TaskHandle, Serving, database, history
    <2>2. j.step \notin Serving
      BY <1>0, JobFacts DEF Jobs, Serving
    <2> QED BY <2>1, <2>2, RestAccounts
  <1>4. ASSUME NEW w \in Workers, TaskMark(w) \/ TaskFail(w)
        PROVE  Accounts'
    <2>1. Continue(w, IdleJob) /\ job[w].step \notin Serving /\ UNCHANGED <<event, issued, repeats>>
      BY <1>4 DEF TaskMark, TaskFail, Serving, database, history
    <2>2. IdleJob.step \notin Serving
      BY DEF IdleJob, Serving
    <2> QED BY <2>1, <2>2, RestAccounts
  <1>5. ASSUME job' = job, UNCHANGED <<event, issued, repeats>>
        PROVE  Accounts'
    BY <1>5, OutsideAccounts
  <1>6. ASSUME NEW w \in Workers, TaskSkip(w)
        PROVE  Accounts'
    BY <1>5, <1>6 DEF TaskSkip, database, history
  <1>7. ASSUME NEW t \in DOMAIN tasks, Redeliver(t)
        PROVE  Accounts'
    BY <1>5, <1>7 DEF Redeliver, database, history
  <1>8. CASE Tick
    BY <1>5, <1>8 DEF Tick, database, history
  <1>9. ASSUME NEW p \in Processes, PreSave(p)
        PROVE  Accounts'
    BY <1>5, <1>9 DEF PreSave, database, history
  <1>14. ASSUME NEW p \in Processes, EmitPublished(p)
         PROVE  Accounts'
    BY <1>5, <1>14 DEF EmitPublished, database
  <1>10. ASSUME NEW p \in Processes, Save(p)
         PROVE  Accounts'
    <2> DEFINE e == request[p].event
               copy == request[p].copy
               row == IF request[p].all THEN copy ELSE [event[e] EXCEPT !.deleted = copy.deleted]
    <2>1. SaveRow(e, row) /\ job' = job /\ issued' = issued
      BY <1>10 DEF Save
    <2>2. e \in Events /\ event[e] \in Rows /\ copy \in Rows
      BY <1>0, <1>10 DEF Save, TypeOK, RequestOK
    <2>3. row \in Rows
      BY <2>2 DEF Rows
    <2> HIDE DEF row, e
    <2>4. \A f \in Events, k \in Stages :
             /\ repeats[f][k] \in Nat
             /\ \/ repeats'[f][k] = repeats[f][k] + 1
                \/ repeats'[f][k] = repeats[f][k] /\ (Passed(event[f], k) => Passed(event'[f], k))
      BY <1>0, <2>1, <2>2, <2>3, SaveRowCounts
    <2>5. ASSUME NEW f \in Events, NEW k \in Stages
          PROVE  \/ repeats'[f][k] > repeats[f][k]
                 \/ repeats'[f][k] = repeats[f][k] /\ (Passed(event[f], k) => Passed(event'[f], k))
      BY <2>4
    <2> QED BY <2>1, <2>5, OutsideAccounts
  <1>11. ASSUME NEW p \in Processes, NEW e \in Events, EventNew(p, e)
         PROVE  Accounts'
    <2>1. PICK form \in Forms : event' = [event EXCEPT ![e] = Filled(DefaultRow, form)]
      BY <1>11 DEF EventNew
    <2>2. event[e] = DefaultRow /\ event \in [Events -> Rows]
      BY <1>0, <1>11 DEF EventNew, TypeOK
    <2>3. \A f \in Events, k \in Stages : Passed(event[f], k) => Passed(event'[f], k)
      BY <2>1, <2>2, FilledType, DefaultRowType
    <2>4. /\ issued' = [issued EXCEPT ![e]["AdminOnCreate"] = @ + 1]
          /\ job' = job /\ repeats' = repeats
      BY <1>11 DEF EventNew
    <2>5. issued \in [Events -> [Notices -> Nat]] /\ "AdminOnCreate" \in Notices
      BY <1>0 DEF TypeOK, Notices, Modes
    <2>6. ASSUME NEW f \in Events, NEW k \in Stages, NEW i \in DOMAIN Fires(k)
          PROVE  issued'[f][Fires(k)[i]] = issued[f][Fires(k)[i]]
      BY <2>4, <2>5, FiresType, IssuedType
    <2> QED BY <2>3, <2>4, <2>6, OutsideAccounts
  <1>12. ASSUME NEW p \in Processes, NEW e \in Events,
                EditStart(p, e) \/ PublishStart(p, e) \/ ArchiveStart(p, e)
         PROVE  Accounts'
    BY <1>5, <1>12 DEF EditStart, PublishStart, ArchiveStart, Load, database, history
  <1>13. ASSUME NEW p \in Processes, NEW e \in Events, NEW d \in BOOLEAN, SetDeleted(p, e, d)
         PROVE  Accounts'
    <2>1. event' = [event EXCEPT ![e] = [event[e] EXCEPT !.deleted = d]] /\ event \in [Events -> Rows]
      BY <1>0, <1>13 DEF SetDeleted, TypeOK
    <2>2. \A f \in Events, k \in Stages : Passed(event[f], k) => Passed(event'[f], k)
      BY <2>1 DEF Passed, Rows
    <2> QED BY <1>13, <2>2, OutsideAccounts DEF SetDeleted, history
  <1> QED BY <1>1, <1>2, <1>3, <1>4, <1>6, <1>7, <1>8, <1>9, <1>10, <1>11, <1>12, <1>13, <1>14
          DEF Next, TaskStep

(* Initially,                                                              *)
LEMMA AccountsInit == Init => Accounts
  <1> SUFFICES ASSUME Init PROVE Accounts
    OBVIOUS
  <1>1. TypeOK
    BY TypeInit
  <1>2. \A w \in Workers : job[w] = IdleJob
    BY DEF Init
  <1>3. IdleJob.event \notin IdleJob.todo /\ \A e \in Events : \A k, n : ~Pending(IdleJob, e, k, n)
    BY IdleJobOK, RestKeepsNone DEF IdleJob, Serving
  <1>4. Apart
    BY <1>2, <1>3 DEF Apart
  <1>5. ASSUME NEW e \in Events, NEW k \in Stages, NEW i \in DOMAIN Fires(k)
        PROVE  Within(e, k, i) /\ Unstarted(e, k, i)
    <2>1. issued[e][Fires(k)[i]] = 0 /\ repeats[e][k] = 0
      BY FiresType DEF Init
    <2>2. Waiting(e, k, i) = {}
      BY <1>2, <1>3 DEF Waiting
    <2> QED BY <2>1, <2>2, FS_EmptySet DEF Within, Unstarted
  <1> QED BY <1>1, <1>4, <1>5 DEF Accounts

(* and by every step.                                                      *)
LEMMA AccountsNext == Accounts /\ [Next]_vars => Accounts'
  <1> SUFFICES ASSUME Accounts, [Next]_vars PROVE Accounts'
    OBVIOUS
  <1>1. TypeOK'
    BY TypeNext DEF Accounts
  <1>2. CASE UNCHANGED vars
    <2>1. job' = job /\ UNCHANGED <<event, issued, repeats>>
      BY <1>2 DEF vars, database, history
    <2> QED BY <1>1, <2>1, OutsideAccounts
  <1>3. CASE \E w \in Workers : SweepStep(w) \/ Crash(w)
    BY <1>1, <1>3, QueryAccounts, CreateAccounts, MailAccounts, SweepAccounts DEF SweepStep
  <1>4. CASE Next /\ ~\E w \in Workers : SweepStep(w) \/ Crash(w)
    BY <1>1, <1>4, OtherAccounts
  <1> QED BY <1>2, <1>3, <1>4

(* What the accounts say of the notices issued.                            *)
LEMMA AccountsRepeats == Accounts => RepeatsAccountedFor
  <1> SUFFICES ASSUME Accounts, NEW e \in Events, NEW k \in Stages, NEW i \in DOMAIN Fires(k)
               PROVE  issued[e][Fires(k)[i]] <= 1 + repeats[e][k]
    BY DEF RepeatsAccountedFor
  <1>1. /\ issued[e][Fires(k)[i]] \in Nat /\ repeats[e][k] \in Nat
        /\ Cardinality(Waiting(e, k, i)) \in Nat
    BY CounterTypes DEF Accounts
  <1>2. issued[e][Fires(k)[i]] + Cardinality(Waiting(e, k, i)) <= 1 + repeats[e][k]
    BY DEF Accounts, Within
  <1> QED BY <1>1, <1>2

(* However many workers sweep, and whatever the web requests save: a       *)
(* notice is started again only after a crash, a stale save or an overlap  *)
(* of two sweeps.  For each notice, those issued and those a worker has    *)
(* still to issue are together at most one more than the repeats counted;  *)
(* and while a query can still return the event, they are one fewer.       *)
THEOREM NoticesRepeatOnlyWhenCounted == Spec => []RepeatsAccountedFor
  <1>1. Init => Accounts
    BY AccountsInit
  <1>2. Accounts /\ [Next]_vars => Accounts'
    BY AccountsNext
  <1>3. Accounts => RepeatsAccountedFor
    BY AccountsRepeats
  <1> QED BY <1>1, <1>2, <1>3, PTL DEF Spec

=============================================================================

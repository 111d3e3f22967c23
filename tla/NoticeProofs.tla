---------------------------- MODULE NoticeProofs ----------------------------
(***************************************************************************)
(* More theorems about EventNotifications: no notice goes out for an event *)
(* that was never published, none is skipped, a task is single-shot, and   *)
(* an archived event stays archived where one web process serves.          *)
(***************************************************************************)
EXTENDS NotificationProofs

-----------------------------------------------------------------------------
(* Which steps change what.                                                *)

(* The rows of the events are written by four steps only,                  *)
LEMMA EventWriters ==
  ASSUME Next, event' # event
  PROVE  \/ \E w \in Workers : SweepSave(w)
         \/ \E p \in Processes : Save(p)
         \/ \E p \in Processes, e \in Events : EventNew(p, e) \/ \E d \in BOOLEAN : SetDeleted(p, e, d)
  <1>1. ASSUME NEW w \in Workers,
               \/ DispatchStart(w) \/ FeedbackStart(w) \/ TaskStep(w) \/ TaskStart(w) \/ TaskSkip(w)
               \/ TaskFail(w) \/ Crash(w)
        PROVE  FALSE
    BY <1>1 DEF DispatchStart, FeedbackStart, SweepStart, TaskStep, TaskHandle, TaskMark, TaskStart,
                TaskSkip, TaskFail, Crash, database
  <1>2. ASSUME NEW w \in Workers, SweepStep(w)
        PROVE  SweepSave(w)
    BY <1>2 DEF SweepStep, SweepQuery, SweepCreate, SweepDelay, FeedbackMail, SweepPreSave, SweepEmit,
                database
  <1>3. ASSUME NEW p \in Processes, NEW e \in Events,
               EditStart(p, e) \/ PublishStart(p, e) \/ ArchiveStart(p, e)
        PROVE  FALSE
    BY <1>3 DEF EditStart, PublishStart, ArchiveStart, Load, database
  <1>4. /\ ~Tick /\ (\A t \in DOMAIN tasks : ~Redeliver(t))
        /\ \A p \in Processes : ~PreSave(p) /\ ~EmitPublished(p)
    BY DEF Tick, Redeliver, PreSave, EmitPublished, database
  <1> QED BY <1>1, <1>2, <1>3, <1>4 DEF Next

(* event.published is emitted by two,                                      *)
LEMMA Publishers ==
  ASSUME Next, published' # published
  PROVE  (\E w \in Workers : SweepEmit(w)) \/ \E p \in Processes : EmitPublished(p)
  <1>1. ASSUME NEW w \in Workers,
               \/ DispatchStart(w) \/ FeedbackStart(w) \/ TaskStep(w) \/ TaskStart(w) \/ TaskSkip(w)
               \/ TaskFail(w) \/ Crash(w)
        PROVE  FALSE
    BY <1>1 DEF DispatchStart, FeedbackStart, SweepStart, TaskStep, TaskHandle, TaskMark, TaskStart,
                TaskSkip, TaskFail, Crash, history
  <1>2. ASSUME NEW w \in Workers, SweepStep(w)
        PROVE  SweepEmit(w)
    BY <1>2 DEF SweepStep, SweepQuery, SweepCreate, SweepDelay, FeedbackMail, SweepPreSave, SweepSave,
                history
  <1>3. ASSUME NEW p \in Processes, NEW e \in Events,
               \/ EventNew(p, e) \/ EditStart(p, e) \/ PublishStart(p, e) \/ ArchiveStart(p, e)
               \/ \E d \in BOOLEAN : SetDeleted(p, e, d)
        PROVE  FALSE
    BY <1>3 DEF EventNew, EditStart, PublishStart, ArchiveStart, Load, SetDeleted, history
  <1>4. /\ ~Tick /\ (\A t \in DOMAIN tasks : ~Redeliver(t))
        /\ \A p \in Processes : ~PreSave(p) /\ ~Save(p)
    BY DEF Tick, Redeliver, PreSave, Save, history
  <1> QED BY <1>1, <1>2, <1>3, <1>4 DEF Next

(* a notice is started by three,                                           *)
LEMMA Issuers ==
  ASSUME Next, issued' # issued
  PROVE  \/ \E w \in Workers : SweepCreate(w) \/ FeedbackMail(w)
         \/ \E p \in Processes, e \in Events : EventNew(p, e)
  <1>1. ASSUME NEW w \in Workers,
               \/ DispatchStart(w) \/ FeedbackStart(w) \/ TaskStep(w) \/ TaskStart(w) \/ TaskSkip(w)
               \/ TaskFail(w) \/ Crash(w)
        PROVE  FALSE
    BY <1>1 DEF DispatchStart, FeedbackStart, SweepStart, TaskStep, TaskHandle, TaskMark, TaskStart,
                TaskSkip, TaskFail, Crash, history
  <1>2. ASSUME NEW w \in Workers, SweepStep(w)
        PROVE  SweepCreate(w) \/ FeedbackMail(w)
    BY <1>2 DEF SweepStep, SweepQuery, SweepDelay, SweepPreSave, SweepSave, SweepEmit, history
  <1>3. ASSUME NEW p \in Processes, NEW e \in Events,
               \/ EditStart(p, e) \/ PublishStart(p, e) \/ ArchiveStart(p, e)
               \/ \E d \in BOOLEAN : SetDeleted(p, e, d)
        PROVE  FALSE
    BY <1>3 DEF EditStart, PublishStart, ArchiveStart, Load, SetDeleted, history
  <1>4. /\ ~Tick /\ (\A t \in DOMAIN tasks : ~Redeliver(t))
        /\ \A p \in Processes : ~PreSave(p) /\ ~Save(p) /\ ~EmitPublished(p)
    BY DEF Tick, Redeliver, PreSave, Save, EmitPublished, history
  <1> QED BY <1>1, <1>2, <1>3, <1>4 DEF Next

(* and the memory of a web process changes in these.                       *)
LEMMA Requesters ==
  ASSUME Next, request' # request
  PROVE  \E p \in Processes :
            \/ PreSave(p) \/ Save(p) \/ EmitPublished(p)
            \/ \E e \in Events : EditStart(p, e) \/ PublishStart(p, e) \/ ArchiveStart(p, e)
  <1>1. ASSUME NEW w \in Workers,
               \/ DispatchStart(w) \/ FeedbackStart(w) \/ TaskStep(w) \/ TaskStart(w) \/ TaskSkip(w)
               \/ TaskFail(w) \/ Crash(w)
        PROVE  FALSE
    BY <1>1 DEF DispatchStart, FeedbackStart, SweepStart, TaskStep, TaskHandle, TaskMark, TaskStart,
                TaskSkip, TaskFail, Crash
  <1>2. ASSUME NEW w \in Workers, SweepStep(w)
        PROVE  FALSE
    BY <1>2 DEF SweepStep, SweepQuery, SweepCreate, SweepDelay, FeedbackMail, SweepPreSave, SweepSave,
                SweepEmit
  <1>3. ASSUME NEW p \in Processes, NEW e \in Events,
               EventNew(p, e) \/ \E d \in BOOLEAN : SetDeleted(p, e, d)
        PROVE  FALSE
    BY <1>3 DEF EventNew, SetDeleted
  <1>4. ~Tick /\ \A t \in DOMAIN tasks : ~Redeliver(t)
    BY DEF Tick, Redeliver
  <1> QED BY <1>1, <1>2, <1>3, <1>4 DEF Next

(* The memory of a worker changes in the steps of a worker.                *)
LEMMA JobChangers ==
  ASSUME Next, job' # job
  PROVE  \E w \in Workers :
            \/ DispatchStart(w) \/ FeedbackStart(w) \/ SweepStep(w) \/ TaskStep(w)
            \/ TaskStart(w) \/ TaskSkip(w) \/ TaskFail(w) \/ Crash(w)
  <1>1. ASSUME NEW p \in Processes, NEW f \in Events,
               \/ EventNew(p, f) \/ EditStart(p, f) \/ PublishStart(p, f) \/ ArchiveStart(p, f)
               \/ \E d \in BOOLEAN : SetDeleted(p, f, d)
        PROVE  FALSE
    BY <1>1 DEF EventNew, EditStart, PublishStart, ArchiveStart, Load, SetDeleted
  <1>2. ASSUME NEW p \in Processes, PreSave(p) \/ Save(p) \/ EmitPublished(p)
        PROVE  FALSE
    BY <1>2 DEF PreSave, Save, EmitPublished
  <1>3. ~Tick /\ \A t \in DOMAIN tasks : ~Redeliver(t)
    BY DEF Tick, Redeliver
  <1> QED BY <1>1, <1>2, <1>3 DEF Next

(* The counter of event.published never falls.                             *)
LEMMA PublishedGrows ==
  ASSUME TypeOK, Next, NEW e \in Events
  PROVE  published[e] \in Nat /\ published'[e] \in Nat /\ published'[e] >= published[e]
  <1>1. published \in [Events -> Nat]
    BY DEF TypeOK
  <1>2. CASE published' = published
    BY <1>1, <1>2
  <1>3. CASE published' # published
    <2>1. \E f \in Events : Emit(f)
      <3>1. ASSUME NEW w \in Workers, SweepEmit(w)
            PROVE  \E f \in Events : Emit(f)
        BY <3>1, JobFacts DEF SweepEmit, Serving
      <3>2. ASSUME NEW p \in Processes, EmitPublished(p)
            PROVE  \E f \in Events : Emit(f)
        BY <3>2 DEF EmitPublished, TypeOK, RequestOK
      <3> QED BY <1>3, <3>1, <3>2, Publishers
    <2>2. PICK f \in Events : Emit(f)
      BY <2>1
    <2>3. published' \in [Events -> Nat] /\ \A g \in Events : published'[g] >= published[g]
      BY <1>1, <2>2, EmitType
    <2> QED BY <1>1, <2>3
  <1> QED BY <1>2, <1>3

(* A sweep goes on with the event it serves.                               *)
LEMMA SameEvent ==
  ASSUME TypeOK, NEW w \in Workers,
         SweepCreate(w) \/ SweepDelay(w) \/ FeedbackMail(w) \/ SweepPreSave(w)
  PROVE  \E j : /\ Continue(w, j)
                /\ j.stage = job[w].stage /\ j.event = job[w].event /\ j.todo = job[w].todo
                /\ j.step # "emit" /\ job[w].step # "emit"
  <1>1. job[w] \in Jobs
    BY JobFacts
  <1>2. CASE SweepCreate(w)
    <2> DEFINE j == [job[w] EXCEPT !.step = "delay", !.task = Len(tasks) + 1]
    <2>1. Continue(w, j)
      BY <1>2 DEF SweepCreate
    <2>2. j.stage = job[w].stage /\ j.event = job[w].event /\ j.todo = job[w].todo /\ j.step # "emit"
      BY <1>1 DEF Jobs
    <2> HIDE DEF j
    <2> QED BY <1>2, <2>1, <2>2 DEF SweepCreate
  <1>3. CASE SweepDelay(w)
    <2> DEFINE i == [job[w] EXCEPT !.step = "create", !.next = @ + 1, !.task = 0]
               j == [job[w] EXCEPT !.step = "pre_save", !.task = 0]
    <2>1. Continue(w, i) \/ Continue(w, j)
      BY <1>3 DEF SweepDelay
    <2>2. /\ i.stage = job[w].stage /\ i.event = job[w].event /\ i.todo = job[w].todo
          /\ j.stage = job[w].stage /\ j.event = job[w].event /\ j.todo = job[w].todo
          /\ i.step # "emit" /\ j.step # "emit"
      BY <1>1 DEF Jobs
    <2> HIDE DEF i, j
    <2> QED BY <1>3, <2>1, <2>2 DEF SweepDelay
  <1>4. CASE FeedbackMail(w)
    <2> DEFINE j == [job[w] EXCEPT !.step = "pre_save"]
    <2>1. Continue(w, j)
      BY <1>4 DEF FeedbackMail
    <2>2. j.stage = job[w].stage /\ j.event = job[w].event /\ j.todo = job[w].todo /\ j.step # "emit"
      BY <1>1 DEF Jobs
    <2> HIDE DEF j
    <2> QED BY <1>4, <2>1, <2>2 DEF FeedbackMail
  <1>5. CASE SweepPreSave(w)
    <2> DEFINE j == [job[w] EXCEPT !.step = "save", !.was_public = event[job[w].event].public]
    <2>1. Continue(w, j)
      BY <1>5 DEF SweepPreSave
    <2>2. j.stage = job[w].stage /\ j.event = job[w].event /\ j.todo = job[w].todo /\ j.step # "emit"
      BY <1>1 DEF Jobs
    <2> HIDE DEF j
    <2> QED BY <1>5, <2>1, <2>2 DEF SweepPreSave
  <1> QED BY <1>2, <1>3, <1>4, <1>5

(* A sweep that starts or dies, and a task, leave the worker with no event *)
(* to serve.                                                               *)
LEMMA RestStep ==
  ASSUME TypeOK, NEW w \in Workers, job' # job,
         \/ DispatchStart(w) \/ FeedbackStart(w) \/ TaskStep(w) \/ TaskStart(w) \/ TaskSkip(w)
         \/ TaskFail(w) \/ Crash(w)
  PROVE  \E j : Continue(w, j) /\ j.step \notin Serving
  <1>1. IdleJob.step \notin Serving
    BY DEF IdleJob, Serving
  <1>2. job[w] \in Jobs
    BY JobFacts
  <1>3. CASE DispatchStart(w) \/ FeedbackStart(w)
    <2>1. PICK l : SweepStart(w, l)
      BY <1>3 DEF DispatchStart, FeedbackStart
    <2> DEFINE j == [IdleJob EXCEPT !.step = "query", !.stage = l, !.now = time]
    <2>2. Continue(w, j)
      BY <2>1 DEF SweepStart
    <2>3. j.step \notin Serving
      BY DEF IdleJob, Serving
    <2> QED BY <2>2, <2>3
  <1>4. CASE TaskStart(w)
    <2> DEFINE j == [IdleJob EXCEPT !.step = "handle", !.task = Head(queue)]
    <2>1. Continue(w, j)
      BY <1>4 DEF TaskStart
    <2>2. j.step \notin Serving
      BY DEF IdleJob, Serving
    <2> QED BY <2>1, <2>2
  <1>5. CASE TaskHandle(w)
    <2> DEFINE j == [job[w] EXCEPT !.step = "mark"]
    <2>1. Continue(w, j)
      BY <1>5 DEF TaskHandle
    <2>2. j.step \notin Serving
      BY <1>2 DEF Jobs, Serving
    <2> QED BY <2>1, <2>2
  <1>6. CASE TaskMark(w) \/ TaskFail(w) \/ Crash(w)
    BY <1>1, <1>6 DEF TaskMark, TaskFail, Crash
  <1>7. ~TaskSkip(w)
    BY DEF TaskSkip
  <1> QED BY <1>3, <1>4, <1>5, <1>6, <1>7 DEF TaskStep

(* A worker comes to keep an event for a stage only by its query, which    *)
(* found the event public and in that stage.                               *)
LEMMA KeptBefore ==
  ASSUME TypeOK, TypeOK', Next, NEW v \in Workers, NEW e \in Events, NEW k \in Stages,
         Keeps(job'[v], e, k)
  PROVE  \/ Keeps(job[v], e, k)
         \/ /\ event[e].public /\ e \in created
            /\ k # FEEDBACK => event[e].notification_state = k
  <1> DEFINE Before == \/ Keeps(job[v], e, k)
                       \/ /\ event[e].public /\ e \in created
                          /\ k # FEEDBACK => event[e].notification_state = k
  <1>1. CASE job'[v] = job[v]
    BY <1>1
  <1>2. ASSUME NEW w \in Workers, NEW j, Continue(w, j), j.step \notin Serving
        PROVE  Before
    <2>1. CASE v = w
      <3>1. job'[v] = j /\ JobOK(j, created', DOMAIN tasks')
        BY <1>2, <2>1, ContinueJobs DEF TypeOK
      <3> QED BY <1>2, <3>1, RestKeepsNone
    <2>2. CASE v # w
      BY <1>1, <1>2, <2>2, ContinueJobs
    <2> QED BY <2>1, <2>2
  <1>3. ASSUME NEW w \in Workers, NEW j, Continue(w, j),
               j.stage = job[w].stage, j.event = job[w].event, j.todo = job[w].todo,
               j.step # "emit", job[w].step # "emit"
        PROVE  Before
    <2>1. CASE v = w
      BY <1>3, <2>1, ContinueJobs DEF Keeps
    <2>2. CASE v # w
      BY <1>1, <1>3, <2>2, ContinueJobs
    <2> QED BY <2>1, <2>2
  <1>4. ASSUME NEW w \in Workers, SweepQuery(w)
        PROVE  Before
    <2> DEFINE found == Matching(job[w].stage, job[w].now)
               j == [job[w] EXCEPT !.todo = found]
    <2>1. j \in Jobs /\ j.todo = found /\ j.stage = job[w].stage /\ found \subseteq Events
      BY JobFacts DEF Jobs, Matching, TypeOK
    <2>2. LoopOn(w, j)
      BY <1>4 DEF SweepQuery
    <2>3. ASSUME NEW f \in found
          PROVE  /\ event[f].public /\ f \in created
                 /\ job[w].stage # FEEDBACK => event[f].notification_state = job[w].stage
      BY DEF Matching
    <2> HIDE DEF found, j
    <2>4. PICK i : /\ Continue(w, i)
                   /\ \A f \in Events, l \in Stages : Keeps(i, f, l) <=> l = j.stage /\ f \in j.todo
      BY <2>1, <2>2, LoopOnKeeps
    <2>5. CASE v = w
      <3>1. k = job[w].stage /\ e \in found
        BY <2>1, <2>4, <2>5, ContinueJobs
      <3> QED BY <2>3, <3>1
    <2>6. CASE v # w
      BY <1>1, <2>4, <2>6, ContinueJobs
    <2> QED BY <2>5, <2>6
  <1>5. ASSUME NEW w \in Workers, SweepSave(w) \/ SweepEmit(w)
        PROVE  Before
    <2>2. PICK i : /\ Continue(w, i)
                   /\ \A f \in Events, l \in Stages :
                         Keeps(i, f, l) <=> l = job[w].stage /\ f \in job[w].todo
      BY <1>5, SweepLeaves
    <2>3. CASE v = w
      BY <2>2, <2>3, ContinueJobs DEF Keeps
    <2>4. CASE v # w
      BY <1>1, <2>2, <2>4, ContinueJobs
    <2> QED BY <2>3, <2>4
  <1>6. ASSUME NEW w \in Workers, SweepCreate(w) \/ SweepDelay(w) \/ FeedbackMail(w) \/ SweepPreSave(w)
        PROVE  Before
    <2>1. PICK j : /\ Continue(w, j)
                   /\ j.stage = job[w].stage /\ j.event = job[w].event /\ j.todo = job[w].todo
                   /\ j.step # "emit" /\ job[w].step # "emit"
      BY <1>6, SameEvent
    <2> QED BY <1>3, <2>1
  <1>7. ASSUME NEW w \in Workers,
               \/ DispatchStart(w) \/ FeedbackStart(w) \/ TaskStep(w) \/ TaskStart(w) \/ TaskSkip(w)
               \/ TaskFail(w) \/ Crash(w)
        PROVE  Before
    <2>1. CASE job' = job
      BY <1>1, <2>1
    <2>2. CASE job' # job
      <3>1. \E j : Continue(w, j) /\ j.step \notin Serving
        BY <1>7, <2>2, RestStep
      <3> QED BY <1>2, <3>1
    <2> QED BY <2>1, <2>2
  <1>8. CASE job' # job
    BY <1>4, <1>5, <1>6, <1>7, <1>8, JobChangers DEF SweepStep
  <1> QED BY <1>1, <1>8

-----------------------------------------------------------------------------
(* Published before notified.                                              *)

(* event.published was emitted for e, or is about to be.                   *)
Announced(e) == published[e] > 0 \/ Publishing(e)

(* It is so for every event that is public, that a save in flight takes to *)
(* have been public, or that a worker took up.                             *)
Told ==
    /\ TypeOK
    /\ \A e \in Events : event[e].public => Announced(e)
    /\ \A p \in Processes, e \in Events :
          request[p].step = "save" /\ request[p].was_public /\ request[p].event = e => Announced(e)
    /\ \A w \in Workers, e \in Events, k \in Stages : Keeps(job[w], e, k) => Announced(e)
    /\ PublishedBeforeNotified

(* What was announced stays so: a request leaves "emit" by emitting.       *)
LEMMA AnnouncedStays ==
  ASSUME TypeOK, Next, NEW e \in Events, Announced(e)
  PROVE  Announced(e)'
  <1>1. published[e] \in Nat /\ published'[e] \in Nat /\ published'[e] >= published[e]
    BY PublishedGrows
  <1>2. CASE published[e] > 0
    BY <1>1, <1>2 DEF Announced
  <1>3. CASE Publishing(e)
    <2>1. PICK p \in Processes : request[p].step = "emit" /\ request[p].event = e
      BY <1>3 DEF Publishing
    <2>2. request \in [Processes -> Copies] /\ published \in [Events -> Nat]
      BY DEF TypeOK
    <2>3. CASE request'[p] = request[p]
      BY <2>1, <2>3 DEF Announced, Publishing
    <2>4. CASE EmitPublished(p)
      <3>1. Emit(e)
        BY <2>1, <2>4 DEF EmitPublished
      <3> QED BY <2>2, <3>1, EmitType DEF Announced
    <2>5. ASSUME NEW q \in Processes, q # p,
                 \/ PreSave(q) \/ Save(q) \/ EmitPublished(q)
                 \/ \E f \in Events : EditStart(q, f) \/ PublishStart(q, f) \/ ArchiveStart(q, f)
          PROVE  request'[p] = request[p]
      BY <2>2, <2>5 DEF PreSave, Save, EmitPublished, EditStart, PublishStart, ArchiveStart, Load
    <2>6. /\ ~PreSave(p) /\ ~Save(p)
          /\ \A f \in Events : ~EditStart(p, f) /\ ~PublishStart(p, f) /\ ~ArchiveStart(p, f)
      BY <2>1 DEF PreSave, Save, EditStart, PublishStart, ArchiveStart, Load
    <2>7. CASE request' # request
      BY <2>3, <2>4, <2>5, <2>6, <2>7, Requesters
    <2> QED BY <2>3, <2>7
  <1> QED BY <1>2, <1>3 DEF Announced

(* An event becomes public by the save of a request, which is about to     *)
(* tell of it unless it found the event public already.                    *)
LEMMA ToldPublic ==
  ASSUME Told, Next, NEW e \in Events, event'[e].public
  PROVE  Announced(e)'
  <1>0. TypeOK /\ event \in [Events -> Rows] /\ request \in [Processes -> Copies]
    BY DEF Told, TypeOK
  <1>2. CASE event[e].public
    BY <1>0, <1>2, AnnouncedStays DEF Told
  <1>3. CASE event' # event /\ ~event[e].public
    <2>1. ASSUME NEW w \in Workers, SweepSave(w)
          PROVE  FALSE
      <3> DEFINE g == job[w].event
                 row == Marked(event[g], job[w].stage)
      <3>1. g \in Events /\ job[w].stage \in Stages
        BY <1>0, <2>1, JobFacts DEF SweepSave, Serving
      <3>2. event' = [event EXCEPT ![g] = row]
        BY <2>1 DEF SweepSave, SaveRow
      <3>3. row.public = event[g].public
        BY <1>0, <3>1, MarkedType
      <3> HIDE DEF row, g
      <3> QED BY <1>0, <1>3, <3>1, <3>2, <3>3
    <2>2. ASSUME NEW p \in Processes, Save(p)
          PROVE  Announced(e)'
      <3> DEFINE g == request[p].event
                 copy == request[p].copy
                 row == IF request[p].all THEN copy ELSE [event[g] EXCEPT !.deleted = copy.deleted]
                 r == [request[p] EXCEPT !.step = "emit"]
      <3>1. g \in Events /\ copy \in Rows /\ request[p] \in Copies
        BY <1>0, <2>2 DEF Save, TypeOK, RequestOK
      <3>2. event' = [event EXCEPT ![g] = row]
        BY <2>2 DEF Save, SaveRow
      <3>3. row.public = copy.public \/ row.public = event[g].public
        BY <1>0, <3>1 DEF Rows
      <3>4. request[p].step = "save" /\ (copy.public /\ ~request[p].was_public => request'[p] = r)
        BY <1>0, <2>2, <3>1 DEF Save, Copies
      <3>5. r.step = "emit" /\ r.event = g
        BY <3>1 DEF Copies
      <3> HIDE DEF row, g, copy, r
      <3>6. e = g /\ copy.public
        BY <1>0, <1>3, <3>1, <3>2, <3>3
      <3>7. CASE request[p].was_public
        <4>1. Announced(e)
          BY <3>4, <3>6, <3>7 DEF Told, g
        <4> QED BY <1>0, <4>1, AnnouncedStays
      <3>8. CASE ~request[p].was_public
        BY <3>4, <3>5, <3>6, <3>8 DEF Announced, Publishing
      <3> QED BY <3>7, <3>8
    <2>3. ASSUME NEW p \in Processes, NEW f \in Events, EventNew(p, f)
          PROVE  FALSE
      <3>1. PICK form \in Forms : event' = [event EXCEPT ![f] = Filled(DefaultRow, form)]
        BY <2>3 DEF EventNew
      <3>2. Filled(DefaultRow, form).public = FALSE
        BY FilledType, DefaultRowType DEF DefaultRow
      <3> QED BY <1>0, <1>3, <3>1, <3>2
    <2>4. ASSUME NEW p \in Processes, NEW f \in Events, NEW d \in BOOLEAN, SetDeleted(p, f, d)
          PROVE  FALSE
      <3>1. event' = [event EXCEPT ![f] = [event[f] EXCEPT !.deleted = d]]
        BY <1>0, <2>4 DEF SetDeleted
      <3>2. [event[f] EXCEPT !.deleted = d].public = event[f].public
        BY <1>0 DEF Rows
      <3> QED BY <1>0, <1>3, <3>1, <3>2
    <2> QED BY <1>3, <2>1, <2>2, <2>3, <2>4, EventWriters
  <1>4. CASE event' = event /\ ~event[e].public
    BY <1>4
  <1> QED BY <1>2, <1>3, <1>4

(* What pre_save read of an event that is public was told of.              *)
LEMMA ToldRequests ==
  ASSUME Told, Next, NEW p \in Processes, NEW e \in Events,
         request'[p].step = "save", request'[p].was_public, request'[p].event = e
  PROVE  Announced(e)'
  <1>0. TypeOK /\ request \in [Processes -> Copies]
    BY DEF Told, TypeOK
  <1>1. SUFFICES Announced(e)
    BY <1>0, AnnouncedStays
  <1>2. CASE request'[p] = request[p]
    BY <1>2 DEF Told
  <1>3. ASSUME NEW q \in Processes, PreSave(q), p = q
        PROVE  Announced(e)
    <2>1. /\ request'[p].event = request[q].event
          /\ request'[p].was_public = event[request[q].event].public
      BY <1>0, <1>3 DEF PreSave, Copies
    <2> QED BY <2>1 DEF Told
  <1>4. ASSUME NEW q \in Processes, Save(q) \/ EmitPublished(q), p = q
        PROVE  FALSE
    BY <1>0, <1>4 DEF Save, EmitPublished, IdleRequest, Copies
  <1>5. ASSUME NEW q \in Processes, NEW f \in Events, NEW copy, NEW all, Load(q, f, copy, all), p = q
        PROVE  FALSE
    BY <1>0, <1>5 DEF Load, IdleRequest
  <1>6. ASSUME NEW q \in Processes, p # q,
               \/ PreSave(q) \/ Save(q) \/ EmitPublished(q)
               \/ \E f \in Events : EditStart(q, f) \/ PublishStart(q, f) \/ ArchiveStart(q, f)
        PROVE  request'[p] = request[p]
    BY <1>0, <1>6 DEF PreSave, Save, EmitPublished, EditStart, PublishStart, ArchiveStart, Load
  <1>7. CASE request' = request
    BY <1>2, <1>7
  <1>8. CASE request' # request
    <2>1. PICK q \in Processes :
             \/ PreSave(q) \/ Save(q) \/ EmitPublished(q)
             \/ \E f \in Events : EditStart(q, f) \/ PublishStart(q, f) \/ ArchiveStart(q, f)
      BY <1>8, Requesters
    <2>2. CASE p # q
      BY <1>2, <1>6, <2>1, <2>2
    <2>3. CASE p = q
      BY <1>3, <1>4, <1>5, <2>1, <2>3 DEF EditStart, PublishStart, ArchiveStart
    <2> QED BY <2>2, <2>3
  <1> QED BY <1>7, <1>8

(* A notice is started by a worker that keeps its event.                   *)
LEMMA ToldNotices ==
  ASSUME Told, Next, NEW e \in Events, NEW m \in Notices \ {"AdminOnCreate"}, issued'[e][m] > 0
  PROVE  Announced(e)'
  <1>0. TypeOK /\ issued \in [Events -> [Notices -> Nat]]
    BY DEF Told, TypeOK
  <1>2. SUFFICES Announced(e)
    BY <1>0, AnnouncedStays
  <1>3. CASE issued[e][m] > 0
    BY <1>3 DEF Told, PublishedBeforeNotified, Announced
  <1>4. CASE ~(issued[e][m] > 0)
    <2>1. issued'[e][m] # issued[e][m]
      BY <1>4
    <2>2. ASSUME NEW w \in Workers, SweepCreate(w)
          PROVE  Announced(e)
      <3> DEFINE g == job[w].event
                 n == Fires(job[w].stage)[job[w].next]
      <3>1. g \in Events /\ job[w].stage \in Stages /\ job[w].next \in DOMAIN Fires(job[w].stage)
        BY <1>0, <2>2, JobFacts DEF SweepCreate, JobOK, Serving
      <3>2. issued' = [issued EXCEPT ![g][n] = @ + 1]
        BY <2>2 DEF SweepCreate
      <3>3. Keeps(job[w], g, job[w].stage)
        BY <2>2 DEF Keeps, SweepCreate
      <3>4. n \in Notices
        BY <3>1, FiresType
      <3> HIDE DEF g, n
      <3>5. e = g
        BY <1>0, <2>1, <3>1, <3>2, <3>4, IssuedType
      <3> QED BY <3>1, <3>3, <3>5 DEF Told
    <2>3. ASSUME NEW w \in Workers, FeedbackMail(w)
          PROVE  Announced(e)
      <3> DEFINE g == job[w].event
      <3>1. g \in Events /\ job[w].stage \in Stages /\ "FeedbackRequest" \in Notices
        BY <1>0, <2>3, JobFacts DEF FeedbackMail, Serving, Notices
      <3>2. issued' = [issued EXCEPT ![g]["FeedbackRequest"] = @ + 1]
        BY <2>3 DEF FeedbackMail
      <3>3. Keeps(job[w], g, job[w].stage)
        BY <2>3 DEF Keeps, FeedbackMail
      <3> HIDE DEF g
      <3>4. e = g
        BY <1>0, <2>1, <3>1, <3>2, IssuedType
      <3> QED BY <3>1, <3>3, <3>4 DEF Told
    <2>4. ASSUME NEW p \in Processes, NEW f \in Events, EventNew(p, f)
          PROVE  FALSE
      <3>1. issued' = [issued EXCEPT ![f]["AdminOnCreate"] = @ + 1] /\ "AdminOnCreate" \in Notices
        BY <2>4 DEF EventNew, Notices, Modes
      <3> QED BY <1>0, <2>1, <3>1, IssuedType
    <2> QED BY <2>1, <2>2, <2>3, <2>4, Issuers
  <1> QED BY <1>3, <1>4

(* Initially, and by every step.                                           *)
LEMMA ToldInit == Init => Told
  <1> SUFFICES ASSUME Init PROVE Told
    OBVIOUS
  <1>1. TypeOK
    BY TypeInit
  <1>2. \A e \in Events : ~event[e].public
    BY DEF Init, DefaultRow
  <1>3. \A p \in Processes : request[p].step = "idle"
    BY DEF Init, IdleRequest
  <1>4. \A w \in Workers, e \in Events, k \in Stages : ~Keeps(job[w], e, k)
    BY EventsAssumption DEF Init, Keeps, IdleJob
  <1>5. PublishedBeforeNotified
    BY DEF Init, PublishedBeforeNotified
  <1> QED BY <1>1, <1>2, <1>3, <1>4, <1>5 DEF Told

LEMMA ToldNext == Told /\ [Next]_vars => Told'
  <1> SUFFICES ASSUME Told, [Next]_vars PROVE Told'
    OBVIOUS
  <1>0. TypeOK /\ TypeOK'
    BY TypeNext DEF Told
  <1>1. CASE UNCHANGED vars
    BY <1>0, <1>1 DEF vars, database, history, Told, PublishedBeforeNotified, Keeps, Announced, Publishing
  <1>2. CASE Next
    <2>1. \A e \in Events : event'[e].public => Announced(e)'
      BY <1>2, ToldPublic
    <2>2. \A p \in Processes, e \in Events :
             request'[p].step = "save" /\ request'[p].was_public /\ request'[p].event = e => Announced(e)'
      BY <1>2, ToldRequests
    <2>3. ASSUME NEW w \in Workers, NEW e \in Events, NEW k \in Stages, Keeps(job'[w], e, k)
          PROVE  Announced(e)'
      <3>1. Keeps(job[w], e, k) \/ event[e].public
        BY <1>0, <1>2, <2>3, KeptBefore
      <3>2. Announced(e)
        BY <3>1 DEF Told
      <3> QED BY <1>0, <1>2, <3>2, AnnouncedStays
    <2>4. PublishedBeforeNotified'
      BY <1>2, ToldNotices DEF PublishedBeforeNotified, Announced
    <2>5. \A w \in Workers, e \in Events, k \in Stages : Keeps(job[w], e, k)' => Announced(e)'
      BY <2>3 DEF Keeps
    <2> QED BY <1>0, <2>1, <2>2, <2>4, <2>5 DEF Told
  <1> QED BY <1>1, <1>2

(* No member is told of an event before a request published it, whatever   *)
(* the web requests and the sweeps do to the row meanwhile: when a notice  *)
(* goes out, event.published was emitted, or the request that has saved    *)
(* the event as public stands before its emission.  Every public event is  *)
(* announced in this sense, and a sweep takes up public events only.       *)
THEOREM NoticesFollowPublication == Spec => []PublishedBeforeNotified
  <1>1. Told => PublishedBeforeNotified
    BY DEF Told
  <1> QED BY <1>1, ToldInit, ToldNext, PTL DEF Spec

-----------------------------------------------------------------------------
(* No notice is skipped.                                                   *)

(* A task row that was handed over stays so, as long as it loses neither   *)
(* its marks, nor its message and its worker without gaining one.          *)
LEMMA StaysInHand ==
  ASSUME NEW t, InGoodHands(t),
         tasks[t].executed => tasks'[t].executed,
         tasks[t].lost > 0 => tasks'[t].lost > 0,
         (\E i \in DOMAIN queue : queue[i] = t) => InGoodHands(t)',
         \A w \in Workers : Running(w, t) => InGoodHands(t)'
  PROVE  InGoodHands(t)'
  BY DEF InGoodHands, Running

(* Messages are only added.                                                *)
LEMMA StaysQueued ==
  ASSUME BrokerOK, NEW t, NEW i \in DOMAIN queue, queue[i] = t,
         queue' = queue \/ \E s \in Nat : queue' = Append(queue, s)
  PROVE  InGoodHands(t)'
  <1>1. CASE queue' = queue
    BY <1>1 DEF InGoodHands
  <1>2. CASE \E s \in Nat : queue' = Append(queue, s)
    <2>1. PICK s \in Nat : queue' = Append(queue, s)
      BY <1>2
    <2>2. queue \in Seq(Nat)
      BY DEF BrokerOK
    <2>3. /\ queue' \in Seq(Nat) /\ Len(queue') = Len(queue) + 1
          /\ \A j \in 1..Len(queue) : queue'[j] = queue[j]
      BY <2>1, <2>2, AppendProperties
    <2>4. DOMAIN queue = 1..Len(queue) /\ DOMAIN queue' = 1..Len(queue') /\ Len(queue) \in Nat
      BY <2>2, <2>3, LenProperties
    <2>5. i \in DOMAIN queue' /\ queue'[i] = t
      BY <2>3, <2>4
    <2> QED BY <2>5 DEF InGoodHands
  <1> QED BY <1>1, <1>2

(* A step that leaves the task rows as they are, or adds one, takes no     *)
(* message, and is not the end of a run.                                   *)
LEMMA QuietStep ==
  ASSUME BrokerOK, NEW t \in DOMAIN tasks,
         tasks' = tasks \/ \E r \in TaskRows : tasks' = Append(tasks, r),
         queue' = queue \/ \E s \in Nat : queue' = Append(queue, s),
         \A w \in Workers : Running(w, t) => Running(w, t)'
  PROVE  t \in DOMAIN tasks' /\ tasks'[t] = tasks[t] /\ (InGoodHands(t) => InGoodHands(t)')
  <1>1. t \in DOMAIN tasks' /\ tasks'[t] = tasks[t]
    <2>1. CASE tasks' = tasks
      BY <2>1
    <2>2. CASE \E r \in TaskRows : tasks' = Append(tasks, r)
      <3>1. PICK r \in TaskRows : tasks' = Append(tasks, r)
        BY <2>2
      <3>0. tasks \in Seq(TaskRows)
        BY DEF BrokerOK
      <3>2. DOMAIN tasks = 1..Len(tasks) /\ Len(tasks) \in Nat
        BY <3>0, LenProperties
      <3>3. /\ tasks' \in Seq(TaskRows) /\ Len(tasks') = Len(tasks) + 1
            /\ \A i \in 1..Len(tasks) : tasks'[i] = tasks[i]
        BY <3>0, <3>1, AppendProperties
      <3>4. DOMAIN tasks' = 1..Len(tasks')
        BY <3>3, LenProperties
      <3> QED BY <3>2, <3>3, <3>4
    <2> QED BY <2>1, <2>2
  <1>2. ASSUME InGoodHands(t)
        PROVE  InGoodHands(t)'
    <2>1. (\E i \in DOMAIN queue : queue[i] = t) => InGoodHands(t)'
      BY StaysQueued
    <2>2. \A w \in Workers : Running(w, t) => InGoodHands(t)'
      BY DEF InGoodHands, Running
    <2> QED BY <1>1, <1>2, <2>1, <2>2, StaysInHand
  <1> QED BY <1>1, <1>2

(* A step of a worker that handles no task.                                *)
LEMMA QuietWorker ==
  ASSUME TypeOK, NEW w \in Workers, NEW j, Continue(w, j), job[w].step \notin Handling,
         NEW v \in Workers, NEW t, Running(v, t)
  PROVE  Running(v, t)'
  BY ContinueJobs DEF Running

(* No step takes a task row away, renames it, or takes it out of hand.     *)
LEMMA TasksStay ==
  ASSUME TypeOK, Next, NEW t \in DOMAIN tasks
  PROVE  /\ t \in DOMAIN tasks'
         /\ tasks'[t].event = tasks[t].event /\ tasks'[t].mode = tasks[t].mode
         /\ InGoodHands(t) => InGoodHands(t)'
  <1> DEFINE Stays == /\ t \in DOMAIN tasks'
                      /\ tasks'[t].event = tasks[t].event /\ tasks'[t].mode = tasks[t].mode
                      /\ InGoodHands(t) => InGoodHands(t)'
  <1>0. BrokerOK /\ tasks[t] \in TaskRows
    BY TypeParts, RowOfTask
  <1>1. \A w \in Workers : /\ job[w] \in Jobs
                           /\ job[w].step \in {"delay"} \cup Handling
                                => job[w].task \in DOMAIN tasks /\ job[w].task \in Nat
    BY JobFacts DEF JobOK, Jobs
  <1>2. ASSUME NEW w \in Workers, SweepStep(w) \/ DispatchStart(w) \/ FeedbackStart(w)
        PROVE  Stays
    <2>1. job[w].step \notin Handling
      BY <1>2 DEF SweepStep, SweepQuery, SweepCreate, SweepDelay, FeedbackMail, SweepPreSave, SweepSave,
                  SweepEmit, DispatchStart, FeedbackStart, SweepStart, Handling
    <2>2. \E j : Continue(w, j)
      <3>1. CASE SweepQuery(w)
        <4>1. \E j : LoopOn(w, j)
          BY <3>1 DEF SweepQuery
        <4> QED BY <4>1 DEF LoopOn
      <3>4. CASE SweepSave(w) \/ SweepEmit(w)
        BY <3>4, SweepLeaves
      <3>2. CASE SweepCreate(w) \/ SweepDelay(w) \/ FeedbackMail(w) \/ SweepPreSave(w)
        BY <3>2 DEF SweepCreate, SweepDelay, FeedbackMail, SweepPreSave
      <3>3. CASE DispatchStart(w) \/ FeedbackStart(w)
        BY <3>3 DEF DispatchStart, FeedbackStart, SweepStart
      <3> QED BY <1>2, <3>1, <3>2, <3>3, <3>4 DEF SweepStep
    <2>3. \A v \in Workers : Running(v, t) => Running(v, t)'
      BY <2>1, <2>2, QuietWorker
    <2>4. /\ tasks' = tasks \/ \E r \in TaskRows : tasks' = Append(tasks, r)
          /\ queue' = queue \/ \E s \in Nat : queue' = Append(queue, s)
      <3>1. CASE SweepCreate(w)
        <4> DEFINE r == Task(job[w].event, Fires(job[w].stage)[job[w].next])
        <4>1. /\ job[w].event \in Events /\ job[w].stage \in Stages /\ job[w].stage # FEEDBACK
              /\ job[w].next \in DOMAIN Fires(job[w].stage)
          BY <3>1, JobFacts DEF SweepCreate, JobOK, Serving
        <4>2. Fires(job[w].stage)[job[w].next] \in Modes
          BY <4>1, FiresType
        <4>3. r \in TaskRows
          BY <4>1, <4>2 DEF Task, TaskRows
        <4>4. tasks' = Append(tasks, r) /\ queue' = queue
          BY <3>1 DEF SweepCreate
        <4> HIDE DEF r
        <4> QED BY <4>3, <4>4
      <3>2. CASE SweepDelay(w)
        BY <1>1, <3>2 DEF SweepDelay
      <3>3. CASE ~SweepCreate(w) /\ ~SweepDelay(w)
        BY <1>2, <3>3 DEF SweepStep, SweepQuery, FeedbackMail, SweepPreSave, SweepSave, SweepEmit,
                          DispatchStart, FeedbackStart, SweepStart, broker
      <3> QED BY <3>1, <3>2, <3>3
    <2> QED BY <1>0, <2>3, <2>4, QuietStep
  <1>3. ASSUME NEW w \in Workers, TaskStart(w) \/ TaskSkip(w)
        PROVE  Stays
    <2>1. /\ queue # <<>> /\ queue' = Tail(queue) /\ job[w].step = "idle"
          /\ \/ Continue(w, [IdleJob EXCEPT !.step = "handle", !.task = Head(queue)])
             \/ job' = job /\ tasks[Head(queue)].executed
      BY <1>3 DEF TaskStart, TaskSkip, TakeMessage
    <2>0. /\ tasks' \in Seq(TaskRows) /\ DOMAIN tasks' = DOMAIN tasks
          /\ tasks'[t].event = tasks[t].event /\ tasks'[t].mode = tasks[t].mode
          /\ tasks'[t].executed = tasks[t].executed /\ tasks'[t].lost = tasks[t].lost
      <3>1. CASE TaskStart(w)
        <4>1. PICK s : s = Head(queue)
          OBVIOUS
        <4>2. s \in DOMAIN tasks /\ tasks' = [tasks EXCEPT ![s] = Begun(s)]
          BY <1>0, <2>1, <3>1, <4>1, HeadOfQueue DEF TaskStart
        <4>3. /\ Begun(s) \in TaskRows
              /\ Begun(s).event = tasks[s].event /\ Begun(s).mode = tasks[s].mode
              /\ Begun(s).executed = tasks[s].executed /\ Begun(s).lost = tasks[s].lost
          BY <1>0, <4>2, RowOfTask, BegunType
        <4>4. /\ tasks' \in Seq(TaskRows) /\ DOMAIN tasks' = DOMAIN tasks
              /\ \A i \in DOMAIN tasks : tasks'[i] = IF i = s THEN Begun(s) ELSE tasks[i]
          BY <1>0, <4>2, <4>3, TaskUpdated
        <4> QED BY <4>3, <4>4
      <3>2. CASE TaskSkip(w)
        BY <1>0, <3>2 DEF TaskSkip, BrokerOK
      <3> QED BY <1>3, <3>1, <3>2
    <2>2. ASSUME NEW i \in DOMAIN queue, queue[i] = t
          PROVE  InGoodHands(t)'
      <3>1. CASE i = 1
        <4>1. t = Head(queue)
          BY <1>0, <2>0, <2>1, <2>2, <3>1, Dequeued
        <4>2. CASE Continue(w, [IdleJob EXCEPT !.step = "handle", !.task = Head(queue)])
          <5>1. job'[w] = [IdleJob EXCEPT !.step = "handle", !.task = Head(queue)]
            BY <4>2, ContinueJobs
          <5>2. job'[w].step = "handle" /\ job'[w].task = Head(queue)
            BY <5>1 DEF IdleJob
          <5> QED BY <4>1, <5>2 DEF InGoodHands, Running, Handling
        <4>3. CASE job' = job /\ tasks[Head(queue)].executed
          BY <2>0, <4>1, <4>3 DEF InGoodHands
        <4> QED BY <2>1, <4>2, <4>3
      <3>2. CASE i # 1
        BY <1>0, <2>0, <2>1, <2>2, <3>2, Dequeued DEF InGoodHands
      <3> QED BY <3>1, <3>2
    <2>3. ASSUME NEW v \in Workers, Running(v, t)
          PROVE  InGoodHands(t)'
      <3>1. v # w
        BY <2>1, <2>3 DEF Running, Handling
      <3>2. job'[v] = job[v]
        BY <2>1, <3>1, ContinueJobs
      <3> QED BY <2>3, <3>2 DEF Running, InGoodHands
    <2> QED BY <2>0, <2>2, <2>3, StaysInHand
  <1>4. ASSUME NEW w \in Workers, job[w].step \in Handling, NEW r \in TaskRows,
               tasks' = [tasks EXCEPT ![job[w].task] = r], queue' = queue,
               r.event = tasks[job[w].task].event, r.mode = tasks[job[w].task].mode,
               tasks[job[w].task].executed => r.executed,
               tasks[job[w].task].lost > 0 => r.lost > 0,
               NEW j, Continue(w, j),
               r.executed \/ r.lost > 0 \/ (j.step \in Handling /\ j.task = job[w].task)
        PROVE  Stays
    <2> DEFINE s == job[w].task
    <2>1. /\ s \in DOMAIN tasks /\ t \in DOMAIN tasks'
          /\ tasks'[t] = IF t = s THEN r ELSE tasks[t]
      BY <1>0, <1>1, <1>4, TaskUpdated
    <2>2. job'[w] = j /\ \A v \in Workers : v # w => job'[v] = job[v]
      BY <1>4, ContinueJobs
    <2>3. (\E i \in DOMAIN queue : queue[i] = t) => InGoodHands(t)'
      BY <1>0, <1>4, StaysQueued
    <2>4. ASSUME NEW v \in Workers, Running(v, t)
          PROVE  InGoodHands(t)'
      <3>1. CASE v = w
        <4>1. t = s
          BY <2>4, <3>1 DEF Running
        <4> QED BY <1>4, <2>1, <2>2, <4>1 DEF InGoodHands, Running
      <3>2. CASE v # w
        BY <2>2, <2>4, <3>2 DEF Running, InGoodHands
      <3> QED BY <3>1, <3>2
    <2>5. /\ tasks'[t].event = tasks[t].event /\ tasks'[t].mode = tasks[t].mode
          /\ tasks[t].executed => tasks'[t].executed
          /\ tasks[t].lost > 0 => tasks'[t].lost > 0
      BY <1>4, <2>1
    <2> QED BY <2>1, <2>3, <2>4, <2>5, StaysInHand
  <1>5. ASSUME NEW w \in Workers, TaskHandle(w)
        PROVE  Stays
    <2> DEFINE s == job[w].task
               r == [tasks[s] EXCEPT !.sent = @ + 1]
               j == [job[w] EXCEPT !.step = "mark"]
    <2>1. job[w].step \in Handling /\ s \in DOMAIN tasks /\ tasks[s] \in TaskRows /\ job[w] \in Jobs
      BY <1>0, <1>1, <1>5, RowOfTask DEF TaskHandle, Handling
    <2>2. /\ r \in TaskRows /\ r.event = tasks[s].event /\ r.mode = tasks[s].mode
          /\ r.executed = tasks[s].executed /\ r.lost = tasks[s].lost
      BY <2>1 DEF TaskRows
    <2>3. tasks' = [tasks EXCEPT ![s] = r] /\ queue' = queue /\ Continue(w, j)
      BY <1>5 DEF TaskHandle
    <2>4. j.step \in Handling /\ j.task = s
      BY <2>1 DEF Jobs, Handling
    <2> HIDE DEF r, j
    <2> QED BY <1>4, <2>1, <2>2, <2>3, <2>4
  <1>6. ASSUME NEW w \in Workers, TaskMark(w)
        PROVE  Stays
    <2> DEFINE s == job[w].task
               r == [tasks[s] EXCEPT !.executed = TRUE]
    <2>1. job[w].step \in Handling /\ s \in DOMAIN tasks /\ tasks[s] \in TaskRows
      BY <1>0, <1>1, <1>6, RowOfTask DEF TaskMark, Handling
    <2>2. /\ r \in TaskRows /\ r.event = tasks[s].event /\ r.mode = tasks[s].mode
          /\ r.executed = TRUE /\ r.lost = tasks[s].lost
      BY <2>1 DEF TaskRows
    <2>3. tasks' = [tasks EXCEPT ![s] = r] /\ queue' = queue /\ Continue(w, IdleJob)
      BY <1>6 DEF TaskMark
    <2> HIDE DEF r
    <2> QED BY <1>4, <2>1, <2>2, <2>3
  <1>7. ASSUME NEW w \in Workers, TaskFail(w) \/ (Crash(w) /\ job[w].step \in Handling)
        PROVE  Stays
    <2> DEFINE s == job[w].task
    <2>1. job[w].step \in Handling /\ s \in DOMAIN tasks /\ tasks[s] \in TaskRows
      BY <1>0, <1>1, <1>7, RowOfTask DEF TaskFail, Handling
    <2>2. PICK n \in {0, 1} : tasks' = [tasks EXCEPT ![s] = CutShort(tasks[s], n)]
      <3>1. CASE TaskFail(w)
        <4>1. PICK n \in {0, 1} : tasks' = [tasks EXCEPT ![s] = CutShort(@, n)]
          BY <3>1 DEF TaskFail
        <4> QED BY <4>1
      <3>2. CASE Crash(w) /\ job[w].step \in Handling
        BY <3>2 DEF Crash
      <3> QED BY <1>7, <3>1, <3>2
    <2> DEFINE r == CutShort(tasks[s], n)
    <2>3. r \in TaskRows
      BY <2>1, CutShortType
    <2>4. /\ r.event = tasks[s].event /\ r.mode = tasks[s].mode
          /\ r.executed = tasks[s].executed /\ r.lost > 0
      BY <2>1 DEF TaskRows, CutShort
    <2>5. tasks' = [tasks EXCEPT ![s] = r] /\ queue' = queue /\ Continue(w, IdleJob)
      BY <1>7, <2>2 DEF TaskFail, Crash
    <2> HIDE DEF r
    <2> QED BY <1>4, <2>1, <2>3, <2>4, <2>5
  <1>8. ASSUME NEW w \in Workers, Crash(w), job[w].step \notin Handling
        PROVE  Stays
    <2>1. tasks' = tasks /\ queue' = queue /\ Continue(w, IdleJob)
      BY <1>8 DEF Crash
    <2>2. \A v \in Workers : Running(v, t) => Running(v, t)'
      BY <1>8, <2>1, QuietWorker
    <2> QED BY <1>0, <2>1, <2>2, QuietStep
  <1>9. ASSUME job' = job,
               tasks' = tasks \/ \E r \in TaskRows : tasks' = Append(tasks, r),
               queue' = queue \/ \E s \in Nat : queue' = Append(queue, s)
        PROVE  Stays
    BY <1>0, <1>9, QuietStep DEF Running
  <1>10. ASSUME NEW s \in DOMAIN tasks, Redeliver(s)
         PROVE  Stays
    <2>1. s \in Nat
      BY <1>0, LenProperties DEF BrokerOK
    <2> QED BY <1>9, <1>10, <2>1 DEF Redeliver
  <1>11. ASSUME NEW p \in Processes, NEW f \in Events, EventNew(p, f)
         PROVE  Stays
    <2> DEFINE r == Task(f, "AdminOnCreate")
    <2>1. r \in TaskRows /\ Len(tasks) + 1 \in Nat
      BY <1>0, LenProperties DEF Task, TaskRows, Modes, BrokerOK
    <2>2. tasks' = Append(tasks, r) /\ queue' = Append(queue, Len(tasks) + 1) /\ job' = job
      BY <1>11 DEF EventNew
    <2> HIDE DEF r
    <2> QED BY <1>9, <2>1, <2>2
  <1>12. ASSUME NEW p \in Processes, NEW f \in Events,
                \/ EditStart(p, f) \/ PublishStart(p, f) \/ ArchiveStart(p, f)
                \/ \E d \in BOOLEAN : SetDeleted(p, f, d)
         PROVE  Stays
    <2>1. job' = job /\ tasks' = tasks /\ queue' = queue
      BY <1>12 DEF EditStart, PublishStart, ArchiveStart, Load, SetDeleted, broker
    <2> QED BY <1>9, <2>1
  <1>13. ASSUME Tick \/ \E p \in Processes : PreSave(p) \/ Save(p) \/ EmitPublished(p)
         PROVE  Stays
    <2>1. job' = job /\ tasks' = tasks /\ queue' = queue
      BY <1>13 DEF Tick, PreSave, Save, EmitPublished, broker
    <2> QED BY <1>9, <2>1
  <1>14. CASE \E w \in Workers :
                \/ DispatchStart(w) \/ FeedbackStart(w) \/ SweepStep(w) \/ TaskStep(w)
                \/ TaskStart(w) \/ TaskSkip(w) \/ TaskFail(w) \/ Crash(w)
    BY <1>2, <1>3, <1>5, <1>6, <1>7, <1>8, <1>14 DEF TaskStep
  <1> QED BY <1>10, <1>11, <1>12, <1>13, <1>14 DEF Next

(* The i-th notice of stage k was handed over for event e,                 *)
HandedOver(e, k, i) ==
    \E t \in DOMAIN tasks : tasks[t].event = e /\ tasks[t].mode = Fires(k)[i] /\ InGoodHands(t)

(* and so was every notice of the states before n.                         *)
ServedUpTo(e, n) ==
    \A k \in STATE_INIT..STATE_REMINDER2 : n > k => \A i \in DOMAIN Fires(k) : HandedOver(e, k, i)

(* A sweep has handed over the notices of the stage it serves that come    *)
(* before the next one; the task row it has just created is for that one.  *)
Underway(j) ==
    /\ j.step \in Serving \ {"emit"} => \A i \in DOMAIN Fires(j.stage) :
          (j.step \in {"create", "delay"} => i < j.next) => HandedOver(j.event, j.stage, i)
    /\ j.step = "delay" => /\ tasks[j.task].event = j.event
                           /\ tasks[j.task].mode = Fires(j.stage)[j.next]

(* The rows, the copies that will be written back and the events a sweep   *)
(* has taken up all name states whose notices were handed over.            *)
RowsServed == \A e \in Events : ServedUpTo(e, event[e].notification_state)

CopiesServed ==
    \A p \in Processes : request[p].step # "idle"
        => ServedUpTo(request[p].event, request[p].copy.notification_state)

JobsServed ==
    \A w \in Workers : job[w].stage # FEEDBACK =>
        /\ \A e \in Events : Keeps(job[w], e, job[w].stage) => ServedUpTo(e, job[w].stage)
        /\ Underway(job[w])

InHand == TypeOK /\ RowsServed /\ CopiesServed /\ JobsServed

(* What was handed over stays so.                                          *)
LEMMA StaysHandedOver ==
  ASSUME TypeOK, Next, NEW e, NEW k, NEW i, HandedOver(e, k, i)
  PROVE  HandedOver(e, k, i)'
  BY TasksStay DEF HandedOver

LEMMA StaysServed ==
  ASSUME TypeOK, Next, NEW e, NEW n, ServedUpTo(e, n)
  PROVE  ServedUpTo(e, n)'
  BY StaysHandedOver DEF ServedUpTo

(* One state further.                                                      *)
LEMMA ServedOneMore ==
  ASSUME NEW e, NEW n \in STATE_INIT..STATE_PRESENTATION_UPDATE, ServedUpTo(e, n),
         \A i \in DOMAIN Fires(n) : HandedOver(e, n, i)
  PROVE  ServedUpTo(e, n + 1)
  <1> SUFFICES ASSUME NEW k \in STATE_INIT..STATE_REMINDER2, n + 1 > k, NEW i \in DOMAIN Fires(k)
               PROVE  HandedOver(e, k, i)
    BY DEF ServedUpTo
  <1>1. k = n \/ n > k
    BY DEF STATE_INIT, STATE_REMINDER2, STATE_PRESENTATION_UPDATE
  <1> QED BY <1>1 DEF ServedUpTo

(* The rows.                                                               *)
LEMMA RowsServedNext ==
  ASSUME InHand, Next
  PROVE  RowsServed'
  <1>0. TypeOK /\ event \in [Events -> Rows]
    BY DEF InHand, TypeOK
  <1>1. \A e \in Events : ServedUpTo(e, event[e].notification_state)
    BY DEF InHand, RowsServed
  <1>2. ASSUME NEW g \in Events, NEW row, event' = [event EXCEPT ![g] = row],
               ServedUpTo(g, row.notification_state)
        PROVE  RowsServed'
    <2> SUFFICES ASSUME NEW e \in Events, NEW n, n = event'[e].notification_state
                 PROVE  ServedUpTo(e, n)'
      BY DEF RowsServed, ServedUpTo
    <2>1. ServedUpTo(e, n)
      BY <1>0, <1>1, <1>2
    <2> QED BY <1>0, <2>1, StaysServed
  <1>3. CASE event' = event
    <2> SUFFICES ASSUME NEW e \in Events, NEW n, n = event[e].notification_state
                 PROVE  ServedUpTo(e, n)'
      BY <1>3 DEF RowsServed, ServedUpTo
    <2>1. ServedUpTo(e, n)
      BY <1>1
    <2> QED BY <1>0, <2>1, StaysServed
  <1>4. ASSUME NEW w \in Workers, SweepSave(w)
        PROVE  RowsServed'
    <2> DEFINE g == job[w].event
               k == job[w].stage
               row == Marked(event[g], k)
    <2>1. g \in Events /\ k \in Stages /\ job[w].step = "save"
      BY <1>0, <1>4, JobFacts DEF SweepSave, Serving
    <2>2. event' = [event EXCEPT ![g] = row]
      BY <1>4 DEF SweepSave, SaveRow
    <2>3. ServedUpTo(g, row.notification_state)
      <3>1. event[g] \in Rows
        BY <1>0, <2>1
      <3>2. CASE k = FEEDBACK
        <4>1. row.notification_state = event[g].notification_state
          BY <3>1, <3>2 DEF Marked, Rows
        <4> QED BY <1>1, <2>1, <4>1
      <3>3. CASE k # FEEDBACK
        <4>1. row.notification_state = k + 1
          BY <3>1, <3>3 DEF Marked, Rows
        <4>2. ServedUpTo(g, k) /\ Underway(job[w])
          BY <2>1, <3>3 DEF InHand, JobsServed, Keeps
        <4>3. \A i \in DOMAIN Fires(k) : HandedOver(g, k, i)
          BY <2>1, <4>2 DEF Underway, Serving
        <4>4. k \in STATE_INIT..STATE_PRESENTATION_UPDATE
          BY <2>1, <3>3 DEF Stages
        <4> QED BY <4>1, <4>2, <4>3, <4>4, ServedOneMore
      <3> QED BY <3>2, <3>3
    <2> QED BY <1>2, <2>1, <2>2, <2>3
  <1>5. ASSUME NEW p \in Processes, Save(p)
        PROVE  RowsServed'
    <2> DEFINE g == request[p].event
               copy == request[p].copy
               row == IF request[p].all THEN copy ELSE [event[g] EXCEPT !.deleted = copy.deleted]
    <2>1. g \in Events /\ copy \in Rows /\ ServedUpTo(g, copy.notification_state)
      BY <1>0, <1>5 DEF Save, TypeOK, RequestOK, InHand, CopiesServed
    <2>2. event' = [event EXCEPT ![g] = row]
      BY <1>5 DEF Save, SaveRow
    <2>3. row = copy \/ row.notification_state = event[g].notification_state
      BY <1>0, <2>1 DEF Rows
    <2>4. ServedUpTo(g, row.notification_state)
      BY <1>1, <2>1, <2>3
    <2> QED BY <1>2, <2>1, <2>2, <2>4
  <1>6. ASSUME NEW p \in Processes, NEW f \in Events, EventNew(p, f)
        PROVE  RowsServed'
    <2>1. PICK form \in Forms : event' = [event EXCEPT ![f] = Filled(DefaultRow, form)]
      BY <1>6 DEF EventNew
    <2>2. Filled(DefaultRow, form).notification_state = event[f].notification_state
      BY <1>0, <1>6, FilledType, DefaultRowType DEF EventNew, TypeOK
    <2> QED BY <1>1, <1>2, <2>1, <2>2
  <1>7. ASSUME NEW p \in Processes, NEW f \in Events, NEW d \in BOOLEAN, SetDeleted(p, f, d)
        PROVE  RowsServed'
    <2>1. event' = [event EXCEPT ![f] = [event[f] EXCEPT !.deleted = d]]
      BY <1>0, <1>7 DEF SetDeleted
    <2>2. [event[f] EXCEPT !.deleted = d].notification_state = event[f].notification_state
      BY <1>0 DEF Rows
    <2> QED BY <1>1, <1>2, <2>1, <2>2
  <1> QED BY <1>3, <1>4, <1>5, <1>6, <1>7, EventWriters

(* The copies in the web processes.                                        *)
LEMMA CopiesServedNext ==
  ASSUME InHand, Next
  PROVE  CopiesServed'
  <1>0. TypeOK /\ request \in [Processes -> Copies] /\ event \in [Events -> Rows]
    BY DEF InHand, TypeOK
  <1>1. \A p \in Processes : request[p].step # "idle"
           => ServedUpTo(request[p].event, request[p].copy.notification_state)
    BY DEF InHand, CopiesServed
  <1>2. ASSUME NEW p \in Processes, request'[p] = request[p], request'[p].step # "idle"
        PROVE  ServedUpTo(request'[p].event, request'[p].copy.notification_state)
    BY <1>1, <1>2
  <1>3. ASSUME \A p \in Processes : request'[p].step # "idle"
                  => ServedUpTo(request'[p].event, request'[p].copy.notification_state)
        PROVE  CopiesServed'
    <2> SUFFICES ASSUME NEW p \in Processes, request'[p].step # "idle", NEW e, e = request'[p].event,
                        NEW n, n = request'[p].copy.notification_state
                 PROVE  ServedUpTo(e, n)'
      BY DEF CopiesServed, ServedUpTo
    <2>1. ServedUpTo(e, n)
      BY <1>3
    <2> QED BY <1>0, <2>1, StaysServed
  <1>4. ASSUME NEW q \in Processes, NEW r, request' = [request EXCEPT ![q] = r],
               r.step # "idle" => ServedUpTo(r.event, r.copy.notification_state)
        PROVE  CopiesServed'
    <2>1. ASSUME NEW p \in Processes, request'[p].step # "idle"
          PROVE  ServedUpTo(request'[p].event, request'[p].copy.notification_state)
      <3>1. CASE p = q
        BY <1>0, <1>4, <2>1, <3>1
      <3>2. CASE p # q
        BY <1>0, <1>2, <1>4, <2>1, <3>2
      <3> QED BY <3>1, <3>2
    <2> QED BY <1>3, <2>1
  <1>5. ASSUME NEW p \in Processes, PreSave(p)
        PROVE  CopiesServed'
    <2> DEFINE r == [request[p] EXCEPT !.step = "save", !.was_public = event[request[p].event].public]
    <2>1. request[p] \in Copies /\ request[p].step = "pre_save"
      BY <1>0, <1>5 DEF PreSave
    <2>2. request' = [request EXCEPT ![p] = r] /\ r.event = request[p].event /\ r.copy = request[p].copy
      BY <1>0, <1>5, <2>1 DEF PreSave, Copies
    <2> HIDE DEF r
    <2>3. ServedUpTo(r.event, r.copy.notification_state)
      BY <1>1, <2>1, <2>2
    <2> QED BY <1>4, <2>2, <2>3
  <1>6. ASSUME NEW p \in Processes, Save(p) \/ EmitPublished(p)
        PROVE  CopiesServed'
    <2>1. CASE request' = [request EXCEPT ![p] = IdleRequest]
      BY <1>4, <2>1 DEF IdleRequest
    <2>2. CASE ~(request' = [request EXCEPT ![p] = IdleRequest])
      <3> DEFINE r == [request[p] EXCEPT !.step = "emit"]
      <3>1. request[p] \in Copies /\ request[p].step = "save"
        BY <1>0, <1>6, <2>2 DEF Save, EmitPublished
      <3>2. request' = [request EXCEPT ![p] = r] /\ r.event = request[p].event /\ r.copy = request[p].copy
        BY <1>0, <1>6, <2>2, <3>1 DEF Save, EmitPublished, Copies
      <3> HIDE DEF r
      <3>3. ServedUpTo(r.event, r.copy.notification_state)
        BY <1>1, <3>1, <3>2
      <3> QED BY <1>4, <3>2, <3>3
    <2> QED BY <2>1, <2>2
  <1>7. ASSUME NEW p \in Processes, NEW e \in Events, NEW copy, NEW all, Load(p, e, copy, all),
               copy.notification_state = event[e].notification_state
        PROVE  CopiesServed'
    <2> DEFINE r == [IdleRequest EXCEPT !.step = "pre_save", !.event = e, !.copy = copy, !.all = all]
    <2>1. request' = [request EXCEPT ![p] = r]
      BY <1>7 DEF Load
    <2>2. r.event = e /\ r.copy = copy
      BY DEF IdleRequest
    <2> HIDE DEF r
    <2>3. ServedUpTo(r.event, r.copy.notification_state)
      BY <1>7, <2>2 DEF InHand, RowsServed
    <2> QED BY <1>4, <2>1, <2>3
  <1>8. ASSUME NEW p \in Processes, NEW e \in Events,
               EditStart(p, e) \/ PublishStart(p, e) \/ ArchiveStart(p, e)
        PROVE  CopiesServed'
    <2>1. event[e] \in Rows
      BY <1>0
    <2>2. CASE EditStart(p, e)
      <3>1. PICK form \in Forms : Load(p, e, Filled(event[e], form), TRUE)
        BY <2>2 DEF EditStart
      <3> QED BY <1>7, <2>1, <3>1, FilledType
    <2>3. CASE PublishStart(p, e)
      <3>1. [event[e] EXCEPT !.public = ~@].notification_state = event[e].notification_state
        BY <2>1 DEF Rows
      <3> QED BY <1>7, <2>3, <3>1 DEF PublishStart
    <2>4. CASE ArchiveStart(p, e)
      <3>1. [event[e] EXCEPT !.deleted = TRUE].notification_state = event[e].notification_state
        BY <2>1 DEF Rows
      <3> QED BY <1>7, <2>4, <3>1 DEF ArchiveStart
    <2> QED BY <1>8, <2>2, <2>3, <2>4
  <1>9. CASE request' = request
    BY <1>2, <1>3, <1>9
  <1> QED BY <1>5, <1>6, <1>8, <1>9, Requesters

(* The loop begins an event with its first notice.                         *)
LEMMA LoopOnBegins ==
  ASSUME NEW w \in Workers, NEW j \in Jobs, LoopOn(w, j)
  PROVE  \E i : /\ Continue(w, i)
                /\ i.step # "delay"
                /\ i.step \in Serving /\ i.stage # FEEDBACK
                     => \A n \in DOMAIN Fires(i.stage) : i.step = "create" /\ ~(n < i.next)
  <1>1. CASE j.todo # {}
    <2>1. PICK e \in j.todo :
            Continue(w, [j EXCEPT !.event = e, !.todo = @ \ {e}, !.next = 1, !.was_public = FALSE,
                                  !.step = CASE j.stage = FEEDBACK -> "mail"
                                             [] j.stage = STATE_PRESENTATION_UPDATE -> "pre_save"
                                             [] OTHER -> "create"])
      BY <1>1 DEF LoopOn
    <2> DEFINE s == CASE j.stage = FEEDBACK -> "mail"
                      [] j.stage = STATE_PRESENTATION_UPDATE -> "pre_save"
                      [] OTHER -> "create"
               i == [j EXCEPT !.event = e, !.todo = @ \ {e}, !.next = 1, !.was_public = FALSE, !.step = s]
    <2>2. i.step = s /\ i.stage = j.stage /\ i.next = 1
      BY DEF Jobs
    <2>3. j.stage \in Stages
      BY DEF Jobs
    <2>4. DOMAIN Fires(STATE_PRESENTATION_UPDATE) = {}
      <3>1. Fires(4) = <<>>
        BY DEF Fires, STATE_INIT, STATE_INITIAL_NOTIFICATIONS, STATE_REMINDER1, STATE_REMINDER2,
               STATE_PRESENTATION_UPDATE, FEEDBACK
      <3> QED BY <3>1, EmptySeq DEF STATE_PRESENTATION_UPDATE
    <2>5. s # "delay"
      BY DEF FEEDBACK, STATE_PRESENTATION_UPDATE
    <2>6. ASSUME j.stage # FEEDBACK, NEW n \in DOMAIN Fires(j.stage)
          PROVE  s = "create" /\ ~(n < 1)
      <3>1. n \in {1, 2}
        BY <2>3, <2>6, FiresType
      <3>2. j.stage # STATE_PRESENTATION_UPDATE
        BY <2>4, <2>6
      <3> QED BY <2>6, <3>1, <3>2
    <2> HIDE DEF s
    <2>7. Continue(w, i)
      BY <2>1 DEF s
    <2> HIDE DEF i
    <2> QED BY <2>2, <2>5, <2>6, <2>7
  <1>2. CASE j.todo = {}
    <2>1. \E i : Continue(w, i) /\ i.step \in {"idle", "query"}
      <3>1. CASE j.stage < STATE_PRESENTATION_UPDATE
        <4> DEFINE i == [IdleJob EXCEPT !.step = "query", !.stage = j.stage + 1, !.now = j.now]
        <4>1. Continue(w, i)
          BY <1>2, <3>1 DEF LoopOn
        <4>2. i.step = "query"
          BY DEF IdleJob
        <4> QED BY <4>1, <4>2
      <3>2. CASE ~(j.stage < STATE_PRESENTATION_UPDATE)
        BY <1>2, <3>2 DEF LoopOn, IdleJob
      <3> QED BY <3>1, <3>2
    <2> QED BY <2>1 DEF Serving
  <1> QED BY <1>1, <1>2

(* A job at which there is nothing to check yet.                           *)
LEMMA NotUnderway ==
  ASSUME NEW j, j.step # "delay",
         j.step \in Serving \ {"emit"} /\ j.stage # FEEDBACK
            => \A n \in DOMAIN Fires(j.stage) : j.step = "create" /\ ~(n < j.next)
  PROVE  j.stage # FEEDBACK => Underway(j)'
  BY DEF Underway

(* A sweep between two steps.                                              *)
LEMMA StaysUnderway ==
  ASSUME TypeOK, Next, NEW w \in Workers, Underway(job[w])
  PROVE  \A j : j = job[w] => Underway(j)'
  <1> SUFFICES ASSUME NEW j, j = job[w]
               PROVE  Underway(j)'
    OBVIOUS
  <1>1. Underway(j) /\ (j.step = "delay" => j.task \in DOMAIN tasks)
    BY JobFacts DEF JobOK
  <1>2. ASSUME j.step = "delay"
        PROVE  tasks'[j.task].event = j.event /\ tasks'[j.task].mode = Fires(j.stage)[j.next]
    BY <1>1, <1>2, TasksStay DEF Underway
  <1>3. ASSUME j.step \in Serving \ {"emit"}, NEW i \in DOMAIN Fires(j.stage),
               j.step \in {"create", "delay"} => i < j.next
        PROVE  HandedOver(j.event, j.stage, i)'
    BY <1>1, <1>3, StaysHandedOver DEF Underway
  <1> QED BY <1>2, <1>3 DEF Underway

(* The steps of a sweep that serves an event.                              *)
LEMMA ServingUnderway ==
  ASSUME InHand, TypeOK', Next, NEW w \in Workers, job[w].stage # FEEDBACK,
         SweepCreate(w) \/ SweepDelay(w) \/ FeedbackMail(w) \/ SweepPreSave(w)
  PROVE  \E j : Continue(w, j) /\ Underway(j)'
  <1>0. PICK e, k, n : e = job[w].event /\ k = job[w].stage /\ n = job[w].next
    OBVIOUS
  <1>a. /\ TypeOK /\ job[w] \in Jobs /\ JobOK(job[w], created, DOMAIN tasks) /\ k \in Stages
        /\ n \in {1, 2} /\ Underway(job[w])
    <2>1. TypeOK /\ Underway(job[w])
      BY DEF InHand, JobsServed
    <2> QED BY <1>0, <2>1, JobFacts DEF Jobs
  <1>1. ASSUME NEW i \in DOMAIN Fires(k), HandedOver(e, k, i)
        PROVE  HandedOver(e, k, i)'
    BY <1>0, <1>a, <1>1, StaysHandedOver
  <1>2. CASE SweepCreate(w)
    <2>0. PICK j : j = [job[w] EXCEPT !.step = "delay", !.task = Len(tasks) + 1]
      OBVIOUS
    <2>1. Continue(w, j) /\ tasks' = Append(tasks, Task(e, Fires(k)[n])) /\ job[w].step = "create"
      BY <1>0, <1>2, <2>0 DEF SweepCreate
    <2>2. /\ j.step = "delay" /\ j.event = e /\ j.stage = k /\ j.next = n /\ j.task = Len(tasks) + 1
      BY <1>0, <1>a, <2>0 DEF Jobs
    <2>3. e \in Events /\ n \in DOMAIN Fires(k)
      BY <1>0, <1>a, <2>1, JobFacts DEF JobOK, Serving
    <2>4. tasks'[Len(tasks) + 1] = Task(e, Fires(k)[n])
      <3>1. Fires(k)[n] \in Modes
        BY <1>0, <1>a, <2>3, FiresType
      <3> QED BY <1>0, <1>a, <2>1, <2>3, <3>1, TypeParts, TaskCreated
    <2>5. tasks'[j.task].event = j.event /\ tasks'[j.task].mode = Fires(j.stage)[j.next]
      BY <2>2, <2>4 DEF Task
    <2>6. ASSUME NEW i \in DOMAIN Fires(k), i < n
          PROVE  HandedOver(e, k, i)'
      BY <1>0, <1>a, <1>1, <2>1, <2>6 DEF Underway, Serving
    <2>7. Underway(j)'
      BY <2>2, <2>5, <2>6 DEF Underway
    <2> QED BY <2>1, <2>7
  <1>3. CASE SweepDelay(w)
    <2>0. PICK t : t = job[w].task
      OBVIOUS
    <2>1. job[w].step = "delay" /\ queue' = Append(queue, t) /\ tasks' = tasks
      BY <1>3, <2>0 DEF SweepDelay
    <2>2. /\ t \in DOMAIN tasks /\ n \in DOMAIN Fires(k)
          /\ tasks[t].event = e /\ tasks[t].mode = Fires(k)[n]
      BY <1>0, <1>a, <2>0, <2>1 DEF JobOK, Underway
    <2>3. HandedOver(e, k, n)'
      <3>1. queue \in Seq(Nat) /\ t \in Nat
        BY <1>0, <1>a, <2>2, LenProperties DEF TypeOK
      <3>2. /\ queue' \in Seq(Nat) /\ Len(queue') = Len(queue) + 1 /\ queue'[Len(queue) + 1] = t
        BY <2>1, <3>1, AppendProperties
      <3>3. Len(queue) + 1 \in DOMAIN queue'
        BY <3>1, <3>2, LenProperties
      <3> QED BY <2>1, <2>2, <3>2, <3>3 DEF HandedOver, InGoodHands
    <2>4. ASSUME NEW i \in DOMAIN Fires(k), i < n
          PROVE  HandedOver(e, k, i)'
      BY <1>0, <1>a, <1>1, <2>1, <2>4 DEF Underway, Serving
    <2>5. \A i \in DOMAIN Fires(k) : i \in {1, 2} /\ i <= Len(Fires(k)) /\ Len(Fires(k)) \in Nat
      BY <1>0, <1>a, FiresType
    <2>6. CASE n < Len(Fires(k))
      <3>0. PICK j : j = [job[w] EXCEPT !.step = "create", !.next = @ + 1, !.task = 0]
        OBVIOUS
      <3>1. Continue(w, j)
        BY <1>0, <1>3, <2>6, <3>0 DEF SweepDelay
      <3>2. j.step = "create" /\ j.event = e /\ j.stage = k /\ j.next = n + 1
        BY <1>0, <1>a, <3>0 DEF Jobs
      <3>3. \A i \in DOMAIN Fires(k) : i < n + 1 => HandedOver(e, k, i)'
        <4>1. \A i \in {1, 2} : i < n + 1 => i < n \/ i = n
          BY <1>0, <1>a
        <4> QED BY <2>3, <2>4, <2>5, <4>1
      <3>4. Underway(j)'
        BY <3>2, <3>3 DEF Underway
      <3> QED BY <3>1, <3>4
    <2>7. CASE ~(n < Len(Fires(k)))
      <3>0. PICK j : j = [job[w] EXCEPT !.step = "pre_save", !.task = 0]
        OBVIOUS
      <3>1. Continue(w, j)
        BY <1>0, <1>3, <2>7, <3>0 DEF SweepDelay
      <3>2. j.step = "pre_save" /\ j.event = e /\ j.stage = k
        BY <1>0, <1>a, <3>0 DEF Jobs
      <3>3. \A i \in DOMAIN Fires(k) : HandedOver(e, k, i)'
        <4>1. \A i \in DOMAIN Fires(k) : i < n \/ i = n
          BY <1>0, <1>a, <2>5, <2>7
        <4> QED BY <2>3, <2>4, <4>1
      <3>4. Underway(j)'
        BY <3>2, <3>3 DEF Underway
      <3> QED BY <3>1, <3>4
    <2> QED BY <2>6, <2>7
  <1>4. CASE SweepPreSave(w)
    <2>0. PICK j : j = [job[w] EXCEPT !.step = "save", !.was_public = event[job[w].event].public]
      OBVIOUS
    <2>1. Continue(w, j) /\ job[w].step = "pre_save"
      BY <1>4, <2>0 DEF SweepPreSave
    <2>2. j.step = "save" /\ j.event = e /\ j.stage = k
      BY <1>0, <1>a, <2>0 DEF Jobs
    <2>3. \A i \in DOMAIN Fires(k) : HandedOver(e, k, i)'
      BY <1>0, <1>a, <1>1, <2>1 DEF Underway, Serving
    <2>4. Underway(j)'
      BY <2>2, <2>3 DEF Underway
    <2> QED BY <2>1, <2>4
  <1>5. ~FeedbackMail(w)
    BY <1>0, <1>a DEF FeedbackMail, JobOK
  <1> QED BY <1>2, <1>3, <1>4, <1>5

(* The jobs of the workers.                                                *)
LEMMA JobsServedNext ==
  ASSUME InHand, Next
  PROVE  JobsServed'
  <1>0. TypeOK /\ TypeOK'
    BY TypeNext DEF InHand
  <1>1. ASSUME NEW v \in Workers, job'[v].stage # FEEDBACK, NEW e \in Events,
               Keeps(job'[v], e, job'[v].stage)
        PROVE  ServedUpTo(e, job'[v].stage)
    <2>1. job'[v].stage \in Stages
      BY <1>0 DEF TypeOK, Jobs
    <2>2. PICK k \in Stages : k = job'[v].stage
      BY <2>1
    <2>3. Keeps(job[v], e, k) \/ event[e].notification_state = k
      BY <1>0, <1>1, <2>2, KeptBefore
    <2>4. CASE Keeps(job[v], e, k)
      BY <1>1, <2>2, <2>4 DEF InHand, JobsServed, Keeps
    <2>5. CASE event[e].notification_state = k
      BY <2>2, <2>5 DEF InHand, RowsServed
    <2> QED BY <2>3, <2>4, <2>5
  <1>2. ASSUME NEW v \in Workers, job'[v].stage # FEEDBACK, NEW e \in Events,
               Keeps(job'[v], e, job'[v].stage), NEW n, n = job'[v].stage
        PROVE  ServedUpTo(e, n)'
    BY <1>0, <1>1, <1>2, StaysServed
  <1>3. ASSUME NEW v \in Workers, job'[v] = job[v], job[v].stage # FEEDBACK, NEW j, j = job'[v]
        PROVE  Underway(j)'
    BY <1>0, <1>3, StaysUnderway DEF InHand, JobsServed
  <1>4. ASSUME NEW w \in Workers, NEW i, Continue(w, i), i.stage # FEEDBACK => Underway(i)',
               NEW v \in Workers, job'[v].stage # FEEDBACK, NEW j, j = job'[v]
        PROVE  Underway(j)'
    <2>1. job'[w] = i /\ (v # w => job'[v] = job[v])
      BY <1>0, <1>4, ContinueJobs
    <2>2. CASE v = w
      BY <1>4, <2>1, <2>2
    <2>3. CASE v # w
      BY <1>3, <1>4, <2>1, <2>3
    <2> QED BY <2>2, <2>3
  <1>10. ASSUME NEW w \in Workers, SweepSave(w), ~LoopOn(w, job[w])
         PROVE  \E i : Continue(w, i) /\ (i.stage # FEEDBACK => Underway(i)')
    <2>1. PICK i : i = [job[w] EXCEPT !.step = "emit"]
      OBVIOUS
    <2>2. Continue(w, i)
      BY <1>10, <2>1 DEF SweepSave
    <2>3. i.step = "emit"
      BY <1>0, <2>1, JobFacts DEF Jobs
    <2> QED BY <2>2, <2>3, NotUnderway
  <1>5. ASSUME NEW w \in Workers, SweepQuery(w) \/ SweepEmit(w) \/ (SweepSave(w) /\ LoopOn(w, job[w]))
        PROVE  \E i : Continue(w, i) /\ (i.stage # FEEDBACK => Underway(i)')
    <2>1. \E j \in Jobs : LoopOn(w, j)
      <3>1. job[w] \in Jobs
        BY <1>0, JobFacts
      <3>2. CASE SweepEmit(w) \/ (SweepSave(w) /\ LoopOn(w, job[w]))
        BY <3>1, <3>2 DEF SweepEmit
      <3>3. CASE SweepQuery(w)
        <4>1. [job[w] EXCEPT !.todo = Matching(job[w].stage, job[w].now)] \in Jobs
          BY <1>0, <3>1 DEF Jobs, Matching, TypeOK
        <4> QED BY <3>3, <4>1 DEF SweepQuery
      <3> QED BY <1>5, <3>2, <3>3
    <2>2. PICK i : /\ Continue(w, i)
                   /\ i.step # "delay"
                   /\ i.step \in Serving /\ i.stage # FEEDBACK
                        => \A n \in DOMAIN Fires(i.stage) : i.step = "create" /\ ~(n < i.next)
      BY <2>1, LoopOnBegins
    <2> QED BY <2>2, NotUnderway
  <1>6. ASSUME NEW w \in Workers, SweepCreate(w) \/ SweepDelay(w) \/ FeedbackMail(w) \/ SweepPreSave(w)
        PROVE  \E i : Continue(w, i) /\ (i.stage # FEEDBACK => Underway(i)')
    <2>1. CASE job[w].stage = FEEDBACK
      BY <1>0, <1>6, <2>1, SameEvent
    <2>2. CASE job[w].stage # FEEDBACK
      BY <1>0, <1>6, <2>2, ServingUnderway
    <2> QED BY <2>1, <2>2
  <1>7. ASSUME NEW w \in Workers, job' # job,
               \/ DispatchStart(w) \/ FeedbackStart(w) \/ TaskStep(w) \/ TaskStart(w) \/ TaskSkip(w)
               \/ TaskFail(w) \/ Crash(w)
        PROVE  \E i : Continue(w, i) /\ (i.stage # FEEDBACK => Underway(i)')
    <2>1. PICK i : Continue(w, i) /\ i.step \notin Serving
      BY <1>0, <1>7, RestStep
    <2>2. i.step # "delay"
      BY <2>1 DEF Serving
    <2> QED BY <2>1, <2>2, NotUnderway
  <1>8. ASSUME NEW v \in Workers, job'[v].stage # FEEDBACK, NEW j, j = job'[v]
        PROVE  Underway(j)'
    <2>1. CASE job' = job
      BY <1>3, <1>8, <2>1
    <2>2. CASE job' # job
      <3>1. PICK w \in Workers :
               \/ DispatchStart(w) \/ FeedbackStart(w) \/ SweepStep(w) \/ TaskStep(w)
               \/ TaskStart(w) \/ TaskSkip(w) \/ TaskFail(w) \/ Crash(w)
        BY <2>2, JobChangers
      <3>2. PICK i : Continue(w, i) /\ (i.stage # FEEDBACK => Underway(i)')
        BY <1>5, <1>6, <1>7, <1>10, <2>2, <3>1 DEF SweepStep
      <3> QED BY <1>4, <1>8, <3>2
    <2> QED BY <2>1, <2>2
  <1>9. ASSUME NEW v \in Workers, job'[v].stage # FEEDBACK, NEW j, j = job'[v]
        PROVE  /\ \A e \in Events : Keeps(j, e, j.stage) => ServedUpTo(e, j.stage)'
               /\ Underway(j)'
    BY <1>2, <1>8, <1>9
  <1> QED BY <1>9 DEF JobsServed, Keeps, ServedUpTo, Underway

(* Initially, and by every step.                                           *)
LEMMA InHandInit == Init => InHand
  <1> SUFFICES ASSUME Init PROVE InHand
    OBVIOUS
  <1>1. TypeOK
    BY TypeInit
  <1>2. \A e : ServedUpTo(e, 0)
    BY DEF ServedUpTo, STATE_INIT, STATE_REMINDER2
  <1>3. RowsServed
    BY <1>2 DEF Init, RowsServed, DefaultRow, STATE_INIT
  <1>4. CopiesServed
    BY DEF Init, CopiesServed, IdleRequest
  <1>5. JobsServed
    BY <1>2 DEF Init, JobsServed, IdleJob, Underway, Serving, STATE_INIT
  <1> QED BY <1>1, <1>3, <1>4, <1>5 DEF InHand

LEMMA InHandNext == InHand /\ [Next]_vars => InHand'
  <1> SUFFICES ASSUME InHand, [Next]_vars PROVE InHand'
    OBVIOUS
  <1>1. TypeOK'
    BY TypeNext DEF InHand
  <1>2. CASE UNCHANGED vars
    <2>1. UNCHANGED <<event, tasks, queue, job, request>>
      BY <1>2 DEF vars, database, broker
    <2>2. \A t : InGoodHands(t) => InGoodHands(t)'
      BY <2>1 DEF InGoodHands, Running
    <2>3. \A e, k, i : HandedOver(e, k, i) => HandedOver(e, k, i)'
      BY <2>1, <2>2 DEF HandedOver
    <2>4. \A e, n : ServedUpTo(e, n) => ServedUpTo(e, n)'
      BY <2>3 DEF ServedUpTo
    <2>5. RowsServed'
      BY <2>1, <2>4 DEF InHand, RowsServed, ServedUpTo
    <2>6. CopiesServed'
      BY <2>1, <2>4 DEF InHand, CopiesServed, ServedUpTo
    <2>7. \A j : Underway(j) => Underway(j)'
      BY <2>1, <2>3 DEF Underway
    <2>8. JobsServed'
      BY <2>1, <2>4, <2>7 DEF InHand, JobsServed, Keeps, ServedUpTo, Underway
    <2> QED BY <1>1, <2>5, <2>6, <2>8 DEF InHand
  <1>3. CASE Next
    BY <1>1, <1>3, RowsServedNext, CopiesServedNext, JobsServedNext DEF InHand
  <1> QED BY <1>2, <1>3

(* However sweeps crash, overlap and race the leads' saves, an event moves *)
(* past a notification state only after each notice of that state was      *)
(* handed over: the state is saved after the last of them was queued, a    *)
(* query takes up events in the state it serves, and the copy a request    *)
(* writes back names a state the row once had.                             *)
THEOREM NoticesAreNotSkipped == Spec => []NoNoticeSkipped
  <1>1. InHand => NoNoticeSkipped
    BY DEF InHand, RowsServed, ServedUpTo, HandedOver, NoNoticeSkipped
  <1> QED BY <1>1, InHandInit, InHandNext, PTL DEF Spec

-----------------------------------------------------------------------------
(* Tasks are single-shot, with any number of workers.                      *)

At(j, t) == j.step = "handle" /\ j.task = t

(* The workers whose handler of a task has still to mail.                  *)
AtHandler(jobs, t) == {w \in Workers : At(jobs[w], t)}

NobodyRuns(jobs, t) == \A w \in Workers : ~(jobs[w].step \in Handling /\ jobs[w].task = t)

(* The mails of a task and those still to come were each paid for, but     *)
(* one; and all of them, where the row is open and nobody is at it.        *)
PaidFor(row, jobs, t) ==
    /\ row.sent + Cardinality(AtHandler(jobs, t)) <= 1 + row.lost + row.twice
    /\ row.executed = FALSE /\ NobodyRuns(jobs, t) => row.sent <= row.lost + row.twice

Shots == \A t \in DOMAIN tasks : PaidFor(tasks[t], job, t)

LEMMA AtHandlerFinite ==
  ASSUME NEW jobs, NEW t
  PROVE  IsFiniteSet(AtHandler(jobs, t)) /\ Cardinality(AtHandler(jobs, t)) \in Nat
  <1>1. AtHandler(jobs, t) \subseteq Workers
    BY DEF AtHandler
  <1>2. IsFiniteSet(AtHandler(jobs, t))
    BY <1>1, WorkersAssumption, FS_Subset
  <1> QED BY <1>2, FS_CardinalityType

(* What one worker's step makes of their number.                           *)
LEMMA AtHandlerMoves ==
  ASSUME NEW jobs, NEW later, NEW w \in Workers, NEW t, \A v \in Workers \ {w} : later[v] = jobs[v]
  PROVE  /\ Cardinality(AtHandler(later, t)) <= Cardinality(AtHandler(jobs, t)) + 1
         /\ At(jobs[w], t) \/ ~At(later[w], t) =>
               Cardinality(AtHandler(later, t)) <= Cardinality(AtHandler(jobs, t))
         /\ At(jobs[w], t) /\ ~At(later[w], t) =>
               Cardinality(AtHandler(later, t)) + 1 <= Cardinality(AtHandler(jobs, t))
  <1> DEFINE H == AtHandler(jobs, t)
             L == AtHandler(later, t)
  <1>1. /\ L \subseteq H \cup {w}
        /\ At(jobs[w], t) \/ ~At(later[w], t) => L \subseteq H
        /\ At(jobs[w], t) /\ ~At(later[w], t) => w \in H /\ L \subseteq H \ {w}
    BY DEF AtHandler
  <1>2. IsFiniteSet(H) /\ Cardinality(H) \in Nat /\ Cardinality(L) \in Nat
    BY AtHandlerFinite
  <1> HIDE DEF H, L
  <1>3. IsFiniteSet(H \cup {w}) /\ Cardinality(H \cup {w}) <= Cardinality(H) + 1
    <2>1. /\ IsFiniteSet(H \cup {w})
          /\ Cardinality(H \cup {w}) = IF w \in H THEN Cardinality(H) ELSE Cardinality(H) + 1
      BY <1>2, FS_AddElement
    <2> QED BY <1>2, <2>1
  <1>4. IsFiniteSet(H \ {w}) /\ (w \in H => Cardinality(H \ {w}) = Cardinality(H) - 1)
    BY <1>2, FS_RemoveElement
  <1>5. /\ Cardinality(H \cup {w}) \in Nat /\ Cardinality(H \ {w}) \in Nat
        /\ L \subseteq H \cup {w} => Cardinality(L) <= Cardinality(H \cup {w})
        /\ L \subseteq H => Cardinality(L) <= Cardinality(H)
        /\ L \subseteq H \ {w} => Cardinality(L) <= Cardinality(H \ {w})
    BY <1>2, <1>3, <1>4, FS_Subset, FS_CardinalityType
  <1>6. Cardinality(L) <= Cardinality(H) + 1
    BY <1>1, <1>2, <1>3, <1>5
  <1>7. At(jobs[w], t) /\ ~At(later[w], t) => Cardinality(L) + 1 <= Cardinality(H)
    BY <1>1, <1>2, <1>4, <1>5
  <1> QED BY <1>1, <1>5, <1>6, <1>7 DEF H, L

(* A step that leaves the rows there are as they are, and whose workers    *)
(* neither are at a task nor come to one.                                  *)
LEMMA ShotsKept ==
  ASSUME TypeOK, Shots,
         \A t \in DOMAIN tasks : t \in DOMAIN tasks' /\ tasks'[t] = tasks[t],
         \A t \in DOMAIN tasks' \ DOMAIN tasks :
            tasks'[t].sent = 0 /\ tasks'[t].lost = 0 /\ tasks'[t].twice = 0,
         \A w \in Workers : job'[w] = job[w] \/ (job[w].step \notin Handling /\ job'[w].step \notin Handling)
  PROVE  Shots'
  <1>1. ASSUME NEW t \in DOMAIN tasks
        PROVE  PaidFor(tasks'[t], job', t)
    <2>1. \A w \in Workers : At(job'[w], t) <=> At(job[w], t)
      BY DEF At, Handling
    <2>2. AtHandler(job', t) = AtHandler(job, t)
      BY <2>1 DEF AtHandler
    <2>3. NobodyRuns(job', t) => NobodyRuns(job, t)
      BY DEF NobodyRuns
    <2>4. tasks'[t] = tasks[t] /\ PaidFor(tasks[t], job, t)
      BY DEF Shots
    <2> QED BY <2>2, <2>3, <2>4 DEF PaidFor
  <1>2. ASSUME NEW t \in DOMAIN tasks' \ DOMAIN tasks
        PROVE  PaidFor(tasks'[t], job', t)
    <2>1. \A w \in Workers : job[w].step \in Handling => job[w].task # t
      BY JobFacts DEF JobOK
    <2>2. \A w \in Workers : ~At(job'[w], t)
      BY <2>1 DEF At, Handling
    <2>3. AtHandler(job', t) = {}
      BY <2>2 DEF AtHandler
    <2>4. Cardinality(AtHandler(job', t)) = 0
      BY <2>3, FS_EmptySet
    <2>5. tasks'[t].sent = 0 /\ tasks'[t].lost = 0 /\ tasks'[t].twice = 0
      OBVIOUS
    <2> QED BY <2>4, <2>5 DEF PaidFor
  <1> QED BY <1>1, <1>2 DEF Shots

(* A new row has mailed nobody.                                            *)
LEMMA NewTask ==
  ASSUME BrokerOK, NEW e \in Events, NEW m \in Modes, tasks' = Append(tasks, Task(e, m))
  PROVE  /\ \A t \in DOMAIN tasks : t \in DOMAIN tasks' /\ tasks'[t] = tasks[t]
         /\ \A t \in DOMAIN tasks' \ DOMAIN tasks :
               tasks'[t].sent = 0 /\ tasks'[t].lost = 0 /\ tasks'[t].twice = 0
  <1>1. /\ Len(tasks) \in Nat
        /\ DOMAIN tasks = 1..Len(tasks) /\ DOMAIN tasks' = 1..(Len(tasks) + 1)
        /\ tasks'[Len(tasks) + 1] = Task(e, m)
        /\ \A t \in DOMAIN tasks : tasks'[t] = tasks[t]
    BY TaskCreated
  <1>2. \A t \in DOMAIN tasks' \ DOMAIN tasks : t = Len(tasks) + 1
    BY <1>1
  <1> QED BY <1>1, <1>2 DEF Task

(* The loop leaves a worker at no task.                                    *)
LEMMA LoopOnLeaves ==
  ASSUME NEW w \in Workers, NEW j \in Jobs, LoopOn(w, j)
  PROVE  \E i : Continue(w, i) /\ i.step \notin Handling
  <1>1. CASE j.todo # {}
    <2>1. PICK e \in j.todo :
            Continue(w, [j EXCEPT !.event = e, !.todo = @ \ {e}, !.next = 1, !.was_public = FALSE,
                                  !.step = CASE j.stage = FEEDBACK -> "mail"
                                             [] j.stage = STATE_PRESENTATION_UPDATE -> "pre_save"
                                             [] OTHER -> "create"])
      BY <1>1 DEF LoopOn
    <2> DEFINE s == CASE j.stage = FEEDBACK -> "mail"
                      [] j.stage = STATE_PRESENTATION_UPDATE -> "pre_save"
                      [] OTHER -> "create"
               i == [j EXCEPT !.event = e, !.todo = @ \ {e}, !.next = 1, !.was_public = FALSE, !.step = s]
    <2>2. s \notin Handling
      BY DEF FEEDBACK, STATE_PRESENTATION_UPDATE, Handling
    <2>3. i.step = s
      BY DEF Jobs
    <2>4. Continue(w, i)
      BY <2>1
    <2> HIDE DEF i, s
    <2> QED BY <2>2, <2>3, <2>4
  <1>2. CASE j.todo = {}
    <2> DEFINE i == [IdleJob EXCEPT !.step = "query", !.stage = j.stage + 1, !.now = j.now]
    <2>1. Continue(w, i) \/ Continue(w, IdleJob)
      BY <1>2 DEF LoopOn
    <2>2. i.step \notin Handling /\ IdleJob.step \notin Handling
      BY DEF IdleJob, Handling
    <2> HIDE DEF i
    <2> QED BY <2>1, <2>2
  <1> QED BY <1>1, <1>2

(* A step of one worker that is at task s, or comes to it, or leaves it.   *)
LEMMA ShotsAtTask ==
  ASSUME TypeOK, Shots, NEW w \in Workers, NEW s \in DOMAIN tasks, NEW r \in TaskRows,
         tasks' = [tasks EXCEPT ![s] = r], NEW j, Continue(w, j),
         job[w].step \in Handling => job[w].task = s,
         j.step \in Handling => j.task = s,
         r.sent + Cardinality(AtHandler(job', s)) <= 1 + r.lost + r.twice,
         r.executed = FALSE /\ NobodyRuns(job', s) => r.sent <= r.lost + r.twice
  PROVE  Shots'
  <1>1. BrokerOK
    BY TypeParts
  <1>2. DOMAIN tasks' = DOMAIN tasks /\ \A t \in DOMAIN tasks : tasks'[t] = IF t = s THEN r ELSE tasks[t]
    BY <1>1, TaskUpdated
  <1>3. job'[w] = j /\ \A v \in Workers \ {w} : job'[v] = job[v]
    BY ContinueJobs
  <1>4. ASSUME NEW t \in DOMAIN tasks, t # s
        PROVE  PaidFor(tasks[t], job', t)
    <2>1. \A v \in Workers : At(job'[v], t) <=> At(job[v], t)
      BY <1>3, <1>4 DEF At, Handling
    <2>2. AtHandler(job', t) = AtHandler(job, t)
      BY <2>1 DEF AtHandler
    <2>3. NobodyRuns(job', t) => NobodyRuns(job, t)
      BY <1>3, <1>4 DEF NobodyRuns
    <2>4. PaidFor(tasks[t], job, t)
      BY DEF Shots
    <2> QED BY <2>2, <2>3, <2>4 DEF PaidFor
  <1>5. PaidFor(r, job', s)
    BY DEF PaidFor
  <1>6. \A t \in DOMAIN tasks' : PaidFor(tasks'[t], job', t)
    BY <1>2, <1>4, <1>5
  <1> QED BY <1>6 DEF Shots

(* A run of a handler begins.                                              *)
LEMMA ShotsStart ==
  ASSUME TypeOK, Shots, NEW w \in Workers, TaskStart(w)
  PROVE  Shots'
  <1>1. BrokerOK /\ queue # <<>> /\ queue' = Tail(queue) /\ job[w].step = "idle"
    BY TypeParts DEF TaskStart, TakeMessage
  <1>2. PICK s : s = Head(queue)
    OBVIOUS
  <1>3. s \in DOMAIN tasks /\ tasks[s] \in TaskRows
    BY <1>1, <1>2, HeadOfQueue, RowOfTask
  <1>4. PICK r : r = Begun(s)
    OBVIOUS
  <1>5. PICK j : j = [IdleJob EXCEPT !.step = "handle", !.task = s]
    OBVIOUS
  <1>6. j.step = "handle" /\ j.task = s
    BY <1>5 DEF IdleJob
  <1>7. tasks' = [tasks EXCEPT ![s] = r] /\ Continue(w, j) /\ ~tasks[s].executed
    BY <1>2, <1>4, <1>5 DEF TaskStart
  <1>8. r \in TaskRows
    BY <1>3, <1>4, BegunType
  <1> DEFINE c == Cardinality(AtHandler(job, s))
             d == Cardinality(AtHandler(job', s))
  <1>9. job'[w] = j /\ \A v \in Workers \ {w} : job'[v] = job[v]
    BY <1>7, ContinueJobs
  <1>10. c \in Nat /\ d \in Nat /\ d <= c + 1
    BY <1>9, AtHandlerFinite, AtHandlerMoves
  <1>11. /\ tasks[s].sent + c <= 1 + tasks[s].lost + tasks[s].twice
         /\ NobodyRuns(job, s) => tasks[s].sent <= tasks[s].lost + tasks[s].twice
    <2>1. PaidFor(tasks[s], job, s)
      BY <1>3 DEF Shots
    <2>2. tasks[s].executed = FALSE
      BY <1>3, <1>7 DEF TaskRows
    <2> QED BY <2>1, <2>2 DEF PaidFor
  <1>12. tasks[s].sent \in Nat /\ tasks[s].lost \in Nat /\ tasks[s].twice \in Nat
    BY <1>3 DEF TaskRows
  <1> HIDE DEF c, d
  <1>13. r.sent + d <= 1 + r.lost + r.twice
    <2>1. CASE \E v \in Workers : Running(v, s)
      <3>1. r = [tasks[s] EXCEPT !.twice = @ + 1]
        BY <1>4, <2>1 DEF Begun
      <3>2. r.sent = tasks[s].sent /\ r.lost = tasks[s].lost /\ r.twice = tasks[s].twice + 1
        BY <1>3, <3>1 DEF TaskRows
      <3> QED BY <1>10, <1>11, <1>12, <3>2
    <2>2. CASE ~\E v \in Workers : Running(v, s)
      <3>1. r = tasks[s]
        BY <1>4, <2>2 DEF Begun
      <3>2. NobodyRuns(job, s)
        BY <2>2 DEF NobodyRuns, Running
      <3>3. AtHandler(job, s) = {}
        BY <3>2 DEF NobodyRuns, AtHandler, At, Handling
      <3>4. c = 0
        BY <3>3, FS_EmptySet DEF c
      <3> QED BY <1>10, <1>11, <1>12, <3>1, <3>2, <3>4
    <2> QED BY <2>1, <2>2
  <1>14. ~NobodyRuns(job', s)
    BY <1>6, <1>9 DEF NobodyRuns, Handling
  <1>15. job[w].step \notin Handling
    BY <1>1 DEF Handling
  <1> QED BY <1>3, <1>6, <1>7, <1>8, <1>13, <1>14, <1>15, ShotsAtTask DEF d

(* A run of a handler that mails and goes on, or is ended.                 *)
LEMMA ShotsRun ==
  ASSUME TypeOK, Shots, NEW w \in Workers, NEW s, s = job[w].task, job[w].step \in Handling,
         NEW r \in TaskRows, tasks' = [tasks EXCEPT ![s] = r], NEW j, Continue(w, j), j.step # "handle",
         j.step = "mark" => j.task = s,
         r.sent = tasks[s].sent \/ (r.sent = tasks[s].sent + 1 /\ job[w].step = "handle"),
         \/ r.lost = tasks[s].lost /\ (j.step = "mark" \/ r.executed = TRUE)
         \/ r.lost = tasks[s].lost + 1,
         r.twice = tasks[s].twice
  PROVE  Shots'
  <1>1. s \in DOMAIN tasks /\ tasks[s] \in TaskRows
    BY JobFacts, RowOfTask, TypeParts DEF JobOK
  <1> DEFINE c == Cardinality(AtHandler(job, s))
             d == Cardinality(AtHandler(job', s))
  <1>2. job'[w] = j /\ \A v \in Workers \ {w} : job'[v] = job[v]
    BY ContinueJobs
  <1>3. c \in Nat /\ d \in Nat
    BY AtHandlerFinite
  <1>4. ~At(job'[w], s)
    BY <1>2 DEF At
  <1>5. d <= c /\ (job[w].step = "handle" => d + 1 <= c)
    BY <1>2, <1>4, AtHandlerMoves DEF At
  <1>6. tasks[s].sent + c <= 1 + tasks[s].lost + tasks[s].twice
    BY <1>1 DEF Shots, PaidFor
  <1>7. tasks[s].sent \in Nat /\ tasks[s].lost \in Nat /\ tasks[s].twice \in Nat
    BY <1>1 DEF TaskRows
  <1>8. NobodyRuns(job', s) => j.step # "mark" /\ d = 0
    <2>1. NobodyRuns(job', s) => j.step # "mark"
      BY <1>2 DEF NobodyRuns, Handling
    <2>2. NobodyRuns(job', s) => AtHandler(job', s) = {}
      BY DEF NobodyRuns, AtHandler, At, Handling
    <2> QED BY <2>1, <2>2, FS_EmptySet
  <1>9. j.step \in Handling => j.task = s
    BY DEF Handling
  <1> HIDE DEF c, d
  <1>10. r.sent + d <= 1 + r.lost + r.twice
    BY <1>3, <1>5, <1>6, <1>7
  <1>11. r.executed = FALSE /\ NobodyRuns(job', s) => r.sent <= r.lost + r.twice
    <2> SUFFICES ASSUME r.executed = FALSE, NobodyRuns(job', s) PROVE r.sent <= r.lost + r.twice
      OBVIOUS
    <2>1. r.lost = tasks[s].lost + 1
      BY <1>8
    <2> QED BY <1>3, <1>5, <1>6, <1>7, <2>1
  <1> QED BY <1>1, <1>9, <1>10, <1>11, ShotsAtTask DEF d

(* By every step,                                                          *)
LEMMA ShotsNext == TypeOK /\ Shots /\ [Next]_vars => Shots'
  <1> SUFFICES ASSUME TypeOK, Shots, [Next]_vars PROVE Shots'
    OBVIOUS
  <1>0. BrokerOK /\ tasks \in Seq(TaskRows)
    BY TypeParts DEF TypeOK, BrokerOK
  <1>1. ASSUME NEW w \in Workers, TaskHandle(w)
        PROVE  Shots'
    <2>1. PICK s : s = job[w].task
      OBVIOUS
    <2>2. PICK j : j = [job[w] EXCEPT !.step = "mark"]
      OBVIOUS
    <2>3. job[w].step = "handle" /\ job[w] \in Jobs /\ s \in DOMAIN tasks /\ tasks[s] \in TaskRows
      BY <1>0, <1>1, <2>1, JobFacts, RowOfTask DEF TaskHandle, JobOK, Handling
    <2>4. j.step = "mark" /\ j.task = s
      BY <2>1, <2>2, <2>3 DEF Jobs
    <2> DEFINE r == [tasks[s] EXCEPT !.sent = @ + 1]
    <2>5. /\ r \in TaskRows /\ r.sent = tasks[s].sent + 1 /\ r.lost = tasks[s].lost
          /\ r.twice = tasks[s].twice
      BY <2>3 DEF TaskRows
    <2>6. tasks' = [tasks EXCEPT ![s] = r] /\ Continue(w, j)
      BY <1>1, <2>1, <2>2 DEF TaskHandle
    <2>7. job[w].step \in Handling
      BY <2>3 DEF Handling
    <2> HIDE DEF r
    <2> QED BY <2>1, <2>3, <2>4, <2>5, <2>6, <2>7, ShotsRun
  <1>2. ASSUME NEW w \in Workers, TaskMark(w)
        PROVE  Shots'
    <2>1. PICK s : s = job[w].task
      OBVIOUS
    <2>2. job[w].step \in Handling /\ s \in DOMAIN tasks /\ tasks[s] \in TaskRows
      BY <1>0, <1>2, <2>1, JobFacts, RowOfTask DEF TaskMark, JobOK, Handling
    <2> DEFINE r == [tasks[s] EXCEPT !.executed = TRUE]
    <2>3. /\ r \in TaskRows /\ r.sent = tasks[s].sent /\ r.lost = tasks[s].lost
          /\ r.twice = tasks[s].twice /\ r.executed = TRUE
      BY <2>2 DEF TaskRows
    <2>4. PICK j : j = IdleJob
      OBVIOUS
    <2>5. tasks' = [tasks EXCEPT ![s] = r] /\ Continue(w, j)
      BY <1>2, <2>1, <2>4 DEF TaskMark
    <2>6. j.step # "handle" /\ j.step # "mark"
      BY <2>4 DEF IdleJob
    <2> HIDE DEF r
    <2> QED BY <2>1, <2>2, <2>3, <2>5, <2>6, ShotsRun
  <1>3. ASSUME NEW w \in Workers, TaskFail(w) \/ (Crash(w) /\ job[w].step \in Handling)
        PROVE  Shots'
    <2>1. PICK s : s = job[w].task
      OBVIOUS
    <2>2. job[w].step \in Handling /\ s \in DOMAIN tasks /\ tasks[s] \in TaskRows
      BY <1>0, <1>3, <2>1, JobFacts, RowOfTask DEF TaskFail, JobOK, Handling
    <2>3. PICK n \in {0, 1} : /\ tasks' = [tasks EXCEPT ![s] = CutShort(tasks[s], n)]
                              /\ n = 1 => job[w].step = "handle"
      <3>1. CASE TaskFail(w)
        <4>1. PICK n \in {0, 1} : tasks' = [tasks EXCEPT ![s] = CutShort(@, n)]
          BY <2>1, <3>1 DEF TaskFail
        <4> QED BY <3>1, <4>1 DEF TaskFail
      <3>2. CASE Crash(w) /\ job[w].step \in Handling
        BY <2>1, <3>2 DEF Crash
      <3> QED BY <1>3, <3>1, <3>2
    <2> DEFINE r == CutShort(tasks[s], n)
    <2>4. r.sent = tasks[s].sent + n /\ r.lost = tasks[s].lost + 1 /\ r.twice = tasks[s].twice
      BY <2>2 DEF TaskRows, CutShort
    <2>5. r \in TaskRows
      BY <2>2, CutShortType
    <2>6. PICK j : j = IdleJob
      OBVIOUS
    <2>7. tasks' = [tasks EXCEPT ![s] = r] /\ Continue(w, j)
      BY <1>3, <2>3, <2>6 DEF TaskFail, Crash
    <2>8. j.step # "handle" /\ j.step # "mark"
      BY <2>6 DEF IdleJob
    <2> HIDE DEF r
    <2>9. r.sent = tasks[s].sent \/ (r.sent = tasks[s].sent + 1 /\ job[w].step = "handle")
      <3>1. tasks[s].sent \in Nat
        BY <2>2 DEF TaskRows
      <3> QED BY <2>3, <2>4, <3>1
    <2> QED BY <2>1, <2>2, <2>4, <2>5, <2>7, <2>8, <2>9, ShotsRun
  <1>4. ASSUME NEW w \in Workers, job[w].step \notin Handling, tasks' = tasks,
               NEW j, Continue(w, j), j.step \notin Handling
        PROVE  Shots'
    <2>1. job'[w] = j /\ \A v \in Workers \ {w} : job'[v] = job[v]
      BY <1>4, ContinueJobs
    <2>2. \A v \in Workers : job'[v] = job[v] \/ (job[v].step \notin Handling /\ job'[v].step \notin Handling)
      BY <1>4, <2>1
    <2>3. /\ \A t \in DOMAIN tasks : t \in DOMAIN tasks' /\ tasks'[t] = tasks[t]
          /\ \A t \in DOMAIN tasks' \ DOMAIN tasks :
                tasks'[t].sent = 0 /\ tasks'[t].lost = 0 /\ tasks'[t].twice = 0
      BY <1>4
    <2> QED BY <2>2, <2>3, ShotsKept
  <1>5. ASSUME NEW w \in Workers,
               \/ DispatchStart(w) \/ FeedbackStart(w) \/ (Crash(w) /\ job[w].step \notin Handling)
        PROVE  Shots'
    <2>1. \E j : Continue(w, j) /\ j.step \notin Handling
      <3>1. CASE DispatchStart(w) \/ FeedbackStart(w)
        <4>1. PICK l : SweepStart(w, l)
          BY <3>1 DEF DispatchStart, FeedbackStart
        <4>2. PICK j : j = [IdleJob EXCEPT !.step = "query", !.stage = l, !.now = time]
          OBVIOUS
        <4>3. Continue(w, j)
          BY <4>1, <4>2 DEF SweepStart
        <4>4. j.step \notin Handling
          BY <4>2 DEF IdleJob, Handling
        <4> QED BY <4>3, <4>4
      <3>2. CASE Crash(w)
        <4>1. IdleJob.step \notin Handling
          BY DEF IdleJob, Handling
        <4>2. Continue(w, IdleJob)
          BY <3>2 DEF Crash
        <4> QED BY <4>1, <4>2
      <3> QED BY <1>5, <3>1, <3>2
    <2>2. tasks' = tasks /\ job[w].step \notin Handling
      BY <1>5 DEF DispatchStart, FeedbackStart, SweepStart, Crash, Handling, broker
    <2>3. PICK j : Continue(w, j) /\ j.step \notin Handling
      BY <2>1
    <2> QED BY <1>4, <2>2, <2>3
  <1>6. ASSUME NEW w \in Workers,
               \/ SweepQuery(w) \/ SweepSave(w) \/ SweepEmit(w)
               \/ SweepDelay(w) \/ FeedbackMail(w) \/ SweepPreSave(w)
        PROVE  Shots'
    <2>1. tasks' = tasks /\ job[w].step \notin Handling /\ job[w] \in Jobs
      BY <1>6, JobFacts DEF SweepQuery, SweepSave, SweepEmit, SweepDelay, FeedbackMail, SweepPreSave, Handling, broker
    <2>2. \E j : Continue(w, j) /\ j.step \notin Handling
      <3>1. CASE SweepSave(w) \/ SweepEmit(w)
        <4> DEFINE j == [job[w] EXCEPT !.step = "emit"]
        <4>1. LoopOn(w, job[w]) \/ Continue(w, j)
          BY <3>1 DEF SweepSave, SweepEmit
        <4>2. j.step \notin Handling
          BY <2>1 DEF Jobs, Handling
        <4> HIDE DEF j
        <4> QED BY <2>1, <4>1, <4>2, LoopOnLeaves
      <3>2. CASE SweepQuery(w)
        <4> DEFINE j == [job[w] EXCEPT !.todo = Matching(job[w].stage, job[w].now)]
        <4>1. LoopOn(w, j)
          BY <3>2 DEF SweepQuery
        <4>2. j \in Jobs
          BY <2>1 DEF Jobs, Matching, TypeOK
        <4> HIDE DEF j
        <4> QED BY <4>1, <4>2, LoopOnLeaves
      <3>3. CASE SweepDelay(w)
        <4> DEFINE i == [job[w] EXCEPT !.step = "create", !.next = @ + 1, !.task = 0]
                   j == [job[w] EXCEPT !.step = "pre_save", !.task = 0]
        <4>1. Continue(w, i) \/ Continue(w, j)
          BY <3>3 DEF SweepDelay
        <4>2. i.step \notin Handling /\ j.step \notin Handling
          BY <2>1 DEF Jobs, Handling
        <4> HIDE DEF i, j
        <4> QED BY <4>1, <4>2
      <3>4. CASE FeedbackMail(w)
        <4> DEFINE j == [job[w] EXCEPT !.step = "pre_save"]
        <4>1. Continue(w, j)
          BY <3>4 DEF FeedbackMail
        <4>2. j.step \notin Handling
          BY <2>1 DEF Jobs, Handling
        <4> HIDE DEF j
        <4> QED BY <4>1, <4>2
      <3>5. CASE SweepPreSave(w)
        <4> DEFINE j == [job[w] EXCEPT !.step = "save", !.was_public = event[job[w].event].public]
        <4>1. Continue(w, j)
          BY <3>5 DEF SweepPreSave
        <4>2. j.step \notin Handling
          BY <2>1 DEF Jobs, Handling
        <4> HIDE DEF j
        <4> QED BY <4>1, <4>2
      <3> QED BY <1>6, <3>1, <3>2, <3>3, <3>4, <3>5
    <2>3. PICK j : Continue(w, j) /\ j.step \notin Handling
      BY <2>2
    <2> QED BY <1>4, <2>1, <2>3
  <1>7. ASSUME NEW w \in Workers, SweepCreate(w)
        PROVE  Shots'
    <2>1. PICK j : j = [job[w] EXCEPT !.step = "delay", !.task = Len(tasks) + 1]
      OBVIOUS
    <2>2. Continue(w, j) /\ job[w].step = "create" /\ job[w] \in Jobs
      BY <1>7, <2>1, JobFacts DEF SweepCreate
    <2>3. j.step \notin Handling /\ job[w].step \notin Handling
      BY <2>1, <2>2 DEF Jobs, Handling
    <2> DEFINE e == job[w].event
               m == Fires(job[w].stage)[job[w].next]
    <2>4. e \in Events /\ m \in Modes /\ tasks' = Append(tasks, Task(e, m))
      <3>1. /\ job[w].event \in Events /\ job[w].stage \in Stages /\ job[w].stage # FEEDBACK
            /\ job[w].next \in DOMAIN Fires(job[w].stage)
        BY <1>7, JobFacts DEF SweepCreate, JobOK, Serving
      <3> QED BY <1>7, <3>1, FiresType DEF SweepCreate
    <2> HIDE DEF e, m
    <2>5. /\ \A t \in DOMAIN tasks : t \in DOMAIN tasks' /\ tasks'[t] = tasks[t]
          /\ \A t \in DOMAIN tasks' \ DOMAIN tasks :
                tasks'[t].sent = 0 /\ tasks'[t].lost = 0 /\ tasks'[t].twice = 0
      BY <1>0, <2>4, NewTask
    <2>6. job'[w] = j /\ \A v \in Workers \ {w} : job'[v] = job[v]
      BY <2>2, ContinueJobs
    <2>7. \A v \in Workers : job'[v] = job[v] \/ (job[v].step \notin Handling /\ job'[v].step \notin Handling)
      BY <2>3, <2>6
    <2> QED BY <2>5, <2>7, ShotsKept
  <1>8. ASSUME job' = job, tasks' = tasks
        PROVE  Shots'
    BY <1>8 DEF Shots
  <1>9. ASSUME NEW p \in Processes, NEW f \in Events, EventNew(p, f)
        PROVE  Shots'
    <2>1. tasks' = Append(tasks, Task(f, "AdminOnCreate")) /\ "AdminOnCreate" \in Modes /\ job' = job
      BY <1>9 DEF EventNew, Modes
    <2>2. /\ \A t \in DOMAIN tasks : t \in DOMAIN tasks' /\ tasks'[t] = tasks[t]
          /\ \A t \in DOMAIN tasks' \ DOMAIN tasks :
                tasks'[t].sent = 0 /\ tasks'[t].lost = 0 /\ tasks'[t].twice = 0
      BY <1>0, <2>1, NewTask
    <2>3. \A v \in Workers : job'[v] = job[v]
      BY <2>1
    <2> QED BY <2>2, <2>3, ShotsKept
  <1>10. ASSUME NEW p \in Processes, NEW f \in Events,
                \/ EditStart(p, f) \/ PublishStart(p, f) \/ ArchiveStart(p, f)
                \/ \E d \in BOOLEAN : SetDeleted(p, f, d)
         PROVE  Shots'
    BY <1>8, <1>10 DEF EditStart, PublishStart, ArchiveStart, Load, SetDeleted, broker
  <1>11. ASSUME \/ Tick \/ (\E p \in Processes : PreSave(p) \/ Save(p) \/ EmitPublished(p))
                \/ \E w \in Workers : TaskSkip(w)
         PROVE  Shots'
    BY <1>8, <1>11 DEF Tick, PreSave, Save, EmitPublished, TaskSkip, broker
  <1>12. ASSUME NEW t \in DOMAIN tasks, Redeliver(t)
         PROVE  Shots'
    BY <1>8, <1>12 DEF Redeliver
  <1>13. CASE UNCHANGED vars
    BY <1>8, <1>13 DEF vars, broker
  <1>14. CASE \E w \in Workers :
                 \/ DispatchStart(w) \/ FeedbackStart(w) \/ SweepStep(w) \/ TaskStep(w)
                 \/ TaskStart(w) \/ TaskSkip(w) \/ TaskFail(w) \/ Crash(w)
    BY <1>1, <1>2, <1>3, <1>5, <1>6, <1>7, <1>11, <1>14, ShotsStart DEF SweepStep, TaskStep
  <1> QED BY <1>9, <1>10, <1>11, <1>12, <1>13, <1>14 DEF Next

(* However often the broker hands out a message, and however many workers  *)
(* take it: every mail of a task but one is paid for by a run of it that   *)
(* was cut short or that began while another was under way.                *)
THEOREM TasksAreSingleShot == Spec => []SingleShot
  <1>1. Init => Shots
    BY DEF Init, Shots
  <1>2. TypeOK /\ Shots /\ [Next]_vars => Shots'
    BY ShotsNext
  <1>3. TypeOK /\ Shots => SingleShot
    <2> SUFFICES ASSUME TypeOK, Shots, NEW t \in DOMAIN tasks
                 PROVE  tasks[t].sent <= 1 + tasks[t].lost + tasks[t].twice
      BY DEF SingleShot
    <2>1. tasks[t] \in TaskRows
      BY RowOfTask, TypeParts
    <2>2. tasks[t].sent \in Nat /\ tasks[t].lost \in Nat /\ tasks[t].twice \in Nat
      BY <2>1 DEF TaskRows
    <2>3. tasks[t].sent + Cardinality(AtHandler(job, t)) <= 1 + tasks[t].lost + tasks[t].twice
      BY DEF Shots, PaidFor
    <2> QED BY <2>2, <2>3, AtHandlerFinite
  <1> QED BY <1>1, <1>2, <1>3, NotificationsTypeCorrect, PTL DEF Spec

-----------------------------------------------------------------------------
(* An archived event stays archived, where one web process serves.         *)

OneProcess == \A p, q \in Processes : p = q

(* A save whose event is archived was loaded so: it has been since then.   *)
Loaded ==
    \A p \in Processes :
        request[p].step # "idle" => (event[request[p].event].deleted => request[p].copy.deleted)

(* What a process loads is as archived as the row, or more.                *)
LEMMA LoadsDeleted ==
  ASSUME TypeOK, NEW p \in Processes, NEW e \in Events,
         EditStart(p, e) \/ PublishStart(p, e) \/ ArchiveStart(p, e)
  PROVE  /\ event' = event
         /\ request'[p].event = e /\ (event[e].deleted => request'[p].copy.deleted)
  <1>1. event[e] \in Rows /\ request \in [Processes -> Copies]
    BY DEF TypeOK
  <1>2. PICK copy, all : Load(p, e, copy, all) /\ (event[e].deleted => copy.deleted)
    <2>1. CASE EditStart(p, e)
      <3>1. PICK form \in Forms : Load(p, e, Filled(event[e], form), TRUE)
        BY <2>1 DEF EditStart
      <3>2. Filled(event[e], form).deleted = event[e].deleted
        BY <1>1 DEF Filled, Rows
      <3> QED BY <3>1, <3>2
    <2>2. CASE PublishStart(p, e)
      <3> DEFINE c == [event[e] EXCEPT !.public = ~@]
      <3>1. c.deleted = event[e].deleted
        BY <1>1 DEF Rows
      <3>2. Load(p, e, c, TRUE)
        BY <2>2 DEF PublishStart
      <3> HIDE DEF c
      <3> QED BY <3>1, <3>2
    <2>3. CASE ArchiveStart(p, e)
      <3> DEFINE c == [event[e] EXCEPT !.deleted = TRUE]
      <3>1. c.deleted
        BY <1>1 DEF Rows
      <3>2. Load(p, e, c, FALSE)
        BY <2>3 DEF ArchiveStart
      <3> HIDE DEF c
      <3> QED BY <3>1, <3>2
    <2> QED BY <2>1, <2>2, <2>3
  <1>3. request'[p] = [IdleRequest EXCEPT !.step = "pre_save", !.event = e, !.copy = copy, !.all = all]
    BY <1>1, <1>2 DEF Load
  <1>4. request'[p].event = e /\ request'[p].copy = copy
    BY <1>3 DEF IdleRequest
  <1> QED BY <1>2, <1>4 DEF Load, database

(* The steps that read or write a request's copy, one process serving.     *)
LEMMA LoadedNext ==
  ASSUME OneProcess
  PROVE  TypeOK /\ Loaded /\ [Next]_vars => Loaded'
  <1> SUFFICES ASSUME TypeOK, Loaded, [Next]_vars, NEW p \in Processes, request'[p].step # "idle",
                      event'[request'[p].event].deleted
               PROVE  request'[p].copy.deleted
    BY DEF Loaded
  <1>0. /\ event \in [Events -> Rows] /\ request \in [Processes -> Copies]
        /\ \A q \in Processes : q = p
    BY DEF TypeOK, OneProcess
  <1>1. CASE UNCHANGED <<event, request>>
    BY <1>1 DEF Loaded
  <1>2. ASSUME NEW e \in Events, EditStart(p, e) \/ PublishStart(p, e) \/ ArchiveStart(p, e)
        PROVE  request'[p].copy.deleted
    BY <1>2, LoadsDeleted
  <1>3. CASE PreSave(p)
    <2>1. /\ event' = event /\ request[p].step = "pre_save"
          /\ request'[p].event = request[p].event /\ request'[p].copy = request[p].copy
      BY <1>0, <1>3 DEF PreSave, database, Copies
    <2> QED BY <2>1 DEF Loaded
  <1>10. ASSUME request'[p] = IdleRequest
         PROVE  FALSE
    BY <1>10 DEF IdleRequest
  <1>4. CASE Save(p)
    <2>1. request[p] \in Copies /\ request[p].event \in Events /\ request[p].copy \in Rows
      BY <1>0, <1>4 DEF Save, TypeOK, RequestOK
    <2>2. request'[p].event = request[p].event /\ request'[p].copy = request[p].copy
      BY <1>0, <1>4, <1>10, <2>1 DEF Save, Copies
    <2>3. PICK row : /\ event' = [event EXCEPT ![request[p].event] = row]
                     /\ row = IF request[p].all THEN request[p].copy
                              ELSE [event[request[p].event] EXCEPT !.deleted = request[p].copy.deleted]
      BY <1>4 DEF Save, SaveRow
    <2>4. row.deleted = request[p].copy.deleted
      BY <1>0, <2>1, <2>3 DEF Rows
    <2> QED BY <1>0, <2>1, <2>2, <2>3, <2>4
  <1>11. CASE EmitPublished(p)
    BY <1>0, <1>10, <1>11 DEF EmitPublished
  <1>5. ASSUME NEW w \in Workers, SweepSave(w)
        PROVE  request'[p].copy.deleted
    <2>1. request' = request /\ request[p].event \in Events
      BY <1>5 DEF SweepSave, TypeOK, RequestOK
    <2>2. job[w].event \in Events /\ job[w].stage \in Stages
      BY <1>5, JobFacts DEF SweepSave, JobOK, Serving
    <2>3. event' = [event EXCEPT ![job[w].event] = Marked(event[job[w].event], job[w].stage)]
      BY <1>5 DEF SweepSave, SaveRow
    <2>4. \A e \in Events : event'[e].deleted = event[e].deleted
      BY <1>0, <2>2, <2>3, MarkedType
    <2> QED BY <2>1, <2>4 DEF Loaded
  <1>6. ASSUME NEW q \in Processes, NEW e \in Events, EventNew(q, e) \/ \E d \in BOOLEAN : SetDeleted(q, e, d)
        PROVE  FALSE
    <2>1. request[p].step = "idle" /\ request' = request
      BY <1>0, <1>6 DEF EventNew, SetDeleted
    <2> QED BY <2>1
  <1>7. CASE Next /\ event' # event
    BY <1>0, <1>4, <1>5, <1>6, <1>7, EventWriters
  <1>8. CASE Next /\ request' # request
    BY <1>0, <1>2, <1>3, <1>4, <1>8, <1>11, Requesters
  <1>9. CASE UNCHANGED vars
    BY <1>1, <1>9 DEF vars, database
  <1> QED BY <1>1, <1>7, <1>8, <1>9

(* Where one web process serves, only an admin's restore brings an         *)
(* archived event back: no edit and no sweep does.                         *)
THEOREM ArchivedEventsStayArchived ==
  ASSUME OneProcess
  PROVE  Spec => ArchivedStaysArchived
  <1>1. Init => Loaded
    BY DEF Init, Loaded, IdleRequest
  <1>2. TypeOK /\ Loaded /\ [Next]_vars => Loaded'
    BY LoadedNext
  <1>3. TypeOK /\ Loaded /\ [Next]_vars
        => [\A e \in Events : event[e].deleted /\ ~event'[e].deleted
               => \E p \in Processes : SetDeleted(p, e, FALSE)]_vars
    <2> SUFFICES ASSUME TypeOK, Loaded, Next, NEW e \in Events, event[e].deleted, ~event'[e].deleted
                 PROVE  \E p \in Processes : SetDeleted(p, e, FALSE)
      OBVIOUS
    <2>0. event \in [Events -> Rows]
      BY DEF TypeOK
    <2>1. ASSUME NEW w \in Workers, SweepSave(w)
          PROVE  FALSE
      <3>1. job[w].event \in Events /\ job[w].stage \in Stages
        BY <2>1, JobFacts DEF SweepSave, JobOK, Serving
      <3>2. event' = [event EXCEPT ![job[w].event] = Marked(event[job[w].event], job[w].stage)]
        BY <2>1 DEF SweepSave, SaveRow
      <3>3. event'[e].deleted = event[e].deleted
        BY <2>0, <3>1, <3>2, MarkedType
      <3> QED BY <3>3
    <2>2. ASSUME NEW p \in Processes, Save(p)
          PROVE  FALSE
      <3>1. request[p].event \in Events /\ request[p].copy \in Rows
        BY <2>2 DEF Save, TypeOK, RequestOK
      <3>2. PICK row : /\ event' = [event EXCEPT ![request[p].event] = row]
                       /\ row = IF request[p].all THEN request[p].copy
                                ELSE [event[request[p].event] EXCEPT !.deleted = request[p].copy.deleted]
        BY <2>2 DEF Save, SaveRow
      <3>3. row.deleted = request[p].copy.deleted
        BY <2>0, <3>1, <3>2 DEF Rows
      <3>4. e = request[p].event /\ event'[e] = row
        BY <2>0, <3>1, <3>2
      <3> QED BY <2>2, <3>3, <3>4 DEF Loaded, Save
    <2>3. ASSUME NEW p \in Processes, NEW f \in Events, EventNew(p, f)
          PROVE  FALSE
      <3>1. PICK row : event' = [event EXCEPT ![f] = row]
        BY <2>3 DEF EventNew
      <3>2. e = f
        BY <2>0, <3>1
      <3>3. event[e] = DefaultRow
        BY <2>3, <3>2 DEF EventNew, TypeOK
      <3> QED BY <3>3 DEF DefaultRow
    <2>4. ASSUME NEW p \in Processes, NEW f \in Events, NEW d \in BOOLEAN, SetDeleted(p, f, d)
          PROVE  SetDeleted(p, e, FALSE)
      <3>1. event' = [event EXCEPT ![f].deleted = d]
        BY <2>4 DEF SetDeleted
      <3>2. e = f
        BY <2>0, <3>1
      <3>3. event'[e].deleted = d
        BY <2>0, <3>1, <3>2 DEF Rows
      <3> QED BY <2>4, <3>2, <3>3
    <2> QED BY <2>1, <2>2, <2>3, <2>4, EventWriters
  <1> QED BY <1>1, <1>2, <1>3, NotificationsTypeCorrect, PTL DEF Spec, ArchivedStaysArchived

=============================================================================

------------------------- MODULE EventNotifications -------------------------
(***************************************************************************)
(* The notices of events: the sweep that walks each public event through   *)
(* its notification states, the notification tasks it queues, the feedback *)
(* sweep, and the web requests that save the same rows                     *)
(* (apps/notifications/tasks.py, signals.py, apps/events/tasks.py,         *)
(* apps/leads/views.py).                                                   *)
(*                                                                         *)
(* Every ORM statement commits by itself.  Sweeps and tasks run in Celery  *)
(* workers that take messages from one broker queue; a message is          *)
(* acknowledged before its task runs, so a worker that dies loses it.      *)
(***************************************************************************)
EXTENDS Naturals, FiniteSets, Sequences

CONSTANTS
    Events,         \* the events
    Nothing,        \* "no event", in the memory of a worker or process
    Workers,        \* the Celery workers
    Processes,      \* the web processes
    Forms,          \* bound: what leads submit; the readiness flags and the start of the event
    MaxTime,        \* bound: the clock
    MaxRequests,    \* bound: the web requests that arrive
    MaxFaults       \* bound: crashes, failed handlers, redelivered messages, overlapping sweeps

ASSUME EventsAssumption == Nothing \notin Events
ASSUME WorkersAssumption == IsFiniteSet(Workers)
ASSUME FormsAssumption ==
    Forms \subseteq [ready_for_notifications: BOOLEAN, ready_for_reminders: BOOLEAN, start: Nat]
ASSUME BoundsAssumption == MaxTime \in Nat /\ MaxRequests \in Nat /\ MaxFaults \in Nat

VARIABLES
    created,    \* the events that have a row
    event,      \* their rows
    tasks,      \* the EventAutomaticNotificationTask rows, in order of creation
    queue,      \* the tasks named by the messages on the broker, a Redis list
    time,       \* timezone.now(), in units that separate the dates below
    job,        \* what each Celery worker is running
    request,    \* what each web process is serving
    requests,   \* the web requests so far
    faults,     \* the faults so far
    issued,     \* history: how often each notice of each event was started
    repeats,    \* history: how often a fault, a stale write or an overlap let a stage run again
    published   \* history: how often event.published was emitted

database == <<created, event>>
broker == <<tasks, queue>>
bounds == <<requests, faults>>
history == <<issued, repeats, published>>
vars == <<database, broker, time, job, request, bounds, history>>

-----------------------------------------------------------------------------
(* The rows.                                                               *)

STATE_INIT == 0
STATE_INITIAL_NOTIFICATIONS == 1
STATE_REMINDER1 == 2
STATE_REMINDER2 == 3
STATE_PRESENTATION_UPDATE == 4
STATE_FINISHED == 5

(* The part of a sweep that serves the events in one notification state is *)
(* named by that state; the feedback sweep is a part of its own.           *)
FEEDBACK == 6
Stages == STATE_INIT..STATE_PRESENTATION_UPDATE \cup {FEEDBACK}

Modes == {"Announcement", "SpeakerNotification", "EventReminder", "SpeakerReminder",
          "EventReminderFinal", "PresentationUpdateReminder", "AdminOnCreate"}
Notices == Modes \cup {"FeedbackRequest"}

(* The modes a stage fires, in this order.                                 *)
Fires(k) ==
    CASE k = STATE_INIT -> <<"Announcement", "SpeakerNotification">>
      [] k = STATE_INITIAL_NOTIFICATIONS -> <<"EventReminder", "SpeakerReminder">>
      [] k = STATE_REMINDER1 -> <<"EventReminderFinal">>
      [] k = STATE_REMINDER2 -> <<"PresentationUpdateReminder">>
      [] k = STATE_PRESENTATION_UPDATE -> <<>>
      [] k = FEEDBACK -> <<"FeedbackRequest">>

Rows == [public: BOOLEAN, deleted: BOOLEAN,
         ready_for_notifications: BOOLEAN, ready_for_reminders: BOOLEAN,
         start: Nat,
         notification_state: STATE_INIT..STATE_FINISHED,
         feedback_requested: BOOLEAN]

(* The defaults of the model's fields.                                     *)
DefaultRow == [public |-> FALSE, deleted |-> FALSE,
               ready_for_notifications |-> FALSE, ready_for_reminders |-> FALSE, start |-> 0,
               notification_state |-> STATE_INIT, feedback_requested |-> FALSE]

(* Mutant: the form is bound to no instance, and its save is a new row's.  *)
FilledAnew(row, form) ==
    [DefaultRow EXCEPT !.public = row.public,
                       !.ready_for_notifications = form.ready_for_notifications,
                       !.ready_for_reminders = form.ready_for_reminders,
                       !.start = form.start]

(* An instance with the values of a submitted form.                        *)
Filled(row, form) ==
    [row EXCEPT !.ready_for_notifications = form.ready_for_notifications,
                !.ready_for_reminders = form.ready_for_reminders,
                !.start = form.start]

(* sent, lost, twice: history; the runs of the handler that mailed, the    *)
(* runs that a crash or an exception ended, and the runs begun while       *)
(* another worker was at the same task.                                    *)
TaskRows == [event: Events, mode: Modes, executed: BOOLEAN, sent: Nat, lost: Nat, twice: Nat]
Task(e, m) == [event |-> e, mode |-> m, executed |-> FALSE, sent |-> 0, lost |-> 0, twice |-> 0]

(* A row says that the work of a stage is done.                            *)
Passed(row, k) == IF k = FEEDBACK THEN row.feedback_requested ELSE row.notification_state > k

-----------------------------------------------------------------------------
(* What each stage waits for.  An event starts and ends within one unit.   *)

FirstReminder == 2      \* start_time <= now + 2 days
FinalReminder == 1      \* start_time <= now + 1 day
PresentationsDue == 1   \* end_time <= now - 1 hour
FeedbackOpens == 2      \* end_time < now - FEEDBACK_DELAY_HOURS
SlidesClosed == 3       \* end_time <= now - 7 days
FeedbackCloses == 4     \* end_time > now - 14 days

(* The filters of the five queries of dispatch_event_notifications and of  *)
(* the query of send_feedback_requests.                                    *)
Due(row, k, now) ==
    CASE k = STATE_INIT -> row.ready_for_notifications
      [] k = STATE_INITIAL_NOTIFICATIONS -> row.ready_for_reminders /\ row.start <= now + FirstReminder
      [] k = STATE_REMINDER1 -> row.ready_for_reminders /\ row.start <= now + FinalReminder
      [] k = STATE_REMINDER2 -> row.ready_for_reminders /\ row.start + PresentationsDue <= now
      [] k = STATE_PRESENTATION_UPDATE -> row.start + SlidesClosed <= now
      [] k = FEEDBACK -> /\ ~row.deleted
                         /\ row.start + FeedbackOpens <= now
                         /\ now < row.start + FeedbackCloses

(* Mutant: public=True is lost.                                            *)
MatchingUnpublished(k, now) ==
    {e \in created : /\ k # FEEDBACK => event[e].notification_state = k
                     /\ k = FEEDBACK => ~event[e].feedback_requested
                     /\ Due(event[e], k, now)}

(* Mutant: feedback_requested_at__isnull=True is lost.                     *)
MatchingMarked(k, now) ==
    {e \in created : /\ event[e].public
                     /\ k # FEEDBACK => event[e].notification_state = k
                     /\ Due(event[e], k, now)}

Matching(k, now) ==
    {e \in created : /\ event[e].public
                     /\ k # FEEDBACK => event[e].notification_state = k
                     /\ k = FEEDBACK => ~event[e].feedback_requested
                     /\ Due(event[e], k, now)}

-----------------------------------------------------------------------------
(* Workers and web processes.                                              *)

(* stage, now, todo: the part of the sweep, the time it read when it       *)
(* began, the events its query returned and it has still to serve.  event: *)
(* the one it is serving; next: the notice it issues next.  task: the task *)
(* it created or runs.  was_public: what _cache_previous_public read.      *)
IdleJob == [step |-> "idle", stage |-> STATE_INIT, now |-> 0, todo |-> {}, event |-> Nothing,
            next |-> 1, task |-> 0, was_public |-> FALSE]

Serving == {"create", "delay", "mail", "pre_save", "save", "emit"}
Handling == {"handle", "mark"}

Continue(w, j) == job' = [job EXCEPT ![w] = j]

(* A worker that has loaded an event for a stage and not yet saved it.     *)
Holds(w, e, k) ==
    /\ job[w].stage = k
    /\ e \in job[w].todo \/ (e = job[w].event /\ job[w].step # "emit")

(* A worker that runs a task.                                              *)
Running(w, t) == job[w].step \in Handling /\ job[w].task = t

(* copy: the event as the request will save it.  all: save() with no       *)
(* update_fields, which writes every column.                               *)
IdleRequest == [step |-> "idle", event |-> Nothing, copy |-> Nothing, all |-> TRUE,
                was_public |-> FALSE]

(* emit(): event.published goes out for e.                                 *)
Emit(e) == published' = [published EXCEPT ![e] = @ + 1]

(* One more chance for the stages ks of event e to run again.              *)
Repeat(e, ks) ==
    repeats' = [repeats EXCEPT ![e] = [k \in Stages |-> IF k \in ks THEN @[k] + 1 ELSE @[k]]]

(* A save that leaves row in place of event[e], and takes back the stages  *)
(* that row, as loaded, did not know to be done.                           *)
SaveRow(e, row) ==
    /\ event' = [event EXCEPT ![e] = row]
    /\ Repeat(e, {k \in Stages : Passed(event[e], k) /\ ~Passed(row, k)})

-----------------------------------------------------------------------------
(* The sweeps.                                                             *)

Init ==
    /\ created = {}
    /\ event = [e \in Events |-> DefaultRow]
    /\ tasks = <<>>
    /\ queue = <<>>
    /\ time = 0
    /\ job = [w \in Workers |-> IdleJob]
    /\ request = [p \in Processes |-> IdleRequest]
    /\ requests = 0
    /\ faults = 0
    /\ issued = [e \in Events |-> [m \in Notices |-> 0]]
    /\ repeats = [e \in Events |-> [k \in Stages |-> 0]]
    /\ published = [e \in Events |-> 0]

(* A crash, a handler that raises, a redelivered message, or a sweep that  *)
(* overlaps with another on an event.                                      *)
Fault == faults < MaxFaults /\ faults' = faults + 1

SweepStart(w, k) ==
    /\ job[w].step = "idle"
    /\ Continue(w, [IdleJob EXCEPT !.step = "query", !.stage = k, !.now = time])
    /\ UNCHANGED <<database, broker, time, request, bounds, history>>

(* Beat starts dispatch_event_notifications; now is read once.             *)
DispatchStart(w) == SweepStart(w, STATE_INIT)

(* Beat starts send_feedback_requests.                                     *)
FeedbackStart(w) == SweepStart(w, FEEDBACK)

(* Mutant: nothing moves an event out of the last state before Finished.   *)
LoopOnStalls(w, j) ==
    IF j.todo # {}
    THEN \E e \in j.todo :
            Continue(w, [j EXCEPT !.event = e, !.todo = @ \ {e}, !.next = 1, !.was_public = FALSE,
                                  !.step = IF j.stage = FEEDBACK THEN "mail" ELSE "create"])
    ELSE IF j.stage < STATE_REMINDER2
         THEN Continue(w, [IdleJob EXCEPT !.step = "query", !.stage = j.stage + 1, !.now = j.now])
         ELSE Continue(w, IdleJob)

(* The loop over a query's events, and over the queries: the next event to *)
(* serve, or the next query, or the end.                                   *)
LoopOn(w, j) ==
    IF j.todo # {}
    THEN \E e \in j.todo :
            Continue(w, [j EXCEPT !.event = e, !.todo = @ \ {e}, !.next = 1, !.was_public = FALSE,
                                  !.step = CASE j.stage = FEEDBACK -> "mail"
                                             [] j.stage = STATE_PRESENTATION_UPDATE -> "pre_save"
                                             [] OTHER -> "create"])
    ELSE IF j.stage < STATE_PRESENTATION_UPDATE
         THEN Continue(w, [IdleJob EXCEPT !.step = "query", !.stage = j.stage + 1, !.now = j.now])
         ELSE Continue(w, IdleJob)

(* One of the queries; it may return events that another sweep is serving  *)
(* already, which then will be served twice.                               *)
SweepQuery(w) ==
    LET k == job[w].stage
        found == Matching(k, job[w].now)
        twice == {e \in found : \E v \in Workers : Holds(v, e, k)}
    IN  /\ job[w].step = "query"
        /\ LoopOn(w, [job[w] EXCEPT !.todo = found])
        /\ repeats' = [e \in Events |->
                         IF e \in twice THEN [repeats[e] EXCEPT ![k] = @ + 1] ELSE repeats[e]]
        /\ IF twice # {} THEN Fault ELSE UNCHANGED faults
        /\ UNCHANGED <<database, broker, time, request, requests, issued, published>>

(* EventAutomaticNotificationTask.objects.create()                         *)
SweepCreate(w) ==
    LET e == job[w].event
        m == Fires(job[w].stage)[job[w].next]
    IN  /\ job[w].step = "create"
        /\ tasks' = Append(tasks, Task(e, m))
        /\ issued' = [issued EXCEPT ![e][m] = @ + 1]
        /\ Continue(w, [job[w] EXCEPT !.step = "delay", !.task = Len(tasks) + 1])
        /\ UNCHANGED <<database, queue, time, request, bounds, repeats, published>>

(* Mutant: the state is saved after the first notice.                      *)
SweepDelayOnce(w) ==
    /\ job[w].step = "delay"
    /\ queue' = Append(queue, job[w].task)
    /\ Continue(w, [job[w] EXCEPT !.step = "pre_save", !.task = 0])
    /\ UNCHANGED <<database, tasks, time, request, bounds, history>>

(* send_automatic_notification.delay()                                     *)
SweepDelay(w) ==
    /\ job[w].step = "delay"
    /\ queue' = Append(queue, job[w].task)
    /\ IF job[w].next < Len(Fires(job[w].stage))
       THEN Continue(w, [job[w] EXCEPT !.step = "create", !.next = @ + 1, !.task = 0])
       ELSE Continue(w, [job[w] EXCEPT !.step = "pre_save", !.task = 0])
    /\ UNCHANGED <<database, tasks, time, request, bounds, history>>

(* The mails of send_feedback_requests, sent by the sweep itself.          *)
FeedbackMail(w) ==
    /\ job[w].step = "mail"
    /\ issued' = [issued EXCEPT ![job[w].event]["FeedbackRequest"] = @ + 1]
    /\ Continue(w, [job[w] EXCEPT !.step = "pre_save"])
    /\ UNCHANGED <<database, broker, time, request, bounds, repeats, published>>

(* _cache_previous_public                                                  *)
SweepPreSave(w) ==
    /\ job[w].step = "pre_save"
    /\ Continue(w, [job[w] EXCEPT !.step = "save", !.was_public = event[job[w].event].public])
    /\ UNCHANGED <<database, broker, time, request, bounds, history>>

(* Mutant: the state after the next.                                       *)
MarkedTwice(row, k) ==
    IF k = FEEDBACK THEN [row EXCEPT !.feedback_requested = TRUE]
                    ELSE [row EXCEPT !.notification_state = k + 2]

(* Mutant: update_fields names the wrong field.                            *)
MarkedNothing(row, k) ==
    IF k = FEEDBACK THEN [row EXCEPT !.feedback_requested = TRUE] ELSE row

(* save(update_fields=[...]) writes the state or the marker only.          *)
Marked(row, k) ==
    IF k = FEEDBACK THEN [row EXCEPT !.feedback_requested = TRUE]
                    ELSE [row EXCEPT !.notification_state = k + 1]

(* The UPDATE commits by itself.  webhook_on_publish, which runs after it, *)
(* sees the copy in memory, and that is public.                            *)
SweepSave(w) ==
    LET e == job[w].event
    IN  /\ job[w].step = "save"
        /\ SaveRow(e, Marked(event[e], job[w].stage))
        /\ IF job[w].was_public THEN LoopOn(w, job[w])
                                ELSE Continue(w, [job[w] EXCEPT !.step = "emit"])
        /\ UNCHANGED <<created, broker, time, request, bounds, issued, published>>

SweepEmit(w) ==
    /\ job[w].step = "emit"
    /\ Emit(job[w].event)
    /\ LoopOn(w, job[w])
    /\ UNCHANGED <<database, broker, time, request, bounds, issued, repeats>>

-----------------------------------------------------------------------------
(* send_automatic_notification                                             *)

TakeMessage(w) == job[w].step = "idle" /\ queue # <<>> /\ queue' = Tail(queue)

(* One more run of task t begins.                                          *)
Begun(t) == IF \E v \in Workers : Running(v, t) THEN [tasks[t] EXCEPT !.twice = @ + 1] ELSE tasks[t]

(* Mutant: executed is not checked.                                        *)
TaskStartAgain(w) ==
    /\ TakeMessage(w)
    /\ tasks' = [tasks EXCEPT ![Head(queue)] = Begun(Head(queue))]
    /\ Continue(w, [IdleJob EXCEPT !.step = "handle", !.task = Head(queue)])
    /\ UNCHANGED <<database, time, request, bounds, history>>

TaskStart(w) ==
    /\ TakeMessage(w)
    /\ ~tasks[Head(queue)].executed
    /\ tasks' = [tasks EXCEPT ![Head(queue)] = Begun(Head(queue))]
    /\ Continue(w, [IdleJob EXCEPT !.step = "handle", !.task = Head(queue)])
    /\ UNCHANGED <<database, time, request, bounds, history>>

TaskSkip(w) ==
    /\ TakeMessage(w)
    /\ tasks[Head(queue)].executed
    /\ UNCHANGED <<database, tasks, time, job, request, bounds, history>>

(* The handler of the task's mode mails its recipients.                    *)
TaskHandle(w) ==
    /\ job[w].step = "handle"
    /\ tasks' = [tasks EXCEPT ![job[w].task].sent = @ + 1]
    /\ Continue(w, [job[w] EXCEPT !.step = "mark"])
    /\ UNCHANGED <<database, queue, time, request, bounds, history>>

TaskMark(w) ==
    /\ job[w].step = "mark"
    /\ tasks' = [tasks EXCEPT ![job[w].task].executed = TRUE]
    /\ Continue(w, IdleJob)
    /\ UNCHANGED <<database, queue, time, request, bounds, history>>

-----------------------------------------------------------------------------
(* Faults.                                                                 *)

CutShort(task, n) == [task EXCEPT !.sent = @ + n, !.lost = @ + 1]

(* The handler raises, having mailed some of its recipients or none.       *)
TaskFail(w) ==
    /\ Fault
    /\ job[w].step = "handle"
    /\ \E n \in {0, 1} :
           tasks' = [tasks EXCEPT ![job[w].task] = CutShort(@, n)]
    /\ Continue(w, IdleJob)
    /\ UNCHANGED <<database, queue, time, request, requests, history>>

(* A worker dies.  Only its memory is lost, and the message it had taken.  *)
Crash(w) ==
    /\ Fault
    /\ job[w].step # "idle"
    /\ tasks' = IF job[w].step \in Handling
                THEN [tasks EXCEPT ![job[w].task] = CutShort(@, 0)] ELSE tasks
    /\ IF \/ job[w].step \in {"delay", "pre_save", "save"}
          \/ job[w].step = "create" /\ job[w].next > 1
       THEN Repeat(job[w].event, {job[w].stage})
       ELSE UNCHANGED repeats
    /\ Continue(w, IdleJob)
    /\ UNCHANGED <<database, queue, time, request, requests, issued, published>>

(* The broker hands out a message again whose visibility timeout passed    *)
(* while a worker held it back.                                            *)
Redeliver(t) ==
    /\ Fault
    /\ \/ tasks[t].executed
       \/ tasks[t].lost > 0
       \/ \E w \in Workers : Running(w, t)
    /\ queue' = Append(queue, t)
    /\ UNCHANGED <<database, tasks, time, job, request, requests, history>>

-----------------------------------------------------------------------------
(* The web requests.                                                       *)

Arrives == requests < MaxRequests /\ requests' = requests + 1

(* event_new: the row, and the task and message of notify_admin_on_create. *)
EventNew(p, e) ==
    /\ Arrives
    /\ request[p].step = "idle"
    /\ e \notin created
    /\ created' = created \cup {e}
    /\ \E form \in Forms : event' = [event EXCEPT ![e] = Filled(DefaultRow, form)]
    /\ tasks' = Append(tasks, Task(e, "AdminOnCreate"))
    /\ queue' = Append(queue, Len(tasks) + 1)
    /\ issued' = [issued EXCEPT ![e]["AdminOnCreate"] = @ + 1]
    /\ UNCHANGED <<time, job, request, faults, repeats, published>>

(* The request loads the row and changes its copy.                         *)
Load(p, e, copy, all) ==
    /\ Arrives
    /\ request[p].step = "idle"
    /\ e \in created
    /\ request' = [request EXCEPT ![p] = [IdleRequest EXCEPT !.step = "pre_save", !.event = e,
                                                             !.copy = copy, !.all = all]]
    /\ UNCHANGED <<database, broker, time, job, faults, history>>

(* event_edit                                                              *)
EditStart(p, e) == \E form \in Forms : Load(p, e, Filled(event[e], form), TRUE)

(* event_publish                                                           *)
PublishStart(p, e) == Load(p, e, [event[e] EXCEPT !.public = ~@], TRUE)

(* event_delete: soft_delete() saves deleted_at alone.                     *)
ArchiveStart(p, e) == Load(p, e, [event[e] EXCEPT !.deleted = TRUE], FALSE)

(* _cache_previous_public                                                  *)
PreSave(p) ==
    /\ request[p].step = "pre_save"
    /\ request' = [request EXCEPT ![p].step = "save",
                                  ![p].was_public = event[request[p].event].public]
    /\ UNCHANGED <<database, broker, time, job, bounds, history>>

(* The UPDATE, which commits by itself: from here on a sweep finds the row *)
(* as it was saved.                                                        *)
Save(p) ==
    LET e == request[p].event
        copy == request[p].copy
    IN  /\ request[p].step = "save"
        /\ SaveRow(e, IF request[p].all THEN copy ELSE [event[e] EXCEPT !.deleted = copy.deleted])
        /\ IF copy.public /\ ~request[p].was_public
           THEN request' = [request EXCEPT ![p].step = "emit"]
           ELSE request' = [request EXCEPT ![p] = IdleRequest]
        /\ UNCHANGED <<created, broker, time, job, bounds, issued, published>>

(* webhook_on_publish, after the UPDATE.                                   *)
EmitPublished(p) ==
    /\ request[p].step = "emit"
    /\ Emit(request[p].event)
    /\ request' = [request EXCEPT ![p] = IdleRequest]
    /\ UNCHANGED <<database, broker, time, job, bounds, issued, repeats>>

(* archive_selected and restore_selected of the admin: bulk UPDATEs, which *)
(* send no signal.                                                         *)
SetDeleted(p, e, d) ==
    /\ Arrives
    /\ request[p].step = "idle"
    /\ e \in created
    /\ event[e].deleted # d
    /\ event' = [event EXCEPT ![e].deleted = d]
    /\ UNCHANGED <<created, broker, time, job, request, faults, history>>

-----------------------------------------------------------------------------

Tick ==
    /\ time < MaxTime
    /\ time' = time + 1
    /\ UNCHANGED <<database, broker, job, request, bounds, history>>

SweepStep(w) ==
    \/ SweepQuery(w) \/ SweepCreate(w) \/ SweepDelay(w) \/ FeedbackMail(w)
    \/ SweepPreSave(w) \/ SweepSave(w) \/ SweepEmit(w)

TaskStep(w) == TaskHandle(w) \/ TaskMark(w)

Next ==
    \/ \E w \in Workers :
          \/ DispatchStart(w) \/ FeedbackStart(w) \/ SweepStep(w) \/ TaskStep(w)
          \/ TaskStart(w) \/ TaskSkip(w) \/ TaskFail(w) \/ Crash(w)
    \/ \E t \in DOMAIN tasks : Redeliver(t)
    \/ \E p \in Processes : PreSave(p) \/ Save(p) \/ EmitPublished(p)
    \/ \E p \in Processes, e \in Events :
          \/ EventNew(p, e) \/ EditStart(p, e) \/ PublishStart(p, e) \/ ArchiveStart(p, e)
          \/ \E d \in BOOLEAN : SetDeleted(p, e, d)
    \/ Tick

Spec == Init /\ [][Next]_vars

(* A worker or process that is alive goes on, and the clock runs.  Beat    *)
(* puts every sweep on the one first-in-first-out queue the tasks are on,  *)
(* so neither sweeps nor tasks can be overtaken for ever: their start is   *)
(* strongly fair.                                                          *)
Fairness ==
    /\ \A w \in Workers : WF_vars(SweepStep(w)) /\ WF_vars(TaskStep(w))
    /\ \A p \in Processes : WF_vars(PreSave(p) \/ Save(p) \/ EmitPublished(p))
    /\ WF_vars(Tick)
    /\ SF_vars(\E w \in Workers : DispatchStart(w))
    /\ SF_vars(\E w \in Workers : TaskStart(w) \/ TaskSkip(w))

FairSpec == Spec /\ Fairness

-----------------------------------------------------------------------------
(* Properties.                                                             *)

Jobs == [step: {"idle", "query"} \cup Serving \cup Handling, stage: Stages, now: Nat,
         todo: SUBSET Events, event: Events \cup {Nothing}, next: {1, 2}, task: Nat,
         was_public: BOOLEAN]
Copies == [step: {"idle", "pre_save", "save", "emit"}, event: Events \cup {Nothing},
           copy: Rows \cup {Nothing}, all: BOOLEAN, was_public: BOOLEAN]

(* What a step of a job uses was loaded or created; known and ids are the  *)
(* events and the tasks that exist.                                        *)
JobOK(j, known, ids) ==
    /\ j \in Jobs
    /\ j.step \notin Serving => j.todo = {} /\ j.event = Nothing
    /\ j.step \in Serving => j.event \in known /\ j.todo \subseteq known
    /\ j.step \in {"create", "delay"} => j.stage # FEEDBACK /\ j.next \in DOMAIN Fires(j.stage)
    /\ j.step = "mail" => j.stage = FEEDBACK
    /\ j.step \in {"delay"} \cup Handling => j.task \in ids

RequestOK(r) ==
    /\ r \in Copies
    /\ r.step # "idle" => r.event \in created /\ r.copy \in Rows

(* The types of the rows, the messages, the requests and the counters.     *)
TypeOK ==
    /\ created \subseteq Events
    /\ event \in [Events -> Rows]
    /\ \A e \in Events \ created : event[e] = DefaultRow
    /\ tasks \in Seq(TaskRows)
    /\ queue \in Seq(Nat) /\ \A i \in DOMAIN queue : queue[i] \in DOMAIN tasks
    /\ time \in Nat /\ requests \in Nat /\ faults \in Nat
    /\ job \in [Workers -> Jobs] /\ \A w \in Workers : JobOK(job[w], created, DOMAIN tasks)
    /\ request \in [Processes -> Copies] /\ \A p \in Processes : RequestOK(request[p])
    /\ issued \in [Events -> [Notices -> Nat]]
    /\ repeats \in [Events -> [Stages -> Nat]]
    /\ published \in [Events -> Nat]

(* The notification state and the feedback marker are the only guard       *)
(* against sending a notice again.  Every repeated notice is due to a      *)
(* crash between issuing and saving, to a save that wrote back an older    *)
(* state, or to two sweeps that overlapped on the event.                   *)
RepeatsAccountedFor ==
    \A e \in Events, k \in Stages : \A i \in DOMAIN Fires(k) :
        issued[e][Fires(k)[i]] <= 1 + repeats[e][k]

(* A task row with a message that can still be, or was, acted upon; not    *)
(* one whose sweep died before it reached the broker.                      *)
InGoodHands(t) ==
    \/ \E i \in DOMAIN queue : queue[i] = t
    \/ tasks[t].executed
    \/ tasks[t].lost > 0
    \/ \E w \in Workers : Running(w, t)

(* Once an event has left a notification state, each notice of that state  *)
(* was handed over: sent, on its way, or lost to a counted fault.  No      *)
(* crash or race of a sweep skips a notice.                                *)
NoNoticeSkipped ==
    \A e \in Events, k \in STATE_INIT..STATE_REMINDER2 :
        event[e].notification_state > k
            => \A i \in DOMAIN Fires(k) : \E t \in DOMAIN tasks :
                  tasks[t].event = e /\ tasks[t].mode = Fires(k)[i] /\ InGoodHands(t)

(* A request that has saved e as public, and has not told the webhooks.    *)
Publishing(e) == \E p \in Processes : request[p].step = "emit" /\ request[p].event = e

(* No notice but the one to the admins goes out for an event that no lead  *)
(* published: event.published was emitted for it, or the request that made *)
(* it public is just between its UPDATE and that emission.                 *)
PublishedBeforeNotified ==
    \A e \in Events, m \in Notices \ {"AdminOnCreate"} :
        issued[e][m] > 0 => published[e] > 0 \/ Publishing(e)

(* The executed flag makes a task single-shot, whatever the broker         *)
(* redelivers and however many workers there are: a handler mails once     *)
(* more only for a run that was cut short, or that began while another     *)
(* worker was at the same task and had not yet set the flag.               *)
SingleShot == \A t \in DOMAIN tasks : tasks[t].sent <= 1 + tasks[t].lost + tasks[t].twice

(* With one web process, an archived event comes back only by an admin's   *)
(* restore: no edit, and no sweep, writes an old deleted_at back.          *)
ArchivedStaysArchived ==
    [][\A e \in Events : event[e].deleted /\ ~event'[e].deleted
          => \E p \in Processes : SetDeleted(p, e, FALSE)]_vars

(* An event that stays public and ready is walked through all its states,  *)
(* and each notice reaches a handler, although sweeps may crash anywhere.  *)
ReadyEventsAreServed ==
    \A e \in Events :
        <>[](event[e].public /\ event[e].ready_for_notifications /\ event[e].ready_for_reminders)
            => <>(/\ event[e].notification_state = STATE_FINISHED
                  /\ \A k \in STATE_INIT..STATE_REMINDER2 : \A i \in DOMAIN Fires(k) :
                        \E t \in DOMAIN tasks : /\ tasks[t].event = e
                                                /\ tasks[t].mode = Fires(k)[i]
                                                /\ tasks[t].executed \/ tasks[t].lost > 0)

-----------------------------------------------------------------------------
(* What the documentation says or a reader may expect, and the code does   *)
(* not do.                                                                 *)

(* docs/ARCHITECTURE.md: tasks are single-shot, "so the sweep is safe to   *)
(* re-run" - a sweep that is run again starts no notice a second time.     *)
SafeToRerun == \A e \in Events, m \in Notices : issued[e][m] <= 1

(* The emission comes after the commit: a sweep may announce an event      *)
(* before the webhooks hear that it was published.                         *)
WebhooksHearFirst ==
    \A e \in Events, m \in Notices \ {"AdminOnCreate"} : issued[e][m] > 0 => published[e] > 0

(* docs/ARCHITECTURE.md, soft delete: "public querysets must call          *)
(* .alive()" - no sweep takes up an archived event.                        *)
ArchivedAreLeftAlone ==
    [][\A w \in Workers, e \in Events :
          SweepQuery(w) /\ e \in job'[w].todo \cup {job'[w].event} => ~event[e].deleted]_vars

=============================================================================

----------------------------- MODULE MailerTask -----------------------------
(***************************************************************************)
(* A mailer task: a leader's custom mail to the members registered for an  *)
(* event (apps/leads/views.py, mailer_task_*; apps/notifications/tasks.py, *)
(* send_event_mailer_task).                                                *)
(*                                                                         *)
(* A lead writes a row, and executes it: the view sets ready_for_delivery  *)
(* and puts a message on the broker; a worker mails the members one by one *)
(* and then marks the row.  The views save every column of the copy they   *)
(* loaded; the worker saves the two flags.                                 *)
(***************************************************************************)
EXTENDS Naturals, FiniteSets

CONSTANTS
    LeadProcesses,  \* the web processes that serve leads
    Mailers,        \* the Celery workers
    Recipients,     \* the members registered for the event
    Standing,       \* the state of each one's registration
    MaxClicks,      \* bound: the leads' requests after the row was created
    MaxMishaps      \* bound: a mail server's refusals, deaths of a worker, redelivered messages

ASSUME MailerConstants ==
    /\ IsFiniteSet(Recipients) /\ IsFiniteSet(Mailers) /\ IsFiniteSet(LeadProcesses)
    /\ Standing \in [Recipients -> STRING]
    /\ MaxClicks \in Nat /\ MaxMishaps \in Nat

VARIABLES
    mailer,     \* the EventMailerTask row
    outbox,     \* how many messages on the broker name it
    blast,      \* what each worker does
    desk,       \* what each web process serves
    clicks,     \* the leads' requests so far
    mishaps,    \* the mishaps so far
    copies,     \* history: how many mails of the task each member got
    reopened,   \* history: how often something let a further blast start
    stranded    \* history: the row was made ready, and no message is to follow

mailerVars == <<mailer, outbox, blast, desk, clicks, mishaps, copies, reopened, stranded>>

-----------------------------------------------------------------------------

Everybody == "everybody"    \* an empty registration_state
Filters == {Everybody} \cup {Standing[u] : u \in Recipients}

MailerRows == [ready_for_delivery: BOOLEAN, executed: BOOLEAN, registration_state: Filters]

(* task.event.event_registrations, filtered when registration_state is set *)
Audience(row) ==
    {u \in Recipients : row.registration_state \in {Everybody, Standing[u]}}

NotMailing == [step |-> "idle", todo |-> {}]
EmptyDesk(row) == [step |-> "idle", copy |-> row]

(* The row as a lead submits it.  created: the form offers ready_for_      *)
(* delivery, and mailer_task_new saves it as it comes.                     *)
mailer_task_new ==
    {[ready_for_delivery |-> r, executed |-> FALSE, registration_state |-> f] :
        r \in BOOLEAN, f \in Filters}

MailerInit ==
    /\ mailer \in mailer_task_new
    /\ outbox = 0
    /\ blast = [w \in Mailers |-> NotMailing]
    /\ desk = [p \in LeadProcesses |-> EmptyDesk(mailer)]
    /\ clicks = 0 /\ mishaps = 0
    /\ copies = [u \in Recipients |-> 0]
    /\ reopened = 0
    /\ stranded = mailer.ready_for_delivery

-----------------------------------------------------------------------------
(* The leads' requests.                                                    *)

Click == clicks < MaxClicks /\ clicks' = clicks + 1

(* A delivery that may still send: a message, or a blast that has begun.   *)
Outstanding ==
    outbox + Cardinality({w \in Mailers : blast[w].step # "idle"})
           + Cardinality({p \in LeadProcesses : desk[p].step = "delay"})

(* task.save() writes every column of the copy.  A delivery can begin once *)
(* more when this takes executed back, or when it makes the row ready      *)
(* while another delivery is outstanding.                                  *)
WriteRow(row) ==
    /\ mailer' = row
    /\ reopened' =
         reopened + IF \/ mailer.executed /\ ~row.executed
                       \/ row.ready_for_delivery /\ Outstanding > 0
                    THEN 1 ELSE 0
    /\ stranded' = FALSE

(* get_object_or_404 of mailer_task_edit and mailer_task_execute.          *)
LoadRow(p, next) ==
    /\ desk[p].step = "idle"
    /\ Click
    /\ desk' = [desk EXCEPT ![p] = [step |-> next, copy |-> mailer]]
    /\ UNCHANGED <<mailer, outbox, blast, mishaps, copies, reopened, stranded>>

EditTask(p) == LoadRow(p, "edit")

(* execute: only a task that is neither executed nor ready, as loaded.     *)
ExecuteTask(p) ==
    /\ ~mailer.executed /\ ~mailer.ready_for_delivery
    /\ LoadRow(p, "execute")

(* Mutant: the form's ready_for_delivery is saved as it was submitted.     *)
SaveEditAsSubmitted(p) ==
    /\ desk[p].step = "edit"
    /\ \E row \in mailer_task_new : WriteRow([row EXCEPT !.executed = desk[p].copy.executed])
    /\ desk' = [desk EXCEPT ![p] = EmptyDesk(desk[p].copy)]
    /\ UNCHANGED <<outbox, blast, clicks, mishaps, copies>>

(* mailer_task_edit: the form's fields, and ready_for_delivery off.        *)
SaveEdit(p) ==
    /\ desk[p].step = "edit"
    /\ \E f \in Filters :
          WriteRow([desk[p].copy EXCEPT !.registration_state = f, !.ready_for_delivery = FALSE])
    /\ desk' = [desk EXCEPT ![p] = EmptyDesk(desk[p].copy)]
    /\ UNCHANGED <<outbox, blast, clicks, mishaps, copies>>

(* mailer_task_execute: ready_for_delivery, then the message.              *)
SaveReady(p) ==
    /\ desk[p].step = "execute"
    /\ WriteRow([desk[p].copy EXCEPT !.ready_for_delivery = TRUE])
    /\ desk' = [desk EXCEPT ![p].step = "delay"]
    /\ UNCHANGED <<outbox, blast, clicks, mishaps, copies>>

Delay(p) ==
    /\ desk[p].step = "delay"
    /\ outbox' = outbox + 1
    /\ desk' = [desk EXCEPT ![p] = EmptyDesk(desk[p].copy)]
    /\ UNCHANGED <<mailer, blast, clicks, mishaps, copies, reopened, stranded>>

-----------------------------------------------------------------------------
(* send_event_mailer_task                                                  *)

Take(w) == blast[w].step = "idle" /\ outbox > 0 /\ outbox' = outbox - 1

(* The row is ready: its registrations are loaded once, for the loop.      *)
Begin(w) ==
    /\ Take(w)
    /\ mailer.ready_for_delivery /\ ~mailer.executed
    /\ blast' = [blast EXCEPT ![w] = [step |-> "mail", todo |-> Audience(mailer)]]
    /\ UNCHANGED <<mailer, desk, clicks, mishaps, copies, reopened, stranded>>

(* It is executed, or not ready: nothing to do.                            *)
Dismiss(w) ==
    /\ Take(w)
    /\ ~mailer.ready_for_delivery \/ mailer.executed
    /\ UNCHANGED <<mailer, blast, desk, clicks, mishaps, copies, reopened, stranded>>

Mail(w) ==
    /\ blast[w].step = "mail"
    /\ \E u \in blast[w].todo :
          /\ copies' = [copies EXCEPT ![u] = @ + 1]
          /\ blast' = [blast EXCEPT ![w].todo = @ \ {u}]
    /\ UNCHANGED <<mailer, outbox, desk, clicks, mishaps, reopened, stranded>>

(* Mutant: update_fields lacks executed.                                   *)
FinishUnmarked(w) ==
    /\ blast[w].step = "mail" /\ blast[w].todo = {}
    /\ mailer' = [mailer EXCEPT !.ready_for_delivery = FALSE]
    /\ blast' = [blast EXCEPT ![w] = NotMailing]
    /\ stranded' = FALSE
    /\ UNCHANGED <<outbox, desk, clicks, mishaps, copies, reopened>>

(* Mutant: the row is not saved.                                           *)
FinishUnsaved(w) ==
    /\ blast[w].step = "mail" /\ blast[w].todo = {}
    /\ UNCHANGED mailer
    /\ blast' = [blast EXCEPT ![w] = NotMailing]
    /\ UNCHANGED <<outbox, desk, clicks, mishaps, copies, reopened, stranded>>

(* save(update_fields=["executed", "ready_for_delivery"])                  *)
Finish(w) ==
    /\ blast[w].step = "mail" /\ blast[w].todo = {}
    /\ mailer' = [mailer EXCEPT !.executed = TRUE, !.ready_for_delivery = FALSE]
    /\ blast' = [blast EXCEPT ![w] = NotMailing]
    /\ stranded' = FALSE
    /\ UNCHANGED <<outbox, desk, clicks, mishaps, copies, reopened>>

Mishap == mishaps < MaxMishaps /\ mishaps' = mishaps + 1

(* message.send() raises, or the worker dies, before the row is marked:    *)
(* the message is gone, and the task is not retried.                       *)
BreakOff(w) ==
    /\ blast[w].step = "mail"
    /\ Mishap
    /\ blast' = [blast EXCEPT ![w] = NotMailing]
    /\ reopened' = reopened + 1
    /\ stranded' = mailer.ready_for_delivery
    /\ UNCHANGED <<mailer, outbox, desk, clicks, copies>>

(* The broker delivers a message once more, which a busy worker has taken  *)
(* ahead of time and not yet acknowledged.                                 *)
DeliverAgain ==
    /\ outbox > 0
    /\ Mishap
    /\ outbox' = outbox + 1
    /\ reopened' = reopened + 1
    /\ UNCHANGED <<mailer, blast, desk, clicks, copies, stranded>>

-----------------------------------------------------------------------------

BlastStep(w) == Mail(w) \/ Finish(w)
TakeStep(w) == Begin(w) \/ Dismiss(w)

MailerNext ==
    \/ \E p \in LeadProcesses : EditTask(p) \/ ExecuteTask(p) \/ SaveEdit(p) \/ SaveReady(p) \/ Delay(p)
    \/ \E w \in Mailers : TakeStep(w) \/ BlastStep(w) \/ BreakOff(w)
    \/ DeliverAgain

MailerSpec == MailerInit /\ [][MailerNext]_mailerVars

(* Workers and requests that are alive go on; nobody must click, and       *)
(* nothing must go wrong.                                                  *)
MailerFairness ==
    /\ \A w \in Mailers : WF_mailerVars(TakeStep(w)) /\ WF_mailerVars(BlastStep(w))
    /\ \A p \in LeadProcesses : WF_mailerVars(SaveEdit(p) \/ SaveReady(p) \/ Delay(p))

-----------------------------------------------------------------------------
(* Properties.                                                             *)

MailerTypeOK ==
    /\ mailer \in MailerRows
    /\ outbox \in Nat
    /\ blast \in [Mailers -> [step: {"idle", "mail"}, todo: SUBSET Recipients]]
    /\ desk \in [LeadProcesses -> [step: {"idle", "edit", "execute", "delay"}, copy: MailerRows]]
    /\ clicks \in Nat /\ mishaps \in Nat
    /\ copies \in [Recipients -> Nat]
    /\ reopened \in Nat
    /\ stranded \in BOOLEAN

(* The two flags are all that keeps a mail from going out twice.  A member *)
(* gets one copy, and one more for each save that took executed back or    *)
(* made the row ready while a delivery was outstanding, each blast broken  *)
(* off and each message delivered again.                                   *)
CopiesAccountedFor == \A u \in Recipients : copies[u] <= 1 + reopened

(* A task that says it is ready for delivery is on its way, unless it was  *)
(* created ready or its blast was broken off: then execute refuses it for  *)
(* good, and only an edit lets it be executed again.                       *)
ReadyTasksAreInHand ==
    mailer.ready_for_delivery /\ ~mailer.executed => Outstanding > 0 \/ stranded

(* A task on its way is executed, or withdrawn by an edit, or stranded.    *)
ReadyTasksEnd ==
    mailer.ready_for_delivery /\ ~mailer.executed
        ~> mailer.executed \/ ~mailer.ready_for_delivery \/ stranded

-----------------------------------------------------------------------------
(* What the code says, and does not do.                                    *)

(* mailer_task_edit: "never let executed be edited, preventing accidental  *)
(* re-delivery via the edit form" - with no mishap and one worker, nobody  *)
(* is mailed twice.                                                        *)
NoAccidentalRedelivery == \A u \in Recipients : copies[u] <= 1

=============================================================================

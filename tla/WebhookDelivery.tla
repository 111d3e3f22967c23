--------------------------- MODULE WebhookDelivery --------------------------
(***************************************************************************)
(* Outbound webhooks (apps/notifications/webhooks.py): news is sent to     *)
(* every endpoint of the chapter, each by a Celery task that posts it,     *)
(* records the outcome in a WebhookDelivery row and, if the endpoint did   *)
(* not take it, queues itself again.  Leads add and remove endpoints       *)
(* meanwhile (apps/leads/views.py, webhook_index, webhook_delete).         *)
(*                                                                         *)
(* No code of the repository clears WebhookEndpoint.active: an endpoint    *)
(* that exists is active.                                                  *)
(***************************************************************************)
EXTENDS Naturals, FiniteSets

CONSTANTS
    Endpoints,      \* the rows of WebhookEndpoint that leads will add
    News,           \* what happens: a publication, a registration, a check-in
    max_retries,    \* deliver_webhook's: 5
    MaxDeaths       \* bound: workers that die at a delivery

ASSUME WebhookConstants == max_retries \in Nat /\ MaxDeaths \in Nat

Calls == News \X Endpoints  \* a deliver_webhook task with its retries

VARIABLES
    endpoint,   \* which endpoints exist
    call,       \* the task of each call: where it is, its retries, and the answer it got
    rows,       \* its WebhookDelivery rows: those with delivered_at, and the others
    accepted,   \* the endpoints' side: how often each took the news
    deaths,     \* the deaths so far
    posts,      \* history: the requests made
    spoiled     \* history: the calls whose url was refused or whose worker died

webhookVars == <<endpoint, call, rows, accepted, deaths, posts, spoiled>>

-----------------------------------------------------------------------------

Answers == {"none", "2xx", "error status", "exception"}
NoRows == [delivered |-> 0, failed |-> 0]
Idle == [step |-> "unsent", retries |-> 0, answer |-> "none"]

WebhookInit ==
    /\ endpoint = [p \in Endpoints |-> "new"]
    /\ call = [c \in Calls |-> Idle]
    /\ rows = [c \in Calls |-> NoRows]
    /\ accepted = [c \in Calls |-> 0]
    /\ deaths = 0
    /\ posts = [c \in Calls |-> 0]
    /\ spoiled = {}

Unsent(n) == \A p \in Endpoints : call[<<n, p>>].step = "unsent"

(* webhook_index, with a URL that validate_webhook_url accepts.            *)
webhook_index(p) ==
    /\ endpoint[p] = "new"
    /\ endpoint' = [endpoint EXCEPT ![p] = "active"]
    /\ UNCHANGED <<call, rows, accepted, deaths, posts, spoiled>>

(* endpoint.delete() deletes its WebhookDelivery rows too.                 *)
webhook_delete(p) ==
    /\ endpoint[p] = "active"
    /\ endpoint' = [endpoint EXCEPT ![p] = "deleted"]
    /\ rows' = [c \in Calls |-> IF c[2] = p THEN NoRows ELSE rows[c]]
    /\ UNCHANGED <<call, accepted, deaths, posts, spoiled>>

(* emit: a task for each endpoint that is active now.  News that finds     *)
(* none is told to nobody, and is no step.                                 *)
emit(n) ==
    /\ Unsent(n)
    /\ \E p \in Endpoints : endpoint[p] = "active"
    /\ call' = [c \in Calls |-> IF c[1] = n /\ endpoint[c[2]] = "active"
                                THEN [call[c] EXCEPT !.step = "queued"] ELSE call[c]]
    /\ UNCHANGED <<endpoint, rows, accepted, deaths, posts, spoiled>>

-----------------------------------------------------------------------------
(* deliver_webhook                                                         *)

Continue(c, step) == call' = [call EXCEPT ![c].step = step]

(* WebhookEndpoint.objects.get(pk=endpoint_id, active=True)                *)
LoadEndpoint(c) ==
    /\ call[c].step = "queued"
    /\ Continue(c, IF endpoint[c[2]] = "active" THEN "post" ELSE "done")
    /\ UNCHANGED <<endpoint, rows, accepted, deaths, posts, spoiled>>

(* delivery.save(): an IntegrityError if the endpoint is gone.             *)
RowSaved(c) ==
    rows' = IF endpoint[c[2]] # "active" THEN rows
            ELSE IF call[c].answer = "2xx" THEN [rows EXCEPT ![c].delivered = @ + 1]
            ELSE [rows EXCEPT ![c].failed = @ + 1]

(* validate_webhook_url refuses what the name now resolves to: a row with  *)
(* the error, and no retry.                                                *)
RefuseUrl(c) ==
    /\ call[c].step = "post"
    /\ rows' = IF endpoint[c[2]] = "active" THEN [rows EXCEPT ![c].failed = @ + 1] ELSE rows
    /\ Continue(c, "done")
    /\ spoiled' = spoiled \cup {c}
    /\ UNCHANGED <<endpoint, accepted, deaths, posts>>

(* requests.post: an exception leaves open whether the endpoint took it.   *)
Post(c) ==
    /\ call[c].step = "post"
    /\ posts' = [posts EXCEPT ![c] = @ + 1]
    /\ \E a \in Answers \ {"none"}, took \in BOOLEAN :
          /\ a = "2xx" => took
          /\ a = "error status" => ~took
          /\ call' = [call EXCEPT ![c] = [@ EXCEPT !.step = "record", !.answer = a]]
          /\ accepted' = IF took THEN [accepted EXCEPT ![c] = @ + 1] ELSE accepted
    /\ UNCHANGED <<endpoint, rows, deaths, spoiled>>

(* Mutant: the outcome is recorded only once it is final.                  *)
RecordAtEnd(c) ==
    /\ call[c].step = "record"
    /\ IF call[c].answer = "2xx" \/ call[c].retries = max_retries THEN RowSaved(c) ELSE UNCHANGED rows
    /\ Continue(c, IF endpoint[c[2]] = "active" /\ call[c].answer # "2xx" THEN "retry" ELSE "done")
    /\ UNCHANGED <<endpoint, accepted, deaths, posts, spoiled>>

(* Mutant: only exceptions are retried.                                    *)
RecordStatusAsFinal(c) ==
    /\ call[c].step = "record"
    /\ RowSaved(c)
    /\ Continue(c, IF endpoint[c[2]] = "active" /\ call[c].answer = "exception" THEN "retry" ELSE "done")
    /\ UNCHANGED <<endpoint, accepted, deaths, posts, spoiled>>

(* The outcome is saved.  If that fails the task ends without a retry.     *)
Record(c) ==
    /\ call[c].step = "record"
    /\ RowSaved(c)
    /\ Continue(c, IF endpoint[c[2]] = "active" /\ call[c].answer # "2xx" THEN "retry" ELSE "done")
    /\ UNCHANGED <<endpoint, accepted, deaths, posts, spoiled>>

(* Mutant: the retries are not counted.                                    *)
RetryForEver(c) ==
    /\ call[c].step = "retry"
    /\ call' = [call EXCEPT ![c] = [Idle EXCEPT !.step = "queued"]]
    /\ UNCHANGED <<endpoint, rows, accepted, deaths, posts, spoiled>>

(* Mutant: one retry too many.                                             *)
RetryOnceMore(c) ==
    /\ call[c].step = "retry"
    /\ call' = [call EXCEPT ![c] =
                  IF @.retries <= max_retries
                  THEN [step |-> "queued", retries |-> @.retries + 1, answer |-> "none"]
                  ELSE [@ EXCEPT !.step = "done"]]
    /\ UNCHANGED <<endpoint, rows, accepted, deaths, posts, spoiled>>

(* self.retry(): another message, or MaxRetriesExceededError.              *)
Retry(c) ==
    /\ call[c].step = "retry"
    /\ call' = [call EXCEPT ![c] =
                  IF @.retries < max_retries
                  THEN [step |-> "queued", retries |-> @.retries + 1, answer |-> "none"]
                  ELSE [@ EXCEPT !.step = "done"]]
    /\ UNCHANGED <<endpoint, rows, accepted, deaths, posts, spoiled>>

(* The worker dies.  The message was acknowledged: the call ends.          *)
Die(c) ==
    /\ call[c].step \in {"post", "record", "retry"}
    /\ deaths < MaxDeaths /\ deaths' = deaths + 1
    /\ Continue(c, "done")
    /\ spoiled' = spoiled \cup {c}
    /\ UNCHANGED <<endpoint, rows, accepted, posts>>

Deliver(c) == LoadEndpoint(c) \/ Post(c) \/ Record(c) \/ Retry(c)

WebhookNext ==
    \/ \E p \in Endpoints : webhook_index(p) \/ webhook_delete(p)
    \/ \E n \in News : emit(n)
    \/ \E c \in Calls : Deliver(c) \/ RefuseUrl(c) \/ Die(c)

WebhookSpec == WebhookInit /\ [][WebhookNext]_webhookVars

(* Workers run the tasks on the queue.                                     *)
WebhookFairness == \A c \in Calls : WF_webhookVars(Deliver(c))

-----------------------------------------------------------------------------
(* Properties.                                                             *)

WebhookTypeOK ==
    /\ endpoint \in [Endpoints -> {"new", "active", "deleted"}]
    /\ call \in [Calls -> [step: {"unsent", "queued", "post", "record", "retry", "done"},
                           retries: 0..max_retries, answer: Answers]]
    /\ rows \in [Calls -> [delivered: Nat, failed: Nat]]
    /\ accepted \in [Calls -> Nat] /\ posts \in [Calls -> Nat]
    /\ deaths \in Nat
    /\ spoiled \subseteq Calls

(* The leads' table of deliveries is true and explains every duplicate:    *)
(* a row says delivered only if the endpoint took the news, an endpoint    *)
(* that took it again was told again after a row that says it failed, and  *)
(* every request made has its row, but one in progress or whose worker     *)
(* died.                                                                   *)
RowsTellTheTruth ==
    \A c \in Calls : endpoint[c[2]] = "active" =>
        /\ rows[c].delivered <= accepted[c]
        /\ accepted[c] <= 1 + rows[c].failed
        /\ ~(call[c].step = "record" \/ c \in spoiled) => posts[c] = rows[c].delivered + rows[c].failed

(* News is told, or dropped for a reason: its attempts are used up, its    *)
(* endpoint was removed, its url was refused or its worker died.  It is    *)
(* never tried more than max_retries + 1 times, nor after it was settled.  *)
Fate(c) ==
    CASE call[c].step = "unsent" -> "none"
      [] call[c].step = "done" -> IF call[c].answer = "2xx" THEN "told" ELSE "dropped"
      [] OTHER -> "pending"

Removed == {c \in Calls : endpoint[c[2]] = "deleted"}

Promise == INSTANCE WebhookPromise WITH
    Attempts <- max_retries + 1,
    fate <- [c \in Calls |-> Fate(c)], tries <- posts, taken <- accepted,
    excused <- spoiled \cup Removed

ImplementsPromise == Promise!PromiseSpec

(* A call is tried until the endpoint has taken it, all attempts are made, *)
(* or one of the reasons above ended it.                                   *)
CallsEnd ==
    \A c \in Calls :
        call[c].step = "queued"
            ~> accepted[c] > 0 \/ posts[c] = max_retries + 1 \/ c \in spoiled \cup Removed

=============================================================================

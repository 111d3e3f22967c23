# null Community Platform: models, model checks and proofs

These TLA+ modules follow the Django and Celery code under `src/` statement by
statement where several processes can interleave. TLC checks them on small
instances and TLAPS proves the main invariants for every value of their
constants. `PROJECT.json` maps each definition to the lines it models, and lists
the runs, the hazards, the findings and the theorems.

## 1. The system

A Django application for meet-up communities, served by gunicorn, with Celery
workers, a Celery beat scheduler, MySQL 8 and Redis.

**What runs at the same time.** Settings enable neither `ATOMIC_REQUESTS` nor any
`transaction.atomic` or `select_for_update` around the code below, so every ORM
statement commits by itself.

- *Web.* `Dockerfile:16` starts gunicorn with its default of one synchronous
  worker, so requests are served one at a time. `scripts/run_showcase.sh:43` and
  `scripts/showcase_screen.sh:30` start `--workers 3`, where they interleave
  between statements.
- *Celery.* Beat enqueues `dispatch_event_notifications` and `auto_mark_absent`
  every 900 s and `send_feedback_requests` every 1800 s
  (`config/settings/base.py:209-227`). A slow run may be overtaken by the next.
  Messages are acknowledged before the task runs; only webhooks are retried.
- *Development, tests and showcase* run tasks eagerly inside the request.

**Components**, with the state each keeps, what changes it, and what makes it
correct:

| component | state | operations | correct when |
|---|---|---|---|
| Registrations (`apps/events`, `apps/leads`) | `EventRegistration.state`, `created_at`, `checked_in_at`; `Event.max_registration`, `auto_absent_processed_at` | RSVP, cancel, mass update, approval queue, admin batches, check-in, event edit, absent sweep, promotion loop | seats stay within the cap, are handed on in queue order, no stale request writes a deleted row back |
| Notifications (`apps/notifications`, `apps/events/tasks.py`) | `Event.public`, `deleted_at`, `notification_state`, `feedback_requested_at`; task rows; the broker queue | the dispatch sweep, the notification tasks, the feedback sweep; leads create, edit, publish, archive | no notice is skipped, none repeats without a cause, none precedes publication, an event gets through all its states |
| One notification round (`notifications/tasks.py`, `broadcast.py`, `whatsapp.py`) | `NotificationPreference`, the channels that are configured | mail each target, then each channel; members change preferences | everyone who wants it is served once, one channel's failure stops no other |
| Mailer tasks (`leads/views.py:353-404`, `notifications/tasks.py:38-67`) | `ready_for_delivery`, `executed` | create, edit, execute, the blast | a blast goes out once, and can go out |
| Webhooks (`notifications/webhooks.py`) | endpoints, deliveries, the retries on the queue | emit, deliver, retry; endpoints come and go | every attempt is recorded, attempts are bounded, an endpoint that stays is told or all attempts are made |
| Monthly reports (`analytics/tasks.py`) | active chapters, their leads | the loop over the chapters | every chapter with leads gets one report |
| Programme (`leads/views.py`, `events/admin.py`) | events, sessions, venues, each with `deleted_at` | create, edit, publish, archive, mass delete, restore; every list, feed, search and total | no visible event in an archived venue, every public event in a list, archived rows vanish and stay archived |
| Speakers' slots (`leads/forms.py`, `events/views.py:318`) | a session's `user`, `co_speakers`, `speaker_confirmed_at` | create, edit, confirm | a confirmation undoes no edit, and reads as its speaker's own |
| Proposals (`apps/proposals`) | `status`, reviews | submit, edit, review, set status | a decision is not taken back unawares, and the proposer knows the status |
| Votes, stars, questions, comments, ratings | one row per member and session | toggles, updates | at most one row, and every click counts |
| Accounts (`apps/accounts`, `apps/api`) | profile, password, preferences, tokens, addresses, OAuth profiles | edit, change of password, issue of a token, deletion | nothing survives a password change or a deletion that should not |
| Two-factor middleware | the right to an area, the enrolment | redirects | every visit lands, on the page asked for or on the enrolment |
| Chapters (`apps/chapters`) | subdomain, custom domain | host resolution, certificate check, canonical URL | the three readers agree |
| Commands (`chapters/management`) | events, sessions, registrations, a lead's account | imports, `seed_attendees`, `add_leader` | a command that was stopped can be run again |
| Analytics figures, content, templates, incident reports | rows that are added or counted | plain forms | not protocol code |

**How they interact.** The web views and the sweeps share the database rows and
nothing else. A request or a sweep works on the instance it loaded and later
saves all its columns (`event_edit`, `event_publish`) or named ones
(`update_fields`). `Event.save` runs two signal handlers, which queue the
webhooks of `event.published` and the notice to the admins. Sweeps create a task
row and then, in a second statement, put a message on the broker; a worker turns
it into mails. Registrations read the cap and the dates of the event the leads
edit. Reads are spread further: what the leads archive is filtered out by each
list, feed and total for itself; a chapter's row decides what the middleware
serves, what the certificate check grants and what the mails link to; the
password and the deletion of an account decide which tokens the API takes.

**What is hard.** Counting seats and then inserting (`events/models.py:483`); a
promotion loop whose statements alternate with those of other requests; batches
that loaded their rows before their own first promotion; a full save that writes
back an older `notification_state`; two sweeps on one event; a worker that dies
between issuing a notice and saving that it did; messages delivered again. In
the pages: a copy loaded before a decision, an archive or a password change and
saved after it; a check and a save with another request in between; a command
stopped halfway.
`PROJECT.json` lists these at their lines under "hazards", with the properties
that cover them. A note says where a property names a race as its exception, or
why none covers the hazard.

## 2. The modules

`SeatAllocation` - what members are promised: seats only while one is free, the
queue in order, a lead's seats on record. Every allocation is one step.

`Registration` - the registrations of one event, a statement of the code per
action. `state`, `ahead` and `checked_in` are the rows (`ahead[u]` is
`created_at`, as the set of rows created before; the clock is read in Python
before the INSERT, so a row may be placed in front of rows that other processes
have inserted since, `CreatedAfter`); `job[w]` is what the request
of web process `w` keeps between statements, with the state its row had when
loaded (`seen`) and whether that row still exists (`live`); `sweep` is the run
of `auto_mark_absent`. `RsvpChoose`/`RsvpInsert` are the two halves of
`EventRegistration.save`; `CancelLate`, `CancelInTime` and `CancelAgain` are
`registration_destroy`; `Decide` is `set_state`; `BatchNext` walks an admin
action over instances loaded at its start; `PromoteCount`, `PromotePick`,
`PromoteConfirm` and `PromoteMail` are `promote_from_waitlist`; `RowGone` is the
`DatabaseError` of saving a row that is gone. `granted` and `gap` are history:
seats given by hand, and seats that became free on a path the code has without a
promotion.

`EventNotifications` - the event rows, the task rows and the queue, Celery
workers and web processes. `job[w]` is a worker's memory: the part of the sweep
it is in (`stage`, named by the notification state it serves; the feedback sweep
is a part of its own), the time it read, the events its query returned, the one
it serves, the notice it issues next and what `_cache_previous_public` read.
`SweepQuery` is one query, `SweepCreate` and `SweepDelay` the two statements of
`_create_and_run`, `SweepPreSave`/`SweepSave`/`SweepEmit` the signal's read, the
UPDATE and, after its commit, the signal's emission of `event.published`.
`LoopOn` is the loop over a query's events and over the five queries; it decides
nothing another process sees, so it is part of the statement before it.
`TaskStart`, `TaskSkip`, `TaskHandle` and `TaskMark` are
`send_automatic_notification`; `TaskFail`, `Crash` and `Redeliver` are its
faults. Web requests load a copy (`EditStart`, `PublishStart`, `ArchiveStart`),
then `PreSave`, `Save` and `EmitPublished`. `issued`, `repeats`, `published` and
the tasks' `sent`, `lost` and `twice` are history; `twice` counts the handlings
that began while another worker was running the same task.

`NoticeRound` - one run of a handler, which `EventNotifications` has as one
step: its targets are served in any order (`Serve`), an announcement goes on to
the channels (`Broadcast`, each guarded by its own `try`), a member's
`notification_preferences` may be saved at any time. `round.step = "failed"` is
the mail that raises.

`MailerTask` - one row of `EventMailerTask`, the messages on the broker that
name it (`outbox`), the workers' walks over the members (`blast`) and the leads'
requests with the copies they loaded (`desk`). `SaveEdit` saves the whole copy,
`SaveReady` and `Delay` are `mailer_task_execute`, `Begin`, `Dismiss`, `Mail` and
`Finish` are `send_event_mailer_task`; `BreakOff` and `DeliverAgain` are its
mishaps. `reopened` and `stranded` are history: what let a further blast start,
and that no message will follow.

`WebhookPromise`, `WebhookDelivery` - the promise: news is tried until it is
taken, a bounded number of times, and dropped only for a reason; and the Celery
task that keeps it: `emit`, `LoadEndpoint`, `RefuseUrl`, `Post`, `Record`,
`Retry`, with endpoints added and deleted meanwhile and a worker that dies.

`MonthlyReports` - the loop over the active chapters, the admins' changes during
it, a worker that dies.

`Programme` - the rows of events, sessions and venues, each with its `deleted`;
`visit[p]` is a lead's request with the row it loaded and its form. One action
per page: `event_edit` loads, `SaveEvent` saves all columns; `venue_delete`
checks, `ArchiveVenue` archives; `SetEvent`, `SetSession`, `SetVenue` are the
admin's archive and restore. Every list, feed, search and total of the sites is
an operator of its view's name over these rows.

`Proposals` - the row, the leads' requests with the status they loaded
(`desk`), the proposer's edit (`draft`), the mails. `Reactions` - the member's
rows of five tables, and per tab the row that its request has read. `Membership`
- the account, its tokens, its address and its contacts elsewhere (`number`,
`auth_profile`), and per request the copy it loaded; the three statements of a
deletion and the two of a password change are actions. `endings` and a token's
`since` are history: how many changes of the password and deletions there were,
and how many of them when the token became active.
`SpeakerSlots` - a session's speaker, co-speakers and confirmation: the two
statements of `LeadEventSessionForm.save` (`SaveSlot`, `SetCredits`) and the
member's load and save (`session_confirm`, `confirm_speaker`); `handed` and
`mixed` are history.
`TwoFactor` - a visit that follows the redirects of `RedirectOf`, the
middleware's answer. `ChapterSite` - the chapters' rows, written by the admin,
the leads and an import, and `_resolve`, `domain_check` and `site_url`, which read
them. `folds` is the database's collation: no setting chooses one, MySQL 8's
default ignores case, and the model has both kinds. `Seeding` - the walk of an import over its feed (`GetOrCreate`, `Complete`)
and the statements of `add_leader`, stopped by `Kill`.

`MCRegistration`, `MCEventNotifications`, `MCMailerTask`, `MCProgramme` - the
instances for TLC. `MCOutgoing` and `MCCommunity` check parts that share no
state side by side: the behaviours of each are chosen at the start, so that the
state spaces add up instead of multiplying.
`RegistrationProofs`, `OneProcessProofs` (registrations), `NotificationProofs`,
`NoticeProofs` (event notifications), `OutgoingProofs` (mailer tasks, rounds,
reports, webhooks), `ProgrammeProofs`, `CommunityProofs` (proposals, two-factor,
commands, slots), `MemberProofs` (accounts, reactions, chapters) - the theorems.

### Abstractions

- *Registration.* No two rows have the same `created_at`. Whether the RSVP window is
  open and how many strikes the member has may be anything, at any time; a
  refused RSVP changes nothing and is no step. The dates of the event are fixed
  points the clock passes. A mass update is a sequence of single decisions, each
  loading its row. `registration.event` may be read early or late. The flags
  `auto_absent_enabled` and `check_in_enabled` are taken to be on. Mails are the
  step that sends them.
- *Notifications.* The broker is a first-in-first-out list whose messages are
  acknowledged before the task runs; a message may be delivered again after the
  broker's visibility timeout. Time moves in units that separate the dates the
  code compares; an event starts and ends within one unit. Who receives a mail,
  and its text, are left out, and so is `notifications_sent_at`.
- *Outgoing.* A mail server's refusal, an exception and a dying worker are one
  mishap each, at any step. An endpoint answers 2xx, an error status or not at
  all; in the last case it may have taken the news. Which chapter a lead belongs
  to is fixed except in `MonthlyReports`.
- *Programme.* Time is in days; an event's dates and flags are one form, and the
  forms do not refuse an end before the start. The chapter is one. Tags, texts
  and uploads are left out.
- *Proposals, Reactions, Membership.* One proposal, one member and one question:
  rows of others are not read by these requests. Texts are an old or a new one.
  Passwords are numbered in the order they were set.
- *ChapterSite.* A host is the root, its alias, a label under the root or another
  domain; a typed domain or subdomain is in lower case, the form the resolver
  compares, or it is not. `Chapter.save` lowers the domain only.
- *Seeding.* A row under a key is missing, bare (created, what belongs to it not
  yet) or whole; the feeds are lists of keys.
- *Not in the models.* The admin's generic forms, which can set any column by
  hand; crashes of web processes; deletion of event rows; eager tasks.

## 3. The runs

| run | instance | shows |
|---|---|---|
| `registration_one_process` | 3 members, 1 process, caps 0 and 1, all requests | `NoIdleSeat`, `ImplementsAllocation`, `PromotedAreMailed`, `PositionOnlyImproves` |
| `registration_two_processes` | 2 processes | `OverbookingBounded`, `NoResurrection` |
| `registration_strike` | 1 process, deadline | violation: a cancellation after the deadline leaves a strike, and a second one deletes it |
| `registration_invite_only` | 1 process, invite-only | violation: a promotion bypasses the approval |
| `registration_batch` | 1 process | violation: a batch takes a seat away and offers it to nobody |
| `notifications_edits` | 1 event, 1 worker, 1 process, 3 requests, clock to 5 | `RepeatsAccountedFor`, `PublishedBeforeNotified`, `ArchivedStaysArchived` |
| `notifications_faults` | 1 event, 1 worker, 1 process, 1 fault, clock to 7, fair | `RepeatsAccountedFor`, `NoNoticeSkipped`, `ReadyEventsAreServed` |
| `notifications_overlap` | 2 workers, 1 overlap or other fault, clock at 0 | `RepeatsAccountedFor`, `NoNoticeSkipped` with sweeps interleaved; `SingleShot` with two workers on one task |
| `outgoing` | mailer: 2 members, 2 workers, 2 processes, 3 requests, 1 mishap; webhooks: 2 news, 1 endpoint, 5 retries, 1 death; notices: 2 addresses, 2 members; reports: 2 chapters, 2 changes, 1 death | `CopiesAccountedFor`, `ReadyTasksAreInHand`, `ReadyTasksEnd`; `RowsTellTheTruth`, `ImplementsPromise`, `CallsEnd`; `RoundsAreWhole`; `ReportsReachTheLeads` |
| `mailer_redelivery` | 1 worker, 1 process, no mishap | violation: an edit takes `executed` back, and the blast is repeated |
| `community` | programme: 1 event, 1 session, 2 venues, 2 leads, 4 requests, 3 days; accounts: 2 requests, 2 tokens, 2 changes of the password or deletions; reactions: 2 tabs, 4 clicks; proposals: 2 requests, 3 moves; chapters: 2 sites, 3 saves, a collation of either kind; commands: 3 rows, 3 runs; slots: 2 members, 2 requests at once, 3 in all | `LiveEventsHaveLiveVenues`, `PublicEventsAreListed`, `RowsStayArchived`; `CredentialsEnd`; `ClicksCount`; `ProposerIsTold`, `DecisionsStand`; `VisitsLand`; `DomainsAgree`; `SeedsAreWhole`, `LeadersGetIn`; `SlotsAreTrue` |
| `programme_archived` | as the programme above | violation: the sessions of an archived event stay listed |

Each module's type invariant is checked once: `TypeOK` in
`registration_one_process` and in `notifications_edits`, the others together as
`OutgoingTypeOK` and `CommunityTypeOK`.

More configurations are kept to be run by hand; each violates the one property it
names:

| configuration | module | property | what the counterexample shows |
|---|---|---|---|
| `RegistrationSeatCap.cfg` | `MCRegistration` | `SeatCapRespected` | two RSVPs take one seat, which `OverbookingBounded` bounds |
| `RegistrationCapRaise.cfg` | `MCRegistration` | `FreedCapacityPromotes` | a raised cap promotes nobody |
| `RegistrationPositions.cfg` | `MCRegistration` | `PositionOnlyImproves` | with two processes a row with an earlier `created_at` is inserted in front of a member who waits |
| `NotificationsRerun.cfg` | `MCEventNotifications` | `SafeToRerun` | a sweep that died is re-run and sends again, which `RepeatsAccountedFor` counts |
| `NotificationsArchived.cfg` | `MCEventNotifications` | `ArchivedAreLeftAlone` | an archived event is announced |
| `NotificationsPublish.cfg` | `MCEventNotifications` | `WebhooksHearFirst` | a sweep announces an event between its UPDATE and `event.published` |
| `ProgrammeAlive.cfg` | `MCProgramme` | `PublicQueriesAreAlive` | a public query returns an archived row |
| `MembershipDeletion.cfg` | `Membership` | `NothingIsLeft` | the OAuth profile or the WhatsApp number of a deleted member stays |
| `MembershipTokens.cfg` | `Membership` | `TokensMatchThePassword` | a login that checked the old password activates its token after the change |
| `ChapterSiteLowercase.cfg` | `MCCommunity` | `StoredLowercase` | a subdomain typed in upper case is stored so |
| `ChapterSiteSubdomains.cfg` | `MCCommunity` | `SubdomainsOpen` | with a collation that tells cases apart, the URL of such a chapter opens no site |

**Why the bounds are enough.** One event suffices because a row of an event is
read and written for that event alone; what passes between events is only a
worker's time. Three members are the fewest for one seat, a head and a second of
the queue; cap 0 and cap 1 with three members give unlimited, full and
overbooked events and every change between them. Two web processes give every
pairwise race; that the bound on overbooking grows with their number is a
theorem. In the notification runs three requests are enough to create, publish
and then change an event while a sweep holds it; the clock's range passes every
date of the code (the feedback window opens two units after the start and closes
at four, the last state is due at three). One fault of each kind at every
possible statement is the crash that matters: a second is another instance of
it, and the theorem counts them all. `notifications_overlap` stops the clock
where two states are due at once, so that the slower sweep can write the older
state back and the notices of the second state repeat. In `outgoing` two workers
and two requests race on one mailer task, one death or refusal falls on every
possible statement, and the five retries are those of the code. In `community`
two requests give every pairwise race on a row; two venues let an event move
while one is archived; two endings and two tokens tell a token of before a
change or a deletion from one of after it; four clicks are a vote, its change, its removal and
its return; two chapters with one slug collide in every column, and three saves are a row,
its change under a lead's loaded copy and another chapter in its place; three feed rows
are a row passed, a row in hand and a row to come, one of each kind. Where a
race is permitted by the code, a history variable (`overtaken`, `crossed`,
`overlap`, `halved`) says so and the property excludes exactly it: it does not
catch that race, it shows that nothing else breaks what is promised;
TLC finds each property violated when a single guard or column is changed in the
code it is about. Passing runs end when
their requests and the clock are used up; the `Max...` constants are in guards
only.

**Fairness.** `ReadyEventsAreServed`: a worker or a process that is alive
takes its next step, and the clock runs: weak fairness. Beat puts every sweep on
the same first-in-first-out queue as the tasks, so no other message can be served
for ever in their place: the starts of the dispatch sweep and of tasks are
strongly fair. Requests, faults and redelivery are never assumed to happen. The
property is about an event that stays public and ready; the code does not
promise anything for one that is withdrawn. `ReadyTasksEnd` and `CallsEnd`: a
worker takes a message that is on the queue and goes on with its task, a web
request that has loaded its row goes on to its save; nobody has to click, no
endpoint has to answer, and mishaps are possible but never assumed.

## 4. The proofs

The theorems hold for every value of the constants allowed by the named
assumptions: finite sets of members and processes, a null element outside them,
caps in `Nat`.

- `TypeCorrect`, `NotificationsTypeCorrect`. Besides types, these say that no
  request and no message names a row that does not exist, which later steps use.
- `DeletedRowsStayDeleted` (`NoResurrection`). Inductive part: a job that is
  `live` names a row that exists, and a deletion turns off every copy.
- `OverbookingIsBounded`. Invariant: for the largest cap `m`, when no cap means
  unlimited, the seats not given by hand plus the requests that have counted and
  not yet written are at most `m` plus the number of processes, minus one. A single count-then-write is
  inside its own allowance; a second one needs another process.
- `NoSeatIsIdle`, `PromotedMembersAreMailed`, `OneProcessImplementsAllocation`,
  `PositionsImprove` (`PositionOnlyImproves`), with one process. Nothing runs between a request's statements except the
  sweep, the clock and nobody's write to the row in hand: copies are fresh apart
  from those of a batch, and a request that has freed a seat is in the loop or
  on its way to it. The refinement maps each statement to one step of
  `SeatAllocation` or to a stutter. Positions only improve because nobody has
  inserted a row since the one that is inserted read its clock, so it goes to the
  end; with two processes it may not, and the theorem does not hold.
- `NoticesRepeatOnlyWhenCounted` (`RepeatsAccountedFor`), with any number of
  workers and processes. The property alone is not inductive: it does not say
  what the workers are about to do. The invariant `Accounts` adds them. For each
  notice of each stage, those issued plus the workers that have still to issue it
  are at most one more than the repeats (`Within`); and while a query can still
  return the event and no worker holds it, those issued are at most the repeats
  (`Unstarted`). A query spends the one in reserve, or finds a holder and counts
  an overlap; issuing moves a worker from "still to issue" to "issued"; a save
  that reopens a stage, and a crash after issuing, each count one repeat.

- `NoticesAreNotSkipped` (`NoNoticeSkipped`), with any workers, processes,
  crashes and overlaps. Invariant `InHand`: every notice of every state before the
  one that a row has, a request's copy has, or a sweep with the event in hand
  serves, was handed over (`RowsServed`, `CopiesServed`, `JobsServed`); and a sweep
  has handed over each notice before the one it issues next, when it is about to
  save all of them (`Underway`). The copies and the jobs are what the property
  leaves out: a stale save sets the row to the state in its copy.
- `NoticesFollowPublication` (`PublishedBeforeNotified`), with any workers and
  processes. A save makes an event public in one statement and emits
  `event.published` in a later one, and sweeps run in between. Invariant `Told`: a
  row that is public, a save whose signal read a row that was public, and an event
  that a worker has taken up each imply that `event.published` was emitted or that
  the process that made it public is about to emit it (`Publishing`).
- `TasksAreSingleShot` (`SingleShot`), with any workers. Invariant `Shots`: what a
  row has sent, and one for each worker that runs its handler and has not mailed,
  is covered by the first run, those counted as lost and those that began while
  another ran (`twice`); the code lets the last two send again, and nothing else.
  While nobody runs a row that is not executed, its mails are covered without the
  first run, which the next handler needs.
- `ArchivedEventsStayArchived` (`ArchivedStaysArchived`) for one web process:
  `OneProcess` is a hypothesis of the theorem, not of the model. With two, a copy
  loaded before the archive can be saved after it. Invariant: the copy of a request
  that is under way is archived if the row is (`Loaded`).

- `CopiesAreAccountedFor` (`CopiesAccountedFor`). The copies a member has, the
  blasts that have still to come to him and the messages on the broker or about
  to be put there are together at most one more than the causes counted
  (`Copied`); and while nothing is under way and the row is not executed, the
  copies alone are at most those causes (`Unspent`), so the one in reserve is
  there for the next `execute`. `ReadyTasksHaveADelivery` follows with the same
  sizes.
- `RoundsServeEverybody` (`RoundsAreWhole`). Invariant: at each step of a round,
  who is still to be served has got nothing, who was served got what his
  preference says unless he changed it meanwhile.
- `EveryChapterIsReportedTo` (`ReportsReachTheLeads`): the chapters of the loop
  that are to come got nothing, the others one report if they were due one.
- `DeliveryRowsAreTrue` (`RowsTellTheTruth`), `DeliveriesKeepThePromise`
  (`ImplementsPromise`). The invariant ties what a call is doing to the rows it
  has written; `Post` maps to `Try`, the end of a call to `Settle`, a death or a
  deletion of the endpoint to `Excuse`, everything else to a stutter.
- `EveryVisitLands` (`VisitsLand`). Invariant: how many redirects each page can
  be away from the first, and where a visit can be while nothing is changed in
  another tab.
- `ImportsLeaveWholeRows` (`SeedsAreWhole`), `AddedLeadersGetIn`
  (`LeadersGetIn`). Invariants: an import at its second statement is at a row
  that is there or was removed; `add_leader` at a statement has written all that
  comes before it, as far as nobody touched the account.
- `ProposersAreTold` (`ProposerIsTold`), `DecisionsAreKept` (`DecisionsStand`).
  Invariants: while no requests crossed, one mail at most is under way and has
  the status of the row; a request about to set a status was told to by the lead
  or loaded a proposal nobody had looked at.

- `ConfirmedSlotsAreTrue` (`SlotsAreTrue`). Invariant: while nothing was handed on
  or saved over, an answer under way is the speaker's, an unconfirmed slot has
  had no answer, and an edit between its two statements is the last one saved.

- `LiveEventsAreHoused` (`LiveEventsHaveLiveVenues`), with any events, venues and
  leads' requests. The property alone is not inductive: a venue is archived one
  statement after the check that no live event uses it. `Housed` says of the rows
  that an upcoming event has a live venue, `Doomed` of the requests that a venue
  about to be archived has no such event: both except for the events that another
  request's step, or an admin's, came in between for, which the histories
  `overtaken` and `administered` name. `PublicEventsAreShown`
  (`PublicEventsAreListed`) follows from the types and from what the forms demand of
  an event; `ArchivedRowsStay` (`RowsStayArchived`) is an action property of the
  copies that are saved.
- `CredentialsAreEnded` (`CredentialsEnd`), with any number of requests, however
  they cross. Invariant `MemberInv`: a request that will save a row it loaded
  loaded an active member's (`RequestsOK`), so a member who is not active is the
  shell that the deletion saved; a token that is accepted became active after the
  last ending, or a request is still at `invalidate` or `delete tokens`
  (`TokensEnd`); and the address is gone or a request is still at it (`ShellEnds`).
- `MembersClicksCount` (`ClicksCount`). Invariant `Undisturbed`: while no two
  requests overlap, the rows have what the clicks so far mean, and the one that is
  open has read the row as it is. It rests on `ClickMeans`: what each of the
  five tables' handlers writes for a click is what the click means, read off the
  row. Requests that overlap may lose a click, but leave a row of its table.
- `ReadersOfHostsAgree` (`DomainsAgree`), for a database of either collation.
  Invariant `SitesInv`: saved domains are in lower case, though subdomains need not
  be, and no two rows have a subdomain or a domain that the database takes for
  equal; then each lookup finds at most one site, and the same.

- `OutgoingRunsItsParts`, `CommunityRunsItsParts`: every behaviour of
  `MCOutgoing` and of `MCCommunity` is a behaviour of each part, since a step of one
  leaves the variables of the others alone. So the theorems above, which speak of a
  part's own specification, hold of what TLC runs.
- `OutgoingTypesCorrect` (`OutgoingTypeOK`), `CommunityTypesCorrect`
  (`CommunityTypeOK`) rest on them. Each part's type comes out of the invariant
  proved for its property, and what that leaves out is added where it is needed:
  `ProposalRest`, `NoticeRest`, `ReportRest`, and `ReactionRest`, by which the key of
  a row is never above the number of clicks (`AfterKeys`: a save of a row that is
  gone inserts it under its old key).

`CommunityProofs` takes in `ProgrammeProofs` and `MemberProofs` for these.

Only model-checked: the liveness properties `ReadyEventsAreServed`,
`ReadyTasksEnd` and `CallsEnd`, which are outside the prover.

## 5. Findings

Five runs show the code doing something else than its documentation says; the
quotations are in `PROJECT.json`. Cancelling twice after the deadline removes the
strike (`events/views.py:242`). The waitlist of an invite-only event bypasses
approval (`events/models.py:214`). An admin batch that lists waiting members can
leave a seat empty (`events/admin.py:137`). An edit of a mailer task that was
opened before its blast ended makes the task executable again
(`leads/views.py:382`). The sessions of an archived event stay in the search and
in the sitemap (`core/views.py:160`).

The configurations by hand show, besides what section 3 lists at each: `alive()`
is missing from the API's list of an event's sessions (`api/views.py:43-51`) and
from the totals of `core/stats.py`, while `docs/ARCHITECTURE.md:150` has "public
querysets must call `.alive()`"; `anonymize_and_deactivate` deletes neither the
`NotificationPreference` row with its WhatsApp number nor the `UserAuthProfile`
rows, while its docstring has "names, contacts, profiles, and tokens gone"
(`accounts/models.py:169-170`); a token may be issued for a password that has
been changed (`api/views.py:80-85`), while tokens are said to be "invalidated on
password change" (`api/authentication.py:12`); `Chapter.save` leaves the subdomain as it was
typed (`chapters/models.py:46-47`), while the comment on both columns has "stored
lowercase" (`chapters/models.py:17`). With MySQL's default collation the last is
harmless, since filters and unique constraints ignore case; with any other, such a
chapter has no site at its own URL.

Seen while modelling, without a run: `--activate` of `import_null_community` changes nothing, since `Chapter.active`
is true by default; no code clears `WebhookEndpoint.active`, which
`deliver_webhook` asks for; giving a session to another speaker keeps
`speaker_confirmed_at`, so that the new speaker reads "Confirmed" to the leads
(`leads/forms.py:151`; `handed` in `SpeakerSlots`);
`registration.checked_in` is announced again by every later save of the row in
another request, since `_webhook_checkin_sent` is kept on the instance
(`notifications/signals.py:74`).

## 6. The plan

In order of weight; each step adds a module, its runs and its theorems.

1. `SeatAllocation`, `Registration` - done, with theorems.
2. `EventNotifications` - done, with theorems for every safety property.
3. `MailerTask`, `WebhookDelivery` with `WebhookPromise`, `NoticeRound`,
   `MonthlyReports` - done, with theorems for every safety property.
4. `Programme`, `Proposals`, `Reactions`, `Membership`, `TwoFactor`,
   `ChapterSite`, `Seeding`, `SpeakerSlots` - done, with theorems for every safety
   property.
5. A composition of `EventNotifications` with `NoticeRound` and
   `WebhookDelivery`: their state spaces multiply beyond what a run can visit, so
   this needs a refinement of the step `TaskHandle` by `NoticeRound` rather than a
   product.

## 7. Not modelled

- *Analytics*: the middleware adds one row per page view, no row is ever changed,
  and the figures are counts over them; nothing can go out of step.
- *Incident reports, content pages, the audit log*: forms that add or change one
  row which no other code acts on. *Badges* (`core/gamification.py`) are computed
  from the rows when a page is shown. The *captcha* is one call to a service.
- *Event types, comments on events, the gallery, session requests, achievements,
  chapter applications*: forms that add one row, or send one mail, that no other
  page changes. A name of an event type is unique in the database.
- *The payload of registration webhooks*: `registration.created` and
  `registration.checked_in` are news like any other to `WebhookDelivery`; which
  save of a registration emits them is not modelled.
- *The door's kiosk*: it calls the same `check_in()` as the leads' page
  (`CheckIn` in `Registration`).
- *Data export, public profiles, the serialisers of the API*: they read one
  member's or one event's rows and write nothing.
- *`geocode_chapters`, `scripts/seed_rev3_data.py`*: they fill columns, or a demo
  database, that no modelled code depends on.
- *Sign-up, login and the enrolment of an authenticator* are django-allauth's;
  `Membership` and `TwoFactor` take their outcome as external actions.
- *Templates, settings, deployment*: no behaviour of their own beyond the
  schedules, worker counts and addresses used above.

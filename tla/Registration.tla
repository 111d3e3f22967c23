---------------------------- MODULE Registration ----------------------------
(***************************************************************************)
(* The registrations of one event: RSVP, cancellation, the waitlist, lead  *)
(* decisions, door check-in, edits of the event and the auto-absent sweep  *)
(* (apps/events/models.py, views.py, tasks.py, admin.py, apps/leads/       *)
(* views.py).                                                              *)
(*                                                                         *)
(* The code opens no transaction and takes no row lock, so each ORM        *)
(* statement commits by itself and requests served by different processes  *)
(* interleave between statements.  Every action below is one statement, or *)
(* one run of reads that no decision separates.  A web process serves one  *)
(* request at a time; job[w] is what its request keeps in memory between   *)
(* statements, and may be stale when it is used.                           *)
(***************************************************************************)
EXTENDS Naturals, FiniteSets

CONSTANTS
    Users,          \* the members; (event, user) is unique, so a row is named by its user
    Nobody,         \* "no member", in the memory of a request
    Workers,        \* the web processes
    Caps,           \* the values max_registration may be given; 0 means unlimited
    InviteOnly,     \* event.event_type.invitation_required
    Deadline,       \* cancellation_deadline_hours is set
    Requests,       \* bound: the kinds of request that arrive
    Decisions       \* bound: the states leads set

ASSUME UsersAssumption == IsFiniteSet(Users) /\ Nobody \notin Users
ASSUME WorkersAssumption == IsFiniteSet(Workers) /\ Workers # {}
ASSUME CapsAssumption == Caps \subseteq Nat
ASSUME FlagsAssumption == InviteOnly \in BOOLEAN /\ Deadline \in BOOLEAN
ASSUME RequestsAssumption == Requests \subseteq {"rsvp", "cancel", "decide", "batch", "check_in", "edit"}
ASSUME DecisionsAssumption ==
    Decisions \subseteq {"Provisional", "Confirmed", "Not Attending", "Absent", "Waitlisted"}

VARIABLES
    state,                  \* EventRegistration.state of each member's row, or NoRow
    ahead,                  \* created_at, as the rows created before each row
    checked_in,             \* the members whose row has checked_in_at
    max_registration,       \* Event.max_registration
    phase,                  \* where the clock stands between the event's dates
    auto_absent_processed,  \* Event.auto_absent_processed_at is set
    job,                    \* the request each web process is serving
    sweep,                  \* the run of auto_mark_absent in the Celery worker
    granted,                \* history: members seated by a lead or at the door
    gap                     \* history: seats may be free with nobody told to promote

rows == <<state, ahead, checked_in>>
event == <<max_registration, phase, auto_absent_processed>>
history == <<granted, gap>>
vars == <<rows, event, job, sweep, history>>

-----------------------------------------------------------------------------
(* The stored rows.                                                        *)

RegistrationStates == {"Provisional", "Confirmed", "Not Attending", "Absent", "Waitlisted"}
SeatHolding == {"Provisional", "Confirmed"}
NoRow == "no row"

Registered == {u \in Users : state[u] # NoRow}
Seated == {u \in Users : state[u] \in SeatHolding}
Waiting == {u \in Users : state[u] = "Waitlisted"}

active_registration_count == Cardinality(Seated)

(* Mutant: >= for >.                                                       *)
RegistrationAllowedAtCap(c) == c > 0 => c >= active_registration_count

(* registration_allowed() of an Event instance that was read with cap c.   *)
RegistrationAllowed(c) == c > 0 => c > active_registration_count

(* Mutant: order_by("created_at") is lost.                                 *)
AnyInLine(u) == u \in Waiting

(* The first Waitlisted row by created_at.                                 *)
FirstInLine(u) == u \in Waiting /\ Waiting \cap ahead[u] = {}

(* EventRegistration.waitlist_position of a Waitlisted row.                *)
WaitlistPosition(u) == Cardinality(Waiting \cap ahead[u]) + 1

(* timezone.now() > event.cancellation_deadline().                         *)
DeadlinePassed == Deadline /\ phase # "early"

-----------------------------------------------------------------------------
(* The requests.                                                           *)

Steps == {"idle", "choose", "insert", "cancel", "decide", "check_in",
          "count", "pick", "confirm", "mail", "edit", "next"}

(* A row as a request loaded it; live: that row still exists (primary keys *)
(* are not reused).                                                        *)
LoadedRows == [user: Users, seen: RegistrationStates, live: BOOLEAN]

(* step: what the request does next.  user, seen, live: the row it works   *)
(* on, as loaded.  goal: the state it will write.  cap, processed: from    *)
(* the Event instance it loaded.  promoted: rows its promotion loop        *)
(* confirmed.  rest: the rows of an admin batch it has still to set.       *)
(* older: the rows that were there before an RSVP took its created_at.     *)
IdleJob == [step |-> "idle", user |-> Nobody, seen |-> NoRow, live |-> TRUE, goal |-> NoRow,
            cap |-> 0, processed |-> FALSE, promoted |-> {}, rest |-> {}, older |-> {}]

Continue(w, j) == job' = [job EXCEPT ![w] = j]
Start(w, kind, j) == kind \in Requests /\ job[w].step = "idle" /\ Continue(w, j)
Finish(w) == Continue(w, IdleJob)

(* A request that fetches the row of u before it acts on it.               *)
Fetched(u, step, goal) ==
    [IdleJob EXCEPT !.step = step, !.user = u, !.seen = state[u], !.goal = goal,
                    !.cap = max_registration]

(* What a request carries from one row of a batch to the next.             *)
BatchLeft(j) == IF j.rest = {} THEN IdleJob ELSE [IdleJob EXCEPT !.goal = j.goal, !.rest = j.rest]

(* One row is done: the next row of the batch, or the response.            *)
Resume(j) == IF j.rest = {} THEN IdleJob ELSE [BatchLeft(j) EXCEPT !.step = "next"]

(* Entering promote_from_waitlist on an Event read with cap c.             *)
Promoting(j, c) == [BatchLeft(j) EXCEPT !.step = "count", !.cap = c]

(* set_state has just moved the row off a seat, as its instance saw it.    *)
FreedSeat(j, new) == j.seen \in SeatHolding /\ new \notin SeatHolding

-----------------------------------------------------------------------------
(* RSVP: registration_new, EventRegistration.clean and .save.  The RSVP    *)
(* window and the member's strikes on other events, which clean() asks     *)
(* for, may be in any state at any time: a refused RSVP changes nothing    *)
(* and is no step here.  A member who is registered already is not refused *)
(* until the INSERT.                                                       *)

RsvpStart(w, u) ==
    /\ Start(w, "rsvp", [IdleJob EXCEPT !.step = "choose", !.user = u, !.cap = max_registration])
    /\ UNCHANGED <<rows, event, sweep, history>>

(* Mutant: the default state is left blank when a seat is free.            *)
DefaultStateBlank(c) ==
    IF ~RegistrationAllowed(c) THEN "Waitlisted" ELSE NoRow

DefaultState(c) ==
    IF ~RegistrationAllowed(c) THEN "Waitlisted"
    ELSE IF InviteOnly THEN "Provisional" ELSE "Confirmed"

RsvpChoose(w) ==
    /\ job[w].step = "choose"
    /\ Continue(w, [job[w] EXCEPT !.step = "insert", !.goal = DefaultState(job[w].cap),
                                  !.older = Registered])
    /\ UNCHANGED <<rows, event, sweep, history>>

(* created_at is the clock of the process when it prepares the INSERT, so  *)
(* the row comes after those that were there when its state was chosen,    *)
(* and anywhere among those that other processes have inserted since: S is *)
(* what it comes after.                                                    *)
CreatedAfter(older) ==
    {S \in SUBSET Registered : older \subseteq S /\ \A v \in S : ahead[v] \subseteq S}

PlacedAfter(u, S) ==
    [v \in Users |-> IF v = u THEN S
                     ELSE IF v \in Registered \ S THEN ahead[v] \cup {u}
                     ELSE ahead[v]]

(* Mutant: the new row sorts before all others, as with a null created_at. *)
RsvpInsertFirst(w) ==
    LET u == job[w].user IN
    /\ job[w].step = "insert"
    /\ state[u] = NoRow
    /\ state' = [state EXCEPT ![u] = job[w].goal]
    /\ ahead' = PlacedAfter(u, {})
    /\ Finish(w)
    /\ UNCHANGED <<checked_in, event, sweep, history>>

RsvpInsert(w) ==
    LET u == job[w].user IN
    /\ job[w].step = "insert"
    /\ state[u] = NoRow
    /\ state' = [state EXCEPT ![u] = job[w].goal]
    /\ \E S \in CreatedAfter(job[w].older) : ahead' = PlacedAfter(u, S)
    /\ Finish(w)
    /\ UNCHANGED <<checked_in, event, sweep, history>>

(* The unique constraint refuses a second row: IntegrityError, no change.  *)
RsvpDuplicate(w) ==
    /\ job[w].step = "insert"
    /\ state[job[w].user] # NoRow
    /\ Finish(w)
    /\ UNCHANGED <<rows, event, sweep, history>>

-----------------------------------------------------------------------------
(* set_state: the UPDATE of the row's state, then the promotion loop if    *)
(* the instance saw a seat being given up.  The loop runs on the Event the *)
(* request loaded, or on one that is read only then.                       *)
SetState(w, new) ==
    LET u == job[w].user IN
    /\ job[w].live
    /\ job[w].seen # new
    /\ state' = [state EXCEPT ![u] = new]
    /\ IF FreedSeat(job[w], new)
          THEN \E c \in {job[w].cap, max_registration} : Continue(w, Promoting(job[w], c))
          ELSE Continue(w, Resume(job[w]))
    /\ UNCHANGED <<ahead, checked_in, event, sweep>>

(* Cancellation by the member: registration_destroy.                       *)
CancelStart(w, u) ==
    /\ state[u] # NoRow
    /\ Start(w, "cancel", Fetched(u, "cancel", NoRow))
    /\ UNCHANGED <<rows, event, sweep, history>>

CancelIsLate(w) == DeadlinePassed /\ job[w].seen \in SeatHolding

CancelLate(w) ==
    /\ job[w].step = "cancel"
    /\ CancelIsLate(w)
    /\ SetState(w, "Absent")
    /\ granted' = granted \ {job[w].user}
    /\ UNCHANGED gap

(* The jobs once the row of u is deleted and w goes on with j.             *)
JobsWithoutRow(w, u, j) ==
    [x \in Workers |->
        IF x = w THEN j
        ELSE [job[x] EXCEPT !.live = @ /\ job[x].user # u, !.older = @ \ {u},
                            !.rest = {[r EXCEPT !.live = @ /\ r.user # u] : r \in @}]]

(* Mutant: the view deletes the row and forgets the promotion.             *)
AfterDeleteNothing(w) == IdleJob

AfterDelete(w) ==
    IF job[w].seen \in SeatHolding THEN Promoting(job[w], job[w].cap) ELSE IdleJob

CancelInTime(w) ==
    LET u == job[w].user IN
    /\ job[w].step = "cancel"
    /\ ~CancelIsLate(w)
    /\ job[w].live
    /\ state' = [state EXCEPT ![u] = NoRow]
    /\ ahead' = [v \in Users |-> IF v = u THEN {} ELSE ahead[v] \ {u}]
    /\ checked_in' = checked_in \ {u}
    /\ granted' = granted \ {u}
    /\ job' = JobsWithoutRow(w, u, AfterDelete(w))
    /\ UNCHANGED <<event, sweep, gap>>

(* Deleting a row that is already gone changes nothing and raises nothing. *)
CancelAgain(w) ==
    /\ job[w].step = "cancel"
    /\ ~CancelIsLate(w)
    /\ ~job[w].live
    /\ Continue(w, AfterDelete(w))
    /\ UNCHANGED <<rows, event, sweep, history>>

-----------------------------------------------------------------------------
(* Leads: mass update and the approval queue, which load each row as they  *)
(* come to it, and the admin's batch actions, which load all rows first.   *)

DecideStart(w, u, goal) ==
    /\ state[u] # NoRow
    /\ Start(w, "decide", Fetched(u, "decide", goal))
    /\ UNCHANGED <<rows, event, sweep, history>>

BatchStart(w, S, goal) ==
    /\ S # {}
    /\ S \subseteq Registered
    /\ Start(w, "batch",
             [IdleJob EXCEPT !.step = "next", !.goal = goal,
                             !.rest = {[user |-> u, seen |-> state[u], live |-> TRUE] : u \in S}])
    /\ UNCHANGED <<rows, event, sweep, history>>

BatchNext(w) ==
    /\ job[w].step = "next"
    /\ \E r \in job[w].rest :
        Continue(w, [job[w] EXCEPT !.step = "decide", !.user = r.user, !.seen = r.seen,
                                   !.live = r.live, !.cap = max_registration,
                                   !.rest = @ \ {r}])
    /\ UNCHANGED <<rows, event, sweep, history>>

(* No promotion follows when a row that was put on the waitlist, or loaded *)
(* before a promotion seated it, was seen without a seat.                  *)
PassesOver(j) ==
    /\ j.seen \notin SeatHolding
    /\ j.goal = "Waitlisted" \/ (state[j.user] \in SeatHolding /\ j.goal \notin SeatHolding)

(* A lead's decision is on record in granted.                              *)
Decide(w) ==
    LET j == job[w] IN
    /\ j.step = "decide"
    /\ SetState(w, j.goal)
    /\ granted' = IF j.goal \in SeatHolding THEN granted \cup {j.user} ELSE granted \ {j.user}
    /\ gap' = (gap \/ PassesOver(j))

DecideNothing(w) ==
    /\ job[w].step = "decide"
    /\ job[w].seen = job[w].goal
    /\ Continue(w, Resume(job[w]))
    /\ UNCHANGED <<rows, event, sweep, history>>

(* Door check-in, by scan, dashboard or kiosk: check_in().  A row already  *)
(* checked in is left alone.                                               *)
CheckInStart(w, u) ==
    /\ state[u] # NoRow
    /\ u \notin checked_in
    /\ Start(w, "check_in", Fetched(u, "check_in", "Confirmed"))
    /\ UNCHANGED <<rows, event, sweep, history>>

CheckIn(w) ==
    LET u == job[w].user IN
    /\ job[w].step = "check_in"
    /\ job[w].live
    /\ state' = [state EXCEPT ![u] = "Confirmed"]
    /\ checked_in' = checked_in \cup {u}
    /\ granted' = granted \cup {u}
    /\ Finish(w)
    /\ UNCHANGED <<ahead, event, sweep, gap>>

-----------------------------------------------------------------------------
(* promote_from_waitlist: while registration_allowed(), confirm the first  *)
(* Waitlisted row; then mail everybody who was confirmed.                  *)

(* Mutant: the loop returns as soon as the event is full again.            *)
AfterLoopNoMail(w) == Resume(job[w])

AfterLoop(w) ==
    IF job[w].promoted = {} THEN Resume(job[w])
    ELSE [BatchLeft(job[w]) EXCEPT !.step = "mail", !.promoted = job[w].promoted]

PromoteCount(w) ==
    /\ job[w].step = "count"
    /\ IF RegistrationAllowed(job[w].cap)
          THEN Continue(w, [job[w] EXCEPT !.step = "pick"]) /\ UNCHANGED gap
          ELSE Continue(w, AfterLoop(w)) /\ gap' = FALSE
    /\ UNCHANGED <<rows, event, sweep, granted>>

PromotePick(w) ==
    /\ job[w].step = "pick"
    /\ \E u \in Users :
        /\ FirstInLine(u)
        /\ Continue(w, [job[w] EXCEPT !.step = "confirm", !.user = u, !.seen = "Waitlisted"])
    /\ UNCHANGED <<rows, event, sweep, history>>

PromoteNobody(w) ==
    /\ job[w].step = "pick"
    /\ Waiting = {}
    /\ Continue(w, AfterLoop(w))
    /\ gap' = FALSE
    /\ UNCHANGED <<rows, event, sweep, granted>>

(* Mutant: save() without update_fields, which inserts a row that is gone. *)
PromoteConfirmFullSave(w) ==
    LET u == job[w].user IN
    /\ job[w].step = "confirm"
    /\ state' = [state EXCEPT ![u] = "Confirmed"]
    /\ Continue(w, [Promoting(job[w], job[w].cap) EXCEPT !.promoted = job[w].promoted \cup {u}])
    /\ UNCHANGED <<ahead, checked_in, event, sweep, history>>

PromoteConfirm(w) ==
    LET u == job[w].user IN
    /\ job[w].step = "confirm"
    /\ job[w].live
    /\ state' = [state EXCEPT ![u] = "Confirmed"]
    /\ Continue(w, [Promoting(job[w], job[w].cap) EXCEPT !.promoted = job[w].promoted \cup {u}])
    /\ UNCHANGED <<ahead, checked_in, event, sweep, history>>

PromoteMail(w) ==
    /\ job[w].step = "mail"
    /\ Continue(w, Resume(job[w]))
    /\ UNCHANGED <<rows, event, sweep, history>>

(* save(update_fields=...) of a row that is gone raises DatabaseError and  *)
(* ends the request where it stands.                                       *)
WritesRow(w) ==
    \/ job[w].step = "cancel" /\ CancelIsLate(w)
    \/ job[w].step = "decide" /\ job[w].seen # job[w].goal
    \/ job[w].step \in {"check_in", "confirm"}

RowGone(w) ==
    /\ WritesRow(w)
    /\ ~job[w].live
    /\ Finish(w)
    /\ UNCHANGED <<rows, event, sweep, history>>

-----------------------------------------------------------------------------
(* Saving the event: event_edit stores a cap typed by the lead and         *)
(* event_publish the one it loaded; both write back every other column as  *)
(* loaded, auto_absent_processed_at included.  Neither promotes.           *)
EditStart(w) ==
    /\ Start(w, "edit", [IdleJob EXCEPT !.step = "edit", !.cap = max_registration,
                                        !.processed = auto_absent_processed])
    /\ UNCHANGED <<rows, event, sweep, history>>

Raises(c) == c = 0 \/ (max_registration # 0 /\ c > max_registration)

EditSave(w) ==
    /\ job[w].step = "edit"
    /\ \E c \in Caps :
        /\ max_registration' = c
        /\ gap' = (gap \/ Raises(c))
    /\ auto_absent_processed' = job[w].processed
    /\ Finish(w)
    /\ UNCHANGED <<rows, phase, sweep, granted>>

-----------------------------------------------------------------------------
(* auto_mark_absent in the Celery worker: select the events that are over  *)
(* and not processed, one bulk UPDATE, then the marker.  A task that dies  *)
(* half way is not retried; the next beat runs it again.                   *)

NoShows == {u \in Users : state[u] = "Confirmed" /\ u \notin checked_in}

SweepSelect ==
    /\ sweep = "idle"
    /\ phase = "over"
    /\ ~auto_absent_processed
    /\ sweep' = "update"
    /\ UNCHANGED <<rows, event, job, history>>

SweepUpdate ==
    /\ sweep = "update"
    /\ state' = [u \in Users |-> IF u \in NoShows THEN "Absent" ELSE state[u]]
    /\ granted' = granted \ NoShows
    /\ gap' = (gap \/ NoShows # {})
    /\ sweep' = "mark"
    /\ UNCHANGED <<ahead, checked_in, event, job>>

SweepMark ==
    /\ sweep = "mark"
    /\ auto_absent_processed' = TRUE
    /\ sweep' = "idle"
    /\ UNCHANGED <<rows, max_registration, phase, job, history>>

SweepCrash ==
    /\ sweep # "idle"
    /\ sweep' = "idle"
    /\ UNCHANGED <<rows, event, job, history>>

-----------------------------------------------------------------------------
(* Time: the cancellation deadline passes, then the event is over.         *)

ClockMoves ==
    /\ \/ phase = "early" /\ phase' = "late"
       \/ phase = "late" /\ phase' = "over"
    /\ UNCHANGED <<rows, max_registration, auto_absent_processed, job, sweep, history>>

-----------------------------------------------------------------------------
Init ==
    /\ state = [u \in Users |-> NoRow]
    /\ ahead = [u \in Users |-> {}]
    /\ checked_in = {}
    /\ max_registration \in Caps
    /\ phase = "early"
    /\ auto_absent_processed = FALSE
    /\ job = [w \in Workers |-> IdleJob]
    /\ sweep = "idle"
    /\ granted = {}
    /\ gap = FALSE

Request(w) ==
    \/ \E u \in Users : RsvpStart(w, u)
    \/ \E u \in Users : CancelStart(w, u)
    \/ \E u \in Users, goal \in Decisions : DecideStart(w, u, goal)
    \/ \E S \in SUBSET Users, goal \in Decisions \ {"Waitlisted"} : BatchStart(w, S, goal)
    \/ \E u \in Users : CheckInStart(w, u)
    \/ EditStart(w)

Step(w) ==
    \/ RsvpChoose(w)
    \/ RsvpInsert(w)
    \/ RsvpDuplicate(w)
    \/ CancelLate(w)
    \/ CancelInTime(w)
    \/ CancelAgain(w)
    \/ Decide(w)
    \/ DecideNothing(w)
    \/ BatchNext(w)
    \/ CheckIn(w)
    \/ PromoteCount(w)
    \/ PromotePick(w)
    \/ PromoteNobody(w)
    \/ PromoteConfirm(w)
    \/ PromoteMail(w)
    \/ RowGone(w)
    \/ EditSave(w)

Sweep == SweepSelect \/ SweepUpdate \/ SweepMark \/ SweepCrash

Next ==
    \/ \E w \in Workers : Request(w)
    \/ \E w \in Workers : Step(w)
    \/ Sweep
    \/ ClockMoves

Spec == Init /\ [][Next]_vars

-----------------------------------------------------------------------------
(* Types.                                                                  *)

Jobs == [step: Steps, user: Users \cup {Nobody}, seen: RegistrationStates \cup {NoRow},
         live: BOOLEAN, goal: RegistrationStates \cup {NoRow}, cap: Caps \cup {0},
         processed: BOOLEAN, promoted: SUBSET Users, rest: SUBSET LoadedRows,
         older: SUBSET Users]

(* A request that names a member has one in hand, one that is about to     *)
(* write a state has chosen it, one that counts seats has read the cap,    *)
(* and only a batch has rows left.                                         *)
JobOK(j) ==
    /\ j \in Jobs
    /\ j.step \in {"choose", "insert", "cancel", "decide", "check_in", "confirm"}
         => j.user \in Users
    /\ j.step \in {"insert", "decide"} \/ j.rest # {} => j.goal \in RegistrationStates
    /\ j.step \in {"choose", "cancel", "decide", "count", "pick", "confirm"} => j.cap \in Caps
    /\ j.rest # {} => j.step \in {"next", "decide", "count", "pick", "confirm", "mail"}

(* Every variable stays in its type.                                       *)
TypeOK ==
    /\ state \in [Users -> RegistrationStates \cup {NoRow}]
    /\ ahead \in [Users -> SUBSET Users]
    /\ checked_in \in SUBSET Users
    /\ max_registration \in Caps
    /\ phase \in {"early", "late", "over"}
    /\ auto_absent_processed \in BOOLEAN
    /\ job \in [Workers -> Jobs]
    /\ \A w \in Workers : JobOK(job[w])
    /\ sweep \in {"idle", "update", "mark"}
    /\ granted \in SUBSET Users
    /\ gap \in BOOLEAN

-----------------------------------------------------------------------------
(* Properties that hold whatever the number of processes.                  *)

(* Counting and then inserting are two statements, so requests in flight   *)
(* at once may each take the last seat.  But seats not given by hand       *)
(* exceed the largest cap ever set by at most one per further process.     *)
OverbookingBounded ==
    \A m \in Caps :
        (\A c \in Caps : 0 < c /\ c <= m)
            => Cardinality(Seated \ granted) <= m + Cardinality(Workers) - 1

(* A row that was deleted comes back only through a new RSVP of that       *)
(* member: no request holding a stale copy (a lead's decision, a check-in, *)
(* a promotion) writes it back.                                            *)
NoResurrection ==
    [][\A u \in Users :
          state[u] = NoRow /\ state'[u] # NoRow
              => \E w \in Workers : job[w].step = "insert" /\ job[w].user = u]_vars

-----------------------------------------------------------------------------
(* Properties of a deployment with one web process.                        *)

(* With no request in progress, members wait only for seats that are       *)
(* taken: every seat given up was handed on.  The exceptions the code has  *)
(* are recorded in gap: a raised cap, the sweep, a row a lead passes over; *)
(* they last until the next promotion loop has run.                        *)
NoIdleSeat ==
    (\A w \in Workers : job[w].step = "idle") /\ ~gap
        => Waiting = {} \/ ~RegistrationAllowed(max_registration)

(* Nobody the promotion loop confirmed is dropped before the mails go out, *)
(* though the loop and the mailing are separated by other statements.      *)
PromotedAreMailed ==
    [][\A w \in Workers :
          job[w].promoted \subseteq job'[w].promoted \/ PromoteMail(w)]_vars

(* The position shown to a waiting member never gets worse, unless a lead  *)
(* puts an older registration on the waitlist.  (With several processes it *)
(* may: an RSVP that took its created_at earlier can be inserted later.)   *)
PositionOnlyImproves ==
    [][(\A w \in Workers : ~Decide(w))
          => \A u \in Waiting \cap Waiting' : WaitlistPosition(u)' <= WaitlistPosition(u)]_vars

(* The event hands out its seats as SeatAllocation promises: newcomers and *)
(* the head of the queue are seated only while a seat is free, in order.   *)
Standing(s) ==
    CASE s = NoRow -> "none"
      [] s \in SeatHolding -> "seat"
      [] s = "Waitlisted" -> "queue"
      [] OTHER -> "out"

Allocation == INSTANCE SeatAllocation
    WITH place <- [u \in Users |-> Standing(state[u])], cap <- max_registration

ImplementsAllocation == Allocation!Spec

-----------------------------------------------------------------------------
(* What the documentation says of the program, and the program does not do.*)

(* DATA_MODEL.md: max_registration is the seat cap.                        *)
SeatCapRespected ==
    max_registration > 0 => Cardinality(Seated \ granted) <= max_registration

(* registration_destroy: a late cancellation "counts as a no-show on your  *)
(* record"; the member cannot take that record away.  Between the deadline *)
(* and the event's end only a late cancellation makes a member Absent.     *)
StrikeStands ==
    [][\A u \in Users :
          phase = "late" /\ state[u] = "Absent" => state'[u] # NoRow]_vars

(* FEATURES.md: RSVPs to an invite-only event go through the approval      *)
(* queue, so nobody is confirmed without a decision.                       *)
InviteOnlyNeedsApproval ==
    InviteOnly => \A u \in Users : state[u] = "Confirmed" => u \in granted

(* DATA_MODEL.md: promotion is "called after any seat-freeing transition": *)
(* whenever a request takes a row off a seat, its next act is the loop.    *)
FreedSeatPromotes ==
    [][sweep' = sweep
          => \A u \in Seated \ Seated' : \E w \in Workers : job'[w].step = "count"]_vars

(* promote_from_waitlist is "called after any capacity-freeing change",    *)
(* a cap increase among them: saving a raised cap enters the loop when     *)
(* members wait.                                                           *)
FreedCapacityPromotes ==
    [][\A w \in Workers :
          EditSave(w) /\ Waiting' # {} /\ RegistrationAllowed(max_registration)'
              => job'[w].step = "count"]_vars
=============================================================================

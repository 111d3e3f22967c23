------------------------------ MODULE Programme ------------------------------
(***************************************************************************)
(* The programme of a chapter: its events, their sessions and the venues,  *)
(* as its leads write them (apps/leads/views.py, forms.py), the admins     *)
(* archive and restore them (apps/events/admin.py) and the sites list them *)
(* (apps/core/views.py, apps/events/views.py, apps/chapters, apps/api).    *)
(*                                                                         *)
(* Deleting is archiving: soft_delete() sets deleted_at, and every public  *)
(* query has to ask for the rows that are alive.  A request that edits a   *)
(* row saves all the columns of the copy it loaded.                        *)
(***************************************************************************)
EXTENDS Integers, FiniteSets

CONSTANTS
    Leads,          \* the web processes that serve the chapter's leads
    Events,
    Sessions,
    EventOf,        \* the event that each session is for
    Venues,
    EventForms,     \* bound: the dates and flags the leads enter
    FirstVenues,    \* the venues that are there at the start
    MaxDay,         \* bound: the clock
    MaxVisits       \* bound: the requests of leads and admins

ASSUME ProgrammeConstants ==
    /\ EventOf \in [Sessions -> Events]
    /\ EventForms \subseteq [start: Nat, end: Nat, on_homepage: BOOLEAN, on_archive: BOOLEAN]
    /\ FirstVenues \subseteq Venues
    /\ MaxDay \in Nat /\ MaxVisits \in Nat

VARIABLES
    day,            \* timezone.now(), in the unit of the dates
    programme,      \* the Event rows
    talks,          \* the EventSession rows
    venues,         \* the Venue rows
    visit,          \* what each web process does
    visits,         \* the requests so far
    overtaken,      \* history: the events that a request of another lead overtook, as told below
    administered    \* history: the events that an admin restored, or whose venue an admin archived

programmeVars == <<day, programme, talks, venues, visit, visits, overtaken, administered>>

-----------------------------------------------------------------------------
(* The rows.                                                               *)

Absent == [there |-> FALSE]
TalkRows == [there: {TRUE}, deleted: BOOLEAN, placeholder: BOOLEAN]
EventRows == [there: {TRUE}, deleted: BOOLEAN, public: BOOLEAN, venue: Venues, form: EventForms]
VenueRows == [there: {TRUE}, deleted: BOOLEAN]

(* SoftDeleteQuerySet.alive()                                              *)
alive(table) == {x \in DOMAIN table : table[x].there /\ ~table[x].deleted}
rowsOf(table) == {x \in DOMAIN table : table[x].there}

ends(e) == programme[e].form.end
starts(e) == programme[e].form.start

(* managed_venues(): what the event form offers.                           *)
managed_venues == alive(venues)

-----------------------------------------------------------------------------
(* What the sites show: each listing as the set of its rows.               *)

(* Mutant: archives() lists the events that are over.                      *)
archives_of_the_past ==
    {e \in alive(programme) : programme[e].public /\ programme[e].form.on_archive /\ ends(e) < day}

public_events == {e \in alive(programme) : programme[e].public}
future_public_events == {e \in public_events : ends(e) > day}
archives == {e \in public_events : programme[e].form.on_archive /\ starts(e) < day}

(* home of the chapter's host; /upcoming; Chapter.upcoming_events with the *)
(* chapter page, its JSON and its calendar; GET /events of the API.        *)
home == {e \in future_public_events : programme[e].form.on_homepage}
upcoming == future_public_events
upcoming_events == future_public_events
EventListView(all) == IF all THEN public_events ELSE future_public_events

(* /archives, and past_events of the chapter; its page, its calendar and   *)
(* its JSON.                                                               *)
past_events == archives
chapter_detail == upcoming_events \cup past_events
calendar_ics == upcoming_events
upcoming_events_json == upcoming_events

(* /sitemap.xml, the single-event calendar and the alias /event/<slug>.    *)
sitemap_events == public_events
event_ics == public_events
detail_by_name == public_events

(* What a speaker finds under my_sessions and everybody on his profile;    *)
(* what a member who starred them has in my_schedule.                      *)
speaker_sessions == {s \in alive(talks) : ~talks[s].placeholder}
my_sessions == speaker_sessions
my_schedule == alive(talks)
my_schedule_ics == alive(talks)

(* Sessions: search and sitemap, which ask the event only whether it is    *)
(* public; the API, which asks the session nothing.                        *)
session_search == {s \in speaker_sessions : programme[EventOf[s]].public}
sitemap_sessions == session_search
EventSessionListView(e) ==
    IF e \in public_events THEN {s \in rowsOf(talks) : EventOf[s] = e} ELSE {}

(* The yearly statistics, without alive(); the totals of the chapter's     *)
(* home and of the directory.                                              *)
stat_events == {e \in rowsOf(programme) : programme[e].public}
stat_sessions == {s \in rowsOf(talks) : ~talks[s].placeholder /\ EventOf[s] \in stat_events}
chapter_stats == [events |-> public_events, talks |-> speaker_sessions]
directory == [events |-> public_events, sessions |-> speaker_sessions]

(* The pages that a link opens; the others answer 404.                     *)
detail == alive(programme)
session_detail == alive(talks)
venue_detail == alive(venues)

(* The leads' own lists; 8 hours and 30 days are within a day and beyond   *)
(* the clock.                                                              *)
managed_events == {e \in alive(programme) : ends(e) > day}
managed_old_events == {e \in alive(programme) : ends(e) < day}
session_index(e) == {s \in alive(talks) : EventOf[s] = e}

-----------------------------------------------------------------------------

(* from: the row loaded.  copy: the row to be saved, of the form as         *)
(* submitted.  checked: its venue was alive when it was loaded.  todo: the  *)
(* sessions that a mass deletion has still to archive.                      *)
NoVisit == [step |-> "idle", of |-> "nothing", from |-> Absent, copy |-> Absent, checked |-> FALSE, todo |-> {}]

ProgrammeInit ==
    /\ day = 0
    /\ programme = [e \in Events |-> Absent]
    /\ talks = [s \in Sessions |-> Absent]
    /\ venues = [v \in Venues |-> IF v \in FirstVenues THEN [there |-> TRUE, deleted |-> FALSE] ELSE Absent]
    /\ visit = [p \in Leads |-> NoVisit]
    /\ visits = 0
    /\ overtaken = {} /\ administered = {}

Arrives(p) == visit[p].step = "idle" /\ visits < MaxVisits /\ visits' = visits + 1
Holds(p, what, x) == visit[p].step = what /\ visit[p].of = x
Leaves(p) == visit' = [visit EXCEPT ![p] = NoVisit]

(* A form was loaded and is valid; what it saves next.                     *)
Load(p, what, x, row, copy, checked) ==
    /\ Arrives(p)
    /\ visit' = [visit EXCEPT ![p] = [NoVisit EXCEPT !.step = what, !.of = x, !.from = row, !.copy = copy,
                                      !.checked = checked]]
    /\ UNCHANGED <<day, programme, talks, venues, overtaken, administered>>

-----------------------------------------------------------------------------
(* Events.                                                                 *)

(* Mutant: the form may be left without a venue.                           *)
event_new_nowhere(p, e) ==
    /\ ~programme[e].there
    /\ \E form \in EventForms :
          Load(p, "event", e, Absent,
               [there |-> TRUE, deleted |-> FALSE, public |-> FALSE, venue |-> "nowhere", form |-> form], TRUE)

event_new(p, e) ==
    /\ ~programme[e].there /\ \A q \in Leads : ~Holds(q, "event", e)
    /\ \E form \in EventForms, v \in managed_venues :
          Load(p, "event", e, Absent,
               [there |-> TRUE, deleted |-> FALSE, public |-> FALSE, venue |-> v, form |-> form], TRUE)

(* Mutant: the form offers every venue.                                    *)
event_edit_anywhere(p, e) ==
    /\ programme[e].there
    /\ \E form \in EventForms, v \in rowsOf(venues) :
          Load(p, "event", e, programme[e], [programme[e] EXCEPT !.venue = v, !.form = form], v \in alive(venues))

(* Mutant: the form is bound to a new instance.                            *)
event_edit_anew(p, e) ==
    /\ programme[e].there
    /\ \E form \in EventForms, v \in managed_venues :
          Load(p, "event", e, programme[e],
               [programme[e] EXCEPT !.venue = v, !.form = form, !.deleted = FALSE], TRUE)

(* event_edit loads archived events too; LeadEventForm offers the venues   *)
(* of managed_venues().                                                    *)
event_edit(p, e) ==
    /\ programme[e].there
    /\ \E form \in EventForms, v \in managed_venues :
          Load(p, "event", e, programme[e], [programme[e] EXCEPT !.venue = v, !.form = form], TRUE)

event_publish(p, e) ==
    /\ programme[e].there
    /\ Load(p, "event", e, programme[e], [programme[e] EXCEPT !.public = ~@],
            programme[e].venue \in alive(venues))

(* event.save().  Another lead's request overtook it: its venue was        *)
(* archived since it was checked, or the event was changed since it was    *)
(* loaded and the venue archived, or found free and about to be archived.  *)
SaveEvent(p, e) ==
    LET row == visit[p].copy
        late == ~row.deleted /\ \/ /\ visit[p].checked \/ visit[p].from # programme[e]
                                   /\ row.venue \notin alive(venues)
                                \/ \E q \in Leads : Holds(q, "archive", row.venue)
    IN  /\ Holds(p, "event", e)
        /\ programme' = [programme EXCEPT ![e] = row]
        /\ overtaken' = IF late THEN overtaken \cup {e}
                        ELSE IF row.venue \in alive(venues) THEN overtaken \ {e} ELSE overtaken
        /\ administered' = IF row.venue \in alive(venues) THEN administered \ {e} ELSE administered
        /\ Leaves(p)
        /\ UNCHANGED <<day, talks, venues, visits>>

(* event_delete: soft_delete() saves deleted_at alone.                     *)
event_delete(p, e) ==
    /\ Arrives(p)
    /\ programme[e].there
    /\ programme' = [programme EXCEPT ![e].deleted = TRUE]
    /\ UNCHANGED <<day, talks, venues, visit, overtaken, administered>>

-----------------------------------------------------------------------------
(* Sessions.                                                               *)

session_new(p, s) ==
    /\ programme[EventOf[s]].there
    /\ ~talks[s].there /\ \A q \in Leads : ~Holds(q, "session", s)
    /\ \E b \in BOOLEAN :
          Load(p, "session", s, Absent, [there |-> TRUE, deleted |-> FALSE, placeholder |-> b], FALSE)

session_edit(p, s) ==
    /\ talks[s].there
    /\ \E b \in BOOLEAN : Load(p, "session", s, talks[s], [talks[s] EXCEPT !.placeholder = b], FALSE)

SaveSession(p, s) ==
    /\ Holds(p, "session", s)
    /\ talks' = [talks EXCEPT ![s] = visit[p].copy]
    /\ Leaves(p)
    /\ UNCHANGED <<day, programme, venues, visits, overtaken, administered>>

session_delete(p, s) ==
    /\ Arrives(p)
    /\ talks[s].there
    /\ talks' = [talks EXCEPT ![s].deleted = TRUE]
    /\ UNCHANGED <<day, programme, venues, visit, overtaken, administered>>

(* session_mass_delete: the selected sessions of the event that are alive, *)
(* archived one by one.                                                    *)
session_mass_delete(p, e) ==
    /\ Arrives(p)
    /\ \E ids \in SUBSET session_index(e) \ {{}} :
          visit' = [visit EXCEPT ![p] = [NoVisit EXCEPT !.step = "mass", !.todo = ids]]
    /\ UNCHANGED <<day, programme, talks, venues, overtaken, administered>>

MassDeleteOne(p, s) ==
    /\ visit[p].step = "mass" /\ s \in visit[p].todo
    /\ talks' = [talks EXCEPT ![s].deleted = TRUE]
    /\ visit' = [visit EXCEPT ![p] = IF visit[p].todo = {s} THEN NoVisit
                                    ELSE [visit[p] EXCEPT !.todo = visit[p].todo \ {s}]]
    /\ UNCHANGED <<day, programme, venues, visits, overtaken, administered>>

-----------------------------------------------------------------------------
(* Venues.                                                                 *)

(* The live events that a venue has to be there for.                       *)
Occupants(v) == {e \in alive(programme) : programme[e].venue = v /\ ends(e) > day}

venue_new(p, v) ==
    /\ Arrives(p)
    /\ ~venues[v].there
    /\ venues' = [venues EXCEPT ![v] = [there |-> TRUE, deleted |-> FALSE]]
    /\ UNCHANGED <<day, programme, talks, visit, overtaken, administered>>

venue_edit(p, v) == venues[v].there /\ Load(p, "venue", v, venues[v], venues[v], FALSE)

(* It archives the venue again if it was restored since it was loaded.     *)
SaveVenue(p, v) ==
    /\ Holds(p, "venue", v)
    /\ venues' = [venues EXCEPT ![v] = visit[p].copy]
    /\ overtaken' = IF visit[p].copy.deleted /\ ~venues[v].deleted THEN overtaken \cup Occupants(v) ELSE overtaken
    /\ Leaves(p)
    /\ UNCHANGED <<day, programme, talks, visits, administered>>

(* venue_delete: nothing is done while an upcoming event uses the venue.   *)
venue_delete(p, v) ==
    /\ venues[v].there
    /\ Occupants(v) = {}
    /\ Load(p, "archive", v, venues[v], Absent, FALSE)

ArchiveVenue(p, v) ==
    /\ Holds(p, "archive", v)
    /\ venues' = [venues EXCEPT ![v].deleted = TRUE]
    /\ Leaves(p)
    /\ UNCHANGED <<day, programme, talks, visits, overtaken, administered>>

-----------------------------------------------------------------------------
(* The admin's archive_selected and restore_selected.                      *)

Administers == visits < MaxVisits /\ visits' = visits + 1 /\ UNCHANGED <<day, visit, overtaken>>

SetEvent(e, d) ==
    /\ Administers
    /\ programme[e].there /\ programme[e].deleted # d
    /\ programme' = [programme EXCEPT ![e].deleted = d]
    /\ administered' = IF d THEN administered ELSE administered \cup {e}
    /\ UNCHANGED <<talks, venues>>

SetSession(s, d) ==
    /\ Administers
    /\ talks[s].there /\ talks[s].deleted # d
    /\ talks' = [talks EXCEPT ![s].deleted = d]
    /\ UNCHANGED <<programme, venues, administered>>

SetVenue(v, d) ==
    /\ Administers
    /\ venues[v].there /\ venues[v].deleted # d
    /\ venues' = [venues EXCEPT ![v].deleted = d]
    /\ administered' = IF d THEN administered \cup Occupants(v) ELSE administered
    /\ UNCHANGED <<programme, talks>>

DayPasses ==
    /\ day < MaxDay
    /\ day' = day + 1
    /\ UNCHANGED <<programme, talks, venues, visit, visits, overtaken, administered>>

ProgrammeNext ==
    \/ \E p \in Leads, e \in Events :
          \/ event_new(p, e) \/ event_edit(p, e) \/ event_publish(p, e) \/ event_delete(p, e)
          \/ SaveEvent(p, e) \/ session_mass_delete(p, e)
    \/ \E p \in Leads, s \in Sessions :
          session_new(p, s) \/ session_edit(p, s) \/ session_delete(p, s) \/ SaveSession(p, s) \/ MassDeleteOne(p, s)
    \/ \E p \in Leads, v \in Venues :
          venue_new(p, v) \/ venue_edit(p, v) \/ venue_delete(p, v) \/ SaveVenue(p, v) \/ ArchiveVenue(p, v)
    \/ \E d \in BOOLEAN :
          \/ \E e \in Events : SetEvent(e, d)
          \/ \E s \in Sessions : SetSession(s, d)
          \/ \E v \in Venues : SetVenue(v, d)
    \/ DayPasses

ProgrammeSpec == ProgrammeInit /\ [][ProgrammeNext]_programmeVars

-----------------------------------------------------------------------------
(* Properties.                                                             *)

ProgrammeTypeOK ==
    /\ day \in 0..MaxDay /\ visits \in 0..MaxVisits
    /\ programme \in [Events -> {Absent} \cup EventRows]
    /\ talks \in [Sessions -> {Absent} \cup TalkRows]
    /\ venues \in [Venues -> {Absent} \cup VenueRows]
    /\ visit \in [Leads -> [step: {"idle", "event", "session", "mass", "venue", "archive"},
                            of: {"nothing"} \cup Events \cup Sessions \cup Venues,
                            from: {Absent} \cup EventRows \cup TalkRows \cup VenueRows,
                            copy: {Absent} \cup EventRows \cup TalkRows \cup VenueRows,
                            checked: BOOLEAN, todo: SUBSET Sessions]]
    /\ overtaken \subseteq Events /\ administered \subseteq Events

(* A hidden venue under a visible event would be confusing: an event that  *)
(* is alive and not over has a venue that is alive, unless the admins      *)
(* archived or restored one of the two, or one lead's request overtook     *)
(* another's between its check and its save.                               *)
LiveEventsHaveLiveVenues ==
    \A e \in alive(programme) \ (overtaken \cup administered) :
        ends(e) > day => programme[e].venue \in venue_detail

(* From its publication on, whatever day it is, an event that may be shown *)
(* everywhere and ends after it starts is on the chapter's home or in its  *)
(* archives, and so on the root's.                                         *)
PublicEventsAreListed ==
    \A e \in public_events :
        LET form == programme[e].form
        IN  form.start < form.end =>
              /\ form.on_homepage /\ form.on_archive => e \in home \cup past_events
              /\ form.on_archive => e \in EventListView(FALSE) \cup archives

(* What was archived stays archived until an admin restores it; only a     *)
(* request that loaded the row before it was archived brings it back.      *)
RowsStayArchived ==
    [][\A p \in Leads :
         /\ \A e \in Events : SaveEvent(p, e) /\ visit[p].from.there =>
              (programme[e].deleted /\ ~programme'[e].deleted => ~visit[p].from.deleted)
         /\ \A s \in Sessions : SaveSession(p, s) /\ visit[p].from.there =>
              (talks[s].deleted /\ ~talks'[s].deleted => ~visit[p].from.deleted)]_programmeVars

-----------------------------------------------------------------------------
(* What the code says, and does not do.                                    *)

(* event_delete: "the event vanishes from all public/lead listings" - no   *)
(* list of events, sessions or numbers still has an archived event.        *)
ArchivedEventsVanish ==
    LET archived == {e \in rowsOf(programme) : programme[e].deleted}
    IN  /\ archived \cap (home \cup upcoming \cup archives \cup sitemap_events \cup managed_events
                           \cup managed_old_events) = {}
        /\ \A s \in session_search \cup sitemap_sessions : EventOf[s] \notin archived

(* docs/ARCHITECTURE.md: "public querysets must call .alive()" - whatever  *)
(* the sites list, link to or count is alive.  The sessions of the API and *)
(* the yearly statistics are not asked whether they are.                   *)
PublicQueriesAreAlive ==
    /\ home \cup upcoming \cup chapter_detail \cup calendar_ics \cup upcoming_events_json \cup EventListView(TRUE)
         \cup archives \cup sitemap_events \cup event_ics \cup detail_by_name \cup stat_events
         \cup chapter_stats.events \cup directory.events \subseteq detail
    /\ session_search \cup sitemap_sessions \cup my_sessions \cup my_schedule \cup my_schedule_ics \cup stat_sessions
         \cup chapter_stats.talks \cup directory.sessions \cup UNION {EventSessionListView(e) : e \in Events}
         \subseteq session_detail

=============================================================================

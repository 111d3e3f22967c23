--------------------------- MODULE ProgrammeProofs ---------------------------
(***************************************************************************)
(* Theorems of Programme: its types, that no event that may be shown falls *)
(* between the lists, that archived rows stay archived, and                *)
(* that a live event has a live venue unless a request that it could not   *)
(* see, or an admin, took the venue away.                                  *)
(***************************************************************************)
EXTENDS Programme, TLAPS

-----------------------------------------------------------------------------
(* Which steps write what.                                                 *)

(* The steps that only load a row into a visit.                            *)
Loads(p) ==
    \/ \E e \in Events : event_new(p, e) \/ event_edit(p, e) \/ event_publish(p, e) \/ session_mass_delete(p, e)
    \/ \E s \in Sessions : session_new(p, s) \/ session_edit(p, s)
    \/ \E v \in Venues : venue_edit(p, v) \/ venue_delete(p, v)

tables == <<day, programme, talks, venues, overtaken, administered>>

(* They change nothing else.                                               *)
LEMMA LoadsLeaveTables ==
  ASSUME NEW p \in Leads, Loads(p)
  PROVE  UNCHANGED tables
  BY DEF Loads, event_new, event_edit, event_publish, session_mass_delete, session_new, session_edit, venue_edit,
         venue_delete, Load, tables

(* The writers of the events,                                              *)
EventWrites ==
    \/ \E p \in Leads, e \in Events : SaveEvent(p, e) \/ event_delete(p, e)
    \/ \E e \in Events, d \in BOOLEAN : SetEvent(e, d)

(* of the sessions,                                                        *)
TalkWrites ==
    \/ \E p \in Leads, s \in Sessions : SaveSession(p, s) \/ session_delete(p, s) \/ MassDeleteOne(p, s)
    \/ \E s \in Sessions, d \in BOOLEAN : SetSession(s, d)

(* and of the venues.                                                      *)
VenueWrites ==
    \/ \E p \in Leads, v \in Venues : venue_new(p, v) \/ SaveVenue(p, v) \/ ArchiveVenue(p, v)
    \/ \E v \in Venues, d \in BOOLEAN : SetVenue(v, d)

(* Every step is one of these.                                             *)
LEMMA Steps ==
  ASSUME ProgrammeNext
  PROVE  (\E p \in Leads : Loads(p)) \/ EventWrites \/ TalkWrites \/ VenueWrites \/ DayPasses
  BY DEF ProgrammeNext, Loads, EventWrites, TalkWrites, VenueWrites

(* A writer of one table leaves the others alone.                          *)
LEMMA OneTableEach ==
  /\ EventWrites => UNCHANGED <<day, talks, venues>>
  /\ TalkWrites => UNCHANGED <<day, programme, venues, overtaken, administered>>
  /\ VenueWrites => UNCHANGED <<day, programme, talks>>
  /\ DayPasses => UNCHANGED <<programme, talks, venues, visit, overtaken, administered>>
  <1>1. EventWrites => UNCHANGED <<day, talks, venues>>
    BY DEF EventWrites, SaveEvent, event_delete, SetEvent, Administers
  <1>2. TalkWrites => UNCHANGED <<day, programme, venues, overtaken, administered>>
    BY DEF TalkWrites, SaveSession, session_delete, MassDeleteOne, SetSession, Administers
  <1>3. VenueWrites => UNCHANGED <<day, programme, talks>>
    BY DEF VenueWrites, venue_new, SaveVenue, ArchiveVenue, SetVenue, Administers
  <1>4. DayPasses => UNCHANGED <<programme, talks, venues, visit, overtaken, administered>>
    BY DEF DayPasses
  <1> QED BY <1>1, <1>2, <1>3, <1>4

-----------------------------------------------------------------------------
(* Types.  The rows that a visit holds are of the table that its step      *)
(* writes, and what it refers to is there: no row is ever removed.         *)

VisitRecords ==
    [step: {"idle", "event", "session", "mass", "venue", "archive"},
     of: {"nothing"} \cup Events \cup Sessions \cup Venues,
     from: {Absent} \cup EventRows \cup TalkRows \cup VenueRows,
     copy: {Absent} \cup EventRows \cup TalkRows \cup VenueRows,
     checked: BOOLEAN, todo: SUBSET Sessions]

(* An edit keeps deleted_at; a visit that did not check the venue keeps    *)
(* the venue, too, and the dates.                                          *)
EventVisit(v) ==
    /\ v.of \in Events /\ v.copy \in EventRows /\ v.from \in {Absent} \cup EventRows
    /\ v.from.there => v.copy.deleted = v.from.deleted
    /\ ~v.checked => v.from.there /\ v.copy.venue = v.from.venue /\ v.copy.form = v.from.form

SessionVisit(v) ==
    /\ v.of \in Sessions /\ v.copy \in TalkRows /\ v.from \in {Absent} \cup TalkRows
    /\ v.from.there => v.copy.deleted = v.from.deleted

VisitOK(v, events, sessions, places) ==
    /\ v \in VisitRecords
    /\ v.step = "event" => EventVisit(v)
    /\ v.step = "session" => SessionVisit(v) /\ events[EventOf[v.of]].there
    /\ v.step = "mass" => \A s \in v.todo : sessions[s].there
    /\ v.step = "venue" => v.of \in Venues /\ v.copy \in VenueRows
    /\ v.step = "archive" => v.of \in Venues /\ places[v.of].there

VisitsOK == \A p \in Leads : VisitOK(visit[p], programme, talks, venues)

TalksHaveEvents == \A s \in Sessions : talks[s].there => programme[EventOf[s]].there

Typed == ProgrammeTypeOK /\ VisitsOK /\ TalksHaveEvents

LEMMA TypedParts ==
  ASSUME ProgrammeTypeOK
  PROVE  /\ programme \in [Events -> {Absent} \cup EventRows]
         /\ talks \in [Sessions -> {Absent} \cup TalkRows]
         /\ venues \in [Venues -> {Absent} \cup VenueRows]
         /\ visit \in [Leads -> VisitRecords]
  BY DEF ProgrammeTypeOK, VisitRecords

(* The sets of rows: no row of one table is Absent, and a row that is      *)
(* there is one of its table's.                                            *)
LEMMA ThereIsARow ==
  /\ ~Absent.there
  /\ \A r \in EventRows \cup TalkRows \cup VenueRows : r.there
  /\ \A r \in {Absent} \cup EventRows : r.there => r \in EventRows
  /\ \A r \in {Absent} \cup TalkRows : r.there => r \in TalkRows
  /\ \A r \in {Absent} \cup VenueRows : r.there => r \in VenueRows
  <1>1. ~Absent.there
    BY DEF Absent
  <1>2. \A r \in EventRows : r.there
    BY DEF EventRows
  <1>3. \A r \in TalkRows : r.there
    BY DEF TalkRows
  <1>4. \A r \in VenueRows : r.there
    BY DEF VenueRows
  <1> QED BY <1>1, <1>2, <1>3, <1>4

LEMMA LeavesType ==
  ASSUME ProgrammeTypeOK, NEW p \in Leads, Leaves(p)
  PROVE  visit'[p] = NoVisit /\ visit' \in [Leads -> VisitRecords]
         /\ \A q \in Leads \ {p} : visit'[q] = visit[q]
  <1>1. visit \in [Leads -> VisitRecords]
    BY TypedParts
  <1>2. NoVisit \in VisitRecords
    BY DEF NoVisit, VisitRecords
  <1> QED BY <1>1, <1>2 DEF Leaves

(* What Load leaves in the visit.                                          *)
LEMMA LoadType ==
  ASSUME ProgrammeTypeOK, NEW p \in Leads, NEW what, NEW x, NEW row, NEW copy, NEW checked,
         Load(p, what, x, row, copy, checked)
  PROVE  /\ visit'[p] = [step |-> what, of |-> x, from |-> row, copy |-> copy, checked |-> checked, todo |-> {}]
         /\ visit' = [visit EXCEPT ![p] = visit'[p]]
         /\ \A q \in Leads \ {p} : visit'[q] = visit[q]
  <1>1. visit \in [Leads -> VisitRecords]
    BY TypedParts
  <1>2. PICK v : v = [NoVisit EXCEPT !.step = what, !.of = x, !.from = row, !.copy = copy, !.checked = checked]
    OBVIOUS
  <1>3. v = [step |-> what, of |-> x, from |-> row, copy |-> copy, checked |-> checked, todo |-> {}]
    BY <1>2 DEF NoVisit
  <1>4. visit' = [visit EXCEPT ![p] = v]
    BY <1>2 DEF Load
  <1> QED BY <1>1, <1>3, <1>4

(* Whatever row an event is given, the table stays one of events.          *)
LEMMA EventsNext ==
  ASSUME Typed, EventWrites
  PROVE  /\ programme' \in [Events -> {Absent} \cup EventRows]
         /\ \A e \in Events : programme[e].there => programme'[e].there
         /\ overtaken' \subseteq Events /\ administered' \subseteq Events
  <1> USE DEF Typed
  <1>0. /\ programme \in [Events -> {Absent} \cup EventRows]
        /\ overtaken \subseteq Events /\ administered \subseteq Events
    BY DEF ProgrammeTypeOK
  <1>1. ASSUME NEW e \in Events, NEW row \in EventRows, programme' = [programme EXCEPT ![e] = row],
               overtaken' \subseteq Events, administered' \subseteq Events
        PROVE  /\ programme' \in [Events -> {Absent} \cup EventRows]
               /\ \A f \in Events : programme[f].there => programme'[f].there
               /\ overtaken' \subseteq Events /\ administered' \subseteq Events
    <2>1. row.there
      BY ThereIsARow
    <2> QED BY <1>0, <1>1, <2>1
  <1>2. ASSUME NEW p \in Leads, NEW e \in Events, SaveEvent(p, e)
        PROVE  \E row \in EventRows : programme' = [programme EXCEPT ![e] = row]
    <2>1. visit[p].copy \in EventRows
      BY <1>2 DEF SaveEvent, Holds, VisitsOK, VisitOK, EventVisit
    <2> QED BY <1>2, <2>1 DEF SaveEvent
  <1>3. ASSUME NEW e \in Events, NEW d \in BOOLEAN, programme[e].there, programme' = [programme EXCEPT ![e].deleted = d]
        PROVE  \E row \in EventRows : programme' = [programme EXCEPT ![e] = row]
    <2> DEFINE row == [programme[e] EXCEPT !.deleted = d]
    <2>1. programme[e] \in EventRows
      BY <1>0, <1>3, ThereIsARow
    <2>2. row \in EventRows
      BY <2>1 DEF EventRows
    <2>3. programme' = [programme EXCEPT ![e] = row]
      BY <1>3
    <2> HIDE DEF row
    <2> QED BY <2>2, <2>3
  <1>4. ASSUME NEW p \in Leads, NEW e \in Events, SaveEvent(p, e)
        PROVE  overtaken' \subseteq Events /\ administered' \subseteq Events
    BY <1>0, <1>4 DEF SaveEvent
  <1>5. ASSUME NEW p \in Leads, NEW e \in Events, event_delete(p, e)
        PROVE  /\ programme[e].there /\ programme' = [programme EXCEPT ![e].deleted = TRUE]
               /\ overtaken' \subseteq Events /\ administered' \subseteq Events
    BY <1>0, <1>5 DEF event_delete
  <1>6. ASSUME NEW e \in Events, NEW d \in BOOLEAN, SetEvent(e, d)
        PROVE  /\ programme[e].there /\ programme' = [programme EXCEPT ![e].deleted = d]
               /\ overtaken' \subseteq Events /\ administered' \subseteq Events
    BY <1>0, <1>6 DEF SetEvent, Administers
  <1>7. \E e \in Events : \E row \in EventRows : programme' = [programme EXCEPT ![e] = row]
    <2>1. CASE \E p \in Leads, e \in Events : SaveEvent(p, e)
      BY <2>1, <1>2
    <2>2. CASE \E p \in Leads, e \in Events : event_delete(p, e)
      <3>1. PICK e \in Events : programme[e].there /\ programme' = [programme EXCEPT ![e].deleted = TRUE]
        BY <2>2, <1>5
      <3> QED BY <3>1, <1>3
    <2>3. CASE \E e \in Events, d \in BOOLEAN : SetEvent(e, d)
      <3>1. PICK e \in Events, d \in BOOLEAN : programme[e].there /\ programme' = [programme EXCEPT ![e].deleted = d]
        BY <2>3, <1>6
      <3> QED BY <3>1, <1>3
    <2> QED BY <2>1, <2>2, <2>3 DEF EventWrites
  <1>8. overtaken' \subseteq Events /\ administered' \subseteq Events
    BY <1>4, <1>5, <1>6 DEF EventWrites
  <1> QED BY <1>1, <1>7, <1>8

LEMMA TalksNext ==
  ASSUME Typed, TalkWrites
  PROVE  /\ talks' \in [Sessions -> {Absent} \cup TalkRows]
         /\ \A s \in Sessions : talks[s].there => talks'[s].there
         /\ \A s \in Sessions : talks'[s].there => programme[EventOf[s]].there
  <1> USE DEF Typed
  <1>0. talks \in [Sessions -> {Absent} \cup TalkRows]
    BY DEF ProgrammeTypeOK
  <1>1. ASSUME NEW s \in Sessions, NEW row \in TalkRows, talks' = [talks EXCEPT ![s] = row],
               programme[EventOf[s]].there
        PROVE  /\ talks' \in [Sessions -> {Absent} \cup TalkRows]
               /\ \A t \in Sessions : talks[t].there => talks'[t].there
               /\ \A t \in Sessions : talks'[t].there => programme[EventOf[t]].there
    <2>1. row.there
      BY ThereIsARow
    <2> QED BY <1>0, <1>1, <2>1 DEF TalksHaveEvents
  <1>2. ASSUME NEW p \in Leads, NEW s \in Sessions, SaveSession(p, s)
        PROVE  \E row \in TalkRows : talks' = [talks EXCEPT ![s] = row] /\ programme[EventOf[s]].there
    <2>1. visit[p].copy \in TalkRows /\ programme[EventOf[s]].there
      BY <1>2 DEF SaveSession, Holds, VisitsOK, VisitOK, SessionVisit
    <2> QED BY <1>2, <2>1 DEF SaveSession
  <1>3. ASSUME NEW s \in Sessions, NEW d \in BOOLEAN, talks[s].there, talks' = [talks EXCEPT ![s].deleted = d]
        PROVE  \E row \in TalkRows : talks' = [talks EXCEPT ![s] = row] /\ programme[EventOf[s]].there
    <2> DEFINE row == [talks[s] EXCEPT !.deleted = d]
    <2>1. talks[s] \in TalkRows
      BY <1>0, <1>3, ThereIsARow
    <2>2. row \in TalkRows
      BY <2>1 DEF TalkRows
    <2>3. talks' = [talks EXCEPT ![s] = row] /\ programme[EventOf[s]].there
      BY <1>3 DEF TalksHaveEvents
    <2> HIDE DEF row
    <2> QED BY <2>2, <2>3
  <1>4. ASSUME NEW p \in Leads, NEW s \in Sessions, session_delete(p, s) \/ MassDeleteOne(p, s)
        PROVE  talks[s].there /\ talks' = [talks EXCEPT ![s].deleted = TRUE]
    BY <1>4 DEF session_delete, MassDeleteOne, VisitsOK, VisitOK
  <1>5. ASSUME NEW s \in Sessions, NEW d \in BOOLEAN, SetSession(s, d)
        PROVE  talks[s].there /\ talks' = [talks EXCEPT ![s].deleted = d]
    BY <1>5 DEF SetSession
  <1>6. \E s \in Sessions : \E row \in TalkRows : talks' = [talks EXCEPT ![s] = row] /\ programme[EventOf[s]].there
    BY <1>2, <1>3, <1>4, <1>5 DEF TalkWrites
  <1> QED BY <1>1, <1>6

LEMMA VenuesNext ==
  ASSUME Typed, VenueWrites
  PROVE  /\ venues' \in [Venues -> {Absent} \cup VenueRows]
         /\ \A v \in Venues : venues[v].there => venues'[v].there
         /\ overtaken' \subseteq Events /\ administered' \subseteq Events
  <1> USE DEF Typed
  <1>0. /\ venues \in [Venues -> {Absent} \cup VenueRows] /\ DOMAIN programme = Events
        /\ overtaken \subseteq Events /\ administered \subseteq Events
    BY DEF ProgrammeTypeOK
  <1>1. ASSUME NEW v \in Venues, NEW row \in VenueRows, venues' = [venues EXCEPT ![v] = row]
        PROVE  /\ venues' \in [Venues -> {Absent} \cup VenueRows]
               /\ \A u \in Venues : venues[u].there => venues'[u].there
    <2>1. row.there
      BY ThereIsARow
    <2> QED BY <1>0, <1>1, <2>1
  <1>2. ASSUME NEW p \in Leads, NEW v \in Venues, SaveVenue(p, v)
        PROVE  \E row \in VenueRows : venues' = [venues EXCEPT ![v] = row]
    <2>1. visit[p].copy \in VenueRows
      BY <1>2 DEF SaveVenue, Holds, VisitsOK, VisitOK
    <2> QED BY <1>2, <2>1 DEF SaveVenue
  <1>3. ASSUME NEW v \in Venues, NEW d \in BOOLEAN, venues[v].there, venues' = [venues EXCEPT ![v].deleted = d]
        PROVE  \E row \in VenueRows : venues' = [venues EXCEPT ![v] = row]
    <2> DEFINE row == [venues[v] EXCEPT !.deleted = d]
    <2>1. venues[v] \in VenueRows
      BY <1>0, <1>3, ThereIsARow
    <2>2. row \in VenueRows
      BY <2>1 DEF VenueRows
    <2>3. venues' = [venues EXCEPT ![v] = row]
      BY <1>3
    <2> HIDE DEF row
    <2> QED BY <2>2, <2>3
  <1>4. ASSUME NEW p \in Leads, NEW v \in Venues, ArchiveVenue(p, v)
        PROVE  venues[v].there /\ venues' = [venues EXCEPT ![v].deleted = TRUE]
    BY <1>4 DEF ArchiveVenue, Holds, VisitsOK, VisitOK
  <1>5. ASSUME NEW v \in Venues, NEW d \in BOOLEAN, SetVenue(v, d)
        PROVE  venues[v].there /\ venues' = [venues EXCEPT ![v].deleted = d]
    BY <1>5 DEF SetVenue
  <1>6. ASSUME NEW p \in Leads, NEW v \in Venues, venue_new(p, v)
        PROVE  \E row \in VenueRows : venues' = [venues EXCEPT ![v] = row]
    <2>1. [there |-> TRUE, deleted |-> FALSE] \in VenueRows
      BY DEF VenueRows
    <2> QED BY <1>6, <2>1 DEF venue_new
  <1>7. \E v \in Venues : \E row \in VenueRows : venues' = [venues EXCEPT ![v] = row]
    <2>1. CASE \E p \in Leads, v \in Venues : venue_new(p, v) \/ SaveVenue(p, v)
      BY <2>1, <1>2, <1>6
    <2>2. CASE \E p \in Leads, v \in Venues : ArchiveVenue(p, v)
      <3>1. PICK v \in Venues : venues[v].there /\ venues' = [venues EXCEPT ![v].deleted = TRUE]
        BY <2>2, <1>4
      <3> QED BY <3>1, <1>3
    <2>3. CASE \E v \in Venues, d \in BOOLEAN : SetVenue(v, d)
      <3>1. PICK v \in Venues, d \in BOOLEAN : venues[v].there /\ venues' = [venues EXCEPT ![v].deleted = d]
        BY <2>3, <1>5
      <3> QED BY <3>1, <1>3
    <2> QED BY <2>1, <2>2, <2>3 DEF VenueWrites
  <1>8. \A v \in Venues : Occupants(v) \subseteq Events
    BY <1>0 DEF Occupants, alive
  <1>9. overtaken' \subseteq Events /\ administered' \subseteq Events
    BY <1>0, <1>8 DEF VenueWrites, venue_new, SaveVenue, ArchiveVenue, SetVenue, Administers
  <1> QED BY <1>1, <1>7, <1>9

(* What a step of a lead leaves in his visit.                              *)
LEMMA LoadsOK ==
  ASSUME Typed, NEW p \in Leads, Loads(p)
  PROVE  /\ VisitOK(visit'[p], programme, talks, venues)
         /\ visit' = [visit EXCEPT ![p] = visit'[p]]
         /\ \A q \in Leads \ {p} : visit'[q] = visit[q]
  <1> USE DEF Typed
  <1>0. /\ programme \in [Events -> {Absent} \cup EventRows] /\ talks \in [Sessions -> {Absent} \cup TalkRows]
        /\ venues \in [Venues -> {Absent} \cup VenueRows] /\ visit \in [Leads -> VisitRecords]
    BY TypedParts
  <1>1. ASSUME NEW what, NEW x, NEW row, NEW copy, NEW checked, Load(p, what, x, row, copy, checked),
               VisitOK([step |-> what, of |-> x, from |-> row, copy |-> copy, checked |-> checked, todo |-> {}],
                       programme, talks, venues)
        PROVE  /\ VisitOK(visit'[p], programme, talks, venues)
               /\ visit' = [visit EXCEPT ![p] = visit'[p]]
               /\ \A q \in Leads \ {p} : visit'[q] = visit[q]
    BY <1>1, LoadType
  <1>2. ASSUME NEW x \in Events, NEW row \in {Absent} \cup EventRows, NEW copy \in EventRows, NEW checked \in BOOLEAN,
               Load(p, "event", x, row, copy, checked),
               row.there => copy.deleted = row.deleted,
               ~checked => row.there /\ copy.venue = row.venue /\ copy.form = row.form
        PROVE  /\ VisitOK(visit'[p], programme, talks, venues)
               /\ visit' = [visit EXCEPT ![p] = visit'[p]]
               /\ \A q \in Leads \ {p} : visit'[q] = visit[q]
    <2> DEFINE v == [step |-> "event", of |-> x, from |-> row, copy |-> copy, checked |-> checked, todo |-> {}]
    <2>1. v \in VisitRecords
      BY <1>2 DEF VisitRecords
    <2>2. VisitOK(v, programme, talks, venues)
      BY <1>2, <2>1 DEF VisitOK, EventVisit
    <2> QED BY <1>1, <1>2, <2>2
  <1>3. ASSUME NEW e \in Events, event_new(p, e)
        PROVE  \E row \in {Absent} \cup EventRows, copy \in EventRows, checked \in BOOLEAN :
                  /\ Load(p, "event", e, row, copy, checked)
                  /\ row.there => copy.deleted = row.deleted
                  /\ ~checked => row.there /\ copy.venue = row.venue /\ copy.form = row.form
    <2>1. PICK form \in EventForms, v \in managed_venues :
             Load(p, "event", e, Absent,
                  [there |-> TRUE, deleted |-> FALSE, public |-> FALSE, venue |-> v, form |-> form], TRUE)
      BY <1>3 DEF event_new
    <2>2. v \in Venues
      BY <1>0 DEF managed_venues, alive
    <2>3. [there |-> TRUE, deleted |-> FALSE, public |-> FALSE, venue |-> v, form |-> form] \in EventRows
      BY <2>2 DEF EventRows
    <2> QED BY <2>1, <2>3, ThereIsARow
  <1>4. ASSUME NEW e \in Events, event_edit(p, e)
        PROVE  \E row \in {Absent} \cup EventRows, copy \in EventRows, checked \in BOOLEAN :
                  /\ Load(p, "event", e, row, copy, checked)
                  /\ row.there => copy.deleted = row.deleted
                  /\ ~checked => row.there /\ copy.venue = row.venue /\ copy.form = row.form
    <2>1. programme[e] \in EventRows
      BY <1>0, <1>4, ThereIsARow DEF event_edit
    <2>2. PICK form \in EventForms, v \in managed_venues :
             Load(p, "event", e, programme[e], [programme[e] EXCEPT !.venue = v, !.form = form], TRUE)
      BY <1>4 DEF event_edit
    <2>3. v \in Venues
      BY <1>0 DEF managed_venues, alive
    <2> DEFINE copy == [programme[e] EXCEPT !.venue = v, !.form = form]
    <2>4. copy \in EventRows /\ copy.deleted = programme[e].deleted
      BY <2>1, <2>3 DEF EventRows
    <2>5. Load(p, "event", e, programme[e], copy, TRUE)
      BY <2>2
    <2> HIDE DEF copy
    <2> QED BY <2>1, <2>4, <2>5
  <1>5. ASSUME NEW e \in Events, event_publish(p, e)
        PROVE  \E row \in {Absent} \cup EventRows, copy \in EventRows, checked \in BOOLEAN :
                  /\ Load(p, "event", e, row, copy, checked)
                  /\ row.there => copy.deleted = row.deleted
                  /\ ~checked => row.there /\ copy.venue = row.venue /\ copy.form = row.form
    <2>1. programme[e] \in EventRows /\ programme[e].there
      BY <1>0, <1>5, ThereIsARow DEF event_publish
    <2> DEFINE copy == [programme[e] EXCEPT !.public = ~@]
    <2>2. /\ copy \in EventRows /\ copy.deleted = programme[e].deleted
          /\ copy.venue = programme[e].venue /\ copy.form = programme[e].form
      BY <2>1 DEF EventRows
    <2> DEFINE checked == programme[e].venue \in alive(venues)
    <2>3. checked \in BOOLEAN
      OBVIOUS
    <2>4. Load(p, "event", e, programme[e], copy, checked)
      BY <1>5 DEF event_publish
    <2> HIDE DEF copy, checked
    <2> QED BY <2>1, <2>2, <2>3, <2>4
  <1>6. ASSUME NEW s \in Sessions, session_new(p, s) \/ session_edit(p, s)
        PROVE  /\ VisitOK(visit'[p], programme, talks, venues)
               /\ visit' = [visit EXCEPT ![p] = visit'[p]]
               /\ \A q \in Leads \ {p} : visit'[q] = visit[q]
    <2>1. \E row \in {Absent} \cup TalkRows, copy \in TalkRows :
             /\ Load(p, "session", s, row, copy, FALSE)
             /\ row.there => copy.deleted = row.deleted
      <3>1. CASE session_new(p, s)
        <4>1. PICK b \in BOOLEAN : Load(p, "session", s, Absent, [there |-> TRUE, deleted |-> FALSE, placeholder |-> b], FALSE)
          BY <3>1 DEF session_new
        <4>2. [there |-> TRUE, deleted |-> FALSE, placeholder |-> b] \in TalkRows
          BY DEF TalkRows
        <4> QED BY <4>1, <4>2, ThereIsARow
      <3>2. CASE session_edit(p, s)
        <4>1. talks[s] \in TalkRows
          BY <1>0, <3>2, ThereIsARow DEF session_edit
        <4>2. PICK b \in BOOLEAN : Load(p, "session", s, talks[s], [talks[s] EXCEPT !.placeholder = b], FALSE)
          BY <3>2 DEF session_edit
        <4> DEFINE copy == [talks[s] EXCEPT !.placeholder = b]
        <4>3. copy \in TalkRows /\ copy.deleted = talks[s].deleted
          BY <4>1 DEF TalkRows
        <4>4. Load(p, "session", s, talks[s], copy, FALSE)
          BY <4>2
        <4> HIDE DEF copy
        <4> QED BY <4>1, <4>3, <4>4
      <3> QED BY <1>6, <3>1, <3>2
    <2>2. PICK row \in {Absent} \cup TalkRows, copy \in TalkRows :
             /\ Load(p, "session", s, row, copy, FALSE)
             /\ row.there => copy.deleted = row.deleted
      BY <2>1
    <2>3. programme[EventOf[s]].there
      BY <1>6 DEF session_new, session_edit, TalksHaveEvents
    <2> DEFINE v == [step |-> "session", of |-> s, from |-> row, copy |-> copy, checked |-> FALSE, todo |-> {}]
    <2>4. v \in VisitRecords
      BY DEF VisitRecords
    <2>5. VisitOK(v, programme, talks, venues)
      BY <2>2, <2>3, <2>4 DEF VisitOK, SessionVisit
    <2> QED BY <1>1, <2>2, <2>5
  <1>7. ASSUME NEW u \in Venues, venue_edit(p, u) \/ venue_delete(p, u)
        PROVE  /\ VisitOK(visit'[p], programme, talks, venues)
               /\ visit' = [visit EXCEPT ![p] = visit'[p]]
               /\ \A q \in Leads \ {p} : visit'[q] = visit[q]
    <2>1. venues[u] \in VenueRows /\ venues[u].there
      BY <1>0, <1>7, ThereIsARow DEF venue_edit, venue_delete
    <2>2. CASE venue_edit(p, u)
      <3> DEFINE v == [step |-> "venue", of |-> u, from |-> venues[u], copy |-> venues[u], checked |-> FALSE, todo |-> {}]
      <3>1. v \in VisitRecords
        BY <2>1 DEF VisitRecords
      <3>2. VisitOK(v, programme, talks, venues)
        BY <2>1, <3>1 DEF VisitOK
      <3> QED BY <1>1, <2>2, <3>2 DEF venue_edit
    <2>3. CASE venue_delete(p, u)
      <3> DEFINE v == [step |-> "archive", of |-> u, from |-> venues[u], copy |-> Absent, checked |-> FALSE, todo |-> {}]
      <3>1. v \in VisitRecords
        BY <2>1 DEF VisitRecords
      <3>2. VisitOK(v, programme, talks, venues)
        BY <2>1, <3>1 DEF VisitOK
      <3> QED BY <1>1, <2>3, <3>2 DEF venue_delete
    <2> QED BY <1>7, <2>2, <2>3
  <1>8. ASSUME NEW e \in Events, session_mass_delete(p, e)
        PROVE  /\ VisitOK(visit'[p], programme, talks, venues)
               /\ visit' = [visit EXCEPT ![p] = visit'[p]]
               /\ \A q \in Leads \ {p} : visit'[q] = visit[q]
    <2>1. PICK ids \in SUBSET session_index(e) \ {{}} :
             visit' = [visit EXCEPT ![p] = [NoVisit EXCEPT !.step = "mass", !.todo = ids]]
      BY <1>8 DEF session_mass_delete
    <2>2. PICK v : v = [NoVisit EXCEPT !.step = "mass", !.todo = ids]
      OBVIOUS
    <2>3. v = [step |-> "mass", of |-> "nothing", from |-> Absent, copy |-> Absent, checked |-> FALSE, todo |-> ids]
      BY <2>2 DEF NoVisit
    <2>4. ids \subseteq Sessions /\ \A s \in ids : talks[s].there
      BY <1>0 DEF session_index, alive
    <2>5. v \in VisitRecords
      BY <2>3, <2>4 DEF VisitRecords
    <2>6. VisitOK(v, programme, talks, venues)
      BY <2>3, <2>4, <2>5 DEF VisitOK
    <2>7. visit' = [visit EXCEPT ![p] = v]
      BY <2>1, <2>2
    <2> QED BY <1>0, <2>6, <2>7
  <1> QED BY <1>2, <1>3, <1>4, <1>5, <1>6, <1>7, <1>8 DEF Loads

(* A visit stays what it is while rows come and change.                    *)
LEMMA VisitStays ==
  ASSUME NEW v, VisitOK(v, programme, talks, venues),
         \A e \in Events : programme[e].there => programme'[e].there,
         \A s \in Sessions : talks[s].there => talks'[s].there,
         \A u \in Venues : venues[u].there => venues'[u].there
  PROVE  VisitOK(v, programme', talks', venues')
  <1>1. v.step = "session" => EventOf[v.of] \in Events
    BY ProgrammeConstants DEF VisitOK, SessionVisit
  <1>2. v.todo \subseteq Sessions
    BY DEF VisitOK, VisitRecords
  <1> QED BY <1>1, <1>2 DEF VisitOK

(* The visits that go on, and those that end.                              *)
LEMMA VisitsNext ==
  ASSUME Typed, ProgrammeNext
  PROVE  /\ visit' \in [Leads -> VisitRecords]
         /\ \A p \in Leads : VisitOK(visit'[p], programme, talks, venues)
  <1>0. visit \in [Leads -> VisitRecords] /\ \A p \in Leads : VisitOK(visit[p], programme, talks, venues)
    BY TypedParts DEF Typed, VisitsOK
  <1>1. ASSUME NEW p \in Leads, Loads(p)
        PROVE  /\ visit' \in [Leads -> VisitRecords]
               /\ \A q \in Leads : VisitOK(visit'[q], programme, talks, venues)
    <2>1. /\ VisitOK(visit'[p], programme, talks, venues)
          /\ visit' = [visit EXCEPT ![p] = visit'[p]]
          /\ \A q \in Leads \ {p} : visit'[q] = visit[q]
      BY <1>1, LoadsOK
    <2>2. visit'[p] \in VisitRecords
      BY <2>1 DEF VisitOK
    <2> QED BY <1>0, <2>1, <2>2
  <1>2. ASSUME NEW p \in Leads, Leaves(p)
        PROVE  /\ visit' \in [Leads -> VisitRecords]
               /\ \A q \in Leads : VisitOK(visit'[q], programme, talks, venues)
    <2>1. /\ visit'[p] = NoVisit /\ visit' \in [Leads -> VisitRecords]
          /\ \A q \in Leads \ {p} : visit'[q] = visit[q]
      BY <1>2, LeavesType DEF Typed
    <2>2. NoVisit.step = "idle"
      BY DEF NoVisit
    <2>3. VisitOK(NoVisit, programme, talks, venues)
      BY <2>1, <2>2 DEF VisitOK
    <2> QED BY <1>0, <2>1, <2>3
  <1>3. ASSUME NEW p \in Leads, NEW s \in Sessions, MassDeleteOne(p, s)
        PROVE  /\ visit' \in [Leads -> VisitRecords]
               /\ \A q \in Leads : VisitOK(visit'[q], programme, talks, venues)
    <2>1. CASE visit[p].todo = {s}
      <3>1. Leaves(p)
        BY <1>3, <2>1 DEF MassDeleteOne, Leaves
      <3> QED BY <1>2, <3>1
    <2>2. CASE visit[p].todo # {s}
      <3> DEFINE v == [visit[p] EXCEPT !.todo = visit[p].todo \ {s}]
      <3>0. visit' = [visit EXCEPT ![p] = [visit[p] EXCEPT !.todo = visit[p].todo \ {s}]]
        BY <1>3, <2>2 DEF MassDeleteOne
      <3>1. v \in VisitRecords /\ v.step = "mass" /\ v.todo \subseteq visit[p].todo
        BY <1>0, <1>3 DEF MassDeleteOne, VisitRecords
      <3>2. visit' = [visit EXCEPT ![p] = v]
        BY <3>0
      <3>3. \A t \in visit[p].todo : talks[t].there
        BY <1>0, <1>3 DEF MassDeleteOne, VisitOK
      <3> HIDE DEF v
      <3>4. VisitOK(v, programme, talks, venues)
        BY <3>1, <3>3 DEF VisitOK
      <3> QED BY <1>0, <3>1, <3>2, <3>4
    <2> QED BY <2>1, <2>2
  <1>4. CASE visit' = visit
    BY <1>0, <1>4
  <1>5. CASE EventWrites
    <2>1. (\E p \in Leads : Leaves(p)) \/ visit' = visit
      BY <1>5 DEF EventWrites, SaveEvent, event_delete, SetEvent, Administers
    <2> QED BY <1>2, <1>4, <2>1
  <1>6. CASE TalkWrites
    <2>1. (\E p \in Leads : Leaves(p)) \/ visit' = visit \/ \E p \in Leads, s \in Sessions : MassDeleteOne(p, s)
      BY <1>6 DEF TalkWrites, SaveSession, session_delete, SetSession, Administers
    <2> QED BY <1>2, <1>3, <1>4, <2>1
  <1>7. CASE VenueWrites
    <2>1. (\E p \in Leads : Leaves(p)) \/ visit' = visit
      BY <1>7 DEF VenueWrites, venue_new, SaveVenue, ArchiveVenue, SetVenue, Administers
    <2> QED BY <1>2, <1>4, <2>1
  <1>8. CASE DayPasses
    BY <1>4, <1>8 DEF DayPasses
  <1> QED BY <1>1, <1>5, <1>6, <1>7, <1>8, Steps

(* The clock and the count of the visits stay within their bounds.         *)
LEMMA CountsNext ==
  ASSUME Typed, ProgrammeNext
  PROVE  day' \in 0..MaxDay /\ visits' \in 0..MaxVisits
  <1>0. day \in 0..MaxDay /\ visits \in 0..MaxVisits /\ MaxDay \in Nat /\ MaxVisits \in Nat
    BY ProgrammeConstants DEF Typed, ProgrammeTypeOK
  <1>1. day' \in 0..MaxDay
    <2>1. day' = day \/ (day < MaxDay /\ day' = day + 1)
      <3>1. CASE DayPasses
        BY <3>1 DEF DayPasses
      <3>2. CASE ~DayPasses
        <4>1. (\E p \in Leads : Loads(p)) => UNCHANGED tables
          BY LoadsLeaveTables
        <4> QED BY <3>2, <4>1, Steps, OneTableEach DEF tables
      <3> QED BY <3>1, <3>2
    <2> QED BY <1>0, <2>1
  <1>2. visits' \in 0..MaxVisits
    <2>1. visits' = visits \/ (visits < MaxVisits /\ visits' = visits + 1)
      <3>1. ASSUME NEW p \in Leads, Loads(p)
            PROVE  visits' = visits \/ (visits < MaxVisits /\ visits' = visits + 1)
        BY <3>1 DEF Loads, event_new, event_edit, event_publish, session_mass_delete, session_new, session_edit,
                    venue_edit, venue_delete, Load, Arrives
      <3>2. CASE EventWrites
        BY <3>2 DEF EventWrites, SaveEvent, event_delete, SetEvent, Administers, Arrives
      <3>3. CASE TalkWrites
        BY <3>3 DEF TalkWrites, SaveSession, session_delete, MassDeleteOne, SetSession, Administers, Arrives
      <3>4. CASE VenueWrites
        BY <3>4 DEF VenueWrites, venue_new, SaveVenue, ArchiveVenue, SetVenue, Administers, Arrives
      <3>5. CASE DayPasses
        BY <3>5 DEF DayPasses
      <3> QED BY <3>1, <3>2, <3>3, <3>4, <3>5, Steps
    <2> QED BY <1>0, <2>1
  <1> QED BY <1>1, <1>2

LEMMA TypedInit == ProgrammeInit => Typed
  <1> SUFFICES ASSUME ProgrammeInit PROVE Typed
    OBVIOUS
  <1> USE DEF ProgrammeInit
  <1>1. NoVisit \in VisitRecords /\ NoVisit.step = "idle"
    BY DEF NoVisit, VisitRecords
  <1>2. [there |-> TRUE, deleted |-> FALSE] \in VenueRows
    BY DEF VenueRows
  <1>3. ProgrammeTypeOK
    <2>1. day \in 0..MaxDay /\ visits \in 0..MaxVisits
      BY ProgrammeConstants
    <2>2. venues \in [Venues -> {Absent} \cup VenueRows]
      BY <1>2
    <2>3. visit \in [Leads -> VisitRecords]
      BY <1>1
    <2> QED BY <2>1, <2>2, <2>3 DEF ProgrammeTypeOK, VisitRecords
  <1>4. VisitsOK
    BY <1>1 DEF VisitsOK, VisitOK
  <1>5. TalksHaveEvents
    BY ThereIsARow DEF TalksHaveEvents
  <1> QED BY <1>3, <1>4, <1>5 DEF Typed

LEMMA TypedNext == Typed /\ [ProgrammeNext]_programmeVars => Typed'
  <1> SUFFICES ASSUME Typed, [ProgrammeNext]_programmeVars PROVE Typed'
    OBVIOUS
  <1>0. /\ programme \in [Events -> {Absent} \cup EventRows] /\ talks \in [Sessions -> {Absent} \cup TalkRows]
        /\ venues \in [Venues -> {Absent} \cup VenueRows]
        /\ overtaken \subseteq Events /\ administered \subseteq Events
        /\ \A s \in Sessions : talks[s].there => programme[EventOf[s]].there
    BY DEF Typed, ProgrammeTypeOK, TalksHaveEvents
  <1>1. CASE UNCHANGED programmeVars
    BY <1>1 DEF programmeVars, Typed, ProgrammeTypeOK, VisitsOK, VisitOK, TalksHaveEvents
  <1>2. CASE ProgrammeNext
    <2>1. /\ programme' \in [Events -> {Absent} \cup EventRows]
          /\ \A e \in Events : programme[e].there => programme'[e].there
      BY <1>0, <1>2, Steps, EventsNext, OneTableEach, LoadsLeaveTables DEF tables
    <2>2. /\ talks' \in [Sessions -> {Absent} \cup TalkRows]
          /\ \A s \in Sessions : talks[s].there => talks'[s].there
          /\ \A s \in Sessions : talks'[s].there => programme[EventOf[s]].there
      BY <1>0, <1>2, Steps, TalksNext, OneTableEach, LoadsLeaveTables DEF tables
    <2>3. /\ venues' \in [Venues -> {Absent} \cup VenueRows]
          /\ \A v \in Venues : venues[v].there => venues'[v].there
      BY <1>0, <1>2, Steps, VenuesNext, OneTableEach, LoadsLeaveTables DEF tables
    <2>4. overtaken' \subseteq Events /\ administered' \subseteq Events
      BY <1>0, <1>2, Steps, EventsNext, VenuesNext, OneTableEach, LoadsLeaveTables DEF tables
    <2>5. visit' \in [Leads -> VisitRecords] /\ \A p \in Leads : VisitOK(visit'[p], programme, talks, venues)
      BY <1>2, VisitsNext
    <2>6. day' \in 0..MaxDay /\ visits' \in 0..MaxVisits
      BY <1>2, CountsNext
    <2>7. ProgrammeTypeOK'
      BY <2>1, <2>2, <2>3, <2>4, <2>5, <2>6 DEF ProgrammeTypeOK, VisitRecords
    <2>8. VisitsOK'
      BY <2>1, <2>2, <2>3, <2>5, VisitStays DEF VisitsOK
    <2>9. TalksHaveEvents'
      BY <2>1, <2>2, ProgrammeConstants DEF TalksHaveEvents
    <2> QED BY <2>7, <2>8, <2>9 DEF Typed
  <1> QED BY <1>1, <1>2

(* Every row is of its table, whatever was archived, restored or saved.    *)
THEOREM ProgrammeTypeCorrect == ProgrammeSpec => []ProgrammeTypeOK
  <1>1. Typed => ProgrammeTypeOK
    BY DEF Typed
  <1> QED BY <1>1, TypedInit, TypedNext, PTL DEF ProgrammeSpec

LEMMA TypedInvariant == ProgrammeSpec => []Typed
  BY TypedInit, TypedNext, PTL DEF ProgrammeSpec

-----------------------------------------------------------------------------
(* The lists.                                                              *)

(* Whatever day it is, an event is still to come or in the archives: no    *)
(* day falls between the two lists.                                        *)
THEOREM PublicEventsAreShown == ProgrammeSpec => []PublicEventsAreListed
  <1>1. Typed => PublicEventsAreListed
    <2> SUFFICES ASSUME Typed, NEW e \in public_events, programme[e].form.start < programme[e].form.end
                 PROVE  LET form == programme[e].form
                        IN  /\ form.on_homepage /\ form.on_archive => e \in home \cup past_events
                            /\ form.on_archive => e \in EventListView(FALSE) \cup archives
      BY DEF PublicEventsAreListed
    <2>1. e \in Events /\ programme[e].there /\ programme \in [Events -> {Absent} \cup EventRows] /\ day \in 0..MaxDay
      BY DEF public_events, alive, Typed, ProgrammeTypeOK
    <2>2. programme[e] \in EventRows
      BY <2>1, ThereIsARow
    <2>3. programme[e].form \in EventForms
      BY <2>2 DEF EventRows
    <2>4. programme[e].form.start \in Nat /\ programme[e].form.end \in Nat /\ day \in Nat
      BY <2>1, <2>3, ProgrammeConstants
    <2>5. ends(e) > day \/ starts(e) < day
      BY <2>4 DEF ends, starts
    <2>6. CASE ends(e) > day
      BY <2>6 DEF future_public_events, home, EventListView
    <2>7. CASE starts(e) < day
      BY <2>7 DEF archives, past_events
    <2> QED BY <2>5, <2>6, <2>7
  <1> QED BY <1>1, TypedInvariant, PTL

(* An edit never restores: a save that brings an archived row back loaded  *)
(* it before it was archived.                                              *)
THEOREM ArchivedRowsStay == ProgrammeSpec => RowsStayArchived
  <1>1. Typed /\ [ProgrammeNext]_programmeVars
        => [\A p \in Leads :
              /\ \A e \in Events : SaveEvent(p, e) /\ visit[p].from.there =>
                   (programme[e].deleted /\ ~programme'[e].deleted => ~visit[p].from.deleted)
              /\ \A s \in Sessions : SaveSession(p, s) /\ visit[p].from.there =>
                   (talks[s].deleted /\ ~talks'[s].deleted => ~visit[p].from.deleted)]_programmeVars
    <2> SUFFICES ASSUME Typed, NEW p \in Leads, visit[p].from.there
                 PROVE  /\ \A e \in Events : SaveEvent(p, e) =>
                             (programme[e].deleted /\ ~programme'[e].deleted => ~visit[p].from.deleted)
                        /\ \A s \in Sessions : SaveSession(p, s) =>
                             (talks[s].deleted /\ ~talks'[s].deleted => ~visit[p].from.deleted)
      OBVIOUS
    <2>0. VisitOK(visit[p], programme, talks, venues) /\ DOMAIN programme = Events /\ DOMAIN talks = Sessions
      BY DEF Typed, VisitsOK, ProgrammeTypeOK
    <2>1. ASSUME NEW e \in Events, SaveEvent(p, e)
          PROVE  programme'[e].deleted = visit[p].from.deleted
      <3>1. programme'[e] = visit[p].copy
        BY <2>0, <2>1 DEF SaveEvent
      <3>2. EventVisit(visit[p])
        BY <2>0, <2>1 DEF SaveEvent, Holds, VisitOK
      <3> QED BY <3>1, <3>2 DEF EventVisit
    <2>2. ASSUME NEW s \in Sessions, SaveSession(p, s)
          PROVE  talks'[s].deleted = visit[p].from.deleted
      <3>1. talks'[s] = visit[p].copy
        BY <2>0, <2>2 DEF SaveSession
      <3>2. SessionVisit(visit[p])
        BY <2>0, <2>2 DEF SaveSession, Holds, VisitOK
      <3> QED BY <3>1, <3>2 DEF SessionVisit
    <2> QED BY <2>1, <2>2
  <1> QED BY <1>1, TypedInvariant, PTL DEF ProgrammeSpec, RowsStayArchived

-----------------------------------------------------------------------------
(* The venues of live events.  A lead's request checks the venue when it   *)
(* loads, and saves later; what came between is told by overtaken, and     *)
(* what the admins did by administered.                                    *)

Excused == overtaken \cup administered

Upcoming(e) == programme[e].there /\ ~programme[e].deleted /\ ends(e) > day

(* A live event that is not excused has a live venue,                      *)
Housed == \A e \in Events \ Excused : Upcoming(e) => programme[e].venue \in alive(venues)

(* and a venue that a lead is about to archive has no such event: it had   *)
(* none when he asked, and a save that moves one in is overtaken.          *)
Doomed ==
    \A p \in Leads, v \in Venues : Holds(p, "archive", v) =>
        \A e \in Events \ Excused : Upcoming(e) => programme[e].venue # v

HousedInv == Housed /\ Doomed

LEMMA UpcomingRow ==
  ASSUME Typed, NEW e \in Events, Upcoming(e)
  PROVE  programme[e] \in EventRows /\ programme[e].venue \in Venues
  <1>1. programme[e] \in EventRows
    BY ThereIsARow DEF Upcoming, Typed, ProgrammeTypeOK
  <1> QED BY <1>1 DEF EventRows

(* The upcoming events of a venue that nobody is excused for.              *)
LEMMA OccupantsAre ==
  ASSUME Typed, NEW v, NEW e \in Events, Upcoming(e), programme[e].venue = v
  PROVE  e \in Occupants(v)
  BY DEF Typed, ProgrammeTypeOK, Upcoming, Occupants, alive

(* When no event and no venue changes, the visits matter only in so far as *)
(* they come to archive a venue.                                           *)
LEMMA HousedStays ==
  ASSUME HousedInv, UNCHANGED <<programme, venues>>, day' = day, Excused \subseteq Excused',
         \A p \in Leads, v \in Venues : Holds(p, "archive", v)' =>
            \/ Holds(p, "archive", v)
            \/ \A e \in Events \ Excused : Upcoming(e) => programme[e].venue # v
  PROVE  HousedInv'
  <1>1. \A e \in Events : Upcoming(e)' => Upcoming(e)
    BY DEF Upcoming, ends
  <1>2. Housed'
    BY <1>1 DEF HousedInv, Housed
  <1>3. Doomed'
    BY <1>1 DEF HousedInv, Doomed
  <1> QED BY <1>2, <1>3 DEF HousedInv

(* What a lead's request loads.                                            *)
LEMMA HousedLoads ==
  ASSUME Typed, HousedInv, NEW p \in Leads, Loads(p)
  PROVE  HousedInv'
  <1>1. UNCHANGED tables
    BY LoadsLeaveTables
  <1>2. visit \in [Leads -> VisitRecords] /\ \A q \in Leads \ {p} : visit'[q] = visit[q]
    BY LoadsOK, TypedParts DEF Typed
  <1>3. ASSUME NEW q \in Leads, NEW v \in Venues, Holds(q, "archive", v)'
        PROVE  \/ Holds(q, "archive", v)
               \/ \A e \in Events \ Excused : Upcoming(e) => programme[e].venue # v
    <2>1. CASE q # p
      BY <1>2, <1>3, <2>1 DEF Holds
    <2>2. CASE q = p
      <3>1. ASSUME NEW what, NEW x, NEW row, NEW copy, NEW checked, Load(p, what, x, row, copy, checked)
            PROVE  what = "archive" /\ x = v
        <4>1. visit'[p] = [step |-> what, of |-> x, from |-> row, copy |-> copy, checked |-> checked, todo |-> {}]
          BY <3>1, LoadType DEF Typed
        <4>2. visit'[p].step = what /\ visit'[p].of = x
          BY <4>1
        <4> QED BY <1>3, <2>2, <4>2 DEF Holds
      <3>2. ASSUME NEW e \in Events, session_mass_delete(p, e)
            PROVE  FALSE
        <4>1. PICK ids : visit' = [visit EXCEPT ![p] = [NoVisit EXCEPT !.step = "mass", !.todo = ids]]
          BY <3>2 DEF session_mass_delete
        <4>2. PICK v0 : v0 = [NoVisit EXCEPT !.step = "mass", !.todo = ids]
          OBVIOUS
        <4>3. v0.step = "mass"
          BY <4>2 DEF NoVisit
        <4>4. visit'[p] = v0
          BY <1>2, <4>1, <4>2
        <4> QED BY <1>3, <2>2, <4>3, <4>4 DEF Holds
      <3>3. ASSUME NEW e \in Events, event_new(p, e) \/ event_edit(p, e) \/ event_publish(p, e)
            PROVE  FALSE
        BY <3>1, <3>3 DEF event_new, event_edit, event_publish
      <3>4. ASSUME NEW s \in Sessions, session_new(p, s) \/ session_edit(p, s)
            PROVE  FALSE
        BY <3>1, <3>4 DEF session_new, session_edit
      <3>5. ASSUME NEW u \in Venues, venue_edit(p, u)
            PROVE  FALSE
        BY <3>1, <3>5 DEF venue_edit
      <3>6. PICK u \in Venues : venue_delete(p, u)
        BY <3>2, <3>3, <3>4, <3>5 DEF Loads
      <3>7. u = v /\ Occupants(v) = {}
        BY <3>1, <3>6 DEF venue_delete
      <3> QED BY <3>7, OccupantsAre
    <2> QED BY <2>1, <2>2
  <1> QED BY <1>1, <1>3, HousedStays DEF tables, Excused

(* The end of a visit, and any step that leaves the visits alone, starts   *)
(* nobody archiving.                                                       *)
LEMMA NobodyArchives ==
  ASSUME Typed, visit' = visit \/ (\E p \in Leads : Leaves(p)) \/ \E p \in Leads, s \in Sessions : MassDeleteOne(p, s)
  PROVE  \A q \in Leads, v \in Venues : Holds(q, "archive", v)' => Holds(q, "archive", v)
  <1>0. visit \in [Leads -> VisitRecords]
    BY TypedParts DEF Typed
  <1>1. ASSUME NEW p \in Leads, Leaves(p)
        PROVE  \A q \in Leads, v \in Venues : Holds(q, "archive", v)' => Holds(q, "archive", v)
    <2>1. visit'[p].step = "idle" /\ \A q \in Leads \ {p} : visit'[q] = visit[q]
      BY <1>1, LeavesType DEF Typed, NoVisit
    <2> QED BY <2>1 DEF Holds
  <1>2. ASSUME NEW p \in Leads, NEW s \in Sessions, MassDeleteOne(p, s)
        PROVE  \A q \in Leads, v \in Venues : Holds(q, "archive", v)' => Holds(q, "archive", v)
    <2>1. visit[p].step = "mass"
      BY <1>2 DEF MassDeleteOne
    <2>2. CASE visit[p].todo = {s}
      BY <1>1, <1>2, <2>2 DEF MassDeleteOne, Leaves
    <2>3. CASE visit[p].todo # {s}
      <3>1. visit' = [visit EXCEPT ![p] = [visit[p] EXCEPT !.todo = visit[p].todo \ {s}]]
        BY <1>2, <2>3 DEF MassDeleteOne
      <3>2. visit'[p].step = visit[p].step /\ \A q \in Leads \ {p} : visit'[q] = visit[q]
        BY <1>0, <3>1 DEF VisitRecords
      <3> QED BY <2>1, <3>2 DEF Holds
    <2> QED BY <2>2, <2>3
  <1>3. CASE visit' = visit
    BY <1>3 DEF Holds
  <1> QED BY <1>1, <1>2, <1>3

(* An event is saved, perhaps long after it was loaded.                    *)
LEMMA HousedSaves ==
  ASSUME Typed, HousedInv, NEW p \in Leads, NEW e \in Events, SaveEvent(p, e)
  PROVE  HousedInv'
  <1>0. /\ programme \in [Events -> {Absent} \cup EventRows] /\ VisitOK(visit[p], programme, talks, venues)
    BY DEF Typed, ProgrammeTypeOK, VisitsOK
  <1>1. PICK row : row = visit[p].copy
    OBVIOUS
  <1>2. /\ programme' = [programme EXCEPT ![e] = row] /\ venues' = venues /\ day' = day
        /\ EventVisit(visit[p]) /\ row \in EventRows /\ Leaves(p)
    BY <1>0, <1>1 DEF SaveEvent, Holds, VisitOK, EventVisit
  <1>3. PICK late \in BOOLEAN :
           late <=> ~row.deleted /\ \/ /\ visit[p].checked \/ visit[p].from # programme[e]
                                       /\ row.venue \notin alive(venues)
                                    \/ \E q \in Leads : Holds(q, "archive", row.venue)
    <2> DEFINE late == ~row.deleted /\ \/ /\ visit[p].checked \/ visit[p].from # programme[e]
                                          /\ row.venue \notin alive(venues)
                                       \/ \E q \in Leads : Holds(q, "archive", row.venue)
    <2>1. late \in BOOLEAN
      OBVIOUS
    <2> QED BY <2>1
  <1>4. /\ overtaken' = IF late THEN overtaken \cup {e}
                        ELSE IF row.venue \in alive(venues) THEN overtaken \ {e} ELSE overtaken
        /\ administered' = IF row.venue \in alive(venues) THEN administered \ {e} ELSE administered
    BY <1>1, <1>3 DEF SaveEvent
  <1>5. \A f \in Events \ {e} : (Upcoming(f)' <=> Upcoming(f)) /\ programme'[f] = programme[f]
    BY <1>0, <1>2 DEF Upcoming, ends
  <1>6. \A f \in Events \ {e} : f \in Excused' <=> f \in Excused
    BY <1>4 DEF Excused
  <1>7. Upcoming(e)' => ~row.deleted /\ row.form.end > day
    BY <1>0, <1>2 DEF Upcoming, ends
  <1>8. programme'[e] = row
    BY <1>0, <1>2
  <1>9. ASSUME e \notin Excused', Upcoming(e)'
        PROVE  row.venue \in alive(venues) /\ \A q \in Leads : ~Holds(q, "archive", row.venue)
    <2>1. ~late
      BY <1>4, <1>9 DEF Excused
    <2>2. \A q \in Leads : ~Holds(q, "archive", row.venue)
      BY <1>3, <1>7, <1>9, <2>1
    <2>3. ASSUME row.venue \notin alive(venues)
          PROVE  FALSE
      <3>1. ~visit[p].checked /\ visit[p].from = programme[e]
        BY <1>3, <1>7, <1>9, <2>1, <2>3
      <3>2. /\ programme[e].there /\ row.deleted = programme[e].deleted
            /\ row.venue = programme[e].venue /\ row.form = programme[e].form
        BY <1>1, <1>2, <3>1 DEF EventVisit
      <3>3. Upcoming(e)
        BY <1>7, <1>9, <3>2 DEF Upcoming, ends
      <3>4. e \notin Excused
        BY <1>4, <1>9, <2>1, <2>3 DEF Excused
      <3> QED BY <2>3, <3>2, <3>3, <3>4 DEF HousedInv, Housed
    <2> QED BY <2>2, <2>3
  <1>10. Housed'
    <2> SUFFICES ASSUME NEW f \in Events, f \notin Excused', Upcoming(f)'
                 PROVE  programme'[f].venue \in alive(venues')
      BY DEF Housed
    <2>1. CASE f = e
      BY <1>2, <1>8, <1>9, <2>1
    <2>2. CASE f # e
      BY <1>2, <1>5, <1>6, <2>2 DEF HousedInv, Housed
    <2> QED BY <2>1, <2>2
  <1>11. Doomed'
    <2> SUFFICES ASSUME NEW q \in Leads, NEW v \in Venues, Holds(q, "archive", v)',
                        NEW f \in Events, f \notin Excused', Upcoming(f)'
                 PROVE  programme'[f].venue # v
      BY DEF Doomed
    <2>1. Holds(q, "archive", v)
      BY <1>2, NobodyArchives
    <2>2. CASE f = e
      BY <1>8, <1>9, <2>1, <2>2
    <2>3. CASE f # e
      BY <1>5, <1>6, <2>1, <2>3 DEF HousedInv, Doomed
    <2> QED BY <2>2, <2>3
  <1> QED BY <1>10, <1>11 DEF HousedInv

(* A row of an event is archived or restored.                              *)
LEMMA HousedMarks ==
  ASSUME Typed, HousedInv, EventWrites, \A p \in Leads, e \in Events : ~SaveEvent(p, e)
  PROVE  HousedInv'
  <1>0. programme \in [Events -> {Absent} \cup EventRows]
    BY DEF Typed, ProgrammeTypeOK
  <1>1. PICK e \in Events, d \in BOOLEAN :
           /\ programme[e].there /\ programme' = [programme EXCEPT ![e].deleted = d]
           /\ UNCHANGED <<day, venues, visit, overtaken>>
           /\ administered' = IF d THEN administered ELSE administered \cup {e}
    <2>1. CASE \E p \in Leads, e \in Events : event_delete(p, e)
      BY <2>1 DEF event_delete
    <2>2. CASE \E e \in Events, d \in BOOLEAN : SetEvent(e, d)
      BY <2>2 DEF SetEvent, Administers
    <2> QED BY <2>1, <2>2 DEF EventWrites
  <1>2. programme[e] \in EventRows
    BY <1>0, <1>1, ThereIsARow
  <1>3. /\ programme'[e].deleted = d /\ programme'[e].venue = programme[e].venue
        /\ \A f \in Events \ {e} : programme'[f] = programme[f]
    BY <1>0, <1>1, <1>2 DEF EventRows
  <1>4. \A f \in Events \ Excused' : Upcoming(f)' =>
           f \notin Excused /\ Upcoming(f) /\ programme'[f].venue = programme[f].venue
    <2> SUFFICES ASSUME NEW f \in Events, f \notin Excused', Upcoming(f)'
                 PROVE  f \notin Excused /\ Upcoming(f) /\ programme'[f].venue = programme[f].venue
      OBVIOUS
    <2>1. f \notin Excused
      BY <1>1 DEF Excused
    <2>2. CASE f = e
      <3>1. ~d
        BY <1>3, <2>2 DEF Upcoming
      <3> QED BY <1>1, <2>2, <3>1 DEF Excused
    <2>3. CASE f # e
      BY <1>1, <1>3, <2>1, <2>3 DEF Upcoming, ends
    <2> QED BY <2>2, <2>3
  <1>5. Housed'
    BY <1>1, <1>4 DEF HousedInv, Housed
  <1>6. Doomed'
    BY <1>1, <1>4 DEF HousedInv, Doomed, Holds
  <1> QED BY <1>5, <1>6 DEF HousedInv

(* A venue is entered, saved, archived or restored.                        *)
LEMMA HousedVenues ==
  ASSUME Typed, HousedInv, VenueWrites
  PROVE  HousedInv'
  <1>0. /\ venues \in [Venues -> {Absent} \cup VenueRows]
        /\ programme \in [Events -> {Absent} \cup EventRows]
        /\ UNCHANGED <<day, programme>>
    BY OneTableEach DEF Typed, ProgrammeTypeOK
  <1>1. \A f \in Events : (Upcoming(f)' <=> Upcoming(f)) /\ programme'[f] = programme[f]
    BY <1>0 DEF Upcoming, ends
  <1>2. ASSUME NEW v \in Venues, NEW row, venues' = [venues EXCEPT ![v] = row],
               visit' = visit \/ \E p \in Leads : Leaves(p),
               Excused \subseteq Excused',
               \/ row.there /\ ~row.deleted
               \/ v \notin alive(venues)
               \/ \A f \in Events \ Excused' : Upcoming(f) => programme[f].venue # v
        PROVE  HousedInv'
    <2>1. \A u \in alive(venues) : u # v => u \in alive(venues')
      BY <1>0, <1>2 DEF alive
    <2>2. v \in alive(venues') \/ v \notin alive(venues)
             \/ \A f \in Events \ Excused' : Upcoming(f) => programme[f].venue # v
      BY <1>0, <1>2 DEF alive
    <2>3. Housed'
      BY <1>1, <1>2, <2>1, <2>2 DEF HousedInv, Housed
    <2>4. \A q \in Leads, u \in Venues : Holds(q, "archive", u)' => Holds(q, "archive", u)
      BY <1>2, NobodyArchives
    <2>5. Doomed'
      BY <1>1, <1>2, <2>4 DEF HousedInv, Doomed
    <2> QED BY <2>3, <2>5 DEF HousedInv
  <1>3. ASSUME NEW p \in Leads, NEW v \in Venues, venue_new(p, v)
        PROVE  HousedInv'
    <2>1. venues' = [venues EXCEPT ![v] = [there |-> TRUE, deleted |-> FALSE]] /\ visit' = visit
      BY <1>3 DEF venue_new
    <2>2. Excused' = Excused
      BY <1>3 DEF venue_new, Excused
    <2> QED BY <1>2, <2>1, <2>2
  <1>4. ASSUME NEW p \in Leads, NEW v \in Venues, SaveVenue(p, v)
        PROVE  HousedInv'
    <2>1. PICK row : row = visit[p].copy
      OBVIOUS
    <2>2. row \in VenueRows /\ row.there
      BY <1>4, <2>1, ThereIsARow DEF SaveVenue, Holds, Typed, VisitsOK, VisitOK
    <2>3. /\ venues' = [venues EXCEPT ![v] = row] /\ Leaves(p)
          /\ overtaken' = IF row.deleted /\ ~venues[v].deleted THEN overtaken \cup Occupants(v) ELSE overtaken
          /\ administered' = administered
      BY <1>4, <2>1 DEF SaveVenue
    <2>4. Excused \subseteq Excused'
      BY <2>3 DEF Excused
    <2>5. CASE ~row.deleted
      BY <1>2, <2>2, <2>3, <2>4, <2>5
    <2>6. CASE row.deleted /\ venues[v].deleted
      <3>1. v \notin alive(venues)
        BY <2>6 DEF alive
      <3> QED BY <1>2, <2>3, <2>4, <3>1
    <2>7. CASE row.deleted /\ ~venues[v].deleted
      <3>1. \A f \in Events \ Excused' : Upcoming(f) => programme[f].venue # v
        BY <2>3, <2>7, OccupantsAre DEF Excused
      <3> QED BY <1>2, <2>3, <2>4, <3>1
    <2> QED BY <2>5, <2>6, <2>7
  <1>5. ASSUME NEW p \in Leads, NEW v \in Venues, ArchiveVenue(p, v)
        PROVE  HousedInv'
    <2>1. /\ venues' = [venues EXCEPT ![v].deleted = TRUE] /\ Leaves(p)
          /\ UNCHANGED <<overtaken, administered>> /\ Holds(p, "archive", v)
      BY <1>5 DEF ArchiveVenue
    <2>2. Excused' = Excused
      BY <2>1 DEF Excused
    <2>3. \A f \in Events \ Excused' : Upcoming(f) => programme[f].venue # v
      BY <2>1, <2>2 DEF HousedInv, Doomed
    <2>4. PICK row : row = [venues[v] EXCEPT !.deleted = TRUE]
      OBVIOUS
    <2>5. venues' = [venues EXCEPT ![v] = row]
      BY <2>1, <2>4
    <2> QED BY <1>2, <2>1, <2>2, <2>3, <2>5
  <1>6. ASSUME NEW v \in Venues, NEW d \in BOOLEAN, SetVenue(v, d)
        PROVE  HousedInv'
    <2>1. /\ venues' = [venues EXCEPT ![v].deleted = d] /\ visit' = visit /\ overtaken' = overtaken
          /\ venues[v].there
          /\ administered' = IF d THEN administered \cup Occupants(v) ELSE administered
      BY <1>6 DEF SetVenue, Administers
    <2>2. Excused \subseteq Excused'
      BY <2>1 DEF Excused
    <2>3. PICK row : row = [venues[v] EXCEPT !.deleted = d]
      OBVIOUS
    <2>4. venues' = [venues EXCEPT ![v] = row]
      BY <2>1, <2>3
    <2>5. CASE d
      <3>1. \A f \in Events \ Excused' : Upcoming(f) => programme[f].venue # v
        BY <2>1, <2>5, OccupantsAre DEF Excused
      <3> QED BY <1>2, <2>1, <2>2, <2>4, <3>1
    <2>6. CASE ~d
      <3>1. venues[v] \in VenueRows
        BY <1>0, <2>1, ThereIsARow
      <3>2. row.there /\ ~row.deleted
        BY <2>1, <2>3, <2>6, <3>1 DEF VenueRows
      <3> QED BY <1>2, <2>1, <2>2, <2>4, <3>2
    <2> QED BY <2>5, <2>6
  <1> QED BY <1>3, <1>4, <1>5, <1>6 DEF VenueWrites

LEMMA HousedNext == Typed /\ HousedInv /\ [ProgrammeNext]_programmeVars => HousedInv'
  <1> SUFFICES ASSUME Typed, HousedInv, [ProgrammeNext]_programmeVars PROVE HousedInv'
    OBVIOUS
  <1>1. CASE UNCHANGED programmeVars
    BY <1>1 DEF programmeVars, HousedInv, Housed, Doomed, Excused, Upcoming, ends, Holds, alive
  <1>2. CASE \E p \in Leads : Loads(p)
    BY <1>2, HousedLoads
  <1>3. CASE EventWrites
    <2>1. CASE \E p \in Leads, e \in Events : SaveEvent(p, e)
      BY <2>1, HousedSaves
    <2> QED BY <1>3, <2>1, HousedMarks
  <1>4. CASE TalkWrites
    <2>1. visit' = visit \/ (\E p \in Leads : Leaves(p)) \/ \E p \in Leads, s \in Sessions : MassDeleteOne(p, s)
      BY <1>4 DEF TalkWrites, SaveSession, session_delete, SetSession, Administers
    <2>2. \A q \in Leads, v \in Venues : Holds(q, "archive", v)' => Holds(q, "archive", v)
      BY <2>1, NobodyArchives
    <2> QED BY <1>4, <2>2, OneTableEach, HousedStays DEF Excused
  <1>5. CASE VenueWrites
    BY <1>5, HousedVenues
  <1>6. CASE DayPasses
    <2>1. UNCHANGED <<programme, venues, visit, overtaken, administered>> /\ day' = day + 1 /\ day \in Nat
      BY <1>6 DEF DayPasses, Typed, ProgrammeTypeOK
    <2>2. \A e \in Events : Upcoming(e)' => Upcoming(e)
      <3> SUFFICES ASSUME NEW e \in Events, Upcoming(e)' PROVE Upcoming(e)
        OBVIOUS
      <3>1. programme[e].there
        BY <2>1 DEF Upcoming
      <3>2. programme[e].form \in EventForms
        BY <3>1, ThereIsARow DEF Typed, ProgrammeTypeOK, EventRows
      <3>3. programme[e].form.end \in Nat
        BY <3>2, ProgrammeConstants
      <3> QED BY <2>1, <3>3 DEF Upcoming, ends
    <2>3. Housed'
      BY <2>1, <2>2 DEF HousedInv, Housed, Excused
    <2>4. Doomed'
      BY <2>1, <2>2 DEF HousedInv, Doomed, Excused, Holds
    <2> QED BY <2>3, <2>4 DEF HousedInv
  <1> QED BY <1>1, <1>2, <1>3, <1>4, <1>5, <1>6, Steps

(* An event that is alive and not over has a live venue: only an admin, or *)
(* a request that another lead's overtook, can take it away.               *)
THEOREM LiveEventsAreHoused == ProgrammeSpec => []LiveEventsHaveLiveVenues
  <1>1. ProgrammeInit => HousedInv
    <2> SUFFICES ASSUME ProgrammeInit PROVE HousedInv
      OBVIOUS
    <2>1. \A e \in Events : ~Upcoming(e)
      BY ThereIsARow DEF ProgrammeInit, Upcoming
    <2> QED BY <2>1 DEF HousedInv, Housed, Doomed
  <1>2. Typed /\ HousedInv => LiveEventsHaveLiveVenues
    BY DEF Typed, ProgrammeTypeOK, HousedInv, Housed, Excused, Upcoming, LiveEventsHaveLiveVenues, alive, venue_detail
  <1> QED BY <1>1, <1>2, HousedNext, TypedInvariant, PTL DEF ProgrammeSpec

=============================================================================

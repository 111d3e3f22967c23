-------------------------- MODULE OneProcessProofs --------------------------
(***************************************************************************)
(* What a single web process guarantees, with any number of members, caps  *)
(* and kinds of request, and with the sweep and the clock running beside   *)
(* it: seats given up are handed on, and the statements of the code        *)
(* implement the atomic steps of SeatAllocation.                           *)
(*                                                                         *)
(* Only the process itself gives out seats and moves the queue, so what    *)
(* its request has read still holds when it is used; the sweep only frees  *)
(* seats.  Fresh says so for each step of a request, and Served says when  *)
(* nobody waits for a seat that is free.                                   *)
(***************************************************************************)
EXTENDS RegistrationProofs

Alone == \A v, w \in Workers : v = w

Looping == {"count", "pick", "confirm"}

Fresh(j) ==
  /\ j.live
  /\ \A r \in j.rest : r.live
  /\ j.step \in {"choose", "cancel", "decide"} \cup Looping => j.cap = max_registration
  /\ j.step = "insert" => j.goal \in SeatHolding \cup {"Waitlisted"} /\ j.older = Registered
  /\ j.step = "insert" /\ j.goal \in SeatHolding => RegistrationAllowed(max_registration)
  /\ j.step \in {"pick", "confirm"} => RegistrationAllowed(max_registration)
  /\ j.step = "confirm" => FirstInLine(j.user)
  /\ j.promoted # {} => j.step \in Looping \cup {"mail"}

FreshJobs == \A w \in Workers : Fresh(job[w])

HandedOn == Waiting = {} \/ ~RegistrationAllowed(max_registration)

Served(j) ==
  /\ j.step \notin Looping /\ ~gap => HandedOn
  /\ j.step = "insert" /\ j.goal = "Waitlisted" /\ ~gap
       => ~RegistrationAllowed(max_registration)
  /\ j.step = "cancel" /\ j.seen \notin SeatHolding => state[j.user] \notin SeatHolding

ServedJobs == \A w \in Workers : Served(job[w])

-----------------------------------------------------------------------------
(* Counting seats.                                                         *)

LEMMA Counts ==
  /\ active_registration_count \in Nat
  /\ active_registration_count' \in Nat
  /\ Seated' \subseteq Seated => active_registration_count' <= active_registration_count
  /\ Seated \subseteq Seated' => active_registration_count <= active_registration_count'
  <1>1. Seated \subseteq Users /\ Seated' \subseteq Users
    BY DEF Seated
  <1>2. IsFiniteSet(Seated) /\ IsFiniteSet(Seated')
    BY <1>1, UsersAssumption, FS_Subset
  <1> QED
    BY <1>2, FS_Subset, FS_CardinalityType DEF active_registration_count

-----------------------------------------------------------------------------
(* The jobs a request goes on with.                                        *)

LEMMA Moves ==
  ASSUME TypeOK, Alone, NEW w \in Workers, NEW j, Continue(w, j)
  PROVE  job'[w] = j /\ \A x \in Workers : x = w
  BY DEF TypeOK, Alone, Continue

(* A job that has read nothing it will rely on.                            *)
Tame(w, j) ==
  /\ j.live
  /\ j.rest \subseteq job[w].rest
  /\ j.step \in {"idle", "next", "mail", "count", "edit"}
  /\ j.promoted # {} => j.step \in {"count", "mail"}

LEMMA TameJobs ==
  ASSUME TypeOK, NEW w \in Workers
  PROVE  /\ IdleJob.step = "idle" /\ Tame(w, IdleJob)
         /\ Resume(job[w]).step \in {"idle", "next"} /\ Tame(w, Resume(job[w]))
         /\ AfterLoop(w).step \in {"idle", "next", "mail"} /\ Tame(w, AfterLoop(w))
         /\ \A c : LET j == Promoting(job[w], c)
                   IN  j.step = "count" /\ j.cap = c /\ Tame(w, j)
  <1>1. /\ BatchLeft(job[w]) \in Jobs
        /\ BatchLeft(job[w]).rest = job[w].rest
        /\ BatchLeft(job[w]).live
        /\ BatchLeft(job[w]).promoted = {}
    BY BatchLeftType DEF TypeOK, BatchLeft, IdleJob
  <1>2. IdleJob.step = "idle" /\ Tame(w, IdleJob)
    BY DEF Tame, IdleJob
  <1>3. \A c : LET j == Promoting(job[w], c)
               IN  j.step = "count" /\ j.cap = c /\ Tame(w, j)
    BY <1>1 DEF Tame, Promoting, Jobs
  <1>4. Resume(job[w]).step \in {"idle", "next"} /\ Tame(w, Resume(job[w]))
    BY <1>1, <1>2 DEF Tame, Resume, Jobs
  <1>5. AfterLoop(w).step \in {"idle", "next", "mail"} /\ Tame(w, AfterLoop(w))
    BY <1>1, <1>4 DEF Tame, AfterLoop, Jobs
  <1> QED
    BY <1>2, <1>3, <1>4, <1>5

LEMMA TameFresh ==
  ASSUME TypeOK, Alone, FreshJobs, NEW w \in Workers, NEW j, Continue(w, j), Tame(w, j),
         j.step = "count" => j.cap = max_registration'
  PROVE  FreshJobs'
  <1> SUFFICES Fresh(job[w])'
    BY Moves DEF FreshJobs
  <1>1. job'[w] = j
    BY Moves
  <1>2. \A r \in j.rest : r.live
    BY DEF FreshJobs, Fresh, Tame
  <1> QED
    BY <1>1, <1>2 DEF Fresh, Tame, Looping

-----------------------------------------------------------------------------
(* Requests act on what they have read.                                    *)

LEMMA RequestFresh ==
  ASSUME TypeOK, Alone, FreshJobs, NEW w \in Workers, Request(w)
  PROVE  FreshJobs'
  <1>0. max_registration' = max_registration
    BY DEF Request, RsvpStart, CancelStart, DecideStart, BatchStart, CheckInStart, EditStart,
           event
  <1> SUFFICES Fresh(job[w])'
    BY Moves DEF FreshJobs, Request, RsvpStart, CancelStart, DecideStart, BatchStart,
                 CheckInStart, EditStart, Start
  <1>1. ASSUME NEW u, RsvpStart(w, u)
        PROVE  Fresh(job[w])'
    <2>1. job'[w] = [IdleJob EXCEPT !.step = "choose", !.user = u, !.cap = max_registration]
      BY <1>1, Moves DEF RsvpStart, Start
    <2> QED
      BY <1>0, <2>1 DEF Fresh, IdleJob
  <1>2. ASSUME NEW u, NEW kind, NEW step \in {"cancel", "decide", "check_in"}, NEW goal,
               Start(w, kind, Fetched(u, step, goal))
        PROVE  Fresh(job[w])'
    <2>1. job'[w] = Fetched(u, step, goal)
      BY <1>2, Moves DEF Start
    <2> QED
      BY <1>0, <2>1 DEF Fresh, Fetched, IdleJob, Looping
  <1>3. ASSUME NEW S, NEW goal, BatchStart(w, S, goal)
        PROVE  Fresh(job[w])'
    <2> DEFINE loaded == {[user |-> u, seen |-> state[u], live |-> TRUE] : u \in S}
    <2>1. job'[w] = [IdleJob EXCEPT !.step = "next", !.goal = goal, !.rest = loaded]
      BY <1>3, Moves DEF BatchStart, Start
    <2>2. \A r \in loaded : r.live
      OBVIOUS
    <2>3. /\ job'[w].live /\ job'[w].rest = loaded
          /\ job'[w].step = "next" /\ job'[w].promoted = {}
      BY <2>1 DEF IdleJob
    <2> HIDE DEF loaded
    <2> QED
      BY <2>2, <2>3 DEF Fresh, Looping
  <1>4. CASE EditStart(w)
    <2>1. job'[w] = [IdleJob EXCEPT !.step = "edit", !.cap = max_registration,
                                    !.processed = auto_absent_processed]
      BY <1>4, Moves DEF EditStart, Start
    <2> QED
      BY <2>1 DEF Fresh, IdleJob, Looping
  <1> QED
    BY <1>1, <1>2, <1>3, <1>4 DEF Request, CancelStart, DecideStart, CheckInStart

LEMMA SetStateFresh ==
  ASSUME TypeOK, Alone, FreshJobs, NEW w \in Workers, NEW new, SetState(w, new),
         job[w].step \in {"cancel", "decide"}
  PROVE  FreshJobs'
  <1>1. max_registration' = max_registration /\ job[w].cap = max_registration
    BY DEF SetState, event, FreshJobs, Fresh
  <1>2. CASE FreedSeat(job[w], new)
    BY <1>1, <1>2, TameJobs, TameFresh DEF SetState
  <1>3. CASE ~FreedSeat(job[w], new)
    BY <1>3, TameJobs, TameFresh DEF SetState
  <1> QED
    BY <1>2, <1>3

LEMMA StepFresh ==
  ASSUME TypeOK, Alone, FreshJobs, NEW w \in Workers, Step(w)
  PROVE  FreshJobs'
  <1> USE DEF rows, event
  <1>0. job[w] \in Jobs /\ JobOK(job[w]) /\ Fresh(job[w])
    BY DEF TypeOK, FreshJobs
  <1>1. CASE RsvpChoose(w)
    <2> DEFINE goal == DefaultState(job[w].cap)
    <2>1. job'[w] = [job[w] EXCEPT !.step = "insert", !.goal = goal, !.older = Registered]
      BY <1>1, Moves DEF RsvpChoose
    <2>2. job[w].cap = max_registration
      BY <1>0, <1>1 DEF RsvpChoose, Fresh
    <2>3. /\ goal \in SeatHolding \cup {"Waitlisted"}
          /\ goal \in SeatHolding => RegistrationAllowed(max_registration)
      BY <2>2 DEF DefaultState, SeatHolding
    <2>4. RegistrationAllowed(max_registration)' <=> RegistrationAllowed(max_registration)
      BY <1>1 DEF RsvpChoose, RegistrationAllowed, active_registration_count, Seated
    <2>7. Registered' = Registered
      BY <1>1 DEF RsvpChoose, Registered
    <2>5. /\ job'[w].step = "insert" /\ job'[w].goal = goal /\ job'[w].older = Registered
          /\ job'[w].live = job[w].live /\ job'[w].rest = job[w].rest
          /\ job'[w].promoted = {}
      BY <1>0, <1>1, <2>1 DEF Jobs, RsvpChoose, Fresh, Looping
    <2> HIDE DEF goal
    <2>6. Fresh(job[w])'
      BY <1>0, <2>3, <2>4, <2>5, <2>7 DEF Fresh, Looping
    <2> QED
      BY <1>1, <2>6, Moves DEF FreshJobs, RsvpChoose
  <1>2. CASE RsvpInsert(w) \/ RsvpDuplicate(w) \/ CheckIn(w) \/ RowGone(w) \/ EditSave(w)
    BY <1>2, TameJobs, TameFresh DEF RsvpInsert, RsvpDuplicate, CheckIn, RowGone, EditSave, Finish
  <1>3. CASE CancelLate(w) \/ Decide(w)
    BY <1>3, SetStateFresh DEF CancelLate, Decide
  <1>4. CASE CancelInTime(w)
    <2>1. job[w].cap = max_registration /\ max_registration' = max_registration
      BY <1>0, <1>4 DEF CancelInTime, Fresh
    <2>2. job' = [x \in Workers |-> AfterDelete(w)]
      BY <1>4 DEF CancelInTime, JobsWithoutRow, Alone
    <2>3. Continue(w, AfterDelete(w))
      BY <2>2 DEF Continue, TypeOK, Alone
    <2> QED
      BY <2>1, <2>3, TameJobs, TameFresh DEF AfterDelete
  <1>5. CASE CancelAgain(w)
    BY <1>0, <1>5 DEF CancelAgain, Fresh
  <1>6. CASE DecideNothing(w) \/ PromoteMail(w)
    BY <1>6, TameJobs, TameFresh DEF DecideNothing, PromoteMail
  <1>7. CASE BatchNext(w)
    <2>1. PICK r \in job[w].rest :
             Continue(w, [job[w] EXCEPT !.step = "decide", !.user = r.user, !.seen = r.seen,
                                        !.live = r.live, !.cap = max_registration,
                                        !.rest = job[w].rest \ {r}])
      BY <1>7 DEF BatchNext
    <2>2. job'[w] = [job[w] EXCEPT !.step = "decide", !.user = r.user, !.seen = r.seen,
                                   !.live = r.live, !.cap = max_registration,
                                   !.rest = job[w].rest \ {r}]
      BY <2>1, Moves
    <2>3. /\ job'[w].step = "decide" /\ job'[w].live = r.live
          /\ job'[w].cap = max_registration /\ job'[w].rest = job[w].rest \ {r}
          /\ job'[w].promoted = {}
      BY <1>0, <1>7, <2>2 DEF Jobs, BatchNext, Fresh, Looping
    <2>4. max_registration' = max_registration /\ \A q \in job[w].rest : q.live
      BY <1>0, <1>7 DEF BatchNext, Fresh
    <2>5. Fresh(job[w])'
      BY <2>3, <2>4 DEF Fresh, Looping
    <2> QED
      BY <2>1, <2>5, Moves DEF FreshJobs
  <1>8. CASE PromoteCount(w)
    <2>1. job[w].cap = max_registration /\ max_registration' = max_registration
      BY <1>0, <1>8 DEF PromoteCount, Fresh, Looping
    <2>2. CASE RegistrationAllowed(job[w].cap)
      <3>1. job'[w] = [job[w] EXCEPT !.step = "pick"]
        BY <1>8, <2>2, Moves DEF PromoteCount
      <3>2. RegistrationAllowed(max_registration)'
        BY <1>8, <2>1, <2>2
        DEF PromoteCount, RegistrationAllowed, active_registration_count, Seated
      <3>3. /\ job'[w].step = "pick" /\ job'[w].live = job[w].live
            /\ job'[w].cap = job[w].cap /\ job'[w].rest = job[w].rest
        BY <1>0, <3>1 DEF Jobs
      <3>4. Fresh(job[w])'
        BY <1>0, <2>1, <3>2, <3>3 DEF Fresh, Looping
      <3> QED
        BY <1>8, <2>2, <3>4, Moves DEF FreshJobs, PromoteCount
    <2>3. CASE ~RegistrationAllowed(job[w].cap)
      BY <1>8, <2>3, TameJobs, TameFresh DEF PromoteCount
    <2> QED
      BY <2>2, <2>3
  <1>9. CASE PromotePick(w)
    <2>1. PICK u \in Users :
             /\ FirstInLine(u)
             /\ Continue(w, [job[w] EXCEPT !.step = "confirm", !.user = u, !.seen = "Waitlisted"])
      BY <1>9 DEF PromotePick
    <2>2. job'[w] = [job[w] EXCEPT !.step = "confirm", !.user = u, !.seen = "Waitlisted"]
      BY <2>1, Moves
    <2>3. /\ job'[w].step = "confirm" /\ job'[w].user = u /\ job'[w].live = job[w].live
          /\ job'[w].cap = job[w].cap /\ job'[w].rest = job[w].rest
      BY <1>0, <2>2 DEF Jobs
    <2>4. job[w].cap = max_registration /\ RegistrationAllowed(max_registration)
      BY <1>0, <1>9 DEF PromotePick, Fresh, Looping
    <2>5. /\ max_registration' = max_registration
          /\ RegistrationAllowed(max_registration)'
          /\ FirstInLine(job[w].user)'
      BY <1>9, <2>1, <2>3, <2>4
      DEF PromotePick, RegistrationAllowed, active_registration_count, Seated, FirstInLine,
          Waiting
    <2>6. Fresh(job[w])'
      BY <1>0, <2>3, <2>4, <2>5 DEF Fresh, Looping
    <2> QED
      BY <2>1, <2>6, Moves DEF FreshJobs
  <1>10. CASE PromoteNobody(w)
    BY <1>10, TameJobs, TameFresh DEF PromoteNobody
  <1>11. CASE PromoteConfirm(w)
    <2> DEFINE p == Promoting(job[w], job[w].cap)
               j == [p EXCEPT !.promoted = job[w].promoted \cup {job[w].user}]
    <2>1. job[w].cap \in Caps /\ job[w].cap = max_registration
          /\ max_registration' = max_registration
      BY <1>0, <1>11 DEF PromoteConfirm, JobOK, Fresh, Looping
    <2>2. p \in Jobs /\ p.step = "count" /\ p.cap = job[w].cap /\ Tame(w, p)
      BY <1>0, <2>1, PromotingType, TameJobs DEF JobOK
    <2>3. Tame(w, j) /\ j.cap = max_registration
      BY <2>1, <2>2 DEF Tame, Jobs
    <2>4. Continue(w, j)
      BY <1>11 DEF PromoteConfirm
    <2> HIDE DEF j
    <2> QED
      BY <2>1, <2>3, <2>4, TameFresh
  <1> QED
    BY <1>1, <1>2, <1>3, <1>4, <1>5, <1>6, <1>7, <1>8, <1>9, <1>10, <1>11 DEF Step

(* The sweep only frees seats, and leaves the queue as it is.              *)
LEMMA SweepFresh ==
  ASSUME TypeOK, FreshJobs, Sweep \/ ClockMoves \/ UNCHANGED vars
  PROVE  FreshJobs'
  <1> USE DEF rows, event, vars
  <1>1. job' = job /\ max_registration' = max_registration /\ ahead' = ahead
    BY DEF Sweep, SweepSelect, SweepUpdate, SweepMark, SweepCrash, ClockMoves
  <1>2. Seated' \subseteq Seated /\ Waiting' = Waiting /\ Registered' = Registered
    <2>1. CASE SweepUpdate
      BY <2>1 DEF SweepUpdate, NoShows, Seated, Waiting, Registered, SeatHolding, NoRow
    <2>2. CASE SweepSelect \/ SweepMark \/ SweepCrash \/ ClockMoves \/ UNCHANGED vars
      BY <2>2 DEF SweepSelect, SweepMark, SweepCrash, ClockMoves, Seated, Waiting, Registered
    <2> QED
      BY <2>1, <2>2 DEF Sweep
  <1>3. RegistrationAllowed(max_registration) => RegistrationAllowed(max_registration)'
    <2>1. max_registration \in Nat
      BY CapsAssumption DEF TypeOK
    <2> QED
      BY <1>1, <1>2, <2>1, Counts DEF RegistrationAllowed
  <1>4. \A w \in Workers : FirstInLine(job[w].user) => FirstInLine(job[w].user)'
    BY <1>1, <1>2 DEF FirstInLine
  <1> QED
    BY <1>1, <1>2, <1>3, <1>4 DEF FreshJobs, Fresh

(* With one process, a request never acts on something that has changed    *)
(* since it read it.                                                       *)
THEOREM FreshJobsInvariant ==
  ASSUME Alone
  PROVE  Spec => []FreshJobs
  <1>1. Init => FreshJobs
    BY DEF Init, FreshJobs, Fresh, IdleJob, Looping
  <1>2. TypeOK /\ FreshJobs /\ [Next]_vars => FreshJobs'
    BY RequestFresh, StepFresh, SweepFresh DEF Next
  <1> QED
    BY <1>1, <1>2, TypeCorrect, PTL DEF Spec
-----------------------------------------------------------------------------
(* Nobody waits for a free seat.                                           *)

(* HandedOn survives every step that frees no seat, queues nobody and      *)
(* raises no cap.                                                          *)
LEMMA HandedOnFrame ==
  ASSUME TypeOK, TypeOK', HandedOn, Waiting' \subseteq Waiting, Seated \subseteq Seated',
         max_registration' = max_registration
  PROVE  HandedOn'
  <1>1. max_registration \in Nat
    BY CapsAssumption DEF TypeOK
  <1> QED
    BY <1>1, Counts DEF HandedOn, RegistrationAllowed

(* A job about which Served says nothing but HandedOn.                     *)
LEMMA ServedFrame ==
  ASSUME TypeOK, Alone, NEW w \in Workers, NEW j, Continue(w, j),
         j.step \notin {"insert", "cancel"},
         j.step \notin Looping /\ ~gap' => HandedOn'
  PROVE  ServedJobs'
  BY Moves DEF ServedJobs, Served

LEMMA RequestServed ==
  ASSUME TypeOK, Alone, ServedJobs, NEW w \in Workers, Request(w)
  PROVE  ServedJobs'
  <1> USE DEF rows, event, history
  <1>1. /\ state' = state /\ gap' = gap
        /\ HandedOn' <=> HandedOn
    BY DEF Request, RsvpStart, CancelStart, DecideStart, BatchStart, CheckInStart, EditStart,
           HandedOn, Waiting, RegistrationAllowed, active_registration_count, Seated
  <1>2. job[w].step = "idle"
    BY DEF Request, RsvpStart, CancelStart, DecideStart, BatchStart, CheckInStart, EditStart,
           Start
  <1>a. ~gap => HandedOn
    BY <1>2 DEF ServedJobs, Served, Looping
  <1>3. ~gap' => HandedOn'
    BY <1>1, <1>a
  <1>4. ASSUME NEW u, RsvpStart(w, u)
        PROVE  ServedJobs'
    <2>1. [IdleJob EXCEPT !.step = "choose", !.user = u, !.cap = max_registration].step
            = "choose"
      BY DEF IdleJob
    <2> QED
      BY <1>3, <1>4, <2>1, ServedFrame DEF RsvpStart, Start
  <1>5. ASSUME NEW u \in Users, CancelStart(w, u)
        PROVE  ServedJobs'
    <2>1. job'[w] = Fetched(u, "cancel", NoRow) /\ \A x \in Workers : x = w
      BY <1>5, Moves DEF CancelStart, Start
    <2>2. job'[w].step = "cancel" /\ job'[w].user = u /\ job'[w].seen = state[u]
      BY <2>1 DEF Fetched, IdleJob
    <2> QED
      BY <1>1, <1>3, <2>1, <2>2 DEF ServedJobs, Served
  <1>6. ASSUME NEW u, NEW kind, NEW step \in {"decide", "check_in"}, NEW goal,
               Start(w, kind, Fetched(u, step, goal))
        PROVE  ServedJobs'
    <2>1. Fetched(u, step, goal).step = step
      BY DEF Fetched, IdleJob
    <2> QED
      BY <1>3, <1>6, <2>1, ServedFrame DEF Start
  <1>7. ASSUME NEW S, NEW goal, BatchStart(w, S, goal)
        PROVE  ServedJobs'
    <2> DEFINE loaded == {[user |-> u, seen |-> state[u], live |-> TRUE] : u \in S}
    <2>1. [IdleJob EXCEPT !.step = "next", !.goal = goal, !.rest = loaded].step = "next"
      BY DEF IdleJob
    <2> QED
      BY <1>3, <1>7, <2>1, ServedFrame DEF BatchStart, Start
  <1>8. CASE EditStart(w)
    <2>1. [IdleJob EXCEPT !.step = "edit", !.cap = max_registration,
                          !.processed = auto_absent_processed].step = "edit"
      BY DEF IdleJob
    <2> QED
      BY <1>3, <1>8, <2>1, ServedFrame DEF EditStart, Start
  <1> QED
    BY <1>4, <1>5, <1>6, <1>7, <1>8 DEF Request, DecideStart, CheckInStart

(* set_state: a seat that is given up starts the loop; otherwise seats     *)
(* only grow and the queue only shrinks, unless a lead passes over a row.  *)
LEMMA SetStateServed ==
  ASSUME TypeOK, TypeOK', Alone, ServedJobs, NEW w \in Workers, NEW new, SetState(w, new),
         job[w].step \in {"cancel", "decide"}, job[w].user \in Users, new # NoRow,
         ~gap' => ~gap,
         ~gap' /\ ~FreedSeat(job[w], new) /\ new \notin SeatHolding
           => new # "Waitlisted" /\ state[job[w].user] \notin SeatHolding
  PROVE  ServedJobs'
  <1> USE DEF event
  <1>1. CASE FreedSeat(job[w], new)
    <2>1. PICK c : Continue(w, Promoting(job[w], c))
      BY <1>1 DEF SetState
    <2> QED
      BY <2>1, TameJobs, ServedFrame DEF Looping
  <1>2. CASE ~FreedSeat(job[w], new)
    <2>1. Continue(w, Resume(job[w]))
      BY <1>2 DEF SetState
    <2>2. ASSUME ~gap'
          PROVE  HandedOn'
      <3>1. HandedOn
        BY <2>2 DEF ServedJobs, Served, Looping
      <3>2. state' = [state EXCEPT ![job[w].user] = new] /\ max_registration' = max_registration
        BY DEF SetState
      <3>3. Waiting' \subseteq Waiting
        BY <1>2, <2>2, <3>2 DEF Waiting, TypeOK, SeatHolding
      <3>4. Seated \subseteq Seated'
        BY <1>2, <2>2, <3>2 DEF Seated, TypeOK
      <3> QED
        BY <3>1, <3>2, <3>3, <3>4, HandedOnFrame
    <2> QED
      BY <2>1, <2>2, TameJobs, ServedFrame
  <1> QED
    BY <1>1, <1>2

LEMMA StepServed ==
  ASSUME TypeOK, TypeOK', Alone, FreshJobs, ServedJobs, NEW w \in Workers, Step(w)
  PROVE  ServedJobs'
  <1> USE DEF rows, event, history
  <1>0. job[w] \in Jobs /\ JobOK(job[w]) /\ Fresh(job[w]) /\ Served(job[w])
    BY DEF TypeOK, FreshJobs, ServedJobs
  <1>a. max_registration \in Nat /\ max_registration' \in Nat
    BY CapsAssumption DEF TypeOK
  <1>b. ASSUME UNCHANGED <<state, max_registration>>
        PROVE  HandedOn' <=> HandedOn
    BY <1>b DEF HandedOn, Waiting, RegistrationAllowed, active_registration_count, Seated
  <1>1. CASE RsvpChoose(w)
    <2> DEFINE goal == DefaultState(job[w].cap)
    <2>1. /\ job'[w] = [job[w] EXCEPT !.step = "insert", !.goal = goal, !.older = Registered]
          /\ \A x \in Workers : x = w
      BY <1>1, Moves DEF RsvpChoose
    <2>2. job'[w].step = "insert" /\ job'[w].goal = goal
      BY <1>0, <2>1 DEF Jobs
    <2>3. goal = "Waitlisted" => ~RegistrationAllowed(max_registration)
      BY <1>0, <1>1 DEF RsvpChoose, Fresh, DefaultState
    <2>4. RegistrationAllowed(max_registration)' <=> RegistrationAllowed(max_registration)
      BY <1>1 DEF RsvpChoose, RegistrationAllowed, active_registration_count, Seated
    <2>5. ~gap' => HandedOn'
      BY <1>0, <1>1, <1>b DEF RsvpChoose, Served, Looping
    <2> HIDE DEF goal
    <2> QED
      BY <2>1, <2>2, <2>3, <2>4, <2>5 DEF ServedJobs, Served
  <1>2. CASE RsvpInsert(w)
    <2> DEFINE u == job[w].user
    <2>1. /\ u \in Users /\ job[w].goal \in SeatHolding \cup {"Waitlisted"}
          /\ max_registration' = max_registration
          /\ gap' = gap
          /\ state' = [state EXCEPT ![u] = job[w].goal]
          /\ state[u] = NoRow
      BY <1>0, <1>2 DEF RsvpInsert, JobOK, Fresh
    <2>2. Seated \subseteq Seated'
      BY <2>1 DEF Seated, TypeOK, SeatHolding, NoRow
    <2>3. CASE job[w].goal = "Waitlisted" /\ ~gap
      <3>1. ~RegistrationAllowed(max_registration)
        BY <1>0, <1>2, <2>3 DEF RsvpInsert, Served
      <3>2. HandedOn'
        BY <1>a, <2>1, <2>2, <3>1, Counts DEF HandedOn, RegistrationAllowed
      <3> QED
        BY <1>2, <3>2, TameJobs, ServedFrame DEF RsvpInsert, Finish
    <2>4. CASE job[w].goal # "Waitlisted" /\ ~gap
      <3>1. Waiting' \subseteq Waiting
        BY <2>1, <2>4 DEF Waiting, TypeOK, SeatHolding
      <3>2. HandedOn
        BY <1>0, <1>2, <2>4 DEF RsvpInsert, Served, Looping
      <3>3. HandedOn'
        BY <2>1, <2>2, <3>1, <3>2, HandedOnFrame
      <3> QED
        BY <1>2, <3>3, TameJobs, ServedFrame DEF RsvpInsert, Finish
    <2>5. CASE gap
      BY <1>2, <2>1, <2>5, TameJobs, ServedFrame DEF RsvpInsert, Finish
    <2> QED
      BY <2>3, <2>4, <2>5
  <1>3. CASE RsvpDuplicate(w) \/ DecideNothing(w) \/ PromoteMail(w)
    <2>1. ~gap' => HandedOn'
      BY <1>0, <1>3, <1>b DEF RsvpDuplicate, DecideNothing, PromoteMail, Served, Looping
    <2> QED
      BY <1>3, <2>1, TameJobs, ServedFrame DEF RsvpDuplicate, DecideNothing, PromoteMail, Finish
  <1>4. CASE CancelLate(w)
    <2>1. FreedSeat(job[w], "Absent") /\ job[w].user \in Users /\ "Absent" # NoRow
      BY <1>0, <1>4 DEF CancelLate, CancelIsLate, FreedSeat, SeatHolding, JobOK, NoRow
    <2> QED
      BY <1>4, <2>1, SetStateServed DEF CancelLate
  <1>5. CASE CancelInTime(w)
    <2>1. job' = [x \in Workers |-> AfterDelete(w)]
      BY <1>5 DEF CancelInTime, JobsWithoutRow, Alone
    <2>2. Continue(w, AfterDelete(w))
      BY <2>1 DEF Continue, TypeOK, Alone
    <2>3. CASE job[w].seen \in SeatHolding
      BY <2>2, <2>3, TameJobs, ServedFrame DEF AfterDelete, Looping
    <2>4. CASE job[w].seen \notin SeatHolding
      <3>1. state[job[w].user] \notin SeatHolding
        BY <1>0, <1>5, <2>4 DEF CancelInTime, Served
      <3>2. Seated \subseteq Seated' /\ Waiting' \subseteq Waiting
        BY <1>5, <3>1 DEF CancelInTime, Seated, Waiting, TypeOK, NoRow
      <3>3. ~gap' => HandedOn'
        BY <1>0, <1>5, <3>2, HandedOnFrame DEF CancelInTime, Served, Looping
      <3> QED
        BY <2>2, <2>4, <3>3, TameJobs, ServedFrame DEF AfterDelete
    <2> QED
      BY <2>3, <2>4
  <1>6. CASE CancelAgain(w) \/ RowGone(w)
    BY <1>0, <1>6 DEF CancelAgain, RowGone, Fresh
  <1>7. CASE Decide(w)
    <2>1. job[w].user \in Users /\ job[w].goal # NoRow
      BY <1>0, <1>7 DEF Decide, JobOK, RegistrationStates, NoRow
    <2>2. gap' <=> (gap \/ PassesOver(job[w]))
      BY <1>7 DEF Decide
    <2>3. ~PassesOver(job[w]) /\ ~FreedSeat(job[w], job[w].goal) /\ job[w].goal \notin SeatHolding
            => job[w].goal # "Waitlisted" /\ state[job[w].user] \notin SeatHolding
      BY DEF PassesOver, FreedSeat
    <2> QED
      BY <1>7, <2>1, <2>2, <2>3, SetStateServed DEF Decide
  <1>8. CASE BatchNext(w)
    <2>1. PICK r \in job[w].rest :
             Continue(w, [job[w] EXCEPT !.step = "decide", !.user = r.user, !.seen = r.seen,
                                        !.live = r.live, !.cap = max_registration,
                                        !.rest = job[w].rest \ {r}])
      BY <1>8 DEF BatchNext
    <2>2. [job[w] EXCEPT !.step = "decide", !.user = r.user, !.seen = r.seen,
                         !.live = r.live, !.cap = max_registration,
                         !.rest = job[w].rest \ {r}].step = "decide"
      BY <1>0 DEF Jobs
    <2>3. ~gap' => HandedOn'
      BY <1>0, <1>8, <1>b DEF BatchNext, Served, Looping
    <2> QED
      BY <2>1, <2>2, <2>3, ServedFrame
  <1>9. CASE CheckIn(w)
    <2>1. Seated \subseteq Seated' /\ Waiting' \subseteq Waiting
      BY <1>9 DEF CheckIn, Seated, Waiting, TypeOK, SeatHolding
    <2>2. ~gap' => HandedOn'
      BY <1>0, <1>9, <2>1, HandedOnFrame DEF CheckIn, Served, Looping
    <2> QED
      BY <1>9, <2>2, TameJobs, ServedFrame DEF CheckIn, Finish
  <1>10. CASE PromoteCount(w)
    <2>1. job[w].cap = max_registration
      BY <1>0, <1>10 DEF PromoteCount, Fresh, Looping
    <2>2. CASE RegistrationAllowed(job[w].cap)
      <3>1. [job[w] EXCEPT !.step = "pick"].step = "pick"
        BY <1>0 DEF Jobs
      <3> QED
        BY <1>10, <2>2, <3>1, ServedFrame DEF PromoteCount, Looping
    <2>3. CASE ~RegistrationAllowed(job[w].cap)
      <3>1. HandedOn'
        BY <1>10, <1>b, <2>1, <2>3 DEF PromoteCount, HandedOn
      <3> QED
        BY <1>10, <2>3, <3>1, TameJobs, ServedFrame DEF PromoteCount
    <2> QED
      BY <2>2, <2>3
  <1>11. CASE PromotePick(w)
    <2>1. PICK u \in Users :
             Continue(w, [job[w] EXCEPT !.step = "confirm", !.user = u, !.seen = "Waitlisted"])
      BY <1>11 DEF PromotePick
    <2>2. [job[w] EXCEPT !.step = "confirm", !.user = u, !.seen = "Waitlisted"].step = "confirm"
      BY <1>0 DEF Jobs
    <2> QED
      BY <2>1, <2>2, ServedFrame DEF Looping
  <1>12. CASE PromoteNobody(w)
    <2>1. HandedOn'
      BY <1>12, <1>b DEF PromoteNobody, HandedOn
    <2> QED
      BY <1>12, <2>1, TameJobs, ServedFrame DEF PromoteNobody
  <1>13. CASE PromoteConfirm(w)
    <2>1. Promoting(job[w], job[w].cap) \in Jobs
      BY <1>0, <1>13, PromotingType DEF PromoteConfirm, JobOK
    <2>2. [Promoting(job[w], job[w].cap)
             EXCEPT !.promoted = job[w].promoted \cup {job[w].user}].step = "count"
      BY <2>1, TameJobs DEF Jobs
    <2> QED
      BY <1>13, <2>2, ServedFrame DEF PromoteConfirm, Looping
  <1>14. CASE EditSave(w)
    <2>1. PICK c \in Caps : max_registration' = c /\ gap' = (gap \/ Raises(c))
      BY <1>14 DEF EditSave
    <2>2. Seated' = Seated /\ Waiting' = Waiting /\ c \in Nat
      BY <1>14, CapsAssumption DEF EditSave, Seated, Waiting
    <2>3. ASSUME ~gap'
          PROVE  HandedOn'
      <3>0. ~gap /\ ~Raises(c)
        BY <2>1, <2>3
      <3>1. HandedOn /\ c # 0 /\ (max_registration # 0 => c <= max_registration)
        BY <1>0, <1>14, <1>a, <2>2, <3>0 DEF EditSave, Served, Looping, Raises
      <3>2. active_registration_count' = active_registration_count
        BY <2>2 DEF active_registration_count
      <3> QED
        BY <1>a, <2>1, <2>2, <3>1, <3>2, Counts DEF HandedOn, RegistrationAllowed
    <2> QED
      BY <1>14, <2>3, TameJobs, ServedFrame DEF EditSave, Finish
  <1> QED
    BY <1>1, <1>2, <1>3, <1>4, <1>5, <1>6, <1>7, <1>8, <1>9, <1>10, <1>11, <1>12, <1>13,
       <1>14 DEF Step

(* The sweep takes seats away only together with raising gap.              *)
LEMMA SweepServed ==
  ASSUME TypeOK, ServedJobs, Sweep \/ ClockMoves \/ UNCHANGED vars
  PROVE  ServedJobs'
  <1> USE DEF rows, event, history, vars
  <1>1. CASE SweepUpdate /\ NoShows # {}
    <2>1. gap' /\ job' = job
      BY <1>1 DEF SweepUpdate
    <2>2. \A u \in Users : state[u] \notin SeatHolding => state'[u] \notin SeatHolding
      BY <1>1 DEF SweepUpdate, SeatHolding
    <2>3. \A w \in Workers : job[w].step = "cancel" => job[w].user \in Users
      BY DEF TypeOK, JobOK
    <2> QED
      BY <2>1, <2>2, <2>3 DEF ServedJobs, Served
  <1>2. CASE ~(SweepUpdate /\ NoShows # {})
    <2>1. state' = state
      <3>1. CASE SweepUpdate
        BY <1>2, <3>1 DEF SweepUpdate, TypeOK
      <3>2. CASE ~SweepUpdate
        BY <3>2 DEF Sweep, SweepSelect, SweepMark, SweepCrash, ClockMoves
      <3> QED
        BY <3>1, <3>2
    <2>2. job' = job /\ max_registration' = max_registration
      BY DEF Sweep, SweepSelect, SweepUpdate, SweepMark, SweepCrash, ClockMoves
    <2>3. ~gap' => ~gap
      <3>1. CASE SweepUpdate
        BY <3>1 DEF SweepUpdate
      <3>2. CASE ~SweepUpdate
        BY <3>2 DEF Sweep, SweepSelect, SweepMark, SweepCrash, ClockMoves
      <3> QED
        BY <3>1, <3>2
    <2> QED
      BY <2>1, <2>2, <2>3
      DEF ServedJobs, Served, HandedOn, Waiting, RegistrationAllowed,
          active_registration_count, Seated
  <1> QED
    BY <1>1, <1>2

(* With one process, nobody is left waiting while a seat is free, but for  *)
(* the seats that gap records.                                             *)
THEOREM NoSeatIsIdle ==
  ASSUME Alone
  PROVE  Spec => []NoIdleSeat
  <1>1. Init => ServedJobs
    <2> SUFFICES ASSUME Init, NEW w \in Workers
                 PROVE  Served(job[w])
      BY DEF ServedJobs
    <2>1. job[w].step = "idle"
      BY DEF Init, IdleJob
    <2>2. Waiting = {}
      BY DEF Init, Waiting, NoRow
    <2> QED
      BY <2>1, <2>2 DEF Served, HandedOn
  <1>2. TypeOK /\ TypeOK' /\ FreshJobs /\ ServedJobs /\ [Next]_vars => ServedJobs'
    BY RequestServed, StepServed, SweepServed DEF Next
  <1>3. ServedJobs => NoIdleSeat
    BY WorkersAssumption DEF ServedJobs, Served, NoIdleSeat, HandedOn, Looping
  <1> QED
    BY <1>1, <1>2, <1>3, TypeCorrect, FreshJobsInvariant, PTL DEF Spec

-----------------------------------------------------------------------------
(* Promoted members are mailed: the loop cannot end any other way.         *)

LEMMA StepKeepsPromoted ==
  ASSUME TypeOK, Alone, FreshJobs, NEW w \in Workers, Step(w), ~PromoteMail(w)
  PROVE  job[w].promoted \subseteq job'[w].promoted
  <1>0. job[w] \in Jobs /\ Fresh(job[w])
    BY DEF TypeOK, FreshJobs
  <1>1. CASE job[w].promoted = {}
    BY <1>1
  <1>2. CASE PromoteCount(w) \/ PromoteNobody(w)
    <2>1. AfterLoop(w).promoted = job[w].promoted \/ job[w].promoted = {}
      <3>1. BatchLeft(job[w]) \in Jobs
        BY BatchLeftType DEF TypeOK
      <3> QED
        BY <3>1 DEF AfterLoop, Jobs
    <2>2. [job[w] EXCEPT !.step = "pick"].promoted = job[w].promoted
      BY <1>0 DEF Jobs
    <2>3. job'[w] \in {AfterLoop(w), [job[w] EXCEPT !.step = "pick"]}
      BY <1>2, Moves DEF PromoteCount, PromoteNobody
    <2> QED
      BY <2>1, <2>2, <2>3
  <1>3. CASE PromotePick(w)
    <2>1. PICK u \in Users :
             Continue(w, [job[w] EXCEPT !.step = "confirm", !.user = u, !.seen = "Waitlisted"])
      BY <1>3 DEF PromotePick
    <2>2. job'[w] = [job[w] EXCEPT !.step = "confirm", !.user = u, !.seen = "Waitlisted"]
      BY <2>1, Moves
    <2> QED
      BY <1>0, <2>2 DEF Jobs
  <1>4. CASE PromoteConfirm(w)
    <2>1. BatchLeft(job[w]) \in Jobs
      BY BatchLeftType DEF TypeOK
    <2>2. job'[w] = [Promoting(job[w], job[w].cap)
                       EXCEPT !.promoted = job[w].promoted \cup {job[w].user}]
      BY <1>4, Moves DEF PromoteConfirm
    <2> QED
      BY <2>1, <2>2 DEF Promoting, Jobs
  <1>5. CASE RowGone(w)
    BY <1>0, <1>5 DEF RowGone, Fresh
  <1>6. CASE job[w].promoted # {}
    <2>1. job[w].step \in {"count", "pick", "confirm", "mail"}
      BY <1>0, <1>6 DEF Fresh, Looping
    <2> QED
      BY <1>2, <1>3, <1>4, <1>5, <2>1
      DEF Step, RsvpChoose, RsvpInsert, RsvpDuplicate, CancelLate, CancelInTime, CancelAgain,
          Decide, DecideNothing, CheckIn, BatchNext, EditSave
  <1> QED
    BY <1>1, <1>6

(* With one process, whoever the loop confirmed stays in its hands until   *)
(* the mails go out: no row can vanish under it and end the request.       *)
THEOREM PromotedMembersAreMailed ==
  ASSUME Alone
  PROVE  Spec => PromotedAreMailed
  <1>1. TypeOK /\ FreshJobs /\ [Next]_vars
        => [\A w \in Workers : job[w].promoted \subseteq job'[w].promoted \/ PromoteMail(w)]_vars
    <2> SUFFICES ASSUME TypeOK, FreshJobs, Next, NEW w \in Workers, ~PromoteMail(w)
                 PROVE  job[w].promoted \subseteq job'[w].promoted
      OBVIOUS
    <2>1. CASE \E x \in Workers : Request(x)
      <3>1. PICK x \in Workers : Request(x)
        BY <2>1
      <3>2. x = w /\ job[w].step = "idle"
        BY <3>1 DEF Alone, Request, RsvpStart, CancelStart, DecideStart, BatchStart,
                    CheckInStart, EditStart, Start
      <3> QED
        BY <3>2 DEF FreshJobs, Fresh, Looping
    <2>2. CASE \E x \in Workers : Step(x)
      BY <2>2, StepKeepsPromoted DEF Alone
    <2>3. CASE Sweep \/ ClockMoves
      BY <2>3 DEF Sweep, SweepSelect, SweepUpdate, SweepMark, SweepCrash, ClockMoves
    <2> QED
      BY <2>1, <2>2, <2>3 DEF Next
  <1> QED
    BY <1>1, TypeCorrect, FreshJobsInvariant, PTL DEF Spec, PromotedAreMailed
-----------------------------------------------------------------------------
(* The queue.  A position cannot get worse because a row that is counted   *)
(* as earlier exists: with one process whoever registers later is behind   *)
(* all rows there are, and whoever leaves is struck from every list.       *)

AheadExist == \A u \in Users : ahead[u] \subseteq Registered

(* The rows that exist stay, and every list stays or is cut.               *)
LEMMA AheadFrame ==
  ASSUME AheadExist, Registered \subseteq Registered',
         \A u \in Users : ahead'[u] \subseteq ahead[u]
  PROVE  AheadExist'
  BY DEF AheadExist

(* With one process nothing was inserted since the new row was chosen, so  *)
(* it comes after all rows.                                                *)
LEMMA LastInLine ==
  ASSUME TypeOK, FreshJobs, NEW w \in Workers, RsvpInsert(w)
  PROVE  ahead' = [ahead EXCEPT ![job[w].user] = Registered]
  <1>1. job[w].older = Registered
    BY DEF FreshJobs, Fresh, RsvpInsert
  <1>2. ahead' = PlacedAfter(job[w].user, Registered)
    BY <1>1 DEF RsvpInsert, CreatedAfter
  <1>3. job[w].user \in Users
    BY DEF RsvpInsert, TypeOK, JobOK
  <1> QED
    BY <1>2, <1>3 DEF PlacedAfter, TypeOK

LEMMA StepAhead ==
  ASSUME TypeOK, LiveRows, FreshJobs, AheadExist, NEW w \in Workers, Step(w)
  PROVE  AheadExist'
  <1> USE DEF rows, event, history
  <1>0. JobOK(job[w]) /\ RowExists(job[w])
    BY DEF TypeOK, LiveRows
  <1>1. CASE RsvpInsert(w)
    <2>1. job[w].user \in Users /\ job[w].goal # NoRow
      BY <1>0, <1>1 DEF RsvpInsert, JobOK, RegistrationStates, NoRow
    <2>2. Registered \subseteq Registered'
      BY <1>1, <2>1 DEF RsvpInsert, Registered, TypeOK
    <2>3. ahead' = [ahead EXCEPT ![job[w].user] = Registered]
      BY <1>1, LastInLine
    <2> QED
      BY <2>1, <2>2, <2>3 DEF AheadExist, TypeOK
  <1>2. CASE CancelInTime(w)
    <2> DEFINE u == job[w].user
    <2>1. Registered \ {u} \subseteq Registered'
      BY <1>2 DEF CancelInTime, Registered, TypeOK
    <2>2. \A v \in Users : ahead'[v] \subseteq ahead[v] \ {u}
      BY <1>2 DEF CancelInTime
    <2> QED
      BY <2>1, <2>2 DEF AheadExist
  <1>3. CASE CancelLate(w) \/ Decide(w) \/ CheckIn(w) \/ PromoteConfirm(w)
    <2>1. ahead' = ahead
      BY <1>3 DEF CancelLate, Decide, SetState, CheckIn, PromoteConfirm
    <2>2. job[w].user \in Users
      BY <1>0, <1>3 DEF CancelLate, Decide, CheckIn, PromoteConfirm, JobOK
    <2>3. \E s \in RegistrationStates : state' = [state EXCEPT ![job[w].user] = s]
      <3>1. "Absent" \in RegistrationStates /\ "Confirmed" \in RegistrationStates
        BY DEF RegistrationStates
      <3> QED
        BY <1>0, <1>3, <3>1 DEF CancelLate, Decide, SetState, CheckIn, PromoteConfirm, JobOK
    <2>4. Registered \subseteq Registered'
      BY <2>2, <2>3 DEF Registered, TypeOK, RegistrationStates, NoRow
    <2> QED
      BY <2>1, <2>4, AheadFrame
  <1>4. CASE RsvpChoose(w) \/ RsvpDuplicate(w) \/ CancelAgain(w) \/ DecideNothing(w)
             \/ BatchNext(w) \/ PromoteCount(w) \/ PromotePick(w) \/ PromoteNobody(w)
             \/ PromoteMail(w) \/ RowGone(w) \/ EditSave(w)
    BY <1>4
    DEF RsvpChoose, RsvpDuplicate, CancelAgain, DecideNothing, BatchNext, PromoteCount,
        PromotePick, PromoteNobody, PromoteMail, RowGone, EditSave, AheadExist, Registered
  <1> QED
    BY <1>1, <1>2, <1>3, <1>4 DEF Step

THEOREM AheadInvariant ==
  ASSUME Alone
  PROVE  Spec => []AheadExist
  <1>1. Init => AheadExist
    BY DEF Init, AheadExist
  <1>2. TypeOK /\ LiveRows /\ FreshJobs /\ AheadExist /\ [Next]_vars => AheadExist'
    <2> SUFFICES ASSUME TypeOK, LiveRows, FreshJobs, AheadExist, [Next]_vars
                 PROVE  AheadExist'
      OBVIOUS
    <2>1. CASE \E w \in Workers : Request(w)
      BY <2>1 DEF Request, RsvpStart, CancelStart, DecideStart, BatchStart, CheckInStart,
                  EditStart, rows, AheadExist, Registered
    <2>2. CASE \E w \in Workers : Step(w)
      BY <2>2, StepAhead
    <2>3. CASE SweepUpdate
      BY <2>3, AheadFrame DEF SweepUpdate, Registered, NoRow
    <2>4. CASE SweepSelect \/ SweepMark \/ SweepCrash \/ ClockMoves \/ UNCHANGED vars
      BY <2>4 DEF SweepSelect, SweepMark, SweepCrash, ClockMoves, vars, rows, AheadExist,
                  Registered
    <2> QED
      BY <2>1, <2>2, <2>3, <2>4 DEF Next, Sweep
  <1> QED
    BY <1>1, <1>2, TypeCorrect, LiveRowsInvariant, FreshJobsInvariant, PTL DEF Spec

(* No step but a lead's decision puts anybody in front of a member who     *)
(* goes on waiting.                                                        *)
LEMMA NobodyPushesIn ==
  ASSUME TypeOK, FreshJobs, AheadExist, Next, \A w \in Workers : ~Decide(w),
         NEW u \in Waiting \cap Waiting'
  PROVE  Waiting' \cap ahead'[u] \subseteq Waiting \cap ahead[u]
  <1> USE DEF rows
  <1>0. u \in Users /\ state[u] # NoRow
    BY DEF Waiting, NoRow
  <1>1. CASE \E w \in Workers : Request(w)
    BY <1>1 DEF Request, RsvpStart, CancelStart, DecideStart, BatchStart, CheckInStart,
                EditStart, Waiting
  <1>2. CASE \E w \in Workers : Step(w)
    <2>1. PICK w \in Workers : Step(w)
      BY <1>2
    <2>2. CASE RsvpInsert(w)
      <3> DEFINE v == job[w].user
      <3>1. state[v] = NoRow /\ ahead' = [ahead EXCEPT ![v] = Registered]
            /\ state' = [state EXCEPT ![v] = job[w].goal]
        BY <2>2, LastInLine DEF RsvpInsert
      <3>2. ahead'[u] = ahead[u] /\ v \notin ahead[u]
        BY <1>0, <3>1 DEF AheadExist, Registered, TypeOK
      <3>3. Waiting' \subseteq Waiting \cup {v}
        BY <3>1 DEF Waiting, TypeOK
      <3> QED
        BY <3>2, <3>3
    <2>3. CASE CancelInTime(w)
      <3>1. Waiting' \subseteq Waiting
        BY <2>3 DEF CancelInTime, Waiting, TypeOK, NoRow
      <3>2. ahead'[u] \subseteq ahead[u]
        BY <1>0, <2>3 DEF CancelInTime
      <3> QED
        BY <3>1, <3>2
    <2>4. CASE CancelLate(w) \/ CheckIn(w) \/ PromoteConfirm(w)
      <3>1. Waiting' \subseteq Waiting
        BY <2>4 DEF CancelLate, SetState, CheckIn, PromoteConfirm, Waiting, TypeOK
      <3>2. ahead' = ahead
        BY <2>4 DEF CancelLate, SetState, CheckIn, PromoteConfirm
      <3> QED
        BY <3>1, <3>2
    <2>5. CASE RsvpChoose(w) \/ RsvpDuplicate(w) \/ CancelAgain(w) \/ DecideNothing(w)
               \/ BatchNext(w) \/ PromoteCount(w) \/ PromotePick(w) \/ PromoteNobody(w)
               \/ PromoteMail(w) \/ RowGone(w) \/ EditSave(w)
      BY <2>5
      DEF RsvpChoose, RsvpDuplicate, CancelAgain, DecideNothing, BatchNext, PromoteCount,
          PromotePick, PromoteNobody, PromoteMail, RowGone, EditSave, Waiting
    <2> QED
      BY <2>1, <2>2, <2>3, <2>4, <2>5 DEF Step
  <1>3. CASE SweepUpdate
    BY <1>3 DEF SweepUpdate, Waiting
  <1>4. CASE SweepSelect \/ SweepMark \/ SweepCrash \/ ClockMoves
    BY <1>4 DEF SweepSelect, SweepMark, SweepCrash, ClockMoves, Waiting
  <1> QED
    BY <1>1, <1>2, <1>3, <1>4 DEF Next, Sweep

(* With one process the position a waiting member is shown only gets       *)
(* better, unless a lead decides otherwise.                                *)
THEOREM PositionsImprove ==
  ASSUME Alone
  PROVE  Spec => PositionOnlyImproves
  <1>1. TypeOK /\ FreshJobs /\ AheadExist /\ [Next]_vars
        => [(\A w \in Workers : ~Decide(w))
              => \A u \in Waiting \cap Waiting' : WaitlistPosition(u)' <= WaitlistPosition(u)]_vars
    <2> SUFFICES ASSUME TypeOK, FreshJobs, AheadExist, Next, \A w \in Workers : ~Decide(w),
                        NEW u \in Waiting \cap Waiting'
                 PROVE  WaitlistPosition(u)' <= WaitlistPosition(u)
      OBVIOUS
    <2>1. Waiting' \cap ahead'[u] \subseteq Waiting \cap ahead[u]
      BY NobodyPushesIn
    <2>2. IsFiniteSet(Waiting \cap ahead[u])
      <3>1. Waiting \cap ahead[u] \subseteq Users
        BY DEF Waiting
      <3> QED
        BY <3>1, UsersAssumption, FS_Subset
    <2>3. /\ Cardinality(Waiting' \cap ahead'[u]) <= Cardinality(Waiting \cap ahead[u])
          /\ Cardinality(Waiting \cap ahead[u]) \in Nat
          /\ Cardinality(Waiting' \cap ahead'[u]) \in Nat
      BY <2>1, <2>2, FS_Subset, FS_CardinalityType
    <2> QED
      BY <2>3 DEF WaitlistPosition
  <1> QED
    BY <1>1, TypeCorrect, FreshJobsInvariant, AheadInvariant, PTL DEF Spec, PositionOnlyImproves
-----------------------------------------------------------------------------
(***************************************************************************)
(* With one web process, Registration implements SeatAllocation: each      *)
(* statement of the code is one allocation step or changes nothing that    *)
(* SeatAllocation sees.                                                    *)
(***************************************************************************)

Place == [u \in Users |-> Standing(state[u])]

-----------------------------------------------------------------------------
(* The refinement mapping.                                                 *)

LEMMA Standings ==
  /\ Standing(NoRow) = "none"
  /\ Standing("Waitlisted") = "queue"
  /\ \A s \in SeatHolding : Standing(s) = "seat"
  /\ \A s \in RegistrationStates \ (SeatHolding \cup {"Waitlisted"}) : Standing(s) = "out"
  BY DEF Standing, NoRow, SeatHolding, RegistrationStates

LEMMA StandingOf ==
  ASSUME NEW s \in RegistrationStates \cup {NoRow}
  PROVE  /\ Standing(s) = "none" <=> s = NoRow
         /\ Standing(s) = "queue" <=> s = "Waitlisted"
         /\ Standing(s) = "seat" <=> s \in SeatHolding
         /\ Standing(s) \in {"none", "seat", "queue", "out"}
  BY DEF Standing, NoRow, SeatHolding, RegistrationStates

(* The sets SeatAllocation speaks of are those of the rows.                *)
LEMMA MappedSets ==
  ASSUME TypeOK
  PROVE  /\ Allocation!Members = Registered
         /\ Allocation!Queue = Waiting
         /\ Allocation!Seats = Seated
         /\ Allocation!SeatFree <=> RegistrationAllowed(max_registration)
  <1>1. /\ Allocation!Members = Registered
        /\ Allocation!Queue = Waiting
        /\ Allocation!Seats = Seated
    BY StandingOf DEF Allocation!Members, Allocation!Queue, Allocation!Seats, Registered,
                      Waiting, Seated, TypeOK
  <1>2. max_registration \in Nat
    BY CapsAssumption DEF TypeOK
  <1>3. Allocation!SeatFree <=> max_registration = 0
                                 \/ active_registration_count < max_registration
    BY <1>1 DEF Allocation!SeatFree, Allocation!Cardinality, Cardinality,
                active_registration_count
  <1> QED
    BY <1>1, <1>2, <1>3, Counts DEF RegistrationAllowed

(* Writing one row moves one member.                                       *)
LEMMA PlaceWrite ==
  ASSUME TypeOK, NEW u \in Users, NEW s, state' = [state EXCEPT ![u] = s]
  PROVE  Place' = [Place EXCEPT ![u] = Standing(s)]
  BY DEF Place, TypeOK

(* Nothing that SeatAllocation sees changes.                               *)
LEMMA Stutter ==
  ASSUME UNCHANGED <<state, ahead, max_registration, granted>>
  PROVE  UNCHANGED Allocation!vars
  BY DEF Allocation!vars

-----------------------------------------------------------------------------
(* The steps.                                                              *)

LEMMA SetStatePlaces ==
  ASSUME TypeOK, LiveRows, NEW w \in Workers, NEW new \in RegistrationStates,
         job[w].step \in {"cancel", "decide"}, job[w].user \in Users, SetState(w, new),
         granted' = IF new \in SeatHolding THEN granted \cup {job[w].user}
                    ELSE granted \ {job[w].user}
  PROVE  Allocation!Next
  <1> DEFINE u == job[w].user
             p == Standing(new)
  <1>1. state[u] # NoRow
    BY DEF SetState, LiveRows, RowExists, RowSteps
  <1>2. Place' = [Place EXCEPT ![u] = p] /\ Place[u] # "none"
    BY <1>1, PlaceWrite, StandingOf DEF SetState, TypeOK, Place
  <1>3. p \in {"seat", "queue", "out"} /\ (p = "seat" <=> new \in SeatHolding)
    BY StandingOf DEF RegistrationStates, NoRow
  <1>4. Allocation!PlaceByHand(u, p)
    BY <1>2, <1>3 DEF Allocation!PlaceByHand, SetState, event, Place
  <1> QED
    BY <1>3, <1>4 DEF Allocation!Next, Allocation!Places

LEMMA StepAllocates ==
  ASSUME TypeOK, Alone, FreshJobs, LiveRows, NEW w \in Workers, Step(w)
  PROVE  Allocation!Next \/ UNCHANGED Allocation!vars
  <1> USE DEF rows, event, history
  <1>0. job[w] \in Jobs /\ JobOK(job[w]) /\ Fresh(job[w]) /\ RowExists(job[w])
    BY DEF TypeOK, FreshJobs, LiveRows
  <1>1. CASE RsvpInsert(w)
    <2> DEFINE u == job[w].user
               p == Standing(job[w].goal)
    <2>1. u \in Users /\ job[w].goal \in SeatHolding \cup {"Waitlisted"}
      BY <1>0, <1>1 DEF RsvpInsert, JobOK, Fresh
    <2>2. p \in {"seat", "queue"} /\ (p = "seat" <=> job[w].goal \in SeatHolding)
      BY <2>1, Standings DEF SeatHolding
    <2>3. p = "seat" => Allocation!SeatFree
      BY <1>0, <1>1, <2>2, MappedSets DEF RsvpInsert, Fresh
    <2>4. Place[u] = "none" /\ Place' = [Place EXCEPT ![u] = p]
      BY <1>1, <2>1, PlaceWrite, Standings DEF RsvpInsert, Place
    <2>5. ahead' = [ahead EXCEPT ![u] = Allocation!Members]
      BY <1>1, MappedSets, LastInLine
    <2>6. UNCHANGED <<max_registration, granted>>
      BY <1>1 DEF RsvpInsert
    <2>7. Allocation!Join(u)
      BY <2>2, <2>3, <2>4, <2>5, <2>6 DEF Allocation!Join, Place
    <2> QED
      BY <2>1, <2>7 DEF Allocation!Next
  <1>2. CASE CancelLate(w)
    <2>1. job[w].user \in Users /\ "Absent" \in RegistrationStates \ SeatHolding
      BY <1>0, <1>2 DEF CancelLate, JobOK, RegistrationStates, SeatHolding
    <2> QED
      BY <1>2, <2>1, SetStatePlaces DEF CancelLate
  <1>3. CASE CancelInTime(w)
    <2> DEFINE u == job[w].user
    <2>1. u \in Users /\ state[u] # NoRow
      BY <1>0, <1>3 DEF CancelInTime, JobOK, RowExists, RowSteps
    <2>2. Place[u] # "none" /\ Place' = [Place EXCEPT ![u] = "none"]
      BY <1>3, <2>1, PlaceWrite, Standings, StandingOf DEF CancelInTime, Place, TypeOK
    <2>3. Allocation!Leave(u)
      BY <1>3, <2>2 DEF CancelInTime, Allocation!Leave, Place
    <2> QED
      BY <2>1, <2>3 DEF Allocation!Next
  <1>4. CASE Decide(w)
    <2>1. job[w].user \in Users /\ job[w].goal \in RegistrationStates
      BY <1>0, <1>4 DEF Decide, JobOK
    <2> QED
      BY <1>4, <2>1, SetStatePlaces DEF Decide
  <1>5. CASE CheckIn(w)
    <2> DEFINE u == job[w].user
    <2>1. u \in Users /\ state[u] # NoRow
      BY <1>0, <1>5 DEF CheckIn, JobOK, RowExists, RowSteps
    <2>2. Standing("Confirmed") = "seat"
      BY Standings DEF SeatHolding
    <2>3. Place[u] # "none" /\ Place' = [Place EXCEPT ![u] = "seat"]
      BY <1>5, <2>1, <2>2, PlaceWrite, StandingOf DEF CheckIn, Place, TypeOK
    <2>4. Allocation!PlaceByHand(u, "seat")
      BY <1>5, <2>3 DEF CheckIn, Allocation!PlaceByHand, Place
    <2> QED
      BY <2>1, <2>4 DEF Allocation!Next, Allocation!Places
  <1>6. CASE PromoteConfirm(w)
    <2> DEFINE u == job[w].user
    <2>1. u \in Users /\ FirstInLine(u) /\ RegistrationAllowed(max_registration)
      BY <1>0, <1>6 DEF PromoteConfirm, JobOK, Fresh
    <2>2. state[u] = "Waitlisted" /\ Waiting \cap ahead[u] = {}
      BY <2>1 DEF FirstInLine, Waiting
    <2>3. Standing("Confirmed") = "seat"
      BY Standings DEF SeatHolding
    <2>4. Place[u] = "queue"
      BY <2>1, <2>2, Standings DEF Place
    <2>5. state' = [state EXCEPT ![u] = "Confirmed"]
      BY <1>6 DEF PromoteConfirm
    <2>6. Place' = [Place EXCEPT ![u] = "seat"]
      BY <2>1, <2>3, <2>5, PlaceWrite
    <2>7. Allocation!HandOn(u)
      BY <1>6, <2>1, <2>2, <2>4, <2>6, MappedSets DEF PromoteConfirm, Allocation!HandOn, Place
    <2> QED
      BY <2>1, <2>7 DEF Allocation!Next
  <1>7. CASE EditSave(w)
    <2>1. PICK c \in Caps : max_registration' = c
      BY <1>7 DEF EditSave
    <2>2. Allocation!SetCap(c)
      BY <1>7, <2>1 DEF EditSave, Allocation!SetCap
    <2> QED
      BY <2>2 DEF Allocation!Next
  <1>8. CASE RsvpChoose(w) \/ RsvpDuplicate(w) \/ CancelAgain(w) \/ DecideNothing(w)
             \/ BatchNext(w) \/ PromoteCount(w) \/ PromotePick(w) \/ PromoteNobody(w)
             \/ PromoteMail(w) \/ RowGone(w)
    BY <1>8, Stutter
    DEF RsvpChoose, RsvpDuplicate, CancelAgain, DecideNothing, BatchNext, PromoteCount,
        PromotePick, PromoteNobody, PromoteMail, RowGone
  <1> QED
    BY <1>1, <1>2, <1>3, <1>4, <1>5, <1>6, <1>7, <1>8 DEF Step

LEMMA SweepAllocates ==
  ASSUME TypeOK, SweepUpdate
  PROVE  Allocation!Next \/ UNCHANGED Allocation!vars
  <1> DEFINE S == NoShows
  <1>1. S \subseteq Users /\ S \subseteq Seated
    BY DEF NoShows, Seated, SeatHolding
  <1>2. Place' = [u \in Users |-> IF u \in S THEN "out" ELSE Place[u]]
    <2>1. Standing("Absent") = "out"
      BY Standings DEF RegistrationStates, SeatHolding
    <2> QED
      BY <2>1 DEF SweepUpdate, Place
  <1>3. CASE S = {}
    <2>1. state' = state
      BY <1>3 DEF SweepUpdate, TypeOK
    <2> QED
      BY <1>3, <2>1, Stutter DEF SweepUpdate, event
  <1>4. CASE S # {}
    <2>1. Allocation!Release(S)
      BY <1>1, <1>2, <1>4, MappedSets DEF Allocation!Release, SweepUpdate, event, Place
    <2> QED
      BY <1>1, <2>1 DEF Allocation!Next
  <1> QED
    BY <1>3, <1>4

(* With one process every behaviour of the code is one of SeatAllocation:  *)
(* newcomers are seated only while a seat is free, the queue is served in  *)
(* order, and nobody else is seated but by a lead or at the door.          *)
THEOREM OneProcessImplementsAllocation ==
  ASSUME Alone
  PROVE  Spec => ImplementsAllocation
  <1>1. Init => Allocation!Init
    BY Standings DEF Init, Allocation!Init
  <1>2. TypeOK /\ FreshJobs /\ LiveRows /\ [Next]_vars
          => [Allocation!Next]_(Allocation!vars)
    <2> SUFFICES ASSUME TypeOK, FreshJobs, LiveRows, [Next]_vars
                 PROVE  Allocation!Next \/ UNCHANGED Allocation!vars
      BY DEF Allocation!vars
    <2>1. CASE \E w \in Workers : Request(w)
      BY <2>1, Stutter DEF Request, RsvpStart, CancelStart, DecideStart, BatchStart,
                           CheckInStart, EditStart, rows, event, history
    <2>2. CASE \E w \in Workers : Step(w)
      BY <2>2, StepAllocates
    <2>3. CASE SweepUpdate
      BY <2>3, SweepAllocates
    <2>4. CASE SweepSelect \/ SweepMark \/ SweepCrash \/ ClockMoves \/ UNCHANGED vars
      BY <2>4, Stutter DEF SweepSelect, SweepMark, SweepCrash, ClockMoves, vars, rows, event,
                           history
    <2> QED
      BY <2>1, <2>2, <2>3, <2>4 DEF Next, Sweep
  <1> QED
    BY <1>1, <1>2, TypeCorrect, FreshJobsInvariant, LiveRowsInvariant, PTL
    DEF Spec, ImplementsAllocation, Allocation!Spec
=============================================================================

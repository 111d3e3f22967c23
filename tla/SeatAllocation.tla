--------------------------- MODULE SeatAllocation ---------------------------
(***************************************************************************)
(* What the RSVP code of an event promises its members, with every         *)
(* allocation of a seat a single step:                                     *)
(*                                                                         *)
(*   - a newcomer is given a seat only while one is free, and otherwise    *)
(*     joins the end of the queue;                                         *)
(*   - a seat that is handed on goes to the member who has queued longest, *)
(*     and only while a seat is free;                                      *)
(*   - leads may place anybody anywhere, and those seats are on record as  *)
(*     given by hand ("granted").                                          *)
(*                                                                         *)
(* Registration.tla, the module that follows the code statement by         *)
(* statement, implements this one when a single process serves requests.   *)
(***************************************************************************)
EXTENDS Naturals, FiniteSets

CONSTANTS
    Users,      \* the members who may register for the event
    Caps        \* the seat caps a lead may set; 0 means unlimited

VARIABLES
    place,      \* where each member stands: no registration, seat, queue, out
    ahead,      \* for each registration, the registrations made before it
    cap,        \* the current seat cap
    granted     \* members whose seat was given by hand

vars == <<place, ahead, cap, granted>>

Places == {"none", "seat", "queue", "out"}

Members == {u \in Users : place[u] # "none"}
Queue == {u \in Users : place[u] = "queue"}
Seats == {u \in Users : place[u] = "seat"}

SeatFree == cap = 0 \/ Cardinality(Seats) < cap

Init ==
    /\ place = [u \in Users |-> "none"]
    /\ ahead = [u \in Users |-> {}]
    /\ cap \in Caps
    /\ granted = {}

(* A new registration: seated only while a seat is free, and behind all    *)
(* earlier registrations.                                                  *)
Join(u) ==
    /\ place[u] = "none"
    /\ \E p \in {"seat", "queue"} :
        /\ p = "seat" => SeatFree
        /\ place' = [place EXCEPT ![u] = p]
    /\ ahead' = [ahead EXCEPT ![u] = Members]
    /\ UNCHANGED <<cap, granted>>

(* The registration is withdrawn.                                          *)
Leave(u) ==
    /\ place[u] # "none"
    /\ place' = [place EXCEPT ![u] = "none"]
    /\ ahead' = [v \in Users |-> IF v = u THEN {} ELSE ahead[v] \ {u}]
    /\ granted' = granted \ {u}
    /\ UNCHANGED cap

(* Members give up, or are declared to have missed, their seats.           *)
Release(S) ==
    /\ S # {}
    /\ S \subseteq Seats
    /\ place' = [u \in Users |-> IF u \in S THEN "out" ELSE place[u]]
    /\ granted' = granted \ S
    /\ UNCHANGED <<ahead, cap>>

(* The seat on offer goes to the head of the queue.                        *)
HandOn(u) ==
    /\ place[u] = "queue"
    /\ SeatFree
    /\ Queue \cap ahead[u] = {}
    /\ place' = [place EXCEPT ![u] = "seat"]
    /\ UNCHANGED <<ahead, cap, granted>>

(* A lead, or the check-in desk, decides where a member stands.            *)
PlaceByHand(u, p) ==
    /\ place[u] # "none"
    /\ place' = [place EXCEPT ![u] = p]
    /\ granted' = IF p = "seat" THEN granted \cup {u} ELSE granted \ {u}
    /\ UNCHANGED <<ahead, cap>>

SetCap(c) ==
    /\ cap' = c
    /\ UNCHANGED <<place, ahead, granted>>

Next ==
    \/ \E u \in Users : Join(u)
    \/ \E u \in Users : Leave(u)
    \/ \E S \in SUBSET Users : Release(S)
    \/ \E u \in Users : HandOn(u)
    \/ \E u \in Users, p \in Places \ {"none"} : PlaceByHand(u, p)
    \/ \E c \in Caps : SetCap(c)

Spec == Init /\ [][Next]_vars
=============================================================================

------------------------ MODULE MCEventNotifications ------------------------
EXTENDS EventNotifications, TLC

(* A form that readies an event which starts at s, and one that holds it.  *)
Ready(s) == [ready_for_notifications |-> TRUE, ready_for_reminders |-> TRUE, start |-> s]
Held(s) == [ready_for_notifications |-> FALSE, ready_for_reminders |-> FALSE, start |-> s]

(* An event that starts soon, so that a sweep walks it through several     *)
(* states at once.                                                         *)
SoonForms == {Ready(1), Held(1)}

(* An event whose reminders are not due yet, and its postponement.         *)
LaterForms == {Ready(3), Ready(4)}

(* An event in reach of the first reminder, and not of the final one, so   *)
(* that two sweeps meet in the first two states.                           *)
OverlapForms == {Ready(2)}

(* The workers are interchangeable.                                        *)
Symmetry == Permutations(Workers)

=============================================================================

----------------------------- MODULE MCProgramme -----------------------------
EXTENDS Programme, TLC

(* All sessions are for one event.                                         *)
OneEvent == [s \in Sessions |-> CHOOSE e \in Events : TRUE]

Form(start, end, shown) == [start |-> start, end |-> end, on_homepage |-> shown, on_archive |-> shown]

(* Events in the days to come, one that nobody is to see, and one whose    *)
(* dates are the wrong way round, which no form refuses.                   *)
SomeForms == {Form(1, 2, TRUE), Form(2, 3, TRUE), Form(1, 3, FALSE), Form(2, 1, TRUE)}

Symmetry == Permutations(Leads) \cup Permutations(Venues)

=============================================================================

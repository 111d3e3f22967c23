---------------------------- MODULE SpeakerSlots ----------------------------
(***************************************************************************)
(* Who speaks in a session (apps/leads, apps/events): a lead gives it to a *)
(* member and credits co-speakers in two statements; the member confirms   *)
(* the slot in a request of his own.  Texts, times and the archive of the  *)
(* session are in Programme.                                               *)
(***************************************************************************)
EXTENDS Naturals

CONSTANTS
    Speakers,       \* the members a slot can be given to
    Editors,        \* the web processes that serve the leads
    MaxEdits        \* bound: the requests of the leads

ASSUME SlotConstants == MaxEdits \in Nat

VARIABLES
    slot,           \* the EventSession row
    credited,       \* its co_speakers
    edit,           \* what each lead's request does, with the copy it loaded
    answer,         \* the row that each member's confirmation has loaded
    edits,          \* the requests of the leads so far
    given,          \* history: what the last form saved named
    yes,            \* history: the members who confirmed
    handed,         \* history: given to another after an answer or during one
    mixed           \* history: an edit saved what others had changed, or died

slotVars == <<slot, credited, edit, answer, edits, given, yes, handed, mixed>>

-----------------------------------------------------------------------------

NoSlot == [there |-> FALSE]
SlotRows == [there: {TRUE}, user: Speakers, confirmed: BOOLEAN]

(* copy: the row to be saved, of the form as submitted.                    *)
NoEdit == [step |-> "idle"]
EditForms == [step: {"save", "credit"}, copy: SlotRows, co: SUBSET Speakers]

SlotInit ==
    /\ slot = NoSlot
    /\ credited = {}
    /\ edit = [p \in Editors |-> NoEdit]
    /\ answer = [u \in Speakers |-> NoSlot]
    /\ edits = 0
    /\ given = NoEdit
    /\ yes = {}
    /\ handed = FALSE /\ mixed = FALSE

Submits(p) == edit[p] = NoEdit /\ edits < MaxEdits /\ edits' = edits + 1

(* session_new inserts the row; its co-speakers are the next statement.    *)
slot_new(p) ==
    /\ ~slot.there /\ Submits(p)
    /\ \E u \in Speakers, co \in SUBSET Speakers :
          LET form == [step |-> "credit", copy |-> [there |-> TRUE, user |-> u, confirmed |-> FALSE], co |-> co]
          IN  /\ slot' = form.copy
              /\ edit' = [edit EXCEPT ![p] = form]
              /\ given' = form
    /\ UNCHANGED <<credited, answer, yes, handed, mixed>>

(* session_edit: the row is loaded, and the form names its speakers.       *)
slot_edit(p) ==
    /\ slot.there /\ Submits(p)
    /\ \E u \in Speakers, co \in SUBSET Speakers :
          edit' = [edit EXCEPT ![p] = [step |-> "save", copy |-> [slot EXCEPT !.user = u], co |-> co]]
    /\ UNCHANGED <<slot, credited, answer, given, yes, handed, mixed>>

(* LeadEventSessionForm.save, first statement: every column of the copy.   *)
SaveSlot(p) ==
    /\ edit[p].step = "save"
    /\ slot' = edit[p].copy
    /\ edit' = [edit EXCEPT ![p].step = "credit"]
    /\ given' = edit[p]
    /\ handed' = (handed \/ /\ slot.user # edit[p].copy.user
                            /\ slot.confirmed \/ \E u \in Speakers : answer[u].there)
    /\ mixed' = (mixed \/ slot.confirmed # edit[p].copy.confirmed
                           \/ \E q \in Editors : edit[q].step = "credit")
    /\ UNCHANGED <<credited, answer, edits, yes>>

(* The second: co_speakers.set.                                            *)
SetCredits(p) ==
    /\ edit[p].step = "credit"
    /\ credited' = edit[p].co
    /\ edit' = [edit EXCEPT ![p] = NoEdit]
    /\ UNCHANGED <<slot, answer, edits, given, yes, handed, mixed>>

(* The request ends between the two.                                       *)
EditDies(p) ==
    /\ edit[p].step = "credit"
    /\ edit' = [edit EXCEPT ![p] = NoEdit]
    /\ mixed' = TRUE
    /\ UNCHANGED <<slot, credited, answer, edits, given, yes, handed>>

(* session_confirm, by the member whose slot it is when the row is loaded. *)
session_confirm(u) ==
    /\ slot.there /\ slot.user = u
    /\ ~answer[u].there
    /\ answer' = [answer EXCEPT ![u] = slot]
    /\ UNCHANGED <<slot, credited, edit, edits, given, yes, handed, mixed>>

(* Mutant: confirm_speaker saves every column of the row it loaded.        *)
ConfirmWholeRow(u) ==
    /\ answer[u].there
    /\ slot' = IF answer[u].confirmed THEN slot ELSE [answer[u] EXCEPT !.confirmed = TRUE]
    /\ yes' = yes \cup {u}
    /\ answer' = [answer EXCEPT ![u] = NoSlot]
    /\ UNCHANGED <<credited, edit, edits, given, handed, mixed>>

(* confirm_speaker: one column is saved, unless the copy was confirmed.    *)
confirm_speaker(u) ==
    /\ answer[u].there
    /\ slot' = [slot EXCEPT !.confirmed = @ \/ ~answer[u].confirmed]
    /\ yes' = yes \cup {u}
    /\ answer' = [answer EXCEPT ![u] = NoSlot]
    /\ UNCHANGED <<credited, edit, edits, given, handed, mixed>>

SlotNext ==
    \/ \E p \in Editors : slot_new(p) \/ slot_edit(p) \/ SaveSlot(p) \/ SetCredits(p) \/ EditDies(p)
    \/ \E u \in Speakers : session_confirm(u) \/ confirm_speaker(u)

SlotSpec == SlotInit /\ [][SlotNext]_slotVars

-----------------------------------------------------------------------------

SlotTypeOK ==
    /\ slot \in {NoSlot} \cup SlotRows
    /\ credited \subseteq Speakers
    /\ edit \in [Editors -> {NoEdit} \cup EditForms]
    /\ answer \in [Speakers -> {NoSlot} \cup SlotRows]
    /\ edits \in 0..MaxEdits
    /\ given \in {NoEdit} \cup EditForms
    /\ yes \subseteq Speakers
    /\ handed \in BOOLEAN /\ mixed \in BOOLEAN

(* "Speaker's explicit 'yes, I'll be there'; unconfirmed slots are flagged *)
(* to leads": an answer never undoes what a lead saved meanwhile; as long  *)
(* as no lead saved a copy older than an answer, nor handed the slot on    *)
(* after one, it reads confirmed just when its own speaker confirmed it;   *)
(* and once the edits are through, the co-speakers are those of the form   *)
(* that named the speaker.                                                 *)
SlotsAreTrue ==
    slot.there =>
        /\ slot.user = given.copy.user
        /\ ~mixed /\ ~handed => (slot.confirmed <=> slot.user \in yes)
        /\ ~mixed /\ (\A p \in Editors : edit[p].step # "credit") => credited = given.co

=============================================================================

------------------------------ MODULE Proposals ------------------------------
(***************************************************************************)
(* A session proposal (apps/proposals, apps/leads/views.py): a member      *)
(* writes and edits it, the leads of its chapter review it and move it     *)
(* through the pipeline, each move mailed to the proposer.  Every request  *)
(* works on the copy of the row that it loaded.                            *)
(***************************************************************************)
EXTENDS Naturals

CONSTANTS
    Desks,          \* the web processes that serve the leads
    Chapters,
    Reviewers,      \* the leads
    LeadsOf,        \* the active leads of each chapter
    MaxMoves        \* bound: the requests of leads and proposer

ASSUME ProposalConstants == LeadsOf \in [Chapters -> SUBSET Reviewers] /\ MaxMoves \in Nat

VARIABLES
    proposal,       \* the SessionProposal row
    reviews,        \* the reviewers with a ProposalReview of it
    noticed,        \* the leads that were mailed about it
    told,           \* the status in the last mail that the proposer got
    draft,          \* the row that the proposer's edit loaded and is to save
    desk,           \* what each lead's request does
    moves,          \* the requests so far
    crossed,        \* history: a request saved, or mailed, what another one had overtaken
    lost            \* history: a mail was lost, or the proposal went to another chapter

proposalVars == <<proposal, reviews, noticed, told, draft, desk, moves, crossed, lost>>

-----------------------------------------------------------------------------

Decisions == {"accepted", "rejected", "waitlisted", "scheduled"}
Statuses == {"submitted", "under_review"} \cup Decisions

NoProposal == [there |-> FALSE]
ProposalRows == [there: {TRUE}, chapter: Chapters, status: Statuses]

(* seen: the status in the copy.  want: the one to be set.                 *)
Away == [step |-> "idle", by |-> "nobody", seen |-> "submitted", want |-> "submitted", chosen |-> FALSE]

ProposalInit ==
    /\ proposal = NoProposal
    /\ reviews = {} /\ noticed = {}
    /\ told = "submitted"
    /\ draft = NoProposal
    /\ desk = [d \in Desks |-> Away]
    /\ moves = 0
    /\ crossed = FALSE /\ lost = FALSE

Moves == moves < MaxMoves /\ moves' = moves + 1

(* proposal_new, and the signal of its first save: one mail to the leads   *)
(* of the chapter, if there are any; when it raises the row is there.      *)
proposal_new ==
    /\ ~proposal.there
    /\ \E c \in Chapters, sent \in BOOLEAN :
          /\ proposal' = [there |-> TRUE, chapter |-> c, status |-> "submitted"]
          /\ noticed' = IF sent THEN LeadsOf[c] ELSE {}
          /\ lost' = ~sent
    /\ UNCHANGED <<reviews, told, draft, desk, moves, crossed>>

(* proposal_edit by the owner: the form has the chapter, the copy the rest. *)
proposal_edit ==
    /\ Moves
    /\ proposal.there /\ ~draft.there
    /\ \E c \in Chapters : draft' = [proposal EXCEPT !.chapter = c]
    /\ UNCHANGED <<proposal, reviews, noticed, told, desk, crossed, lost>>

SaveEdit ==
    /\ draft.there
    /\ proposal' = draft
    /\ draft' = NoProposal
    /\ crossed' = (crossed \/ draft.status # proposal.status)
    /\ lost' = (lost \/ draft.chapter # proposal.chapter)
    /\ UNCHANGED <<reviews, noticed, told, desk, moves>>

-----------------------------------------------------------------------------
(* proposal_review                                                         *)

Sits(d, l, step, want) ==
    /\ Moves
    /\ proposal.there /\ desk[d] = Away
    /\ l \in LeadsOf[proposal.chapter]
    /\ desk' = [desk EXCEPT ![d] = [step |-> step, by |-> l, seen |-> proposal.status, want |-> want,
                                    chosen |-> step = "set"]]
    /\ UNCHANGED <<proposal, reviews, noticed, told, draft, crossed, lost>>

(* Mutant: set_status does not look the status up in STATUS_CHOICES.       *)
OpenStatusUnchecked(d, l) ==
    \E want \in Statuses \cup {"unknown"} : Sits(d, l, "set", want) /\ want # proposal.status

(* action=review: a score to be saved; action=status: set_status next,     *)
(* that raises for an unknown status and returns when the copy has it      *)
(* already.                                                                *)
OpenReview(d, l) == Sits(d, l, "review", "under_review")
OpenStatus(d, l) == \E want \in Statuses : Sits(d, l, "set", want) /\ want # proposal.status

(* Mutant: every review sets the proposal to be under review.              *)
ReviewAlways(d) ==
    /\ desk[d].step = "review"
    /\ reviews' = reviews \cup {desk[d].by}
    /\ desk' = [desk EXCEPT ![d].step = "set"]
    /\ UNCHANGED <<proposal, noticed, told, draft, moves, crossed, lost>>

(* update_or_create, one review per reviewer; a copy that is Submitted     *)
(* goes on to set_status.                                                  *)
Review(d) ==
    /\ desk[d].step = "review"
    /\ reviews' = reviews \cup {desk[d].by}
    /\ desk' = [desk EXCEPT ![d] = IF desk[d].seen = "submitted" THEN [@ EXCEPT !.step = "set"] ELSE Away]
    /\ UNCHANGED <<proposal, noticed, told, draft, moves, crossed, lost>>

(* The status was set since the copy was loaded, or its mail is still to   *)
(* come.                                                                   *)
Overtaken(d) == desk[d].seen # proposal.status \/ \E e \in Desks : desk[e].step = "mail"

(* Mutant: the mail names the status that the copy had.                    *)
SetStatusMailingTheOld(d) ==
    /\ desk[d].step = "set"
    /\ proposal' = [proposal EXCEPT !.status = desk[d].want]
    /\ crossed' = (crossed \/ Overtaken(d))
    /\ desk' = [desk EXCEPT ![d].step = "mail", ![d].want = desk[d].seen]
    /\ UNCHANGED <<reviews, noticed, told, draft, moves, lost>>

(* set_status: save(update_fields=["status"]), then the mail.              *)
SetStatus(d) ==
    /\ desk[d].step = "set"
    /\ proposal' = [proposal EXCEPT !.status = desk[d].want]
    /\ crossed' = (crossed \/ Overtaken(d))
    /\ desk' = [desk EXCEPT ![d].step = "mail"]
    /\ UNCHANGED <<reviews, noticed, told, draft, moves, lost>>

(* fail_silently                                                           *)
MailProposer(d) ==
    /\ desk[d].step = "mail"
    /\ \/ told' = desk[d].want /\ UNCHANGED lost
       \/ lost' = TRUE /\ UNCHANGED told
    /\ desk' = [desk EXCEPT ![d] = Away]
    /\ UNCHANGED <<proposal, reviews, noticed, draft, moves, crossed>>

ProposalNext ==
    \/ proposal_new \/ proposal_edit \/ SaveEdit
    \/ \E d \in Desks, l \in Reviewers : OpenReview(d, l) \/ OpenStatus(d, l)
    \/ \E d \in Desks : Review(d) \/ SetStatus(d) \/ MailProposer(d)

ProposalSpec == ProposalInit /\ [][ProposalNext]_proposalVars

-----------------------------------------------------------------------------

ProposalTypeOK ==
    /\ proposal \in {NoProposal} \cup ProposalRows /\ draft \in {NoProposal} \cup ProposalRows
    /\ reviews \subseteq Reviewers /\ noticed \subseteq Reviewers
    /\ told \in Statuses
    /\ desk \in [Desks -> [step: {"idle", "review", "set", "mail"}, by: {"nobody"} \cup Reviewers,
                           seen: Statuses, want: Statuses, chosen: BOOLEAN]]
    /\ moves \in 0..MaxMoves /\ crossed \in BOOLEAN /\ lost \in BOOLEAN

(* "Every transition emails the proposer": unless requests crossed or a    *)
(* mail was lost, the proposer's last mail has the status of the proposal, *)
(* whatever the leads and the proposer did, and the leads of its chapter   *)
(* were told of it.                                                        *)
ProposerIsTold ==
    proposal.there /\ ~crossed /\ ~lost =>
        /\ LeadsOf[proposal.chapter] \subseteq noticed
        /\ (\A d \in Desks : desk[d].step # "mail") => told = proposal.status

(* A decision is changed by a lead who chooses another status; a review or *)
(* an edit takes it back only from a copy that was loaded before it.       *)
DecisionsStand ==
    [][proposal.there /\ proposal.status \in Decisions /\ proposal'.status # proposal.status =>
         \/ \E d \in Desks : /\ desk[d].step = "set" /\ desk[d].want = proposal'.status
                             /\ desk[d].chosen \/ desk[d].seen \notin Decisions
         \/ draft.there /\ draft.status = proposal'.status]_proposalVars

=============================================================================

----------------------------- MODULE MCCommunity -----------------------------
(***************************************************************************)
(* What leads, members and admins do on the sites besides registering,     *)
(* checked side by side: the eight parts share no state, so each behaviour *)
(* is one of one part, chosen at the start, and the others rest in one     *)
(* initial state.                                                          *)
(***************************************************************************)
EXTENDS MCProgramme, Membership, Reactions, Proposals, TwoFactor, ChapterSite, Seeding, SpeakerSlots

VARIABLE part

(* The leads of one chapter, and none of the others.                       *)
OneLed == [c \in Chapters |-> IF c = CHOOSE d \in Chapters : TRUE THEN Reviewers ELSE {}]

(* All chapters' names have one slug.                                      *)
OneSlug == [c \in Sites |-> CHOOSE label \in Labels : label # "www"]

(* An event, its talk and a registration for it.                           *)
OneOfEachKind == <<"event", "talk", "rsvp">>

parts == <<programmeVars, memberVars, reactionVars, proposalVars, twoFactorVars, siteVars, seedingVars, slotVars>>

CommunityInit ==
    /\ part \in {"programme", "membership", "reactions", "proposals", "twofactor", "sites", "seeding", "slots"}
    /\ ProgrammeInit /\ MemberInit /\ ReactionInit /\ ProposalInit /\ TwoFactorInit /\ SiteInit /\ SeedingInit
    /\ SlotInit
    /\ part # "twofactor" => ~enrolled /\ rights = {}
    /\ part # "membership" => ~auth_profile
    /\ part # "sites" => folds

CommunityNext ==
    /\ UNCHANGED part
    /\ \/ /\ part = "programme" /\ ProgrammeNext
          /\ UNCHANGED <<memberVars, reactionVars, proposalVars, twoFactorVars, siteVars, seedingVars, slotVars>>
       \/ /\ part = "membership" /\ MemberNext
          /\ UNCHANGED <<programmeVars, reactionVars, proposalVars, twoFactorVars, siteVars, seedingVars, slotVars>>
       \/ /\ part = "reactions" /\ ReactionNext
          /\ UNCHANGED <<programmeVars, memberVars, proposalVars, twoFactorVars, siteVars, seedingVars, slotVars>>
       \/ /\ part = "proposals" /\ ProposalNext
          /\ UNCHANGED <<programmeVars, memberVars, reactionVars, twoFactorVars, siteVars, seedingVars, slotVars>>
       \/ /\ part = "twofactor" /\ TwoFactorNext
          /\ UNCHANGED <<programmeVars, memberVars, reactionVars, proposalVars, siteVars, seedingVars, slotVars>>
       \/ /\ part = "sites" /\ SiteNext
          /\ UNCHANGED <<programmeVars, memberVars, reactionVars, proposalVars, twoFactorVars, seedingVars, slotVars>>
       \/ /\ part = "seeding" /\ SeedingNext
          /\ UNCHANGED <<programmeVars, memberVars, reactionVars, proposalVars, twoFactorVars, siteVars, slotVars>>
       \/ /\ part = "slots" /\ SlotNext
          /\ UNCHANGED <<programmeVars, memberVars, reactionVars, proposalVars, twoFactorVars, siteVars, seedingVars>>

CommunitySpec == CommunityInit /\ [][CommunityNext]_<<part, parts>>

(* The types of the eight parts' variables.                                *)
CommunityTypeOK ==
    ProgrammeTypeOK /\ MemberTypeOK /\ ReactionTypeOK /\ ProposalTypeOK /\ TwoFactorTypeOK /\ SiteTypeOK
    /\ SeedingTypeOK /\ SlotTypeOK

=============================================================================

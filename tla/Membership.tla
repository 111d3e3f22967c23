------------------------------ MODULE Membership ------------------------------
(***************************************************************************)
(* One member's account (apps/accounts): the profile, the password, the    *)
(* notification preferences, the API tokens (apps/api) and the deletion    *)
(* that leaves an anonymous shell.  request.user is loaded at the start of *)
(* a request and saved whole; the steps after a save are separate          *)
(* statements, with no transaction around.                                 *)
(***************************************************************************)
EXTENDS Naturals

CONSTANTS
    Requests,       \* the web processes
    MaxEndings,     \* bound: the changes of the password and the deletions
    MaxTokens       \* bound: the tokens ever issued

ASSUME MembershipConstants == MaxEndings \in Nat /\ MaxTokens \in Nat

VARIABLES
    member,         \* the User row
    address,        \* whether allauth has an EmailAddress row of the member
    number,         \* whether the NotificationPreference row has a whatsapp_number
    auth_profile,   \* whether there is a UserAuthProfile row of the member, which only admins enter
    tokens,         \* the UserApiToken rows
    issued,         \* the tokens issued so far
    request,        \* what each web process does
    endings         \* history: the changes of the password and the deletions so far

contacts == <<address, number, auth_profile>>
memberVars == <<member, contacts, tokens, issued, request, endings>>

-----------------------------------------------------------------------------

(* Passwords are numbered as they are chosen; 0 is the unusable one.       *)
Passwords == 0..(MaxEndings + 1)
Members == [password: Passwords, profile: {"filled", "blank"}, is_active: BOOLEAN]

(* for: the password it was issued for.  since: history, the endings when  *)
(* it became active.                                                       *)
Tokens == [id: 1..MaxTokens, for: Passwords, since: 0..MaxEndings, active: BOOLEAN, expired: BOOLEAN]

(* The anonymous shell that a deletion leaves.                             *)
Shell == [password |-> 0, profile |-> "blank", is_active |-> FALSE]

NoRequest == [step |-> "idle", copy |-> Shell, token |-> 0]

MemberInit ==
    /\ member = [password |-> 1, profile |-> "blank", is_active |-> TRUE]
    /\ address = TRUE
    /\ number = FALSE /\ auth_profile \in BOOLEAN
    /\ tokens = {}
    /\ issued = 0
    /\ request = [r \in Requests |-> NoRequest]
    /\ endings = 0

(* ApiTokenAuthentication.authenticate: the tokens it takes.               *)
Accepted == {t \in tokens : t.active /\ ~t.expired}

At(r, step) == request[r].step = step
Goes(r, step) == request' = [request EXCEPT ![r].step = step]
Ends(r) == request' = [request EXCEPT ![r] = NoRequest]

(* A logged-in request, of a member who is active: profile_edit,           *)
(* notification_preferences, allauth's change of the password, or          *)
(* delete_account with the right password.                                 *)
Begin(r, step) ==
    /\ At(r, "idle") /\ member.is_active
    /\ step = "delete" => member.password # 0
    /\ request' = [request EXCEPT ![r] = [step |-> step, copy |-> member, token |-> 0]]
    /\ UNCHANGED <<member, contacts, tokens, issued, endings>>

SaveProfile(r) ==
    /\ At(r, "profile")
    /\ member' = [request[r].copy EXCEPT !.profile = "filled"]
    /\ Ends(r)
    /\ UNCHANGED <<contacts, tokens, issued, endings>>

(* prefs.save(): with a number or without one.                             *)
SavePreferences(r) ==
    /\ At(r, "preferences")
    /\ number' \in BOOLEAN
    /\ Ends(r)
    /\ UNCHANGED <<member, address, auth_profile, tokens, issued, endings>>

(* A change of the password, or a deletion.                                *)
Ending == endings < MaxEndings /\ endings' = endings + 1
NewPassword == endings + 2

(* Mutant: the receiver of password_changed is not connected.              *)
SavePasswordAlone(r) ==
    /\ At(r, "password") /\ Ending
    /\ member' = [request[r].copy EXCEPT !.password = NewPassword]
    /\ Ends(r)
    /\ UNCHANGED <<contacts, tokens, issued>>

(* The change or the reset of the password: user.save(), then the signal.  *)
SavePassword(r) ==
    /\ At(r, "password") /\ Ending
    /\ member' = [request[r].copy EXCEPT !.password = NewPassword]
    /\ Goes(r, "invalidate")
    /\ UNCHANGED <<contacts, tokens, issued>>

invalidate_api_tokens(r) ==
    /\ At(r, "invalidate")
    /\ tokens' = {[t EXCEPT !.active = FALSE] : t \in tokens}
    /\ Ends(r)
    /\ UNCHANGED <<member, contacts, issued, endings>>

-----------------------------------------------------------------------------
(* anonymize_and_deactivate: one save, and two deletes.                    *)

Anonymize(r) ==
    /\ At(r, "delete") /\ Ending
    /\ member' = Shell
    /\ Goes(r, "delete tokens")
    /\ UNCHANGED <<contacts, tokens, issued>>

DeleteTokens(r) ==
    /\ At(r, "delete tokens")
    /\ tokens' = {}
    /\ Goes(r, "delete address")
    /\ UNCHANGED <<member, contacts, issued, endings>>

DeleteAddress(r) ==
    /\ At(r, "delete address")
    /\ address' = FALSE
    /\ Ends(r)
    /\ UNCHANGED <<member, number, auth_profile, tokens, issued, endings>>

-----------------------------------------------------------------------------
(* AuthenticatePasswordView: check_password, create_for_request and        *)
(* set_active.  A token that was deleted in between cannot be saved.       *)

CheckPassword(r) ==
    /\ At(r, "idle") /\ member.password # 0
    /\ request' = [request EXCEPT ![r] = [step |-> "create", copy |-> member, token |-> 0]]
    /\ UNCHANGED <<member, contacts, tokens, issued, endings>>

create_for_request(r) ==
    /\ At(r, "create") /\ issued < MaxTokens
    /\ issued' = issued + 1
    /\ tokens' = tokens \cup {[id |-> issued', for |-> request[r].copy.password, since |-> 0,
                                active |-> FALSE, expired |-> FALSE]}
    /\ request' = [request EXCEPT ![r].step = "activate", ![r].token = issued']
    /\ UNCHANGED <<member, contacts, endings>>

set_active(r) ==
    /\ At(r, "activate")
    /\ tokens' = {IF t.id = request[r].token THEN [t EXCEPT !.active = TRUE, !.since = endings] ELSE t :
                  t \in tokens}
    /\ Ends(r)
    /\ UNCHANGED <<member, contacts, issued, endings>>

(* expire_at passes.                                                       *)
Expire ==
    /\ \E t \in tokens : ~t.expired /\ tokens' = (tokens \ {t}) \cup {[t EXCEPT !.expired = TRUE]}
    /\ UNCHANGED <<member, contacts, issued, request, endings>>

MemberNext ==
    \/ \E r \in Requests :
          \/ \E step \in {"profile", "preferences", "password", "delete"} : Begin(r, step)
          \/ SaveProfile(r) \/ SavePreferences(r) \/ SavePassword(r) \/ invalidate_api_tokens(r)
          \/ Anonymize(r) \/ DeleteTokens(r) \/ DeleteAddress(r)
          \/ CheckPassword(r) \/ create_for_request(r) \/ set_active(r)
    \/ Expire

MemberSpec == MemberInit /\ [][MemberNext]_memberVars

-----------------------------------------------------------------------------

MemberTypeOK ==
    /\ member \in Members
    /\ address \in BOOLEAN /\ number \in BOOLEAN /\ auth_profile \in BOOLEAN
    /\ tokens \subseteq Tokens
    /\ issued \in 0..MaxTokens
    /\ request \in [Requests -> [step: {"idle", "profile", "preferences", "password", "invalidate", "delete",
                                        "delete tokens", "delete address", "create", "activate"},
                                 copy: Members, token: 0..MaxTokens]]
    /\ endings \in 0..MaxEndings

(* "Changing or resetting the password kills every active API token", and  *)
(* a deletion takes the tokens, the columns of the profile and allauth's   *)
(* addresses: once such requests are done, a token that is taken became    *)
(* active after the last of them, and a member who is not active is the    *)
(* whole shell, however requests crossed.  A login that checked the old    *)
(* password may still activate a token afterwards, and a profile_edit that *)
(* was overtaken takes the change or the deletion back as a whole.         *)
CredentialsEnd ==
    /\ \/ \E r \in Requests : At(r, "invalidate") \/ At(r, "delete tokens")
       \/ \A t \in Accepted : t.since = endings
    /\ ~member.is_active =>
          /\ member = Shell
          /\ (\E r \in Requests : At(r, "delete tokens") \/ At(r, "delete address")) \/ ~address

-----------------------------------------------------------------------------
(* What the code says, and does not do.                                    *)

(* anonymize_and_deactivate: "names, contacts, profiles, and tokens gone"  *)
(* - it does not look at the WhatsApp number or the OAuth profiles.        *)
NothingIsLeft ==
    ~member.is_active /\ (\A r \in Requests : At(r, "idle")) =>
        ~address /\ ~number /\ ~auth_profile /\ Accepted = {}

(* ApiTokenAuthentication: tokens are "invalidated on password change" - a *)
(* token that is taken was issued for the password of now.                 *)
TokensMatchThePassword ==
    (\A r \in Requests : At(r, "idle")) => \A t \in Accepted : t.for = member.password

=============================================================================

------------------------------ MODULE TwoFactor ------------------------------
(***************************************************************************)
(* Privileged2FAMiddleware (apps/accounts/middleware.py): a visit of a     *)
(* signed-in user follows the redirects that it answers with, while the    *)
(* user, in another tab, enrols an authenticator or removes it.            *)
(***************************************************************************)
EXTENDS Naturals

CONSTANT REQUIRE_2FA_FOR_PRIVILEGED     \* the setting, TRUE in production

ASSUME TwoFactorConstants == REQUIRE_2FA_FOR_PRIVILEGED \in BOOLEAN

VARIABLES
    rights,         \* the areas the user has a right to: is_staff, is_leader()
    enrolled,       \* user_has_mfa()
    browser,        \* the visit: its aim, where it is, the page after a login, the redirects
    changed         \* history: the authenticator was enrolled or removed during the visit

twoFactorVars == <<rights, enrolled, browser, changed>>

-----------------------------------------------------------------------------

(* /accounts/2fa/totp/activate and its overview, /accounts/login/ and the  *)
(* providers', the protected areas, and the home page for all the others.  *)
Protected == {"/admin/", "/leads/"}
Pages == Protected \cup {"activate", "mfa_index", "login", "home"}

NoVisitor == [asked |-> "home", at |-> "home", next |-> "home", hops |-> 0, served |-> TRUE]

TwoFactorInit ==
    /\ rights \in SUBSET Protected
    /\ enrolled \in BOOLEAN
    /\ browser = NoVisitor
    /\ changed = FALSE

(* A visit; to a login page it carries next, or LOGIN_REDIRECT_URL.        *)
Visit(p, next) ==
    /\ browser.served
    /\ p # "login" => next = "home"
    /\ browser' = [asked |-> CASE p # "login" -> p
                             [] p = "login" /\ next # "login" -> next
                             [] OTHER -> "home",
                   at |-> p, next |-> next, hops |-> 0, served |-> FALSE]
    /\ changed' = FALSE
    /\ UNCHANGED <<rights, enrolled>>

(* Mutant: the guard of the activation page does not ask user_has_mfa().   *)
RedirectOfUnasked(p, next) ==
    CASE p = "activate" -> "mfa_index"
      [] p = "login" -> next
      [] p \in Protected /\ p \in rights /\ REQUIRE_2FA_FOR_PRIVILEGED /\ ~enrolled -> "activate"
      [] OTHER -> p

(* __call__: where the page p answers to go, or p itself when it is served. *)
RedirectOf(p, next) ==
    CASE p = "activate" /\ enrolled -> "mfa_index"
      [] p = "login" -> next
      [] p \in Protected /\ p \in rights /\ REQUIRE_2FA_FOR_PRIVILEGED /\ ~enrolled -> "activate"
      [] OTHER -> p

(* A login page that is next of a login page has no next of its own.       *)
Request ==
    LET to == RedirectOf(browser.at, browser.next)
    IN  /\ ~browser.served
        /\ browser' = IF to = browser.at /\ to # "login" THEN [browser EXCEPT !.served = TRUE]
                      ELSE [browser EXCEPT !.at = to, !.next = "home", !.hops = @ + 1]
        /\ UNCHANGED <<rights, enrolled, changed>>

Enrol(b) ==
    /\ enrolled # b
    /\ enrolled' = b
    /\ changed' = TRUE
    /\ UNCHANGED <<rights, browser>>

TwoFactorNext ==
    \/ \E p \in Pages, next \in Pages : Visit(p, next)
    \/ Request
    \/ \E b \in BOOLEAN : Enrol(b)

TwoFactorSpec == TwoFactorInit /\ [][TwoFactorNext]_twoFactorVars

-----------------------------------------------------------------------------

TwoFactorTypeOK ==
    /\ rights \subseteq Protected /\ enrolled \in BOOLEAN /\ changed \in BOOLEAN
    /\ browser \in [asked: Pages, at: Pages, next: Pages, hops: Nat, served: BOOLEAN]

(* "Never trap the user": every visit ends within three redirects on a     *)
(* page that is served, whatever the user does in the other tab.  When he  *)
(* does nothing there, it is the page he asked for; a protected area he    *)
(* has a right to sends him to enrol first, and once enrolled the page for *)
(* that is the overview.                                                   *)
VisitsLand ==
    /\ browser.hops <= 3
    /\ browser.served /\ ~changed =>
         LET asked == browser.asked
             barred == asked \in rights /\ REQUIRE_2FA_FOR_PRIVILEGED /\ ~enrolled
         IN  CASE barred -> browser.at = "activate"
               [] asked = "activate" /\ enrolled -> browser.at = "mfa_index"
               [] OTHER -> browser.at = asked

=============================================================================

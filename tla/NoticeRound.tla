----------------------------- MODULE NoticeRound -----------------------------
(***************************************************************************)
(* What one notification task does (apps/notifications/tasks.py, the       *)
(* handlers of send_automatic_notification): it mails its targets one by   *)
(* one, an announcement then goes to the chat channels (broadcast.py), and *)
(* a final reminder also to WhatsApp (whatsapp.py).  EventNotifications    *)
(* has the whole round as one step; here are its parts, with members that  *)
(* change their preferences meanwhile (apps/accounts/views.py).            *)
(***************************************************************************)
EXTENDS Naturals

CONSTANTS
    Addresses,      \* settings.NOTIFICATION_ANNOUNCEMENT_ADDRESSES
    Members,        \* the confirmed attendees, or the speakers, of the event
    MaxChanges      \* bound: saves of a member's preferences

Channels == {"discord", "slack", "telegram", "x"}

ASSUME NoticeConstants == Addresses \cap Members = {} /\ MaxChanges \in Nat

VARIABLES
    configured,     \* the channels whose settings are there, and "whatsapp"
    preference,     \* each member's NotificationPreference
    changes,        \* the saves so far
    round,          \* the round: its mode, where it is, and whom it has still to serve
    mailed,         \* how many mails each target got in it
    messaged,       \* the members whom WhatsApp took a message for
    tried,          \* how often each channel was called
    wavering        \* history: the members who changed their preferences during the round

noticeVars == <<configured, preference, changes, round, mailed, messaged, tried, wavering>>

-----------------------------------------------------------------------------

(* The modes that differ in whom they serve and which preference they ask. *)
Modes == {"announcement", "speakers", "presentations", "final reminder"}

(* email: email_reminders, or email_speaker_notifications for speakers.    *)
Preferences == [email: BOOLEAN, whatsapp: BOOLEAN]

Targets(mode) == IF mode = "announcement" THEN Addresses ELSE Members

(* Whether a target is mailed, as the handler reads its preference.        *)
Wants(mode, t) ==
    mode \in {"speakers", "final reminder"} => preference[t].email

WantsWhatsApp(mode, t) ==
    mode = "final reminder" /\ preference[t].whatsapp /\ "whatsapp" \in configured

NoticeInit ==
    /\ configured \in SUBSET (Channels \cup {"whatsapp"})
    /\ preference = [u \in Members |-> [email |-> TRUE, whatsapp |-> FALSE]]
    /\ changes = 0
    /\ round = [mode |-> "announcement", step |-> "queued", todo |-> {}]
    /\ mailed = [t \in Addresses \cup Members |-> 0]
    /\ messaged = {}
    /\ tried = [c \in Channels |-> 0]
    /\ wavering = {}

(* notification_preferences                                                *)
notification_preferences(u) ==
    /\ changes < MaxChanges /\ changes' = changes + 1
    /\ \E new \in Preferences \ {preference[u]} : preference' = [preference EXCEPT ![u] = new]
    /\ wavering' = IF round.step = "queued" THEN wavering ELSE wavering \cup {u}
    /\ UNCHANGED <<configured, round, mailed, messaged, tried>>

StartRound(mode) ==
    /\ round.step = "queued"
    /\ round' = [mode |-> mode, step |-> "mail", todo |-> Targets(mode)]
    /\ UNCHANGED <<configured, preference, changes, mailed, messaged, tried, wavering>>

(* The target t is served, or skipped.  send_mail is not told to fail      *)
(* silently, and requests.post to WhatsApp may raise: an exception ends    *)
(* the round.  A status of 400 or more is only logged.                     *)
Serve(t) ==
    /\ round.step = "mail" /\ t \in round.todo
    /\ \/ /\ Wants(round.mode, t)
          /\ round' = [round EXCEPT !.step = "failed"]
          /\ UNCHANGED <<mailed, messaged>>
       \/ /\ mailed' = IF Wants(round.mode, t) THEN [mailed EXCEPT ![t] = @ + 1] ELSE mailed
          /\ IF WantsWhatsApp(round.mode, t)
             THEN \/ round' = [round EXCEPT !.step = "failed"] /\ UNCHANGED messaged
                  \/ round' = [round EXCEPT !.todo = @ \ {t}] /\ messaged' \in {messaged, messaged \cup {t}}
             ELSE round' = [round EXCEPT !.todo = @ \ {t}] /\ UNCHANGED messaged
    /\ UNCHANGED <<configured, preference, changes, tried, wavering>>

(* All targets are served: broadcast(), or the end.                        *)
Served ==
    /\ round.step = "mail" /\ round.todo = {}
    /\ round' = IF round.mode = "announcement"
                THEN [round EXCEPT !.step = "broadcast", !.todo = Channels]
                ELSE [round EXCEPT !.step = "ended"]
    /\ UNCHANGED <<configured, preference, changes, mailed, messaged, tried, wavering>>

(* Mutant: a sender's exception leaves the loop.                           *)
BroadcastUnguarded(c) ==
    /\ round.step = "broadcast" /\ c \in round.todo
    /\ IF c \in configured
       THEN /\ tried' = [tried EXCEPT ![c] = @ + 1]
            /\ \E raises \in BOOLEAN :
                  round' = IF raises THEN [round EXCEPT !.step = "ended"]
                                     ELSE [round EXCEPT !.todo = @ \ {c}]
       ELSE UNCHANGED tried /\ round' = [round EXCEPT !.todo = @ \ {c}]
    /\ UNCHANGED <<configured, preference, changes, mailed, messaged, wavering>>

(* One sender of broadcast(): not configured, or called, whatever it says  *)
(* or raises.                                                              *)
Broadcast(c) ==
    /\ round.step = "broadcast" /\ c \in round.todo
    /\ tried' = IF c \in configured THEN [tried EXCEPT ![c] = @ + 1] ELSE tried
    /\ round' = [round EXCEPT !.todo = @ \ {c}]
    /\ UNCHANGED <<configured, preference, changes, mailed, messaged, wavering>>

Broadcasted ==
    /\ round.step = "broadcast" /\ round.todo = {}
    /\ round' = [round EXCEPT !.step = "ended"]
    /\ UNCHANGED <<configured, preference, changes, mailed, messaged, tried, wavering>>

NoticeNext ==
    \/ \E mode \in Modes : StartRound(mode)
    \/ \E t \in Addresses \cup Members : Serve(t)
    \/ Served \/ Broadcasted
    \/ \E c \in Channels : Broadcast(c)
    \/ \E u \in Members : notification_preferences(u)

NoticeSpec == NoticeInit /\ [][NoticeNext]_noticeVars

-----------------------------------------------------------------------------
(* Properties.                                                             *)

NoticeTypeOK ==
    /\ configured \subseteq Channels \cup {"whatsapp"}
    /\ preference \in [Members -> Preferences]
    /\ changes \in 0..MaxChanges
    /\ round \in [mode: Modes, step: {"queued", "mail", "broadcast", "ended", "failed"},
                  todo: SUBSET (Addresses \cup Members \cup Channels)]
    /\ mailed \in [Addresses \cup Members -> Nat]
    /\ messaged \subseteq Members
    /\ tried \in [Channels -> Nat]
    /\ wavering \subseteq Members

(* A round that ends has mailed every target once that wanted it all the   *)
(* time and none that did not, and an announcement has reached for every   *)
(* configured channel exactly once, whatever the other channels did; one   *)
(* that fails has reached for none, and its unserved targets get nothing.  *)
RoundsAreWhole ==
    /\ \A t \in Addresses \cup Members : mailed[t] <= 1
    /\ round.step = "ended" =>
         /\ \A t \in Targets(round.mode) \ wavering : mailed[t] = 1 <=> Wants(round.mode, t)
         /\ round.mode = "announcement" =>
              \A c \in Channels : tried[c] = IF c \in configured THEN 1 ELSE 0
    /\ round.step = "failed" =>
         /\ \A c \in Channels : tried[c] = 0
         /\ round.mode # "final reminder" => \A t \in round.todo : mailed[t] = 0

=============================================================================

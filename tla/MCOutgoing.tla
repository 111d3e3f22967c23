----------------------------- MODULE MCOutgoing -----------------------------
(***************************************************************************)
(* The parts that send something to the outside, checked side by side:     *)
(* they share no state, so each behaviour is one of one part, chosen at    *)
(* the start, and the others rest in one initial state.                    *)
(***************************************************************************)
EXTENDS MCMailerTask, WebhookDelivery, NoticeRound, MonthlyReports

VARIABLE part

parts == <<mailerVars, webhookVars, noticeVars, reportVars>>

OutgoingInit ==
    /\ part \in {"mailer", "webhooks", "notice", "reports"}
    /\ MailerInit /\ WebhookInit /\ NoticeInit /\ ReportInit
    /\ part # "mailer" => ~mailer.ready_for_delivery /\ mailer.registration_state = Everybody
    /\ part # "notice" => configured = {}
    /\ part # "reports" => chapter_leads = {}

OutgoingNext ==
    /\ UNCHANGED part
    /\ \/ part = "mailer" /\ MailerNext /\ UNCHANGED <<webhookVars, noticeVars, reportVars>>
       \/ part = "webhooks" /\ WebhookNext /\ UNCHANGED <<mailerVars, noticeVars, reportVars>>
       \/ part = "notice" /\ NoticeNext /\ UNCHANGED <<mailerVars, webhookVars, reportVars>>
       \/ part = "reports" /\ ReportNext /\ UNCHANGED <<mailerVars, webhookVars, noticeVars>>

OutgoingSpec ==
    /\ OutgoingInit /\ [][OutgoingNext]_<<part, parts>>
    /\ MailerFairness /\ WebhookFairness

(* The types of the four parts' variables.                                 *)
OutgoingTypeOK == MailerTypeOK /\ WebhookTypeOK /\ NoticeTypeOK /\ ReportTypeOK

=============================================================================

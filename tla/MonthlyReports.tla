---------------------------- MODULE MonthlyReports ----------------------------
(***************************************************************************)
(* The monthly chapter reports (apps/analytics/tasks.py): on the first of  *)
(* the month a Celery task goes through the active chapters and mails each *)
(* one's leads its numbers.  Meanwhile the admins change who leads which   *)
(* chapter (apps/chapters/models.py), and no row remembers what was sent.  *)
(***************************************************************************)
EXTENDS Naturals

CONSTANTS
    Chapters,
    LeadUsers,      \* the users who may lead them
    MaxAdmin,       \* bound: changes by the admins
    MaxReportDeaths \* bound: workers that die at it, and whose month is lost

ASSUME ReportConstants == MaxAdmin \in Nat /\ MaxReportDeaths \in Nat

VARIABLES
    active,         \* the chapters with active set
    chapter_leads,  \* the active ChapterLead rows
    admin,          \* the changes so far
    report,         \* the task: the month, where it is, its chapter, the chapters to go
    inbox,          \* the reports each chapter's leads were sent in the month
    ill,            \* the deaths so far
    unsettled       \* history: chapters that were not due a report all through the run

reportVars == <<active, chapter_leads, admin, report, inbox, ill, unsettled>>

-----------------------------------------------------------------------------

(* Every account has an email (create_user), so every lead is a recipient. *)
leads(c) == {u \in LeadUsers : <<u, c>> \in chapter_leads}

Nobody == [to |-> {}, times |-> 0]

ReportInit ==
    /\ active = Chapters
    /\ chapter_leads \in SUBSET (LeadUsers \X Chapters)
    /\ admin = 0
    /\ report = [step |-> "waiting", todo |-> {}]
    /\ inbox = [c \in Chapters |-> Nobody]
    /\ ill = 0
    /\ unsettled = {}

(* The admin's pages: a chapter is closed or opened, a lead comes or goes. *)
Administer ==
    /\ admin < MaxAdmin /\ admin' = admin + 1
    /\ \/ /\ \E c \in Chapters :
                active' = IF c \in active THEN active \ {c} ELSE active \cup {c}
          /\ UNCHANGED chapter_leads
       \/ /\ \E l \in LeadUsers \X Chapters :
                chapter_leads' = IF l \in chapter_leads THEN chapter_leads \ {l} ELSE chapter_leads \cup {l}
          /\ UNCHANGED active
    /\ unsettled' = unsettled \cup {c \in Chapters : c \notin active' \/ leads(c)' = {}}
    /\ UNCHANGED <<report, inbox, ill>>

(* Chapter.active_chapters() is queried once, when the loop begins.        *)
BeginReports ==
    /\ report.step = "waiting"
    /\ report' = [step |-> "loop", todo |-> active]
    /\ unsettled' = {c \in Chapters : c \notin active \/ leads(c) = {}}
    /\ UNCHANGED <<active, chapter_leads, admin, inbox, ill>>

(* Mutant: return for continue.                                            *)
SendReportOrReturn(c) ==
    /\ report.step = "loop" /\ c \in report.todo
    /\ IF leads(c) = {}
       THEN UNCHANGED inbox /\ report' = [report EXCEPT !.step = "ended"]
       ELSE /\ inbox' = [inbox EXCEPT ![c] = [to |-> leads(c), times |-> @.times + 1]]
            /\ report' = [report EXCEPT !.todo = @ \ {c}]
    /\ UNCHANGED <<active, chapter_leads, admin, ill, unsettled>>

(* One chapter: nothing if nobody is there to be mailed.  The mail fails   *)
(* silently, so one that bounces changes nothing here.                     *)
SendReport(c) ==
    /\ report.step = "loop" /\ c \in report.todo
    /\ inbox' = IF leads(c) = {} THEN inbox
                ELSE [inbox EXCEPT ![c] = [to |-> leads(c), times |-> @.times + 1]]
    /\ report' = [report EXCEPT !.todo = @ \ {c}]
    /\ UNCHANGED <<active, chapter_leads, admin, ill, unsettled>>

EndReports ==
    /\ report.step = "loop" /\ report.todo = {}
    /\ report' = [report EXCEPT !.step = "ended"]
    /\ UNCHANGED <<active, chapter_leads, admin, inbox, ill, unsettled>>

(* The worker dies: the message was acknowledged, nobody goes on.          *)
DieReporting ==
    /\ report.step = "loop"
    /\ ill < MaxReportDeaths /\ ill' = ill + 1
    /\ report' = [report EXCEPT !.step = "died"]
    /\ UNCHANGED <<active, chapter_leads, admin, inbox, unsettled>>

ReportNext ==
    \/ Administer \/ BeginReports \/ EndReports \/ DieReporting
    \/ \E c \in Chapters : SendReport(c)

ReportSpec == ReportInit /\ [][ReportNext]_reportVars

-----------------------------------------------------------------------------
(* Properties.                                                             *)

ReportTypeOK ==
    /\ active \subseteq Chapters
    /\ chapter_leads \subseteq LeadUsers \X Chapters
    /\ admin \in 0..MaxAdmin /\ ill \in 0..MaxReportDeaths
    /\ report \in [step: {"waiting", "loop", "ended", "died"}, todo: SUBSET Chapters]
    /\ inbox \in [Chapters -> [to: SUBSET LeadUsers, times: Nat]]
    /\ unsettled \subseteq Chapters

(* A run that ends has reported once to every chapter that was open and    *)
(* had a lead to mail from its beginning to its end, and no run, cut short *)
(* or not, reports to a chapter twice.                                     *)
ReportsReachTheLeads ==
    /\ \A c \in Chapters : inbox[c].times <= 1
    /\ report.step = "ended" => \A c \in Chapters \ unsettled : inbox[c].times = 1

=============================================================================

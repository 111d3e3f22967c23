------------------------------- MODULE Seeding -------------------------------
(***************************************************************************)
(* The management commands that fill a chapter (apps/chapters/management): *)
(* import_bangalore and import_july2026 write events and their sessions,   *)
(* seed_attendees registrations, and add_leader the account of a lead.     *)
(* Each is a walk of separate statements without a transaction: it may be  *)
(* stopped after any of them and is then run again, on rows that members   *)
(* and leads have changed meanwhile.                                       *)
(***************************************************************************)
EXTENDS Naturals

CONSTANTS
    NumSeeds,       \* the rows of a feed, in their order
    Kind,           \* what each is: "event", "talk" or "rsvp"
    MaxCommands     \* bound: the commands started

ASSUME SeedingConstants ==
    /\ NumSeeds \in Nat /\ MaxCommands \in Nat
    /\ Kind \in [1..NumSeeds -> {"event", "talk", "rsvp"}]

VARIABLES
    rows,           \* what is found under the key of each seed
    account,        \* the lead: the User row, the EmailAddress rows, the ChapterLead row
    command,        \* the command that runs, the statement it is at and the seed
    started,        \* the commands started so far
    halved,         \* history: the seeds whose creation was the last of a run, or was overtaken
    removed,        \* history: the seeds whose row was deleted or renamed since a run passed it
    fresh           \* history: nobody touched the account since add_leader, the last command, began

seedingVars == <<rows, account, command, started, halved, removed, fresh>>

-----------------------------------------------------------------------------

Seeds == 1..NumSeeds

NoCommand == [name |-> "none", step |-> "idle", at |-> 0]

(* password: whether it is a usable one.  own, verified,   *)
(* primary: the EmailAddress row of the address that add_leader is given;  *)
(* the other addresses that a lead may add, and it demotes, are left out.  *)
NoAccount == [there |-> FALSE, active |-> FALSE, password |-> FALSE, coc |-> FALSE, own |-> FALSE,
              verified |-> FALSE, primary |-> FALSE, lead |-> FALSE]

SeedingInit ==
    /\ rows = [i \in Seeds |-> "none"]
    /\ account = NoAccount
    /\ command = NoCommand
    /\ started = 0
    /\ halved = {} /\ removed = {}
    /\ fresh = FALSE

Runs(name, step) == command.name = name /\ command.step = step
Stops == command' = NoCommand

Start(name, step) ==
    /\ command = NoCommand
    /\ started < MaxCommands /\ started' = started + 1
    /\ command' = [name |-> name, step |-> step, at |-> 1]
    /\ removed' = IF name = "import" THEN {} ELSE removed
    /\ fresh' = (name = "add_leader")
    /\ UNCHANGED <<rows, account, halved>>

-----------------------------------------------------------------------------
(* The imports and seed_attendees.                                         *)

(* Mutant: a row that is there ends the command.                           *)
GetOrCreateOrStop ==
    /\ Runs("import", "row") /\ command.at <= NumSeeds
    /\ LET i == command.at
       IN  IF rows[i] = "none"
           THEN /\ rows' = [rows EXCEPT ![i] = IF Kind[i] = "event" THEN "whole" ELSE "bare"]
                /\ command' = IF Kind[i] = "event" THEN [command EXCEPT !.at = i + 1] ELSE [command EXCEPT !.step = "rest"]
           ELSE /\ command' = [command EXCEPT !.at = NumSeeds + 1]
                /\ UNCHANGED rows
    /\ UNCHANGED <<account, started, halved, removed, fresh>>

(* get_or_create by the name, the start or the member: a row that is found *)
(* is left alone; a new event is whole, the others get the rest next.      *)
GetOrCreate ==
    /\ Runs("import", "row") /\ command.at <= NumSeeds
    /\ LET i == command.at
       IN  IF rows[i] = "none" /\ Kind[i] # "event"
           THEN /\ rows' = [rows EXCEPT ![i] = "bare"]
                /\ command' = [command EXCEPT !.step = "rest"]
           ELSE /\ rows' = [rows EXCEPT ![i] = IF @ = "none" THEN "whole" ELSE @]
                /\ command' = [command EXCEPT !.at = i + 1]
    /\ UNCHANGED <<account, started, halved, removed, fresh>>

(* tags.add() of a new talk, whoever edited it; save(update_fields) of a   *)
(* new registration, which raises when the row is gone.                    *)
Complete ==
    LET i == command.at
    IN  /\ Runs("import", "rest")
        /\ IF Kind[i] = "rsvp" /\ rows[i] = "none"
           THEN Stops /\ UNCHANGED rows
           ELSE /\ rows' = [rows EXCEPT ![i] = IF @ = "none" THEN @ ELSE "whole"]
                /\ command' = [command EXCEPT !.step = "row", !.at = i + 1]
        /\ UNCHANGED <<account, started, halved, removed, fresh>>

ImportEnds ==
    /\ Runs("import", "row") /\ command.at > NumSeeds
    /\ Stops
    /\ UNCHANGED <<rows, account, started, halved, removed, fresh>>

(* A lead renames the event or the talk, a member cancels: the key finds   *)
(* no row any more.                                                        *)
Remove(i) ==
    /\ rows[i] # "none"
    /\ rows' = [rows EXCEPT ![i] = "none"]
    /\ removed' = removed \cup {i}
    /\ UNCHANGED <<account, command, started, halved, fresh>>

-----------------------------------------------------------------------------
(* add_leader                                                              *)

Writes(step, next, written) ==
    /\ Runs("add_leader", step)
    /\ account' = written
    /\ command' = IF next = "idle" THEN NoCommand ELSE [command EXCEPT !.step = next]
    /\ UNCHANGED <<rows, started, halved, removed, fresh>>

GetUser == Writes("get", "user", [account EXCEPT !.there = TRUE, !.active = @ \/ ~account.there])

(* Mutant: the row of the lead comes before his address.                   *)
SaveUserAndLead ==
    Writes("user", "coc", [account EXCEPT !.active = TRUE, !.password = FALSE, !.lead = TRUE])

(* user.save(): active again, and a password that was set is taken away.   *)
SaveUser == Writes("user", "coc", [account EXCEPT !.active = TRUE, !.password = FALSE])

Acknowledge == Writes("coc", "address", [account EXCEPT !.coc = TRUE])
GetAddress == Writes("address", "verify", [account EXCEPT !.own = TRUE])
VerifyAddress == Writes("verify", "lead", [account EXCEPT !.own = TRUE, !.verified = TRUE, !.primary = TRUE])
SaveLead == Writes("lead", "idle", [account EXCEPT !.lead = TRUE])

(* Meanwhile the lead claims the account by a reset of its password, and   *)
(* an admin takes the role back or deactivates the account.                *)
Touch(touched) ==
    /\ account.there
    /\ account' = touched
    /\ fresh' = FALSE
    /\ UNCHANGED <<rows, command, started, halved, removed>>

Claim == account.active /\ ~account.password /\ Touch([account EXCEPT !.password = TRUE])
Demote == account.lead /\ Touch([account EXCEPT !.lead = FALSE])
Deactivate == account.active /\ Touch([account EXCEPT !.active = FALSE])

-----------------------------------------------------------------------------

(* The command is stopped.                                                 *)
Kill ==
    /\ command # NoCommand
    /\ Stops
    /\ halved' = IF command.step = "rest" THEN halved \cup {command.at} ELSE halved
    /\ fresh' = FALSE
    /\ UNCHANGED <<rows, account, started, removed>>

SeedingNext ==
    \/ Start("import", "row") \/ Start("add_leader", "get")
    \/ GetOrCreate \/ Complete \/ ImportEnds
    \/ \E i \in Seeds : Remove(i)
    \/ GetUser \/ SaveUser \/ Acknowledge \/ GetAddress \/ VerifyAddress \/ SaveLead
    \/ Claim \/ Demote \/ Deactivate
    \/ Kill

SeedingSpec == SeedingInit /\ [][SeedingNext]_seedingVars

-----------------------------------------------------------------------------

SeedingTypeOK ==
    /\ rows \in [Seeds -> {"none", "bare", "whole"}]
    /\ account \in [there: BOOLEAN, active: BOOLEAN, password: BOOLEAN, coc: BOOLEAN, own: BOOLEAN,
                    verified: BOOLEAN, primary: BOOLEAN, lead: BOOLEAN]
    /\ command \in [name: {"none", "import", "add_leader"}, at: 0..NumSeeds + 1,
                    step: {"idle", "row", "rest", "get", "user", "coc", "address", "verify", "lead"}]
    /\ started \in 0..MaxCommands
    /\ halved \subseteq Seeds /\ removed \subseteq Seeds
    /\ fresh \in BOOLEAN

(* "They're idempotent (get_or_create)": a run, whatever runs before it    *)
(* were stopped, has every row of the feed it has passed, each of them     *)
(* whole, except those that were removed or renamed behind it and those    *)
(* that an earlier run was stopped at between two statements, which no     *)
(* later run completes.                                                    *)
SeedsAreWhole ==
    /\ \A i \in Seeds : rows[i] = "bare" => i \in halved \/ (Runs("import", "rest") /\ command.at = i)
    /\ command.name = "import" => \A i \in Seeds \ removed : i < command.at => rows[i] # "none"

(* Whom add_leader makes a lead can get in and enrol: it makes nobody one  *)
(* whose address is not verified by then; and a run of it that nobody      *)
(* disturbed leaves an active lead who has to claim the account, even if   *)
(* earlier runs were stopped anywhere.  Leads that an admin enters, and    *)
(* leads who delete their account, are not of this module.                 *)
LeadersGetIn ==
    /\ account.lead => account.verified /\ account.coc
    /\ fresh /\ command = NoCommand =>
         account.active /\ ~account.password /\ account.primary /\ account.lead

=============================================================================

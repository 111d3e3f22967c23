--------------------------- MODULE CommunityProofs ---------------------------
(***************************************************************************)
(* Theorems of TwoFactor, Seeding, Proposals and SpeakerSlots: every visit *)
(* lands, a lead that was added can get in, imports leave whole rows,      *)
(* decisions are not taken back unawares, and a slot that reads confirmed  *)
(* was confirmed by its speaker.                                           *)
(***************************************************************************)
EXTENDS MCCommunity, ProgrammeProofs, MemberProofs, TLAPS

-----------------------------------------------------------------------------
(* TwoFactor.                                                              *)

(* How many redirects a page can be away from the visit's first.           *)
Nearest ==
    /\ browser.hops \in Nat /\ browser.hops <= 3
    /\ browser.at = "login" => browser.hops = 0 \/ (browser.hops = 1 /\ browser.next = "home")
    /\ browser.at \in Protected => browser.hops <= 1
    /\ browser.at = "activate" => browser.hops <= 2

(* Where a visit can be while nothing is changed in the other tab.         *)
Barred == browser.asked \in rights /\ REQUIRE_2FA_FOR_PRIVILEGED = TRUE /\ enrolled = FALSE

OnItsWay ==
    \/ browser.at = browser.asked
    \/ browser.at = "login" /\ browser.next \in {browser.asked, "login"}
         /\ (browser.next = "login" => browser.asked = "home")
    \/ browser.at = "activate" /\ Barred
    \/ browser.at = "mfa_index" /\ browser.asked = "activate" /\ enrolled = TRUE

VisitInv ==
    /\ TwoFactorTypeOK
    /\ Nearest
    /\ browser.asked # "login"
    /\ changed = FALSE => OnItsWay
    /\ changed = FALSE /\ browser.served = TRUE =>
         /\ browser.at # "login"
         /\ RedirectOf(browser.at, browser.next) = browser.at

LEMMA VisitInitInv == TwoFactorInit => VisitInv
  <1> SUFFICES ASSUME TwoFactorInit PROVE VisitInv
    OBVIOUS
  <1>1. TwoFactorTypeOK
    BY DEF TwoFactorInit, TwoFactorTypeOK, NoVisitor, Pages, Protected
  <1>2. Nearest
    BY DEF TwoFactorInit, Nearest, NoVisitor, Protected
  <1>3. OnItsWay /\ browser.asked # "login" /\ browser.at # "login"
    BY DEF TwoFactorInit, OnItsWay, NoVisitor
  <1>4. RedirectOf(browser.at, browser.next) = browser.at
    BY DEF TwoFactorInit, RedirectOf, NoVisitor, Protected
  <1>5. QED
    BY <1>1, <1>2, <1>3, <1>4 DEF VisitInv

LEMMA VisitStep ==
    ASSUME VisitInv, NEW p \in Pages, NEW next \in Pages, Visit(p, next) PROVE VisitInv'
  <1> DEFINE asked == CASE p # "login" -> p [] p = "login" /\ next # "login" -> next [] OTHER -> "home"
  <1>1. /\ asked \in Pages /\ asked # "login"
        /\ p # "login" => asked = p
        /\ p = "login" => next \in {asked, "login"} /\ (next = "login" => asked = "home")
    <2>1. CASE p # "login"
      BY <2>1
    <2>2. CASE p = "login" /\ next # "login"
      BY <2>2
    <2>3. CASE p = "login" /\ next = "login"
      BY <2>3 DEF Pages
    <2>4. QED
      BY <2>1, <2>2, <2>3
  <1>2. browser' = [asked |-> asked, at |-> p, next |-> next, hops |-> 0, served |-> FALSE]
    BY DEF Visit
  <1> HIDE DEF asked
  <1>3. /\ browser'.asked = asked /\ browser'.at = p /\ browser'.next = next
        /\ browser'.hops = 0 /\ browser'.served = FALSE
        /\ browser' \in [asked: Pages, at: Pages, next: Pages, hops: Nat, served: BOOLEAN]
    BY <1>1, <1>2 DEF Pages
  <1>4. TwoFactorTypeOK'
    BY <1>3 DEF Visit, VisitInv, TwoFactorTypeOK
  <1>5. Nearest'
    BY <1>3 DEF Nearest
  <1>6. OnItsWay'
    BY <1>1, <1>3 DEF OnItsWay
  <1>7. QED
    BY <1>1, <1>3, <1>4, <1>5, <1>6 DEF VisitInv

LEMMA RequestStep ==
    ASSUME VisitInv, Request PROVE VisitInv'
  <1> DEFINE to == RedirectOf(browser.at, browser.next)
             served == [browser EXCEPT !.served = TRUE]
             sent == [browser EXCEPT !.at = to, !.next = "home", !.hops = @ + 1]
  <1> USE DEF VisitInv
  <1>1. /\ browser \in [asked: Pages, at: Pages, next: Pages, hops: Nat, served: BOOLEAN]
        /\ UNCHANGED <<rights, enrolled, changed>>
        /\ to \in Pages
    BY DEF Request, TwoFactorTypeOK, RedirectOf, Pages, Protected
  <1>2. CASE to = browser.at /\ to # "login"
    <2>1. browser' = served
      BY <1>2 DEF Request
    <2>2. /\ browser' \in [asked: Pages, at: Pages, next: Pages, hops: Nat, served: BOOLEAN]
          /\ browser'.asked = browser.asked /\ browser'.at = browser.at
          /\ browser'.next = browser.next /\ browser'.hops = browser.hops
      BY <1>1, <2>1
    <2>3. QED
      BY <1>1, <1>2, <2>2 DEF TwoFactorTypeOK, Nearest, OnItsWay, Barred, RedirectOf
  <1>3. CASE ~(to = browser.at /\ to # "login")
    <2>1. browser' = sent
      BY <1>3 DEF Request
    <2> "home" \in Pages /\ browser.hops + 1 \in Nat
      BY <1>1, SMT DEF Pages
    <2>2. /\ browser' \in [asked: Pages, at: Pages, next: Pages, hops: Nat, served: BOOLEAN]
          /\ browser'.asked = browser.asked /\ browser'.at = to
          /\ browser'.next = "home" /\ browser'.hops = browser.hops + 1
          /\ browser'.served = browser.served
      BY <1>1, <2>1
    <2>3. browser.served = FALSE
      BY <1>1 DEF Request
    <2>4. Nearest'
      BY <1>1, <1>3, <2>2 DEF Nearest, RedirectOf, Protected, Pages
    <2>5. changed = FALSE => OnItsWay'
      BY <1>1, <1>3, <2>2 DEF OnItsWay, Barred, RedirectOf, Protected, Pages
    <2>6. QED
      BY <1>1, <2>2, <2>3, <2>4, <2>5 DEF TwoFactorTypeOK
  <1>4. QED
    BY <1>2, <1>3

LEMMA VisitNextInv == VisitInv /\ [TwoFactorNext]_twoFactorVars => VisitInv'
  <1> SUFFICES ASSUME VisitInv, [TwoFactorNext]_twoFactorVars PROVE VisitInv'
    OBVIOUS
  <1>1. ASSUME NEW b \in BOOLEAN, Enrol(b) PROVE VisitInv'
    BY <1>1 DEF Enrol, VisitInv, TwoFactorTypeOK, Nearest
  <1>2. CASE UNCHANGED twoFactorVars
    BY <1>2 DEF twoFactorVars, VisitInv, TwoFactorTypeOK, Nearest, OnItsWay, Barred, RedirectOf
  <1>3. QED
    BY <1>1, <1>2, VisitStep, RequestStep DEF TwoFactorNext

(* Whatever the user enrols or removes in the other tab, the middleware    *)
(* sends a visit through at most three redirects, and a visit that nothing *)
(* disturbs ends on the page asked for, or on the enrolment it needs       *)
(* (Privileged2FAMiddleware.__call__).                                     *)
THEOREM EveryVisitLands == TwoFactorSpec => []VisitsLand
  <1>1. VisitInv => VisitsLand
    <2> SUFFICES ASSUME VisitInv PROVE VisitsLand
      OBVIOUS
    <2>1. browser.hops <= 3
      BY DEF VisitInv, Nearest
    <2>2. ASSUME browser.served, ~changed
          PROVE  LET asked == browser.asked
                     barred == asked \in rights /\ REQUIRE_2FA_FOR_PRIVILEGED /\ ~enrolled
                 IN  CASE barred -> browser.at = "activate"
                       [] asked = "activate" /\ enrolled -> browser.at = "mfa_index"
                       [] OTHER -> browser.at = asked
      <3>1. OnItsWay /\ browser.at # "login" /\ RedirectOf(browser.at, browser.next) = browser.at
        BY <2>2 DEF VisitInv, TwoFactorTypeOK
      <3>2. rights \subseteq Protected
        BY DEF VisitInv, TwoFactorTypeOK
      <3>3. CASE Barred
        BY <3>1, <3>2, <3>3 DEF OnItsWay, Barred, RedirectOf, Protected, VisitInv, TwoFactorTypeOK
      <3>4. CASE ~Barred
        BY <3>1, <3>2, <3>4, TwoFactorConstants DEF OnItsWay, Barred, RedirectOf, Protected, VisitInv, TwoFactorTypeOK
      <3>5. QED
        BY <3>3, <3>4
    <2>3. QED
      BY <2>1, <2>2 DEF VisitsLand
  <1>2. QED
    BY <1>1, VisitInitInv, VisitNextInv, PTL DEF TwoFactorSpec

-----------------------------------------------------------------------------
(* Seeding.                                                                *)

Command == [name: {"none", "import", "add_leader"}, at: 0..NumSeeds + 1,
            step: {"idle", "row", "rest", "get", "user", "coc", "address", "verify", "lead"}]

(* An import is at a seed, and a row it has just created is there unless   *)
(* somebody removed it.                                                    *)
ImportOK ==
    /\ rows \in [Seeds -> {"none", "bare", "whole"}]
    /\ command \in Command
    /\ halved \subseteq Seeds /\ removed \subseteq Seeds
    /\ command.name = "import" => command.step \in {"row", "rest"} /\ command.at > 0
    /\ command.step = "rest" =>
         command.name = "import" /\ command.at \in Seeds /\ (rows[command.at] # "none" \/ command.at \in removed)

ImportInv == ImportOK /\ SeedsAreWhole

LEMMA ImportInitInv == SeedingInit => ImportInv
  BY SeedingConstants, SMT DEF SeedingInit, ImportInv, ImportOK, SeedsAreWhole, NoCommand, Command, Seeds, Runs

LEMMA StartImport ==
    ASSUME ImportInv, NEW name, NEW step, <<name, step>> \in {<<"import", "row">>, <<"add_leader", "get">>},
           Start(name, step)
    PROVE  ImportInv'
  <1>1. command' = [name |-> name, step |-> step, at |-> 1] /\ command = NoCommand
    BY DEF Start
  <1>2. 1 \in 0..NumSeeds + 1
    BY SeedingConstants
  <1>3. command' \in Command /\ command'.name = name /\ command'.step = step /\ command'.at = 1
    BY <1>1, <1>2 DEF Command
  <1>4. rows' = rows /\ halved' = halved /\ removed' \subseteq Seeds
    BY DEF Start, ImportInv, ImportOK
  <1>5. \A i \in Seeds : rows[i] = "bare" => i \in halved
    BY <1>1 DEF ImportInv, SeedsAreWhole, Runs, NoCommand
  <1>6. ImportOK'
    BY <1>3, <1>4 DEF ImportInv, ImportOK, Seeds
  <1>7. \A i \in Seeds : ~ i < 1
    BY SeedingConstants DEF Seeds
  <1>8. QED
    BY <1>3, <1>4, <1>5, <1>6, <1>7 DEF ImportInv, SeedsAreWhole, Runs

(* The statement after a seed is passed.                                   *)
LEMMA NextSeed ==
    ASSUME ImportInv, command.name = "import", command.at \in Seeds,
           NEW step \in {"row", "rest"}, NEW n \in {command.at, command.at + 1},
           command' = [command EXCEPT !.step = step, !.at = n]
    PROVE  /\ command' \in Command
           /\ command'.name = "import" /\ command'.step = step /\ command'.at = n /\ n > 0
  <1>1. n \in 0..NumSeeds + 1 /\ n > 0
    BY SeedingConstants DEF Seeds
  <1>2. command' = [name |-> "import", at |-> n, step |-> step]
    BY DEF ImportInv, ImportOK, Command
  <1>3. QED
    BY <1>1, <1>2 DEF Command

LEMMA GetOrCreateImport == ASSUME ImportInv, GetOrCreate PROVE ImportInv'
  <1> DEFINE i == command.at
  <1>1. command.name = "import" /\ command.step = "row" /\ i \in Seeds /\ command \in Command
    BY SeedingConstants DEF GetOrCreate, Runs, ImportInv, ImportOK, Command, Seeds
  <1>2. halved' = halved /\ removed' = removed
    BY DEF GetOrCreate
  <1>3. \A j \in Seeds : rows[j] = "bare" => j \in halved
    BY <1>1 DEF ImportInv, SeedsAreWhole, Runs
  <1>4. \A j \in Seeds \ removed : j < i => rows[j] # "none"
    BY <1>1 DEF ImportInv, SeedsAreWhole
  <1>5. CASE rows[i] = "none" /\ Kind[i] # "event"
    <2>1. rows' = [rows EXCEPT ![i] = "bare"] /\ command' = [command EXCEPT !.step = "rest"]
      BY <1>5 DEF GetOrCreate
    <2>2. command' = [command EXCEPT !.step = "rest", !.at = i]
      BY <1>1, <2>1 DEF Command
    <2>3. /\ command' \in Command
          /\ command'.name = "import" /\ command'.step = "rest" /\ command'.at = i /\ i > 0
      BY <1>1, <2>2, NextSeed
    <2>4. rows' \in [Seeds -> {"none", "bare", "whole"}] /\ rows'[i] = "bare"
          /\ \A j \in Seeds : j # i => rows'[j] = rows[j]
      BY <1>1, <2>1 DEF ImportInv, ImportOK
    <2> HIDE DEF i
    <2>5. ImportOK'
      BY <1>1, <1>2, <2>3, <2>4 DEF ImportInv, ImportOK, Seeds
    <2>6. QED
      BY <1>1, <1>2, <1>3, <1>4, <2>3, <2>4, <2>5 DEF ImportInv, SeedsAreWhole, Runs, Seeds
  <1>6. CASE ~(rows[i] = "none" /\ Kind[i] # "event")
    <2>1. rows' = [rows EXCEPT ![i] = IF @ = "none" THEN "whole" ELSE @] /\ command' = [command EXCEPT !.at = i + 1]
      BY <1>6 DEF GetOrCreate
    <2>2. command' = [command EXCEPT !.step = "row", !.at = i + 1]
      BY <1>1, <2>1 DEF Command
    <2>3. /\ command' \in Command
          /\ command'.name = "import" /\ command'.step = "row" /\ command'.at = i + 1 /\ i + 1 > 0
      BY <1>1, <2>2, NextSeed
    <2>4. rows' \in [Seeds -> {"none", "bare", "whole"}] /\ rows'[i] # "none"
          /\ (rows'[i] = "bare" => rows[i] = "bare")
          /\ \A j \in Seeds : j # i => rows'[j] = rows[j]
      BY <1>1, <2>1 DEF ImportInv, ImportOK
    <2> HIDE DEF i
    <2>5. ImportOK'
      BY <1>1, <1>2, <2>3, <2>4 DEF ImportInv, ImportOK, Seeds
    <2>6. \A j \in Seeds : j < i + 1 => j = i \/ j < i
      BY <1>1 DEF Seeds
    <2>7. QED
      BY <1>1, <1>2, <1>3, <1>4, <2>3, <2>4, <2>5, <2>6 DEF ImportInv, SeedsAreWhole, Runs, Seeds
  <1>7. QED
    BY <1>5, <1>6

LEMMA CompleteImport == ASSUME ImportInv, Complete PROVE ImportInv'
  <1> DEFINE i == command.at
  <1>1. command.name = "import" /\ command.step = "rest" /\ i \in Seeds /\ command \in Command
    BY DEF Complete, Runs, ImportInv, ImportOK
  <1>2. halved' = halved /\ removed' = removed
    BY DEF Complete
  <1>3. \A j \in Seeds : rows[j] = "bare" => j \in halved \/ j = i
    BY <1>1 DEF ImportInv, SeedsAreWhole, Runs
  <1>4. \A j \in Seeds \ removed : j < i => rows[j] # "none"
    BY <1>1 DEF ImportInv, SeedsAreWhole
  <1>5. CASE Kind[i] = "rsvp" /\ rows[i] = "none"
    <2>1. command' = NoCommand /\ rows' = rows
      BY <1>5 DEF Complete, Stops
    <2>2. command' \in Command /\ command'.name = "none" /\ command'.step = "idle"
      BY SeedingConstants, <2>1 DEF NoCommand, Command
    <2>3. ImportOK'
      BY <1>2, <2>1, <2>2 DEF ImportInv, ImportOK, Seeds
    <2>4. QED
      BY <1>2, <1>3, <1>5, <2>1, <2>2, <2>3 DEF ImportInv, SeedsAreWhole, Runs, Seeds
  <1>6. CASE ~(Kind[i] = "rsvp" /\ rows[i] = "none")
    <2>1. rows' = [rows EXCEPT ![i] = IF @ = "none" THEN @ ELSE "whole"]
          /\ command' = [command EXCEPT !.step = "row", !.at = i + 1]
      BY <1>6 DEF Complete
    <2>2. /\ command' \in Command
          /\ command'.name = "import" /\ command'.step = "row" /\ command'.at = i + 1 /\ i + 1 > 0
      BY <1>1, <2>1, NextSeed
    <2>3. rows' \in [Seeds -> {"none", "bare", "whole"}] /\ rows'[i] # "bare"
          /\ (rows'[i] = "none" => rows[i] = "none")
          /\ \A j \in Seeds : j # i => rows'[j] = rows[j]
      BY <1>1, <2>1 DEF ImportInv, ImportOK
    <2>4. rows[i] # "none" \/ i \in removed
      BY <1>1 DEF ImportInv, ImportOK
    <2> HIDE DEF i
    <2>5. ImportOK'
      BY <1>1, <1>2, <2>2, <2>3 DEF ImportInv, ImportOK, Seeds
    <2>6. \A j \in Seeds : j < i + 1 => j = i \/ j < i
      BY <1>1 DEF Seeds
    <2>7. QED
      BY <1>1, <1>2, <1>3, <1>4, <2>2, <2>3, <2>4, <2>5, <2>6 DEF ImportInv, SeedsAreWhole, Runs, Seeds
  <1>7. QED
    BY <1>5, <1>6

LEMMA RemoveImport == ASSUME ImportInv, NEW i \in Seeds, Remove(i) PROVE ImportInv'
  BY SeedingConstants, SMT DEF Remove, ImportInv, ImportOK, SeedsAreWhole, NoCommand, Command, Seeds, Runs

(* A command that ends or is killed: what it had half written is history.  *)
LEMMA StopImport == ASSUME ImportInv, ImportEnds \/ Kill PROVE ImportInv'
  <1>1. command' = NoCommand /\ rows' = rows /\ removed' = removed
    BY DEF ImportEnds, Kill, Stops
  <1>2. command' \in Command /\ command'.name = "none" /\ command'.step = "idle"
    BY SeedingConstants, <1>1 DEF NoCommand, Command
  <1>3. halved' \subseteq Seeds /\ halved \subseteq halved'
        /\ (Runs("import", "rest") => command.at \in halved')
    <2>1. CASE ImportEnds
      BY <2>1 DEF ImportEnds, ImportInv, ImportOK, Runs
    <2>2. CASE Kill
      <3>1. command.step = "rest" => command.name = "import"
        BY DEF ImportInv, ImportOK
      <3>2. command.step = "rest" => command.at \in Seeds
        BY <3>1 DEF ImportInv, ImportOK
      <3>3. QED
        BY <2>2, <3>2 DEF Kill, ImportInv, ImportOK, Runs
    <2>3. QED
      BY <2>1, <2>2
  <1>4. ImportOK'
    BY <1>1, <1>2, <1>3 DEF ImportInv, ImportOK, Seeds
  <1>5. QED
    BY <1>1, <1>2, <1>3, <1>4 DEF ImportInv, SeedsAreWhole, Runs, Seeds

(* add_leader writes no row of a feed.                                     *)
LEMMA WritesKeepImport ==
    ASSUME ImportInv, NEW step, NEW next \in {"idle", "user", "coc", "address", "verify", "lead"}, NEW written,
           Writes(step, next, written)
    PROVE  ImportInv'
  <1>1. rows' = rows /\ halved' = halved /\ removed' = removed /\ command.name = "add_leader"
    BY DEF Writes, Runs
  <1>2. command' \in Command /\ command'.name # "import" /\ command'.step # "rest"
    <2>1. CASE next = "idle"
      BY SeedingConstants, <2>1 DEF Writes, NoCommand, Command
    <2>2. CASE next # "idle"
      <3>1. command' = [name |-> "add_leader", at |-> command.at, step |-> next]
        BY <1>1, <2>2 DEF Writes, ImportInv, ImportOK, Command
      <3>2. command.at \in 0..NumSeeds + 1
        BY DEF ImportInv, ImportOK, Command
      <3>3. QED
        BY <3>1, <3>2 DEF Command
    <2>3. QED
      BY <2>1, <2>2
  <1>3. ImportOK'
    BY <1>1, <1>2 DEF ImportInv, ImportOK, Seeds
  <1>4. QED
    BY <1>1, <1>2, <1>3 DEF ImportInv, SeedsAreWhole, Runs, Seeds

LEMMA ImportNextInv == ImportInv /\ [SeedingNext]_seedingVars => ImportInv'
  <1> SUFFICES ASSUME ImportInv, [SeedingNext]_seedingVars PROVE ImportInv'
    OBVIOUS
  <1>1. CASE Start("import", "row") \/ Start("add_leader", "get")
    BY <1>1, StartImport
  <1>2. CASE GetOrCreate
    BY <1>2, GetOrCreateImport
  <1>3. CASE Complete
    BY <1>3, CompleteImport
  <1>4. CASE ImportEnds \/ Kill
    BY <1>4, StopImport
  <1>5. CASE \E i \in Seeds : Remove(i)
    BY <1>5, RemoveImport
  <1>6. CASE GetUser \/ SaveUser \/ Acknowledge \/ GetAddress \/ VerifyAddress \/ SaveLead
    BY <1>6, WritesKeepImport DEF GetUser, SaveUser, Acknowledge, GetAddress, VerifyAddress, SaveLead
  <1>7. CASE Claim \/ Demote \/ Deactivate \/ UNCHANGED seedingVars
    <2>1. UNCHANGED <<rows, command, halved, removed>>
      BY <1>7 DEF Claim, Demote, Deactivate, Touch, seedingVars
    <2>2. QED
      BY <2>1 DEF ImportInv, ImportOK, SeedsAreWhole, Runs, Seeds
  <1>8. QED
    BY <1>1, <1>2, <1>3, <1>4, <1>5, <1>6, <1>7 DEF SeedingNext

(* Whatever is stopped where and run again, an import has every row it has *)
(* passed that nobody removed, and leaves no row half written but the one  *)
(* at which a run was stopped (import_bangalore, import_july2026,          *)
(* seed_attendees).                                                        *)
THEOREM ImportsLeaveWholeRows == SeedingSpec => []SeedsAreWhole
  <1>1. ImportInv => SeedsAreWhole
    BY DEF ImportInv
  <1>2. QED
    BY <1>1, ImportInitInv, ImportNextInv, PTL DEF SeedingSpec

Accounts == [there: BOOLEAN, active: BOOLEAN, password: BOOLEAN, coc: BOOLEAN, own: BOOLEAN,
             verified: BOOLEAN, primary: BOOLEAN, lead: BOOLEAN]

(* What add_leader has written when it is at a statement; the first two    *)
(* hold whoever touches the account, the others while nobody does.         *)
LeadOK ==
    /\ account \in Accounts
    /\ fresh \in BOOLEAN
    /\ account.lead = TRUE => account.verified = TRUE /\ account.coc = TRUE
    /\ command.step \in {"address", "verify", "lead"} => account.coc = TRUE
    /\ command.step = "lead" => account.verified = TRUE
    /\ fresh = TRUE => command.name # "import"
    /\ fresh = TRUE /\ command.step \in {"coc", "address", "verify", "lead"} =>
         account.active = TRUE /\ account.password = FALSE
    /\ fresh = TRUE /\ command.step = "lead" => account.primary = TRUE
    /\ fresh = TRUE /\ command.name = "none" =>
         account.active = TRUE /\ account.password = FALSE /\ account.primary = TRUE /\ account.lead = TRUE

LEMMA LeadInitOK == SeedingInit => LeadOK
  <1> SUFFICES ASSUME SeedingInit PROVE LeadOK
    OBVIOUS
  <1>1. account \in Accounts /\ account.lead = FALSE
    BY DEF SeedingInit, NoAccount, Accounts
  <1>2. command.step = "idle" /\ fresh = FALSE
    BY DEF SeedingInit, NoCommand
  <1>3. QED
    BY <1>1, <1>2 DEF LeadOK

LEMMA Written ==
    ASSUME ImportInv, NEW step, NEW next, NEW written, Writes(step, next, written)
    PROVE  /\ account' = written /\ fresh' = fresh
           /\ command.name = "add_leader" /\ command.step = step
           /\ next = "idle" => command'.name = "none" /\ command'.step = "idle"
           /\ next # "idle" => command'.name = "add_leader" /\ command'.step = next
  BY DEF Writes, Runs, NoCommand, ImportInv, ImportOK, Command

LEMMA AddLeader ==
    ASSUME ImportInv, LeadOK,
           GetUser \/ SaveUser \/ Acknowledge \/ GetAddress \/ VerifyAddress \/ SaveLead
    PROVE  LeadOK'
  <1>1. CASE GetUser
    <2>1. account' \in Accounts /\ account'.lead = account.lead /\ account'.verified = account.verified
          /\ account'.coc = account.coc
      <3>1. account' = [account EXCEPT !.there = TRUE, !.active = @ \/ ~account.there]
        BY <1>1, Written DEF GetUser
      <3>2. account \in Accounts
        BY DEF LeadOK
      <3>3. QED
        BY <3>1, <3>2 DEF Accounts
    <2>2. fresh' = fresh /\ command'.name = "add_leader" /\ command'.step = "user"
      BY <1>1, Written DEF GetUser
    <2>3. QED
      BY <2>1, <2>2 DEF LeadOK
  <1>2. CASE SaveUser
    <2>1. account' \in Accounts /\ account'.lead = account.lead /\ account'.verified = account.verified
          /\ account'.coc = account.coc /\ account'.active = TRUE /\ account'.password = FALSE
      <3>1. account' = [account EXCEPT !.active = TRUE, !.password = FALSE]
        BY <1>2, Written DEF SaveUser
      <3>2. account \in Accounts
        BY DEF LeadOK
      <3>3. QED
        BY <3>1, <3>2 DEF Accounts
    <2>2. fresh' = fresh /\ command'.name = "add_leader" /\ command'.step = "coc"
      BY <1>2, Written DEF SaveUser
    <2>3. QED
      BY <2>1, <2>2 DEF LeadOK
  <1>3. CASE Acknowledge
    <2>1. account' \in Accounts /\ account'.lead = account.lead /\ account'.verified = account.verified
          /\ account'.coc = TRUE /\ account'.active = account.active /\ account'.password = account.password
      <3>1. account' = [account EXCEPT !.coc = TRUE]
        BY <1>3, Written DEF Acknowledge
      <3>2. account \in Accounts
        BY DEF LeadOK
      <3>3. QED
        BY <3>1, <3>2 DEF Accounts
    <2>2. fresh' = fresh /\ command'.name = "add_leader" /\ command'.step = "address" /\ command.step = "coc"
      BY <1>3, Written DEF Acknowledge
    <2>3. QED
      BY <2>1, <2>2 DEF LeadOK
  <1>4. CASE GetAddress
    <2>1. account' \in Accounts /\ account'.lead = account.lead /\ account'.verified = account.verified
          /\ account'.coc = account.coc /\ account'.active = account.active /\ account'.password = account.password
      <3>1. account' = [account EXCEPT !.own = TRUE]
        BY <1>4, Written DEF GetAddress
      <3>2. account \in Accounts
        BY DEF LeadOK
      <3>3. QED
        BY <3>1, <3>2 DEF Accounts
    <2>2. fresh' = fresh /\ command'.name = "add_leader" /\ command'.step = "verify" /\ command.step = "address"
      BY <1>4, Written DEF GetAddress
    <2>3. QED
      BY <2>1, <2>2 DEF LeadOK
  <1>5. CASE VerifyAddress
    <2>1. account' \in Accounts /\ account'.lead = account.lead /\ account'.verified = TRUE /\ account'.primary = TRUE
          /\ account'.coc = account.coc /\ account'.active = account.active /\ account'.password = account.password
      <3>1. account' = [account EXCEPT !.own = TRUE, !.verified = TRUE, !.primary = TRUE]
        BY <1>5, Written DEF VerifyAddress
      <3>2. account \in Accounts
        BY DEF LeadOK
      <3>3. QED
        BY <3>1, <3>2 DEF Accounts
    <2>2. fresh' = fresh /\ command'.name = "add_leader" /\ command'.step = "lead" /\ command.step = "verify"
      BY <1>5, Written DEF VerifyAddress
    <2>3. QED
      BY <2>1, <2>2 DEF LeadOK
  <1>6. CASE SaveLead
    <2>1. account' \in Accounts /\ account'.lead = TRUE /\ account'.verified = account.verified
          /\ account'.primary = account.primary
          /\ account'.coc = account.coc /\ account'.active = account.active /\ account'.password = account.password
      <3>1. account' = [account EXCEPT !.lead = TRUE]
        BY <1>6, Written DEF SaveLead
      <3>2. account \in Accounts
        BY DEF LeadOK
      <3>3. QED
        BY <3>1, <3>2 DEF Accounts
    <2>2. fresh' = fresh /\ command'.name = "none" /\ command'.step = "idle" /\ command.step = "lead"
      BY <1>6, Written DEF SaveLead
    <2>3. QED
      BY <2>1, <2>2 DEF LeadOK
  <1>7. QED
    BY <1>1, <1>2, <1>3, <1>4, <1>5, <1>6

(* The steps that do not write the account for add_leader.                 *)
LEMMA OthersKeepLead ==
    ASSUME ImportInv, LeadOK, [SeedingNext]_seedingVars,
           ~(GetUser \/ SaveUser \/ Acknowledge \/ GetAddress \/ VerifyAddress \/ SaveLead)
    PROVE  LeadOK'
  <1>1. CASE Start("import", "row") \/ Start("add_leader", "get")
    <2>1. PICK name \in {"import", "add_leader"}, step \in {"row", "get"} : Start(name, step)
      BY <1>1
    <2>2. account' = account /\ fresh' = (name = "add_leader")
          /\ command' = [name |-> name, step |-> step, at |-> 1]
      BY <2>1 DEF Start
    <2>3. account' = account /\ fresh' \in BOOLEAN /\ command'.step \in {"row", "get"}
          /\ command'.name # "none" /\ (fresh' = TRUE => command'.name # "import")
      BY <2>2
    <2>4. QED
      BY <2>3 DEF LeadOK
  <1>2. CASE GetOrCreate \/ Complete \/ ImportEnds
    <2>1. account' = account /\ fresh' = fresh /\ command.name = "import"
      BY <1>2 DEF GetOrCreate, Complete, ImportEnds, Runs
    <2>2. command'.step \in {"row", "rest", "idle"}
      <3>1. CASE GetOrCreate
        BY <3>1 DEF GetOrCreate, Runs, ImportInv, ImportOK, Command
      <3>2. CASE Complete
        <4>1. command' = NoCommand \/ command' = [command EXCEPT !.step = "row", !.at = command.at + 1]
          BY <3>2 DEF Complete, Stops
        <4>2. command \in Command
          BY DEF ImportInv, ImportOK
        <4>3. CASE command' = NoCommand
          BY <4>3 DEF NoCommand
        <4>4. CASE command' = [command EXCEPT !.step = "row", !.at = command.at + 1]
          <5>1. command' = [name |-> command.name, at |-> command.at + 1, step |-> "row"]
            BY <4>2, <4>4 DEF Command
          <5>2. QED
            BY <5>1
        <4>5. QED
          BY <4>1, <4>3, <4>4
      <3>3. CASE ImportEnds
        BY <3>3 DEF ImportEnds, Stops, NoCommand
      <3>4. QED
        BY <1>2, <3>1, <3>2, <3>3
    <2>3. QED
      BY <2>1, <2>2 DEF LeadOK
  <1>3. CASE \E i \in Seeds : Remove(i)
    BY <1>3 DEF Remove, LeadOK
  <1>4. CASE Claim \/ Demote \/ Deactivate
    <2>1. account' \in Accounts /\ account'.verified = account.verified /\ account'.coc = account.coc
          /\ (account'.lead = TRUE => account.lead = TRUE)
      BY <1>4 DEF Claim, Demote, Deactivate, Touch, LeadOK, Accounts
    <2>2. command' = command /\ fresh' = FALSE
      BY <1>4 DEF Claim, Demote, Deactivate, Touch
    <2>3. QED
      BY <2>1, <2>2 DEF LeadOK
  <1>5. CASE Kill
    <2>1. account' = account /\ fresh' = FALSE /\ command'.step = "idle"
      BY <1>5 DEF Kill, Stops, NoCommand
    <2>2. QED
      BY <2>1 DEF LeadOK
  <1>6. CASE UNCHANGED seedingVars
    BY <1>6 DEF seedingVars, LeadOK
  <1>7. QED
    BY <1>1, <1>2, <1>3, <1>4, <1>5, <1>6 DEF SeedingNext

(* add_leader makes nobody a lead before his address is verified, and a    *)
(* run of it that nobody disturbed leaves an active lead who has to claim  *)
(* the account, after any runs that were stopped anywhere.                 *)
THEOREM AddedLeadersGetIn == SeedingSpec => []LeadersGetIn
  <1>1. LeadOK /\ ImportInv /\ [SeedingNext]_seedingVars => LeadOK'
    BY AddLeader, OthersKeepLead
  <1>2. LeadOK => LeadersGetIn
    BY DEF LeadOK, LeadersGetIn, NoCommand, Accounts
  <1>3. QED
    BY <1>1, <1>2, ImportInitInv, ImportNextInv, LeadInitOK, PTL DEF SeedingSpec

-----------------------------------------------------------------------------
(* Proposals.                                                              *)

DeskRows == [step: {"idle", "review", "set", "mail"}, by: {"nobody"} \cup Reviewers,
             seen: Statuses, want: Statuses, chosen: BOOLEAN]

Mailing(d) == desk[d].step = "mail"

IsRow(p) == p.there \in BOOLEAN /\ (p.there = TRUE => p \in ProposalRows)

(* A request that is to set a status was told to by the lead, or loaded a  *)
(* proposal that nobody had looked at.                                     *)
DeskOK ==
    /\ desk \in [Desks -> DeskRows]
    /\ \A d \in Desks : desk[d].step = "set" => desk[d].chosen = TRUE \/ desk[d].seen = "submitted"

(* While no requests crossed, one mail at most is under way, and it has    *)
(* the status of the proposal.                                             *)
MailOK ==
    /\ IsRow(proposal) /\ IsRow(draft)
    /\ crossed \in BOOLEAN /\ lost \in BOOLEAN
    /\ proposal.there = FALSE =>
         told = "submitted" /\ draft.there = FALSE /\ crossed = FALSE /\ \A d \in Desks : desk[d].step = "idle"
    /\ crossed = FALSE => \A d, e \in Desks : Mailing(d) /\ Mailing(e) => d = e
    /\ crossed = FALSE => \A d \in Desks : Mailing(d) => desk[d].want = proposal.status
    /\ proposal.there = TRUE /\ crossed = FALSE /\ lost = FALSE =>
         /\ LeadsOf[proposal.chapter] \subseteq noticed
         /\ (\A d \in Desks : ~Mailing(d)) => told = proposal.status

ProposalInv == DeskOK /\ MailOK

LEMMA ProposalInitInv == ProposalInit => ProposalInv
  <1> SUFFICES ASSUME ProposalInit PROVE ProposalInv
    OBVIOUS
  <1>1. Away \in DeskRows /\ Away.step = "idle"
    BY DEF Away, DeskRows, Statuses
  <1>2. desk \in [Desks -> DeskRows] /\ \A d \in Desks : desk[d].step = "idle"
    BY <1>1 DEF ProposalInit
  <1>3. DeskOK
    BY <1>2 DEF DeskOK
  <1>4. proposal.there = FALSE /\ draft.there = FALSE /\ crossed = FALSE /\ lost = FALSE /\ told = "submitted"
    BY DEF ProposalInit, NoProposal
  <1>5. MailOK
    BY <1>2, <1>4 DEF MailOK, Mailing, IsRow
  <1>6. QED
    BY <1>3, <1>5 DEF ProposalInv

LEMMA NewProposal == ASSUME ProposalInv, proposal_new PROVE ProposalInv'
  <1>1. PICK c \in Chapters, sent \in BOOLEAN :
           /\ proposal' = [there |-> TRUE, chapter |-> c, status |-> "submitted"]
           /\ noticed' = IF sent THEN LeadsOf[c] ELSE {}
           /\ lost' = ~sent
    BY DEF proposal_new
  <1>2. desk' = desk /\ told' = told /\ draft' = draft /\ crossed' = crossed /\ proposal.there = FALSE
    BY DEF proposal_new, ProposalInv, MailOK, IsRow
  <1>3. proposal'.there = TRUE /\ proposal'.chapter = c /\ proposal'.status = "submitted" /\ IsRow(proposal)'
    BY <1>1 DEF IsRow, ProposalRows, Statuses
  <1>4. lost' \in BOOLEAN /\ (lost' = FALSE => noticed' = LeadsOf[c])
    BY <1>1
  <1>5. DeskOK'
    BY <1>2 DEF ProposalInv, DeskOK
  <1>6. MailOK'
    BY <1>2, <1>3, <1>4 DEF ProposalInv, MailOK, Mailing, IsRow
  <1>7. QED
    BY <1>5, <1>6 DEF ProposalInv

LEMMA EditProposal == ASSUME ProposalInv, proposal_edit \/ SaveEdit PROVE ProposalInv'
  <1>1. desk' = desk /\ told' = told /\ noticed' = noticed
    BY DEF proposal_edit, SaveEdit
  <1>2. DeskOK'
    BY <1>1 DEF ProposalInv, DeskOK
  <1>3. CASE proposal_edit
    <2>1. proposal' = proposal /\ crossed' = crossed /\ lost' = lost /\ proposal.there = TRUE
      BY <1>3 DEF proposal_edit, ProposalInv, MailOK, IsRow
    <2>2. PICK c \in Chapters : draft' = [proposal EXCEPT !.chapter = c]
      BY <1>3 DEF proposal_edit
    <2>3. proposal \in ProposalRows
      BY <2>1 DEF ProposalInv, MailOK, IsRow
    <2>4. IsRow(draft)'
      BY <2>2, <2>3 DEF IsRow, ProposalRows
    <2>5. QED
      BY <1>1, <1>2, <2>1, <2>4 DEF ProposalInv, MailOK, Mailing, IsRow
  <1>4. CASE SaveEdit
    <2>1. draft.there = TRUE /\ proposal' = draft /\ draft'.there = FALSE
      BY <1>4 DEF SaveEdit, NoProposal, ProposalInv, MailOK, IsRow
    <2>2. crossed' \in BOOLEAN /\ (crossed' = FALSE => crossed = FALSE /\ draft.status = proposal.status)
      BY <1>4 DEF SaveEdit, ProposalInv, MailOK
    <2>3. lost' \in BOOLEAN /\ (lost' = FALSE => lost = FALSE /\ draft.chapter = proposal.chapter)
      BY <1>4 DEF SaveEdit, ProposalInv, MailOK
    <2>4. proposal.there = TRUE
      BY <2>1 DEF ProposalInv, MailOK, IsRow
    <2>5. IsRow(proposal)' /\ IsRow(draft)'
      BY <2>1 DEF ProposalInv, MailOK, IsRow
    <2>6. QED
      BY <1>1, <1>2, <2>1, <2>2, <2>3, <2>4, <2>5 DEF ProposalInv, MailOK, Mailing
  <1>5. QED
    BY <1>3, <1>4

(* A request of a lead that writes neither the status nor a mail.          *)
LEMMA DeskStep ==
    ASSUME ProposalInv, NEW d \in Desks, NEW row \in DeskRows, row.step # "mail",
           row.step = "set" => row.chosen = TRUE \/ row.seen = "submitted",
           desk[d].step # "mail", proposal.there = TRUE,
           desk' = [desk EXCEPT ![d] = row],
           UNCHANGED <<proposal, noticed, told, draft, crossed, lost>>
    PROVE  ProposalInv'
  <1>1. desk' \in [Desks -> DeskRows] /\ desk'[d] = row /\ \A e \in Desks : e # d => desk'[e] = desk[e]
    BY DEF ProposalInv, DeskOK
  <1>2. DeskOK'
    BY <1>1 DEF ProposalInv, DeskOK
  <1>3. \A e \in Desks : /\ Mailing(e)' <=> Mailing(e)
                         /\ Mailing(e) => desk'[e] = desk[e]
    BY <1>1 DEF Mailing
  <1> HIDE DEF Mailing
  <1>4. MailOK'
    BY <1>3 DEF ProposalInv, MailOK, IsRow
  <1>5. QED
    BY <1>2, <1>4 DEF ProposalInv

LEMMA OpenDesk ==
    ASSUME ProposalInv, NEW d \in Desks, NEW l \in Reviewers, OpenReview(d, l) \/ OpenStatus(d, l)
    PROVE  ProposalInv'
  <1>1. PICK step \in {"review", "set"}, want \in Statuses : Sits(d, l, step, want)
    BY DEF OpenReview, OpenStatus, Statuses
  <1> DEFINE row == [step |-> step, by |-> l, seen |-> proposal.status, want |-> want, chosen |-> step = "set"]
  <1>2. proposal.status \in Statuses
    BY <1>1 DEF Sits, ProposalInv, MailOK, IsRow, ProposalRows
  <1>6. row \in DeskRows /\ row.step = step /\ (step = "set" => row.chosen = TRUE)
    BY <1>2 DEF DeskRows
  <1>3. desk' = [desk EXCEPT ![d] = row] /\ desk[d] = Away /\ proposal.there = TRUE
    BY <1>1 DEF Sits, ProposalInv, MailOK, IsRow
  <1>4. desk[d].step # "mail"
    BY <1>3 DEF Away
  <1>5. UNCHANGED <<proposal, noticed, told, draft, crossed, lost>>
    BY <1>1 DEF Sits
  <1> HIDE DEF row
  <1>7. QED
    BY <1>3, <1>4, <1>5, <1>6, DeskStep

LEMMA ReviewDesk == ASSUME ProposalInv, NEW d \in Desks, Review(d) PROVE ProposalInv'
  <1> DEFINE row == IF desk[d].seen = "submitted" THEN [desk[d] EXCEPT !.step = "set"] ELSE Away
  <1>1. desk' = [desk EXCEPT ![d] = row] /\ desk[d].step = "review"
    BY DEF Review
  <1>2. proposal.there = TRUE
    BY <1>1 DEF ProposalInv, MailOK, IsRow
  <1>3. desk[d] \in DeskRows
    BY DEF ProposalInv, DeskOK
  <1>4. row \in DeskRows /\ row.step # "mail" /\ (row.step = "set" => row.seen = "submitted")
    <2>1. CASE desk[d].seen = "submitted"
      BY <1>3, <2>1 DEF DeskRows
    <2>2. CASE desk[d].seen # "submitted"
      BY <2>2 DEF DeskRows, Away, Statuses
    <2>3. QED
      BY <2>1, <2>2
  <1>5. UNCHANGED <<proposal, noticed, told, draft, crossed, lost>>
    BY DEF Review
  <1> HIDE DEF row
  <1>6. QED
    BY <1>1, <1>2, <1>4, <1>5, DeskStep

LEMMA SetDesk == ASSUME ProposalInv, NEW d \in Desks, SetStatus(d) PROVE ProposalInv'
  <1>1. desk' = [desk EXCEPT ![d].step = "mail"] /\ desk[d].step = "set"
    BY DEF SetStatus
  <1>2. desk[d] \in DeskRows /\ desk \in [Desks -> DeskRows]
    BY DEF ProposalInv, DeskOK
  <1>3. desk' \in [Desks -> DeskRows] /\ desk'[d].step = "mail" /\ desk'[d].want = desk[d].want
        /\ \A e \in Desks : e # d => desk'[e] = desk[e]
    BY <1>1, <1>2 DEF DeskRows
  <1>4. DeskOK'
    BY <1>3 DEF ProposalInv, DeskOK
  <1>5. proposal.there = TRUE /\ proposal \in ProposalRows /\ desk[d].want \in Statuses
    BY <1>1, <1>2 DEF ProposalInv, MailOK, IsRow, DeskRows
  <1>6. proposal' = [proposal EXCEPT !.status = desk[d].want]
    BY DEF SetStatus
  <1>7. proposal'.there = TRUE /\ proposal'.chapter = proposal.chapter /\ proposal'.status = desk[d].want
        /\ IsRow(proposal)'
    BY <1>5, <1>6 DEF IsRow, ProposalRows
  <1>8. UNCHANGED <<noticed, told, draft, lost>>
    BY DEF SetStatus
  <1>9. crossed' \in BOOLEAN /\ (crossed' = FALSE => crossed = FALSE /\ \A e \in Desks : ~Mailing(e))
    BY DEF SetStatus, Overtaken, Mailing, ProposalInv, MailOK
  <1>10. MailOK'
    BY <1>3, <1>5, <1>7, <1>8, <1>9 DEF ProposalInv, MailOK, Mailing, IsRow
  <1>11. QED
    BY <1>4, <1>10 DEF ProposalInv

LEMMA MailDesk == ASSUME ProposalInv, NEW d \in Desks, MailProposer(d) PROVE ProposalInv'
  <1>1. desk' = [desk EXCEPT ![d] = Away] /\ desk[d].step = "mail"
    BY DEF MailProposer
  <1>2. Away \in DeskRows /\ Away.step = "idle"
    BY DEF Away, DeskRows, Statuses
  <1>3. desk' \in [Desks -> DeskRows] /\ desk'[d].step = "idle"
        /\ \A e \in Desks : e # d => desk'[e] = desk[e]
    BY <1>1, <1>2 DEF ProposalInv, DeskOK
  <1>4. DeskOK'
    BY <1>3 DEF ProposalInv, DeskOK
  <1>5. UNCHANGED <<proposal, noticed, draft, crossed>> /\ proposal.there = TRUE
    BY <1>1 DEF MailProposer, ProposalInv, MailOK, IsRow
  <1>6. lost' \in BOOLEAN /\ (lost' = FALSE => lost = FALSE /\ told' = desk[d].want)
    BY DEF MailProposer, ProposalInv, MailOK
  <1>7. crossed = FALSE => desk[d].want = proposal.status
    BY <1>1 DEF ProposalInv, MailOK, Mailing
  <1>8. MailOK'
    BY <1>3, <1>5, <1>6, <1>7 DEF ProposalInv, MailOK, Mailing, IsRow
  <1>9. QED
    BY <1>4, <1>8 DEF ProposalInv

LEMMA ProposalNextInv == ProposalInv /\ [ProposalNext]_proposalVars => ProposalInv'
  <1> SUFFICES ASSUME ProposalInv, [ProposalNext]_proposalVars PROVE ProposalInv'
    OBVIOUS
  <1>1. CASE proposal_new
    BY <1>1, NewProposal
  <1>2. CASE proposal_edit \/ SaveEdit
    BY <1>2, EditProposal
  <1>3. CASE \E d \in Desks, l \in Reviewers : OpenReview(d, l) \/ OpenStatus(d, l)
    BY <1>3, OpenDesk
  <1>4. CASE \E d \in Desks : Review(d) \/ SetStatus(d) \/ MailProposer(d)
    BY <1>4, ReviewDesk, SetDesk, MailDesk
  <1>5. CASE UNCHANGED proposalVars
    BY <1>5 DEF proposalVars, ProposalInv, DeskOK, MailOK, Mailing, IsRow
  <1>6. QED
    BY <1>1, <1>2, <1>3, <1>4, <1>5 DEF ProposalNext

(* The proposer's last mail has the status of the proposal, and the leads  *)
(* of its chapter were told of it, unless requests crossed or a mail was   *)
(* lost (SessionProposal.set_status and the signal of its first save).     *)
THEOREM ProposersAreTold == ProposalSpec => []ProposerIsTold
  <1>1. ProposalInv => ProposerIsTold
    BY DEF ProposalInv, MailOK, ProposerIsTold, Mailing, IsRow
  <1>2. QED
    BY <1>1, ProposalInitInv, ProposalNextInv, PTL DEF ProposalSpec

(* A decision is taken back by a lead who chooses another status, or from  *)
(* a copy that was loaded before it, and by nothing else (proposal_review, *)
(* proposal_edit).                                                         *)
THEOREM DecisionsAreKept == ProposalSpec => DecisionsStand
  <1>1. ProposalInv /\ [ProposalNext]_proposalVars =>
          [proposal.there /\ proposal.status \in Decisions /\ proposal'.status # proposal.status =>
             \/ \E d \in Desks : /\ desk[d].step = "set" /\ desk[d].want = proposal'.status
                                 /\ desk[d].chosen \/ desk[d].seen \notin Decisions
             \/ draft.there /\ draft.status = proposal'.status]_proposalVars
    <2> SUFFICES ASSUME ProposalInv, ProposalNext,
                        proposal.there, proposal.status \in Decisions, proposal'.status # proposal.status
                 PROVE  \/ \E d \in Desks : /\ desk[d].step = "set" /\ desk[d].want = proposal'.status
                                            /\ desk[d].chosen \/ desk[d].seen \notin Decisions
                        \/ draft.there /\ draft.status = proposal'.status
      OBVIOUS
    <2>1. CASE proposal_new
      BY <2>1 DEF proposal_new
    <2>2. CASE SaveEdit
      BY <2>2 DEF SaveEdit
    <2>3. CASE \E d \in Desks : SetStatus(d)
      <3>1. PICK d \in Desks : SetStatus(d)
        BY <2>3
      <3>2. desk[d].step = "set" /\ proposal' = [proposal EXCEPT !.status = desk[d].want]
        BY <3>1 DEF SetStatus
      <3>3. proposal \in ProposalRows
        BY DEF ProposalInv, MailOK, IsRow
      <3>4. proposal'.status = desk[d].want
        BY <3>2, <3>3 DEF ProposalRows
      <3>5. desk[d].chosen = TRUE \/ desk[d].seen \notin Decisions
        BY <3>2 DEF ProposalInv, DeskOK, Decisions
      <3>6. QED
        BY <3>2, <3>4, <3>5
    <2>4. CASE \/ proposal_edit
               \/ \E d \in Desks, l \in Reviewers : OpenReview(d, l) \/ OpenStatus(d, l)
               \/ \E d \in Desks : Review(d) \/ MailProposer(d)
      BY <2>4 DEF proposal_edit, OpenReview, OpenStatus, Sits, Review, MailProposer
    <2>5. QED
      BY <2>1, <2>2, <2>3, <2>4 DEF ProposalNext
  <1>2. QED
    BY <1>1, ProposalInitInv, ProposalNextInv, PTL DEF ProposalSpec, DecisionsStand

-----------------------------------------------------------------------------
(* SpeakerSlots.                                                           *)

(* While no copy was saved over an answer and no slot handed on after one, *)
(* whoever answered is the speaker, and an answer under way is his.        *)
Answered ==
    ~mixed /\ ~handed =>
        /\ slot.confirmed = TRUE => slot.user \in yes
        /\ slot.confirmed = FALSE => yes = {}
        /\ \A u \in Speakers : answer[u].there =>
             slot.user = u /\ (answer[u].confirmed = TRUE => slot.confirmed = TRUE)

(* While no edits overlapped, the one between its two statements is the    *)
(* last; when there is none, its co-speakers are credited.                 *)
Credits ==
    ~mixed =>
        /\ \A p \in Editors : edit[p].step = "credit" => edit[p].co = given.co
        /\ (\A p \in Editors : edit[p].step # "credit") => credited = given.co

SlotInv ==
    /\ SlotTypeOK
    /\ ~slot.there => /\ yes = {}
                      /\ edit = [p \in Editors |-> NoEdit]
                      /\ answer = [u \in Speakers |-> NoSlot]
    /\ slot.there => given \in EditForms /\ slot.user = given.copy.user /\ Answered /\ Credits

(* What the type invariant says of rows, copies and forms.                 *)
LEMMA SlotTypes ==
    ASSUME SlotTypeOK
    PROVE  /\ slot.there \in BOOLEAN
           /\ slot.there => slot \in SlotRows
           /\ \A u \in Speakers : answer[u].there \in BOOLEAN /\ (answer[u].there => answer[u] \in SlotRows)
           /\ \A p \in Editors : /\ edit[p].step \in {"idle", "save", "credit"}
                                 /\ edit[p].step # "idle" => edit[p] \in EditForms
                                 /\ edit[p].step = "idle" => edit[p] = NoEdit
  <1>1. /\ NoSlot.there = FALSE
        /\ \A r \in SlotRows : r.there = TRUE
    BY DEF NoSlot, SlotRows
  <1>2. NoEdit.step = "idle" /\ \A f \in EditForms : f.step \in {"save", "credit"}
    BY DEF NoEdit, EditForms
  <1>3. slot \in {NoSlot} \cup SlotRows
    BY DEF SlotTypeOK
  <1>4. \A u \in Speakers : answer[u] \in {NoSlot} \cup SlotRows
    BY DEF SlotTypeOK
  <1>5. \A p \in Editors : edit[p] \in {NoEdit} \cup EditForms
    BY DEF SlotTypeOK
  <1>6. slot.there \in BOOLEAN /\ (slot.there => slot \in SlotRows)
    BY <1>1, <1>3
  <1>7. \A u \in Speakers : answer[u].there \in BOOLEAN /\ (answer[u].there => answer[u] \in SlotRows)
    BY <1>1, <1>4
  <1>8. \A p \in Editors : /\ edit[p].step \in {"idle", "save", "credit"}
                           /\ edit[p].step # "idle" => edit[p] \in EditForms
                           /\ edit[p].step = "idle" => edit[p] = NoEdit
    BY <1>2, <1>5
  <1>9. QED
    BY <1>6, <1>7, <1>8

LEMMA SlotInitInv == SlotInit => SlotInv
  <1> SUFFICES ASSUME SlotInit PROVE SlotInv
    OBVIOUS
  <1>1. SlotTypeOK
    <2>1. edits \in 0..MaxEdits
      BY SlotConstants DEF SlotInit
    <2>2. edit \in [Editors -> {NoEdit} \cup EditForms] /\ answer \in [Speakers -> {NoSlot} \cup SlotRows]
      BY DEF SlotInit
    <2>3. QED
      BY <2>1, <2>2 DEF SlotInit, SlotTypeOK
  <1>2. slot.there = FALSE
    BY DEF SlotInit, NoSlot
  <1>3. QED
    BY <1>1, <1>2 DEF SlotInit, SlotInv

LEMMA NewSlot == ASSUME SlotInv, NEW p \in Editors, slot_new(p) PROVE SlotInv'
  <1>1. PICK u \in Speakers, co \in SUBSET Speakers :
           LET form == [step |-> "credit", copy |-> [there |-> TRUE, user |-> u, confirmed |-> FALSE], co |-> co]
           IN  slot' = form.copy /\ edit' = [edit EXCEPT ![p] = form] /\ given' = form
    BY DEF slot_new
  <1> DEFINE form == [step |-> "credit", copy |-> [there |-> TRUE, user |-> u, confirmed |-> FALSE], co |-> co]
  <1>2. /\ slot' = form.copy /\ given' = form /\ form \in EditForms
        /\ edit' = [q \in Editors |-> IF q = p THEN form ELSE NoEdit]
        /\ yes' = {} /\ answer' = [v \in Speakers |-> NoSlot]
    BY <1>1 DEF SlotInv, slot_new, EditForms, SlotRows
  <1>3. SlotTypeOK'
    <2>1. slot' \in SlotRows
      BY <1>2 DEF EditForms
    <2>2. edit' \in [Editors -> {NoEdit} \cup EditForms] /\ answer' \in [Speakers -> {NoSlot} \cup SlotRows]
      BY <1>2
    <2>3. edits' \in 0..MaxEdits
      BY SlotConstants DEF SlotInv, SlotTypeOK, slot_new, Submits
    <2>4. credited' \subseteq Speakers /\ yes' \subseteq Speakers /\ handed' \in BOOLEAN /\ mixed' \in BOOLEAN
      BY DEF SlotInv, SlotTypeOK, slot_new
    <2>5. QED
      BY <1>2, <2>1, <2>2, <2>3, <2>4 DEF SlotTypeOK
  <1>4. Answered' /\ Credits'
    BY <1>2 DEF Answered, Credits, NoSlot, NoEdit
  <1>5. QED
    BY <1>2, <1>3, <1>4 DEF SlotInv

LEMMA EditSlot == ASSUME SlotInv, NEW p \in Editors, slot_edit(p) PROVE SlotInv'
  <1>1. PICK u \in Speakers, co \in SUBSET Speakers :
           edit' = [edit EXCEPT ![p] = [step |-> "save", copy |-> [slot EXCEPT !.user = u], co |-> co]]
    BY DEF slot_edit
  <1>2. slot \in SlotRows
    BY SlotTypes DEF slot_edit, SlotInv
  <1> DEFINE form == [step |-> "save", copy |-> [slot EXCEPT !.user = u], co |-> co]
  <1>3. form \in EditForms
    BY <1>2 DEF EditForms, SlotRows
  <1>4. edit[p] = NoEdit /\ edit' = [edit EXCEPT ![p] = form]
    BY <1>1 DEF slot_edit, Submits
  <1>5. SlotTypeOK'
    BY <1>3, <1>4, SlotConstants DEF SlotInv, SlotTypeOK, slot_edit, Submits
  <1>6. Answered' /\ Credits'
    BY <1>4 DEF SlotInv, SlotTypeOK, Answered, Credits, slot_edit, NoEdit
  <1>7. QED
    BY <1>5, <1>6 DEF SlotInv, slot_edit

LEMMA SaveSlotStep == ASSUME SlotInv, NEW p \in Editors, SaveSlot(p) PROVE SlotInv'
  <1>1. slot.there /\ slot \in SlotRows /\ edit[p] \in EditForms
    BY SlotTypes DEF SlotInv, SaveSlot, NoEdit
  <1>2. slot' = edit[p].copy /\ slot' \in SlotRows /\ slot'.there /\ given' = edit[p]
    BY <1>1 DEF SaveSlot, EditForms, SlotRows
  <1> DEFINE form == [edit[p] EXCEPT !.step = "credit"]
  <1>3. edit' = [edit EXCEPT ![p] = form] /\ form \in EditForms /\ form.co = edit[p].co /\ form.step = "credit"
    BY <1>1 DEF SaveSlot, EditForms
  <1>4. SlotTypeOK'
    BY <1>1, <1>2, <1>3, SlotConstants DEF SlotInv, SlotTypeOK, SaveSlot
  <1>5. Answered'
    <2>1. SUFFICES ASSUME ~mixed', ~handed' PROVE Answered'
      BY DEF Answered
    <2>2. ~mixed /\ ~handed /\ slot.confirmed = slot'.confirmed
      BY <1>2, <2>1 DEF SaveSlot
    <2>3. slot.user = slot'.user \/ (slot.confirmed = FALSE /\ \A u \in Speakers : ~answer[u].there)
      BY <1>1, <1>2, <2>1 DEF SaveSlot, SlotRows
    <2>4. Answered
      BY <1>1 DEF SlotInv
    <2>5. QED
      BY <1>1, <2>2, <2>3, <2>4 DEF Answered, SaveSlot, SlotRows
  <1>6. Credits'
    <2>1. SUFFICES ASSUME ~mixed' PROVE Credits'
      BY DEF Credits
    <2>2. \A q \in Editors : edit[q].step # "credit"
      BY <2>1 DEF SaveSlot
    <2>3. \A q \in Editors : edit'[q] = IF q = p THEN form ELSE edit[q]
      BY <1>3 DEF SlotInv, SlotTypeOK
    <2>4. QED
      BY <1>2, <1>3, <2>2, <2>3 DEF Credits
  <1>7. QED
    BY <1>1, <1>2, <1>4, <1>5, <1>6 DEF SlotInv

LEMMA CreditStep ==
    ASSUME SlotInv, NEW p \in Editors, SetCredits(p) \/ EditDies(p) PROVE SlotInv'
  <1>1. edit[p].step = "credit" /\ edit' = [edit EXCEPT ![p] = NoEdit] /\ slot.there /\ edit[p] \in EditForms
    BY SlotTypes DEF SlotInv, SetCredits, EditDies, NoEdit
  <1>2. UNCHANGED <<slot, answer, edits, given, yes, handed>> /\ (~mixed' => ~mixed)
    BY DEF SetCredits, EditDies
  <1>3. SlotTypeOK'
    BY <1>1, <1>2 DEF SlotInv, SlotTypeOK, SetCredits, EditDies, EditForms
  <1>4. Answered'
    BY <1>1, <1>2 DEF SlotInv, Answered
  <1>5. Credits'
    BY <1>1, <1>2 DEF SlotInv, SlotTypeOK, Credits, SetCredits, EditDies, NoEdit
  <1>6. QED
    BY <1>1, <1>2, <1>3, <1>4, <1>5 DEF SlotInv

LEMMA AskSpeaker == ASSUME SlotInv, NEW u \in Speakers, session_confirm(u) PROVE SlotInv'
  <1>1. slot \in SlotRows /\ slot.there /\ slot.user = u
    BY SlotTypes DEF SlotInv, session_confirm
  <1>2. answer' = [answer EXCEPT ![u] = slot]
        /\ UNCHANGED <<slot, credited, edit, edits, given, yes, handed, mixed>>
    BY DEF session_confirm
  <1>3. SlotTypeOK'
    BY <1>1, <1>2 DEF SlotInv, SlotTypeOK
  <1>4. Answered' /\ Credits'
    BY <1>1, <1>2 DEF SlotInv, SlotTypeOK, Answered, Credits
  <1>5. QED
    BY <1>1, <1>2, <1>3, <1>4 DEF SlotInv

LEMMA SpeakerConfirms == ASSUME SlotInv, NEW u \in Speakers, confirm_speaker(u) PROVE SlotInv'
  <1>1. slot.there /\ slot \in SlotRows /\ answer[u] \in SlotRows
    BY SlotTypes DEF SlotInv, confirm_speaker, NoSlot
  <1>2. /\ slot' = [slot EXCEPT !.confirmed = slot.confirmed \/ ~answer[u].confirmed]
        /\ yes' = yes \cup {u}
        /\ answer' = [answer EXCEPT ![u] = NoSlot]
        /\ UNCHANGED <<credited, edit, edits, given, handed, mixed>>
    BY DEF confirm_speaker
  <1>3. slot' \in SlotRows /\ slot'.there /\ slot'.user = slot.user
    BY <1>1, <1>2 DEF SlotRows
  <1>4. SlotTypeOK'
    BY <1>2, <1>3 DEF SlotInv, SlotTypeOK
  <1>5. Answered'
    <2>1. SUFFICES ASSUME ~mixed, ~handed PROVE Answered'
      BY <1>2 DEF Answered
    <2>2. slot.user = u /\ (answer[u].confirmed = TRUE => slot.confirmed = TRUE)
      BY <1>1, <2>1 DEF SlotInv, Answered, confirm_speaker
    <2>3. slot'.confirmed = TRUE
      BY <1>1, <1>2, <2>2 DEF SlotRows
    <2>4. \A v \in Speakers : answer'[v].there => v # u /\ answer'[v] = answer[v]
      BY <1>2 DEF SlotInv, SlotTypeOK, NoSlot
    <2>5. QED
      BY <1>1, <1>2, <1>3, <2>1, <2>2, <2>3, <2>4 DEF SlotInv, Answered
  <1>6. Credits'
    BY <1>1, <1>2 DEF SlotInv, Credits
  <1>7. QED
    BY <1>1, <1>2, <1>3, <1>4, <1>5, <1>6 DEF SlotInv

LEMMA SlotNextInv == SlotInv /\ [SlotNext]_slotVars => SlotInv'
  <1> SUFFICES ASSUME SlotInv, [SlotNext]_slotVars PROVE SlotInv'
    OBVIOUS
  <1>1. ASSUME NEW p \in Editors, slot_new(p) PROVE SlotInv'
    BY <1>1, NewSlot
  <1>2. ASSUME NEW p \in Editors, slot_edit(p) PROVE SlotInv'
    BY <1>2, EditSlot
  <1>3. ASSUME NEW p \in Editors, SaveSlot(p) PROVE SlotInv'
    BY <1>3, SaveSlotStep
  <1>4. ASSUME NEW p \in Editors, SetCredits(p) \/ EditDies(p) PROVE SlotInv'
    BY <1>4, CreditStep
  <1>5. ASSUME NEW u \in Speakers, session_confirm(u) PROVE SlotInv'
    BY <1>5, AskSpeaker
  <1>6. ASSUME NEW u \in Speakers, confirm_speaker(u) PROVE SlotInv'
    BY <1>6, SpeakerConfirms
  <1>7. CASE UNCHANGED slotVars
    BY <1>7 DEF SlotInv, SlotTypeOK, Answered, Credits, slotVars
  <1>8. QED
    BY <1>1, <1>2, <1>3, <1>4, <1>5, <1>6, <1>7 DEF SlotNext

(* The leads' lists read "Confirmed" for the member who confirmed, unless  *)
(* a lead handed the slot on or saved an older copy (events/models.py:359, *)
(* leads/views.py:147), and the co-speakers are of the form that named the *)
(* speaker, for any number of members and of leads' requests.              *)
THEOREM ConfirmedSlotsAreTrue == SlotSpec => []SlotsAreTrue
  <1>1. SlotInv => SlotsAreTrue
    <2> SUFFICES ASSUME SlotInv, slot.there PROVE SlotsAreTrue
      BY DEF SlotsAreTrue, SlotInv
    <2>1. slot \in SlotRows /\ slot.user = given.copy.user /\ Answered /\ Credits
      BY SlotTypes DEF SlotInv
    <2>2. QED
      BY <2>1 DEF SlotsAreTrue, Answered, Credits, SlotRows
  <1>2. QED
    BY SlotInitInv, SlotNextInv, <1>1, PTL DEF SlotSpec

-----------------------------------------------------------------------------
(* The parts side by side (MCCommunity): what the theorems say of each     *)
(* part they say of the composition that TLC runs.                         *)

(* Every behaviour of the composition is one of each part: none of them    *)
(* writes what another one keeps.                                          *)
THEOREM CommunityRunsItsParts ==
    CommunitySpec => /\ ProgrammeSpec /\ MemberSpec /\ ReactionSpec /\ ProposalSpec
                     /\ TwoFactorSpec /\ SiteSpec /\ SeedingSpec /\ SlotSpec
  <1>1. CommunityInit => /\ ProgrammeInit /\ MemberInit /\ ReactionInit /\ ProposalInit
                         /\ TwoFactorInit /\ SiteInit /\ SeedingInit /\ SlotInit
    BY DEF CommunityInit
  <1>2. [CommunityNext]_<<part, parts>> =>
           /\ [ProgrammeNext]_programmeVars /\ [MemberNext]_memberVars
           /\ [ReactionNext]_reactionVars /\ [ProposalNext]_proposalVars
           /\ [TwoFactorNext]_twoFactorVars /\ [SiteNext]_siteVars
           /\ [SeedingNext]_seedingVars /\ [SlotNext]_slotVars
    BY DEF CommunityNext, parts
  <1>3. QED
    BY <1>1, <1>2, PTL DEF CommunitySpec, ProgrammeSpec, MemberSpec, ReactionSpec, ProposalSpec, TwoFactorSpec,
                           SiteSpec, SeedingSpec, SlotSpec

(* What the invariants above leave out of the types.                       *)
ProposalRest ==
    /\ proposal \in {NoProposal} \cup ProposalRows /\ draft \in {NoProposal} \cup ProposalRows
    /\ reviews \subseteq Reviewers /\ noticed \subseteq Reviewers
    /\ told \in Statuses /\ moves \in 0..MaxMoves
    /\ \A d \in Desks : desk[d].step = "review" => desk[d].by \in Reviewers

LEMMA ProposalRestInit == ProposalInit => ProposalRest
  <1> SUFFICES ASSUME ProposalInit PROVE ProposalRest
    OBVIOUS
  <1>1. \A d \in Desks : desk[d] = Away
    BY DEF ProposalInit
  <1>2. Away.step = "idle"
    BY DEF Away
  <1>3. moves \in 0..MaxMoves
    BY ProposalConstants DEF ProposalInit
  <1>4. QED
    BY <1>1, <1>2, <1>3 DEF ProposalInit, ProposalRest, Statuses

LEMMA ProposalRestNext == ProposalInv /\ ProposalRest /\ [ProposalNext]_proposalVars => ProposalRest'
  <1> SUFFICES ASSUME ProposalInv, ProposalRest, [ProposalNext]_proposalVars PROVE ProposalRest'
    OBVIOUS
  <1>0. /\ NoProposal.there = FALSE
        /\ \A row \in {NoProposal} \cup ProposalRows : row.there => row \in ProposalRows
    BY DEF NoProposal
  <1>1. desk \in [Desks -> DeskRows] /\ Away.step = "idle"
    BY DEF ProposalInv, DeskOK, Away
  <1>2. ASSUME Moves
        PROVE  moves' \in 0..MaxMoves
    BY <1>2, ProposalConstants DEF Moves, ProposalRest
  <1>3. CASE proposal_new
    <2>1. PICK c \in Chapters, sent \in BOOLEAN :
             /\ proposal' = [there |-> TRUE, chapter |-> c, status |-> "submitted"]
             /\ noticed' = IF sent THEN LeadsOf[c] ELSE {}
      BY <1>3 DEF proposal_new
    <2>2. proposal' \in ProposalRows /\ noticed' \subseteq Reviewers
      BY <2>1, ProposalConstants DEF ProposalRows, Statuses
    <2>3. QED
      BY <1>3, <2>2 DEF proposal_new, ProposalRest
  <1>4. CASE proposal_edit
    <2>1. proposal \in ProposalRows
      BY <1>0, <1>4 DEF proposal_edit, ProposalRest
    <2>2. PICK c \in Chapters : draft' = [proposal EXCEPT !.chapter = c]
      BY <1>4 DEF proposal_edit
    <2>3. draft' \in ProposalRows
      BY <2>1, <2>2 DEF ProposalRows
    <2>4. moves' \in 0..MaxMoves
      BY <1>2, <1>4 DEF proposal_edit
    <2>5. QED
      BY <1>4, <2>3, <2>4 DEF proposal_edit, ProposalRest
  <1>5. CASE SaveEdit
    BY <1>5 DEF SaveEdit, ProposalRest
  <1>6. ASSUME NEW d \in Desks, NEW l \in Reviewers, OpenReview(d, l) \/ OpenStatus(d, l)
        PROVE  ProposalRest'
    <2>1. PICK step \in {"review", "set"}, want \in Statuses : Sits(d, l, step, want)
      BY <1>6 DEF OpenReview, OpenStatus, Statuses
    <2>2. moves' \in 0..MaxMoves
      BY <1>2, <2>1 DEF Sits
    <2>3. PICK row : row = [step |-> step, by |-> l, seen |-> proposal.status, want |-> want, chosen |-> step = "set"]
      OBVIOUS
    <2>4. row.by = l /\ desk' = [desk EXCEPT ![d] = row]
      BY <2>1, <2>3 DEF Sits
    <2>5. \A e \in Desks : desk'[e].step = "review" => desk'[e].by \in Reviewers
      BY <1>1, <2>4 DEF ProposalRest
    <2>6. QED
      BY <2>1, <2>2, <2>5 DEF Sits, ProposalRest
  <1>7. ASSUME NEW d \in Desks, Review(d)
        PROVE  ProposalRest'
    <2>1. PICK row : row = IF desk[d].seen = "submitted" THEN [desk[d] EXCEPT !.step = "set"] ELSE Away
      OBVIOUS
    <2>2. row.step # "review" /\ desk' = [desk EXCEPT ![d] = row]
      <3>1. [desk[d] EXCEPT !.step = "set"].step = "set"
        BY <1>1 DEF DeskRows
      <3>2. QED
        BY <1>1, <1>7, <2>1, <3>1 DEF Review
    <2>3. \A e \in Desks : desk'[e].step = "review" => desk'[e].by \in Reviewers
      BY <1>1, <2>2 DEF ProposalRest
    <2>4. reviews' \subseteq Reviewers
      BY <1>7 DEF Review, ProposalRest
    <2>5. QED
      BY <1>7, <2>3, <2>4 DEF Review, ProposalRest
  <1>8. ASSUME NEW d \in Desks, SetStatus(d)
        PROVE  ProposalRest'
    <2>1. desk[d] \in DeskRows /\ desk[d].step = "set"
      BY <1>1, <1>8 DEF SetStatus
    <2>2. proposal.there = TRUE /\ proposal \in ProposalRows
      BY <2>1 DEF ProposalInv, MailOK, IsRow
    <2>3. proposal' \in ProposalRows
      BY <1>8, <2>1, <2>2 DEF SetStatus, ProposalRows, DeskRows
    <2>4. PICK row : row = [desk[d] EXCEPT !.step = "mail"]
      OBVIOUS
    <2>5. row.step = "mail" /\ desk' = [desk EXCEPT ![d] = row]
      BY <1>8, <2>1, <2>4 DEF SetStatus, DeskRows
    <2>6. \A e \in Desks : desk'[e].step = "review" => desk'[e].by \in Reviewers
      BY <1>1, <2>5 DEF ProposalRest
    <2>7. QED
      BY <1>8, <2>3, <2>6 DEF SetStatus, ProposalRest
  <1>9. ASSUME NEW d \in Desks, MailProposer(d)
        PROVE  ProposalRest'
    <2>1. desk[d] \in DeskRows /\ desk' = [desk EXCEPT ![d] = Away]
      BY <1>1, <1>9 DEF MailProposer
    <2>2. \A e \in Desks : desk'[e].step = "review" => desk'[e].by \in Reviewers
      BY <1>1, <2>1 DEF ProposalRest
    <2>3. told' \in Statuses
      BY <1>9, <2>1 DEF MailProposer, ProposalRest, DeskRows
    <2>4. QED
      BY <1>9, <2>2, <2>3 DEF MailProposer, ProposalRest
  <1>10. CASE UNCHANGED proposalVars
    BY <1>10 DEF proposalVars, ProposalRest
  <1>11. QED
    BY <1>3, <1>4, <1>5, <1>6, <1>7, <1>8, <1>9, <1>10 DEF ProposalNext

StartedOK == started \in 0..MaxCommands

LEMMA StartedInit == SeedingInit => StartedOK
  BY SeedingConstants DEF SeedingInit, StartedOK

LEMMA StartedNext == StartedOK /\ [SeedingNext]_seedingVars => StartedOK'
  <1> SUFFICES ASSUME StartedOK, [SeedingNext]_seedingVars PROVE StartedOK'
    OBVIOUS
  <1>1. ASSUME NEW name, NEW step, Start(name, step)
        PROVE  StartedOK'
    BY <1>1, SeedingConstants DEF Start, StartedOK
  <1>2. started' = started \/ \E name, step : Start(name, step)
    BY DEF SeedingNext, seedingVars, GetOrCreate, Complete, ImportEnds, Remove, GetUser, SaveUser, Acknowledge,
           GetAddress, VerifyAddress, SaveLead, Writes, Claim, Demote, Deactivate, Touch, Kill
  <1>3. QED
    BY <1>1, <1>2 DEF StartedOK

(* The rows of the pages, the accounts and the commands keep their types.  *)
THEOREM CommunityTypesCorrect == CommunitySpec => []CommunityTypeOK
  <1>1. TwoFactorSpec => []VisitInv
    BY VisitInitInv, VisitNextInv, PTL DEF TwoFactorSpec
  <1>2. SlotSpec => []SlotInv
    BY SlotInitInv, SlotNextInv, PTL DEF SlotSpec
  <1>3. ProposalSpec => []ProposalInv /\ []ProposalRest
    BY ProposalInitInv, ProposalNextInv, ProposalRestInit, ProposalRestNext, PTL DEF ProposalSpec
  <1>4. SeedingSpec => []ImportInv /\ []LeadOK /\ []StartedOK
    <2>1. LeadOK /\ ImportInv /\ [SeedingNext]_seedingVars => LeadOK'
      BY AddLeader, OthersKeepLead
    <2>2. QED
      BY <2>1, ImportInitInv, ImportNextInv, LeadInitOK, StartedInit, StartedNext, PTL DEF SeedingSpec
  <1>5. /\ VisitInv => TwoFactorTypeOK
        /\ SlotInv => SlotTypeOK
        /\ ProposalInv /\ ProposalRest => ProposalTypeOK
        /\ ImportInv /\ LeadOK /\ StartedOK => SeedingTypeOK
    BY DEF VisitInv, SlotInv, ProposalInv, DeskOK, MailOK, DeskRows, ProposalRest, ProposalTypeOK,
           ImportInv, ImportOK, Command, LeadOK, Accounts, StartedOK, SeedingTypeOK
  <1>6. QED
    BY <1>1, <1>2, <1>3, <1>4, <1>5, ProgrammeTypeCorrect, MembersTypeCorrect, ReactionsTypeCorrect, SitesTypeCorrect,
       CommunityRunsItsParts, PTL DEF CommunityTypeOK

=============================================================================

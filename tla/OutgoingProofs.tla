---------------------------- MODULE OutgoingProofs ----------------------------
(***************************************************************************)
(* Theorems of MailerTask, NoticeRound, MonthlyReports and                 *)
(* WebhookDelivery: how many copies of a blast a member gets, whom a round *)
(* of notices serves, which chapters get their report, and what the rows   *)
(* and the retries of a webhook delivery promise.                          *)
(***************************************************************************)
EXTENDS MCOutgoing, FiniteSetTheorems, TLAPS

-----------------------------------------------------------------------------
(* MailerTask: the copies.                                                 *)

Delaying == {p \in LeadProcesses : desk[p].step = "delay"}
Blasting == {w \in Mailers : blast[w].step # "idle"}

(* The workers whose blast has still to come to a member.                  *)
Holding(u) == {w \in Mailers : blast[w].step # "idle" /\ u \in blast[w].todo}

(* The copies a member has, and those that deliveries still hold for him.  *)
Copied(u) ==
    copies[u] + Cardinality(Holding(u)) + outbox + Cardinality(Delaying) <= 1 + reopened

(* Nothing is under way and the row may be executed: the one copy that is  *)
(* not accounted for is still to be sent.                                  *)
Unspent ==
    mailer.executed = FALSE /\ Outstanding = 0 => \A u \in Recipients : copies[u] <= reopened

CopyInv ==
    /\ MailerTypeOK
    /\ \A p \in LeadProcesses : desk[p].step = "execute" => desk[p].copy.executed = FALSE
    /\ \A u \in Recipients : Copied(u)
    /\ Unspent

LEMMA Sizes ==
    /\ IsFiniteSet(Delaying) /\ Cardinality(Delaying) \in Nat
    /\ IsFiniteSet(Blasting) /\ Cardinality(Blasting) \in Nat
    /\ Outstanding = outbox + Cardinality(Blasting) + Cardinality(Delaying)
    /\ \A u : /\ IsFiniteSet(Holding(u)) /\ Cardinality(Holding(u)) \in Nat
              /\ Cardinality(Holding(u)) <= Cardinality(Blasting)
  <1>1. IsFiniteSet(Delaying) /\ Cardinality(Delaying) \in Nat
    <2>1. Delaying \in SUBSET LeadProcesses
      BY DEF Delaying
    <2>2. QED
      BY <2>1, MailerConstants, FS_Subset, FS_CardinalityType
  <1>2. IsFiniteSet(Blasting) /\ Cardinality(Blasting) \in Nat
    <2>1. Blasting \in SUBSET Mailers
      BY DEF Blasting
    <2>2. QED
      BY <2>1, MailerConstants, FS_Subset, FS_CardinalityType
  <1>3. ASSUME NEW u
        PROVE  /\ IsFiniteSet(Holding(u)) /\ Cardinality(Holding(u)) \in Nat
               /\ Cardinality(Holding(u)) <= Cardinality(Blasting)
    <2>1. Holding(u) \in SUBSET Blasting
      BY DEF Holding, Blasting
    <2>2. QED
      BY <1>2, <2>1, FS_Subset, FS_CardinalityType
  <1>4. Outstanding = outbox + Cardinality(Blasting) + Cardinality(Delaying)
    BY DEF Outstanding, Blasting, Delaying
  <1>5. QED
    BY <1>1, <1>2, <1>3, <1>4

LEMMA CopyInitInv == MailerInit => CopyInv
  <1> SUFFICES ASSUME MailerInit PROVE CopyInv
    OBVIOUS
  <1>1. mailer \in MailerRows /\ mailer.executed = FALSE
    <2>1. PICK r \in BOOLEAN, f \in Filters :
             mailer = [ready_for_delivery |-> r, executed |-> FALSE, registration_state |-> f]
      BY DEF MailerInit, mailer_task_new
    <2>2. QED
      BY <2>1 DEF MailerRows
  <1>2. MailerTypeOK
    <2>1. blast \in [Mailers -> [step: {"idle", "mail"}, todo: SUBSET Recipients]]
      BY DEF MailerInit, NotMailing
    <2>2. desk \in [LeadProcesses -> [step: {"idle", "edit", "execute", "delay"}, copy: MailerRows]]
      BY <1>1 DEF MailerInit, EmptyDesk
    <2>3. stranded \in BOOLEAN
      BY <1>1 DEF MailerInit, MailerRows
    <2>4. QED
      BY <1>1, <2>1, <2>2, <2>3 DEF MailerInit, MailerTypeOK
  <1>3. Delaying = {} /\ \A u : Holding(u) = {}
    BY DEF Delaying, Holding, MailerInit, EmptyDesk, NotMailing
  <1>4. \A p \in LeadProcesses : desk[p].step # "execute"
    BY DEF MailerInit, EmptyDesk
  <1>5. outbox = 0 /\ reopened = 0 /\ \A u \in Recipients : copies[u] = 0
    BY DEF MailerInit
  <1>6. \A u \in Recipients : Copied(u)
    BY <1>3, <1>5, FS_EmptySet DEF Copied
  <1>7. Unspent
    BY <1>5 DEF Unspent
  <1>8. QED
    BY <1>2, <1>4, <1>6, <1>7 DEF CopyInv

(* The writes of a web request.                                            *)
LEMMA DeskType ==
    ASSUME MailerTypeOK, NEW p \in LeadProcesses, NEW step \in {"idle", "edit", "execute", "delay"},
           NEW row \in MailerRows, desk' = [desk EXCEPT ![p] = [step |-> step, copy |-> row]]
    PROVE  /\ desk' \in [LeadProcesses -> [step: {"idle", "edit", "execute", "delay"}, copy: MailerRows]]
           /\ desk'[p].step = step /\ desk'[p].copy = row
           /\ \A q \in LeadProcesses : q # p => desk'[q] = desk[q]
           /\ step # "delay" => Delaying' = Delaying \ {p}
           /\ step = "delay" => Delaying' = Delaying \cup {p}
  <1>1. /\ desk' \in [LeadProcesses -> [step: {"idle", "edit", "execute", "delay"}, copy: MailerRows]]
        /\ desk'[p].step = step /\ desk'[p].copy = row
        /\ \A q \in LeadProcesses : q # p => desk'[q] = desk[q]
    BY DEF MailerTypeOK
  <1>2. QED
    BY <1>1 DEF Delaying

LEMMA LoadCopies ==
    ASSUME CopyInv, NEW p \in LeadProcesses, EditTask(p) \/ ExecuteTask(p)
    PROVE  CopyInv'
  <1>1. PICK next \in {"edit", "execute"} : LoadRow(p, next) /\ (next = "execute" => mailer.executed = FALSE)
    BY DEF EditTask, ExecuteTask, CopyInv, MailerTypeOK, MailerRows
  <1>2. mailer \in MailerRows /\ MailerTypeOK
    BY DEF CopyInv, MailerTypeOK
  <1>3. desk[p].step = "idle" /\ desk' = [desk EXCEPT ![p] = [step |-> next, copy |-> mailer]]
    BY <1>1 DEF LoadRow
  <1>4. /\ desk' \in [LeadProcesses -> [step: {"idle", "edit", "execute", "delay"}, copy: MailerRows]]
        /\ desk'[p].step = next /\ desk'[p].copy = mailer
        /\ \A q \in LeadProcesses : q # p => desk'[q] = desk[q]
        /\ Delaying' = Delaying \ {p}
    BY <1>2, <1>3, DeskType
  <1>5. Delaying' = Delaying
    BY <1>3, <1>4 DEF Delaying
  <1>6. UNCHANGED <<mailer, outbox, blast, mishaps, copies, reopened, stranded>> /\ clicks' \in Nat
    BY <1>1 DEF LoadRow, Click, CopyInv, MailerTypeOK
  <1>7. MailerTypeOK'
    BY <1>2, <1>4, <1>6 DEF MailerTypeOK, MailerRows, Filters
  <1>8. Blasting' = Blasting /\ \A u : Holding(u)' = Holding(u)
    BY <1>6 DEF Blasting, Holding
  <1>9. \A u \in Recipients : Copied(u)'
    BY <1>5, <1>6, <1>8 DEF CopyInv, Copied
  <1>10. Unspent'
    BY <1>5, <1>6, <1>8 DEF CopyInv, Unspent, Outstanding, Blasting, Delaying
  <1>11. \A q \in LeadProcesses : desk'[q].step = "execute" => desk'[q].copy.executed = FALSE
    BY <1>1, <1>4 DEF CopyInv
  <1>12. QED
    BY <1>7, <1>9, <1>10, <1>11 DEF CopyInv

(* What a save of all columns counts.                                      *)
LEMMA Written ==
    ASSUME CopyInv, NEW row \in MailerRows, WriteRow(row)
    PROVE  /\ mailer' = row /\ stranded' = FALSE
           /\ reopened' \in {reopened, reopened + 1} /\ reopened' \in Nat
           /\ mailer.executed = TRUE /\ row.executed = FALSE => reopened' = reopened + 1
           /\ row.ready_for_delivery = TRUE /\ Outstanding > 0 => reopened' = reopened + 1
  BY DEF WriteRow, CopyInv, MailerTypeOK, MailerRows

LEMMA EditCopies == ASSUME CopyInv, NEW p \in LeadProcesses, SaveEdit(p) PROVE CopyInv'
  <1> USE DEF CopyInv
  <1>1. MailerTypeOK /\ desk[p].step = "edit" /\ desk[p].copy \in MailerRows
    BY DEF SaveEdit, MailerTypeOK
  <1>2. PICK f \in Filters :
           WriteRow([desk[p].copy EXCEPT !.registration_state = f, !.ready_for_delivery = FALSE])
    BY DEF SaveEdit
  <1> DEFINE row == [desk[p].copy EXCEPT !.registration_state = f, !.ready_for_delivery = FALSE]
  <1>3. row \in MailerRows
    BY <1>1 DEF MailerRows
  <1>4. desk' = [desk EXCEPT ![p] = [step |-> "idle", copy |-> desk[p].copy]]
    BY DEF SaveEdit, EmptyDesk
  <1>5. /\ desk' \in [LeadProcesses -> [step: {"idle", "edit", "execute", "delay"}, copy: MailerRows]]
        /\ desk'[p].step = "idle"
        /\ \A q \in LeadProcesses : q # p => desk'[q] = desk[q]
        /\ Delaying' = Delaying \ {p}
    BY <1>1, <1>4, DeskType
  <1>6. Delaying' = Delaying
    BY <1>1, <1>5 DEF Delaying
  <1>7. UNCHANGED <<outbox, blast, clicks, mishaps, copies>>
    BY DEF SaveEdit
  <1>8. Blasting' = Blasting /\ \A u : Holding(u)' = Holding(u)
    BY <1>7 DEF Blasting, Holding
  <1>9. Outstanding' = Outstanding
    BY <1>6, <1>7, <1>8 DEF Outstanding, Blasting, Delaying
  <1> HIDE DEF row
  <1>10. /\ mailer' = row /\ stranded' = FALSE
         /\ reopened' \in {reopened, reopened + 1} /\ reopened' \in Nat
         /\ mailer.executed = TRUE /\ row.executed = FALSE => reopened' = reopened + 1
    BY <1>2, <1>3, Written DEF row
  <1>11. MailerTypeOK'
    BY <1>1, <1>3, <1>5, <1>7, <1>10 DEF MailerTypeOK, MailerRows, Filters
  <1>12. \A u \in Recipients : Copied(u)'
    <2> SUFFICES ASSUME NEW u \in Recipients PROVE Copied(u)'
      OBVIOUS
    <2>1. copies[u] \in Nat /\ outbox \in Nat /\ reopened \in Nat
      BY <1>1 DEF MailerTypeOK
    <2>2. QED
      BY <1>6, <1>7, <1>8, <1>10, <2>1, Sizes DEF Copied
  <1>13. Unspent'
    <2> SUFFICES ASSUME mailer'.executed = FALSE, Outstanding' = 0, NEW u \in Recipients
                 PROVE  copies'[u] <= reopened'
      BY DEF Unspent
    <2>1. copies[u] \in Nat /\ outbox \in Nat /\ reopened \in Nat /\ mailer.executed \in BOOLEAN
      BY <1>1 DEF MailerTypeOK, MailerRows
    <2>2. CASE mailer.executed = FALSE
      BY <1>7, <1>9, <1>10, <2>1, <2>2 DEF Unspent
    <2>3. CASE mailer.executed = TRUE
      <3>1. reopened' = reopened + 1
        BY <1>10, <2>3
      <3>2. Copied(u)
        OBVIOUS
      <3>3. QED
        BY <1>7, <2>1, <3>1, <3>2, Sizes DEF Copied
    <2>4. QED
      BY <2>1, <2>2, <2>3
  <1>14. \A q \in LeadProcesses : desk'[q].step = "execute" => desk'[q].copy.executed = FALSE
    BY <1>5
  <1>15. QED
    BY <1>11, <1>12, <1>13, <1>14

LEMMA ReadyCopies == ASSUME CopyInv, NEW p \in LeadProcesses, SaveReady(p) PROVE CopyInv'
  <1> USE DEF CopyInv
  <1>1. MailerTypeOK /\ desk[p].step = "execute" /\ desk[p].copy \in MailerRows /\ desk[p].copy.executed = FALSE
    BY DEF SaveReady, MailerTypeOK
  <1> DEFINE row == [desk[p].copy EXCEPT !.ready_for_delivery = TRUE]
  <1>2. row \in MailerRows /\ row.executed = FALSE /\ row.ready_for_delivery = TRUE /\ WriteRow(row)
    BY <1>1 DEF MailerRows, SaveReady
  <1>3. desk' = [desk EXCEPT ![p] = [step |-> "delay", copy |-> desk[p].copy]]
    <2>1. desk' = [desk EXCEPT ![p].step = "delay"]
      BY DEF SaveReady
    <2>2. [desk[p] EXCEPT !.step = "delay"] = [step |-> "delay", copy |-> desk[p].copy]
      BY <1>1 DEF MailerTypeOK
    <2>3. QED
      BY <2>1, <2>2 DEF MailerTypeOK
  <1>4. /\ desk' \in [LeadProcesses -> [step: {"idle", "edit", "execute", "delay"}, copy: MailerRows]]
        /\ desk'[p].step = "delay"
        /\ \A q \in LeadProcesses : q # p => desk'[q] = desk[q]
        /\ Delaying' = Delaying \cup {p}
    BY <1>1, <1>3, DeskType
  <1>5. p \notin Delaying
    BY <1>1 DEF Delaying
  <1>6. Cardinality(Delaying)' = Cardinality(Delaying) + 1
    BY <1>4, <1>5, Sizes, FS_AddElement
  <1>7. UNCHANGED <<outbox, blast, clicks, mishaps, copies>>
    BY DEF SaveReady
  <1>8. Blasting' = Blasting /\ \A u : Holding(u)' = Holding(u)
    BY <1>7 DEF Blasting, Holding
  <1>9. Outstanding' = Outstanding + 1
    <2>1. Outstanding' = outbox' + Cardinality(Blasting') + Cardinality(Delaying')
      BY DEF Outstanding, Blasting, Delaying
    <2>2. QED
      BY <1>1, <1>6, <1>7, <1>8, <2>1, Sizes DEF MailerTypeOK
  <1> HIDE DEF row
  <1>10. /\ mailer' = row /\ stranded' = FALSE
         /\ reopened' \in {reopened, reopened + 1} /\ reopened' \in Nat
         /\ mailer.executed = TRUE \/ Outstanding > 0 => reopened' = reopened + 1
    BY <1>2, Written
  <1>11. MailerTypeOK'
    BY <1>1, <1>2, <1>4, <1>7, <1>10 DEF MailerTypeOK, MailerRows, Filters
  <1>12. \A u \in Recipients : Copied(u)'
    <2> SUFFICES ASSUME NEW u \in Recipients PROVE Copied(u)'
      OBVIOUS
    <2>1. copies[u] \in Nat /\ outbox \in Nat /\ reopened \in Nat /\ mailer.executed \in BOOLEAN
      BY <1>1 DEF MailerTypeOK, MailerRows
    <2>2. CASE reopened' = reopened + 1
      BY <1>6, <1>7, <1>8, <2>1, <2>2, Sizes DEF Copied
    <2>3. CASE reopened' # reopened + 1
      <3>1. mailer.executed = FALSE /\ ~(Outstanding > 0)
        BY <1>10, <2>1, <2>3
      <3>2. outbox = 0 /\ Cardinality(Holding(u)) = 0 /\ Cardinality(Delaying) = 0 /\ Outstanding = 0
        BY <2>1, <3>1, Sizes
      <3>3. copies[u] <= reopened
        BY <3>1, <3>2 DEF Unspent
      <3>4. reopened' = reopened
        BY <1>10, <2>3
      <3>5. QED
        BY <1>6, <1>7, <1>8, <2>1, <3>2, <3>3, <3>4 DEF Copied
    <2>4. QED
      BY <2>2, <2>3
  <1>13. Unspent'
    <2>1. Outstanding' # 0
      BY <1>1, <1>9, Sizes DEF MailerTypeOK
    <2>2. QED
      BY <2>1 DEF Unspent
  <1>14. \A q \in LeadProcesses : desk'[q].step = "execute" => desk'[q].copy.executed = FALSE
    BY <1>4
  <1>15. QED
    BY <1>11, <1>12, <1>13, <1>14

LEMMA DelayCopies == ASSUME CopyInv, NEW p \in LeadProcesses, Delay(p) PROVE CopyInv'
  <1> USE DEF CopyInv
  <1>1. MailerTypeOK /\ desk[p].step = "delay" /\ desk[p].copy \in MailerRows
    BY DEF Delay, MailerTypeOK
  <1>2. desk' = [desk EXCEPT ![p] = [step |-> "idle", copy |-> desk[p].copy]] /\ outbox' = outbox + 1
    BY DEF Delay, EmptyDesk
  <1>3. /\ desk' \in [LeadProcesses -> [step: {"idle", "edit", "execute", "delay"}, copy: MailerRows]]
        /\ desk'[p].step = "idle"
        /\ \A q \in LeadProcesses : q # p => desk'[q] = desk[q]
        /\ Delaying' = Delaying \ {p}
    BY <1>1, <1>2, DeskType
  <1>4. p \in Delaying
    BY <1>1 DEF Delaying
  <1>5. Cardinality(Delaying)' = Cardinality(Delaying) - 1
    BY <1>3, <1>4, Sizes, FS_RemoveElement
  <1>6. UNCHANGED <<mailer, blast, clicks, mishaps, copies, reopened, stranded>>
    BY DEF Delay
  <1>7. \A u : Holding(u)' = Holding(u)
    BY <1>6 DEF Holding
  <1>8. MailerTypeOK'
    BY <1>1, <1>2, <1>3, <1>6 DEF MailerTypeOK, MailerRows, Filters
  <1>9. \A u \in Recipients : Copied(u)'
    <2> SUFFICES ASSUME NEW u \in Recipients PROVE Copied(u)'
      OBVIOUS
    <2>1. copies[u] \in Nat /\ outbox \in Nat /\ reopened \in Nat
      BY <1>1 DEF MailerTypeOK
    <2>2. QED
      BY <1>2, <1>5, <1>6, <1>7, <2>1, Sizes DEF Copied
  <1>10. Unspent'
    <2>1. Outstanding' = outbox' + Cardinality(Blasting') + Cardinality(Delaying')
      BY DEF Outstanding, Blasting, Delaying
    <2>2. Blasting' = Blasting
      BY <1>6 DEF Blasting
    <2>3. outbox \in Nat /\ Cardinality(Delaying) - 1 \in Nat
      BY <1>1, <1>4, Sizes, FS_EmptySet DEF MailerTypeOK
    <2>4. Outstanding' # 0
      BY <1>2, <1>5, <2>1, <2>2, <2>3, Sizes
    <2>5. QED
      BY <2>4 DEF Unspent
  <1>11. \A q \in LeadProcesses : desk'[q].step = "execute" => desk'[q].copy.executed = FALSE
    BY <1>3, <1>6
  <1>12. QED
    BY <1>8, <1>9, <1>10, <1>11

(* A worker's blast is replaced.                                           *)
LEMMA BlastType ==
    ASSUME MailerTypeOK, NEW w \in Mailers, NEW step \in {"idle", "mail"}, NEW todo \in SUBSET Recipients,
           blast' = [blast EXCEPT ![w] = [step |-> step, todo |-> todo]]
    PROVE  /\ blast' \in [Mailers -> [step: {"idle", "mail"}, todo: SUBSET Recipients]]
           /\ step = "mail" => w \in Blasting'
           /\ \A u : /\ step = "mail" /\ u \in todo => Holding(u)' = Holding(u) \cup {w}
                     /\ ~(step = "mail" /\ u \in todo) => Holding(u)' = Holding(u) \ {w}
  <1>1. /\ blast' \in [Mailers -> [step: {"idle", "mail"}, todo: SUBSET Recipients]]
        /\ blast'[w].step = step /\ blast'[w].todo = todo
        /\ \A v \in Mailers : v # w => blast'[v] = blast[v]
    BY DEF MailerTypeOK
  <1>2. QED
    BY <1>1 DEF Blasting, Holding

(* While a blast is going on, something is outstanding.                    *)
LEMMA BlastOutstanding ==
    ASSUME MailerTypeOK', NEW w, w \in Blasting'
    PROVE  (Outstanding # 0)'
  <1>1. Blasting' \in SUBSET Mailers /\ Delaying' \in SUBSET LeadProcesses
    BY DEF Blasting, Delaying
  <1>2. Cardinality(Blasting') \in Nat /\ Cardinality(Delaying') \in Nat /\ Cardinality(Blasting') # 0
    BY <1>1, MailerConstants, FS_Subset, FS_CardinalityType, FS_EmptySet
  <1>3. Outstanding' = outbox' + Cardinality(Blasting') + Cardinality(Delaying')
    BY DEF Outstanding, Blasting, Delaying
  <1>4. outbox' \in Nat
    BY DEF MailerTypeOK
  <1>5. \A a, b, c \in Nat : b # 0 => a + b + c # 0
    OBVIOUS
  <1>6. QED
    BY <1>2, <1>3, <1>4, <1>5

LEMMA TakeCopies == ASSUME CopyInv, NEW w \in Mailers, Begin(w) \/ Dismiss(w) PROVE CopyInv'
  <1> USE DEF CopyInv
  <1>1. MailerTypeOK /\ outbox > 0 /\ outbox' = outbox - 1 /\ outbox \in Nat /\ outbox' \in Nat
    BY DEF Begin, Dismiss, Take, MailerTypeOK
  <1>2. UNCHANGED <<mailer, desk, clicks, mishaps, copies, reopened, stranded>>
    BY DEF Begin, Dismiss
  <1>3. Delaying' = Delaying
    BY <1>2 DEF Delaying
  <1>4. \A q \in LeadProcesses : desk'[q].step = "execute" => desk'[q].copy.executed = FALSE
    BY <1>2
  <1>5. CASE Begin(w)
    <2>1. Audience(mailer) \in SUBSET Recipients
      BY DEF Audience
    <2>2. blast' = [blast EXCEPT ![w] = [step |-> "mail", todo |-> Audience(mailer)]]
      BY <1>5 DEF Begin
    <2>3. /\ blast' \in [Mailers -> [step: {"idle", "mail"}, todo: SUBSET Recipients]]
          /\ w \in Blasting'
          /\ \A u : Holding(u)' \in {Holding(u) \cup {w}, Holding(u) \ {w}}
      BY <1>1, <2>1, <2>2, BlastType
    <2>4. MailerTypeOK'
      BY <1>1, <1>2, <2>3 DEF MailerTypeOK, MailerRows, Filters
    <2>5. \A u \in Recipients : Copied(u)'
      <3> SUFFICES ASSUME NEW u \in Recipients PROVE Copied(u)'
        OBVIOUS
      <3>1. copies[u] \in Nat /\ reopened \in Nat
        BY <1>1 DEF MailerTypeOK
      <3>2. Cardinality(Holding(u))' \in {Cardinality(Holding(u)) - 1, Cardinality(Holding(u)), Cardinality(Holding(u)) + 1}
        <4>1. IsFiniteSet(Holding(u)) /\ Cardinality(Holding(u)) \in Nat
          BY Sizes
        <4>2. PICK held : held = Holding(u)
          OBVIOUS
        <4>3. Cardinality(held \cup {w}) \in {Cardinality(held), Cardinality(held) + 1}
          BY <4>1, <4>2, FS_AddElement
        <4>4. Cardinality(held \ {w}) \in {Cardinality(held), Cardinality(held) - 1}
          BY <4>1, <4>2, FS_RemoveElement
        <4>5. QED
          BY <2>3, <4>2, <4>3, <4>4
      <3>3. QED
        BY <1>1, <1>2, <1>3, <3>1, <3>2, Sizes DEF Copied
    <2>6. Unspent'
      <3>1. (Outstanding # 0)'
        BY <2>3, <2>4, BlastOutstanding
      <3>2. QED
        BY <3>1 DEF Unspent
    <2>7. QED
      BY <1>4, <2>4, <2>5, <2>6
  <1>6. CASE Dismiss(w)
    <2>1. blast' = blast
      BY <1>6 DEF Dismiss
    <2>2. Blasting' = Blasting /\ \A u : Holding(u)' = Holding(u)
      BY <2>1 DEF Blasting, Holding
    <2>3. MailerTypeOK'
      BY <1>1, <1>2, <2>1 DEF MailerTypeOK, MailerRows, Filters
    <2>4. ASSUME NEW u \in Recipients PROVE Copied(u)' /\ (Outstanding' = 0 => copies'[u] <= reopened')
      <3>1. copies[u] \in Nat /\ reopened \in Nat
        BY <1>1 DEF MailerTypeOK
      <3>2. Copied(u)
        OBVIOUS
      <3>3. Outstanding' = outbox' + Cardinality(Blasting) + Cardinality(Delaying)
        BY <1>3, <2>2 DEF Outstanding, Blasting, Delaying
      <3>4. Copied(u)'
        BY <1>1, <1>2, <1>3, <2>2, <3>1, <3>2, Sizes DEF Copied
      <3>5. Outstanding' = 0 => copies'[u] <= reopened'
        BY <1>1, <1>2, <3>1, <3>2, <3>3, Sizes DEF Copied
      <3>6. QED
        BY <3>4, <3>5
    <2>5. Unspent'
      BY <2>4 DEF Unspent
    <2>6. QED
      BY <1>4, <2>3, <2>4, <2>5
  <1>7. QED
    BY <1>5, <1>6

LEMMA MailCopies == ASSUME CopyInv, NEW w \in Mailers, Mail(w) PROVE CopyInv'
  <1> USE DEF CopyInv
  <1>1. MailerTypeOK /\ blast[w].step = "mail" /\ w \in Blasting
    BY DEF Mail, Blasting
  <1>2. PICK v \in blast[w].todo : /\ copies' = [copies EXCEPT ![v] = @ + 1]
                                   /\ blast' = [blast EXCEPT ![w].todo = @ \ {v}]
    BY DEF Mail
  <1>3. blast[w] \in [step: {"idle", "mail"}, todo: SUBSET Recipients] /\ v \in Recipients
    BY <1>1, <1>2 DEF MailerTypeOK
  <1>4. blast' = [blast EXCEPT ![w] = [step |-> "mail", todo |-> blast[w].todo \ {v}]]
    <2>1. [blast[w] EXCEPT !.todo = @ \ {v}] = [step |-> "mail", todo |-> blast[w].todo \ {v}]
      BY <1>1, <1>3
    <2>2. QED
      BY <1>1, <1>2, <2>1 DEF MailerTypeOK
  <1>5. /\ blast' \in [Mailers -> [step: {"idle", "mail"}, todo: SUBSET Recipients]]
        /\ w \in Blasting'
        /\ \A u : /\ u \in blast[w].todo /\ u # v => Holding(u)' = Holding(u) \cup {w}
                  /\ u \notin blast[w].todo => Holding(u)' = Holding(u) \ {w}
                  /\ u = v => Holding(u)' = Holding(u) \ {w}
    <2> DEFINE rest == blast[w].todo \ {v}
    <2>1. rest \in SUBSET Recipients
      BY <1>3
    <2>2. \A u : u \in rest <=> u \in blast[w].todo /\ u # v
      OBVIOUS
    <2>3. blast' = [blast EXCEPT ![w] = [step |-> "mail", todo |-> rest]]
      BY <1>4
    <2> HIDE DEF rest
    <2>4. /\ blast' \in [Mailers -> [step: {"idle", "mail"}, todo: SUBSET Recipients]]
          /\ w \in Blasting'
          /\ \A u : /\ u \in rest => Holding(u)' = Holding(u) \cup {w}
                    /\ u \notin rest => Holding(u)' = Holding(u) \ {w}
      BY <1>1, <2>1, <2>3, BlastType
    <2>5. QED
      BY <2>2, <2>4
  <1>6. \A u : u \in blast[w].todo <=> w \in Holding(u)
    BY <1>1 DEF Holding
  <1>7. /\ \A u : u # v => Holding(u)' = Holding(u)
        /\ Holding(v)' = Holding(v) \ {w} /\ w \in Holding(v)
    <2>1. \A u : w \in Holding(u) => Holding(u) \cup {w} = Holding(u)
      OBVIOUS
    <2>2. \A u : w \notin Holding(u) => Holding(u) \ {w} = Holding(u)
      OBVIOUS
    <2>3. QED
      BY <1>2, <1>5, <1>6, <2>1, <2>2
  <1>8. UNCHANGED <<mailer, outbox, desk, clicks, mishaps, reopened, stranded>>
    BY DEF Mail
  <1>9. Delaying' = Delaying
    BY <1>8 DEF Delaying
  <1>10. copies' \in [Recipients -> Nat] /\ copies'[v] = copies[v] + 1
         /\ \A u \in Recipients : u # v => copies'[u] = copies[u]
    BY <1>1, <1>2, <1>3 DEF MailerTypeOK
  <1>11. MailerTypeOK'
    BY <1>1, <1>5, <1>8, <1>10 DEF MailerTypeOK, MailerRows, Filters
  <1>12. \A u \in Recipients : Copied(u)'
    <2> SUFFICES ASSUME NEW u \in Recipients PROVE Copied(u)'
      OBVIOUS
    <2>1. copies[u] \in Nat /\ outbox \in Nat /\ reopened \in Nat
      BY <1>1 DEF MailerTypeOK
    <2>2. CASE u = v
      <3>1. Cardinality(Holding(u))' = Cardinality(Holding(u)) - 1
        BY <1>7, <2>2, Sizes, FS_RemoveElement
      <3>2. QED
        BY <1>8, <1>9, <1>10, <2>1, <2>2, <3>1, Sizes DEF Copied
    <2>3. CASE u # v
      BY <1>7, <1>8, <1>9, <1>10, <2>1, <2>3 DEF Copied
    <2>4. QED
      BY <2>2, <2>3
  <1>13. Unspent'
    BY <1>5, <1>11, BlastOutstanding DEF Unspent
  <1>14. QED
    BY <1>8, <1>11, <1>12, <1>13

LEMMA FinishCopies == ASSUME CopyInv, NEW w \in Mailers, Finish(w) \/ BreakOff(w) PROVE CopyInv'
  <1> USE DEF CopyInv
  <1>1. MailerTypeOK /\ blast[w].step = "mail"
    BY DEF Finish, BreakOff
  <1>2. blast' = [blast EXCEPT ![w] = [step |-> "idle", todo |-> {}]]
    BY DEF Finish, BreakOff, NotMailing
  <1>3. /\ blast' \in [Mailers -> [step: {"idle", "mail"}, todo: SUBSET Recipients]]
        /\ \A u : Holding(u)' = Holding(u) \ {w}
    <2> DEFINE none == {}
    <2>1. none \in SUBSET Recipients /\ blast' = [blast EXCEPT ![w] = [step |-> "idle", todo |-> none]]
      BY <1>2
    <2> HIDE DEF none
    <2>2. QED
      BY <1>1, <2>1, BlastType
  <1>4. \A u : /\ Cardinality(Holding(u))' \in Nat
               /\ Cardinality(Holding(u))' <= Cardinality(Holding(u))
    <2> SUFFICES ASSUME NEW u
                 PROVE  /\ Cardinality(Holding(u))' \in Nat
                        /\ Cardinality(Holding(u))' <= Cardinality(Holding(u))
      OBVIOUS
    <2>1. Holding(u)' \in SUBSET Holding(u)
      BY <1>3
    <2>2. QED
      BY <2>1, Sizes, FS_Subset, FS_CardinalityType
  <1>5. UNCHANGED <<outbox, desk, clicks, copies>>
    BY DEF Finish, BreakOff
  <1>6. Delaying' = Delaying
    BY <1>5 DEF Delaying
  <1>7. CASE Finish(w)
    <2>1. mailer' = [mailer EXCEPT !.executed = TRUE, !.ready_for_delivery = FALSE]
      BY <1>7 DEF Finish
    <2>2. mailer' \in MailerRows /\ mailer'.executed = TRUE
      BY <1>1, <2>1 DEF MailerTypeOK, MailerRows
    <2>3. reopened' = reopened /\ mishaps' = mishaps /\ stranded' = FALSE
      BY <1>7 DEF Finish
    <2>4. MailerTypeOK'
      BY <1>1, <1>3, <1>5, <2>2, <2>3 DEF MailerTypeOK, MailerRows, Filters
    <2>5. \A u \in Recipients : Copied(u)'
      <3> SUFFICES ASSUME NEW u \in Recipients PROVE Copied(u)'
        OBVIOUS
      <3>1. copies[u] \in Nat /\ outbox \in Nat /\ reopened \in Nat
        BY <1>1 DEF MailerTypeOK
      <3>2. QED
        BY <1>4, <1>5, <1>6, <2>3, <3>1, Sizes DEF Copied
    <2>6. QED
      BY <1>5, <2>2, <2>4, <2>5 DEF Unspent
  <1>8. CASE BreakOff(w)
    <2>1. mailer' = mailer /\ reopened' = reopened + 1 /\ mishaps' = mishaps + 1
          /\ stranded' = mailer.ready_for_delivery
      BY <1>8 DEF BreakOff, Mishap
    <2>2. MailerTypeOK'
      BY <1>1, <1>3, <1>5, <2>1 DEF MailerTypeOK, MailerRows, Filters
    <2>3. ASSUME NEW u \in Recipients PROVE Copied(u)' /\ copies'[u] <= reopened'
      <3>1. copies[u] \in Nat /\ outbox \in Nat /\ reopened \in Nat
        BY <1>1 DEF MailerTypeOK
      <3>2. Copied(u)
        OBVIOUS
      <3>3. QED
        BY <1>4, <1>5, <1>6, <2>1, <3>1, <3>2, Sizes DEF Copied
    <2>4. QED
      BY <1>5, <2>2, <2>3 DEF Unspent
  <1>9. QED
    BY <1>7, <1>8

LEMMA AgainCopies == ASSUME CopyInv, DeliverAgain PROVE CopyInv'
  <1> USE DEF CopyInv
  <1>1. MailerTypeOK /\ outbox' = outbox + 1 /\ reopened' = reopened + 1 /\ mishaps' = mishaps + 1
        /\ UNCHANGED <<mailer, blast, desk, clicks, copies, stranded>>
    BY DEF DeliverAgain, Mishap
  <1>2. MailerTypeOK'
    BY <1>1 DEF MailerTypeOK, MailerRows, Filters
  <1>3. Delaying' = Delaying /\ \A u : Holding(u)' = Holding(u)
    BY <1>1 DEF Delaying, Holding
  <1>4. ASSUME NEW u \in Recipients PROVE Copied(u)' /\ copies'[u] <= reopened'
    <2>1. copies[u] \in Nat /\ outbox \in Nat /\ reopened \in Nat
      BY <1>1 DEF MailerTypeOK
    <2>2. Copied(u)
      OBVIOUS
    <2>3. QED
      BY <1>1, <1>3, <2>1, <2>2, Sizes DEF Copied
  <1>5. QED
    BY <1>1, <1>2, <1>4 DEF Unspent

LEMMA CopyNextInv == CopyInv /\ [MailerNext]_mailerVars => CopyInv'
  <1> SUFFICES ASSUME CopyInv, [MailerNext]_mailerVars PROVE CopyInv'
    OBVIOUS
  <1>1. CASE \E p \in LeadProcesses : EditTask(p) \/ ExecuteTask(p) \/ SaveEdit(p) \/ SaveReady(p) \/ Delay(p)
    BY <1>1, LoadCopies, EditCopies, ReadyCopies, DelayCopies
  <1>2. CASE \E w \in Mailers : TakeStep(w) \/ BlastStep(w) \/ BreakOff(w)
    BY <1>2, TakeCopies, MailCopies, FinishCopies DEF TakeStep, BlastStep
  <1>3. CASE DeliverAgain
    BY <1>3, AgainCopies
  <1>4. CASE UNCHANGED mailerVars
    <2>1. UNCHANGED <<mailer, outbox, blast, desk, clicks, mishaps, copies, reopened, stranded>>
      BY <1>4 DEF mailerVars
    <2>2. Delaying' = Delaying /\ Outstanding' = Outstanding /\ \A u : Holding(u)' = Holding(u)
      BY <2>1 DEF Delaying, Outstanding, Holding
    <2>3. MailerTypeOK'
      BY <2>1 DEF CopyInv, MailerTypeOK, MailerRows, Filters
    <2>4. QED
      BY <2>1, <2>2, <2>3 DEF CopyInv, Copied, Unspent
  <1>5. QED
    BY <1>1, <1>2, <1>3, <1>4 DEF MailerNext

(* A member gets one copy of a blast, and one more for each save that took *)
(* executed back or made the row ready while a delivery was outstanding,   *)
(* each blast broken off and each message delivered again                  *)
(* (mailer_task_edit, mailer_task_execute, send_event_mailer_task).        *)
THEOREM CopiesAreAccountedFor == MailerSpec => []CopiesAccountedFor
  <1>1. CopyInv => CopiesAccountedFor
    <2> SUFFICES ASSUME CopyInv, NEW u \in Recipients PROVE copies[u] <= 1 + reopened
      BY DEF CopiesAccountedFor
    <2>1. copies[u] \in Nat /\ outbox \in Nat /\ reopened \in Nat /\ Copied(u)
      BY DEF CopyInv, MailerTypeOK
    <2>2. QED
      BY <2>1, Sizes DEF Copied
  <1>2. QED
    BY <1>1, CopyInitInv, CopyNextInv, PTL DEF MailerSpec

(* What is on the broker, or is to be put there, is outstanding.           *)
LEMMA MessageOutstanding ==
    ASSUME MailerTypeOK', outbox' > 0 \/ \E p \in LeadProcesses : desk'[p].step = "delay"
    PROVE  (Outstanding > 0)'
  <1>1. Blasting' \in SUBSET Mailers /\ Delaying' \in SUBSET LeadProcesses
    BY DEF Blasting, Delaying
  <1>2. Cardinality(Blasting') \in Nat /\ Cardinality(Delaying') \in Nat
        /\ (Delaying' # {} => Cardinality(Delaying') # 0)
    BY <1>1, MailerConstants, FS_Subset, FS_CardinalityType, FS_EmptySet
  <1>3. Outstanding' = outbox' + Cardinality(Blasting') + Cardinality(Delaying')
    BY DEF Outstanding, Blasting, Delaying
  <1>4. outbox' \in Nat
    BY DEF MailerTypeOK
  <1>5. outbox' > 0 \/ Cardinality(Delaying') # 0
    <2>1. (\E p \in LeadProcesses : desk'[p].step = "delay") => Delaying' # {}
      BY DEF Delaying
    <2>2. QED
      BY <1>2, <2>1
  <1>6. \A a, b, c \in Nat : a > 0 \/ c # 0 => a + b + c > 0
    OBVIOUS
  <1>7. QED
    BY <1>2, <1>3, <1>4, <1>5, <1>6

LEMMA ReadyNext ==
    ASSUME CopyInv, CopyInv', ReadyTasksAreInHand, [MailerNext]_mailerVars
    PROVE  ReadyTasksAreInHand'
  <1>1. MailerTypeOK /\ MailerTypeOK' /\ mailer.executed \in BOOLEAN /\ mailer.ready_for_delivery \in BOOLEAN
    BY DEF CopyInv, MailerTypeOK, MailerRows
  <1>2. Outstanding' \in Nat
    <2>1. Blasting' \in SUBSET Mailers /\ Delaying' \in SUBSET LeadProcesses
      BY DEF Blasting, Delaying
    <2>2. Cardinality(Blasting') \in Nat /\ Cardinality(Delaying') \in Nat /\ outbox' \in Nat
      BY <1>1, <2>1, MailerConstants, FS_Subset, FS_CardinalityType DEF MailerTypeOK
    <2>3. Outstanding' = outbox' + Cardinality(Blasting') + Cardinality(Delaying')
      BY DEF Outstanding, Blasting, Delaying
    <2>4. QED
      BY <2>2, <2>3
  <1>3. ASSUME NEW p \in LeadProcesses, EditTask(p) \/ ExecuteTask(p) \/ SaveEdit(p) \/ SaveReady(p) \/ Delay(p)
        PROVE  ReadyTasksAreInHand'
    <2>1. CASE EditTask(p) \/ ExecuteTask(p)
      <3>1. PICK next \in {"edit", "execute"} : LoadRow(p, next)
        BY <2>1 DEF EditTask, ExecuteTask
      <3>2. UNCHANGED <<mailer, outbox, blast, stranded>> /\ desk[p].step = "idle"
            /\ desk' = [desk EXCEPT ![p] = [step |-> next, copy |-> mailer]]
        BY <3>1 DEF LoadRow
      <3>3. mailer \in MailerRows
        BY <1>1 DEF MailerTypeOK
      <3>4. Delaying' = Delaying \ {p}
        BY <1>1, <3>2, <3>3, DeskType
      <3>5. Delaying' = Delaying /\ Blasting' = Blasting
        BY <3>2, <3>4 DEF Delaying, Blasting
      <3>6. QED
        BY <3>2, <3>5 DEF ReadyTasksAreInHand, Outstanding, Delaying, Blasting
    <2>2. CASE SaveEdit(p)
      <3>1. PICK f \in Filters :
               mailer' = [desk[p].copy EXCEPT !.registration_state = f, !.ready_for_delivery = FALSE]
        BY <2>2 DEF SaveEdit, WriteRow
      <3>2. desk[p].copy \in MailerRows
        BY <1>1 DEF MailerTypeOK
      <3>3. mailer'.ready_for_delivery = FALSE
        BY <3>1, <3>2 DEF MailerRows
      <3>4. QED
        BY <3>3 DEF ReadyTasksAreInHand
    <2>3. CASE SaveReady(p)
      <3>1. desk'[p].step = "delay"
        BY <1>1, <2>3 DEF SaveReady, MailerTypeOK
      <3>2. QED
        BY <1>1, <3>1, MessageOutstanding DEF ReadyTasksAreInHand
    <2>4. CASE Delay(p)
      <3>1. outbox' > 0
        BY <1>1, <2>4 DEF Delay, MailerTypeOK
      <3>2. QED
        BY <1>1, <3>1, MessageOutstanding DEF ReadyTasksAreInHand
    <2>5. QED
      BY <1>3, <2>1, <2>2, <2>3, <2>4
  <1>4. ASSUME NEW w \in Mailers, TakeStep(w) \/ BlastStep(w) \/ BreakOff(w)
        PROVE  ReadyTasksAreInHand'
    <2>1. CASE Begin(w) \/ Mail(w)
      <3>1. w \in Blasting'
        <4>1. CASE Begin(w)
          BY <1>1, <4>1 DEF Begin, Blasting, MailerTypeOK
        <4>2. CASE Mail(w)
          <5>1. PICK v : blast' = [blast EXCEPT ![w].todo = @ \ {v}]
            BY <4>2 DEF Mail
          <5>2. blast'[w].step = blast[w].step /\ blast[w].step = "mail"
            BY <1>1, <4>2, <5>1 DEF Mail, MailerTypeOK
          <5>3. QED
            BY <5>2 DEF Blasting
        <4>3. QED
          BY <2>1, <4>1, <4>2
      <3>2. (Outstanding # 0)'
        BY <1>1, <3>1, BlastOutstanding
      <3>3. QED
        BY <1>2, <3>2 DEF ReadyTasksAreInHand
    <2>2. CASE Dismiss(w)
      BY <2>2 DEF Dismiss, ReadyTasksAreInHand
    <2>3. CASE Finish(w)
      <3>1. mailer' = [mailer EXCEPT !.executed = TRUE, !.ready_for_delivery = FALSE]
        BY <2>3 DEF Finish
      <3>2. mailer'.executed = TRUE
        BY <1>1, <3>1 DEF MailerTypeOK, MailerRows
      <3>3. QED
        BY <3>2 DEF ReadyTasksAreInHand
    <2>4. CASE BreakOff(w)
      <3>1. mailer' = mailer /\ stranded' = mailer.ready_for_delivery
        BY <2>4 DEF BreakOff
      <3>2. QED
        BY <1>1, <3>1 DEF ReadyTasksAreInHand
    <2>5. QED
      BY <1>4, <2>1, <2>2, <2>3, <2>4 DEF TakeStep, BlastStep
  <1>5. CASE DeliverAgain
    <2>1. outbox' > 0
      BY <1>1, <1>5 DEF DeliverAgain, MailerTypeOK
    <2>2. QED
      BY <1>1, <2>1, MessageOutstanding DEF ReadyTasksAreInHand
  <1>6. CASE UNCHANGED mailerVars
    BY <1>6 DEF mailerVars, ReadyTasksAreInHand, Outstanding
  <1>7. QED
    BY <1>3, <1>4, <1>5, <1>6 DEF MailerNext

(* A task that says it is ready for delivery is on its way, unless it was  *)
(* created ready or its blast was broken off (mailer_task_new,             *)
(* mailer_task_execute, send_event_mailer_task).                           *)
THEOREM ReadyTasksHaveADelivery == MailerSpec => []ReadyTasksAreInHand
  <1>1. MailerInit => ReadyTasksAreInHand
    BY DEF MailerInit, ReadyTasksAreInHand
  <1>2. QED
    BY <1>1, ReadyNext, CopyInitInv, CopyNextInv, PTL DEF MailerSpec

-----------------------------------------------------------------------------
(* NoticeRound.                                                            *)

Done(t) == mailed[t] = 1 <=> Wants(round.mode, t)

(* Where a round is, and whom it has served when it is there.              *)
RoundOK ==
    /\ preference \in [Members -> Preferences]
    /\ round \in [mode: Modes, step: {"queued", "mail", "broadcast", "ended", "failed"},
                  todo: SUBSET (Addresses \cup Members \cup Channels)]
    /\ mailed \in [Addresses \cup Members -> Nat]
    /\ tried \in [Channels -> Nat]
    /\ \A t \in Addresses \cup Members : mailed[t] <= 1
    /\ round.step = "queued" => wavering = {} /\ \A t \in Addresses \cup Members : mailed[t] = 0
    /\ round.step \in {"queued", "mail", "failed"} => \A c \in Channels : tried[c] = 0
    /\ round.step = "mail" =>
         /\ round.todo \subseteq Targets(round.mode)
         /\ \A t \in round.todo : mailed[t] = 0
         /\ \A t \in (Targets(round.mode) \ wavering) \ round.todo : Done(t)
    /\ round.step \in {"broadcast", "ended"} => \A t \in Targets(round.mode) \ wavering : Done(t)
    /\ round.step = "broadcast" =>
         /\ round.mode = "announcement" /\ round.todo \subseteq Channels
         /\ \A c \in Channels : tried[c] = IF c \in configured \ round.todo THEN 1 ELSE 0
    /\ round.step = "ended" /\ round.mode = "announcement" =>
         \A c \in Channels : tried[c] = IF c \in configured THEN 1 ELSE 0
    /\ round.step = "failed" =>
         /\ round.todo \subseteq Targets(round.mode)
         /\ round.mode # "final reminder" => \A t \in round.todo : mailed[t] = 0

LEMMA RoundInitOK == NoticeInit => RoundOK
  BY SMT DEF NoticeInit, RoundOK, Preferences, Modes, Channels, Targets

(* A round's step is a new record.                                         *)
LEMMA RoundAt ==
    ASSUME RoundOK, NEW step \in {"mail", "broadcast", "ended", "failed"},
           NEW todo \in SUBSET (Addresses \cup Members \cup Channels),
           round' = [round EXCEPT !.step = step, !.todo = todo]
    PROVE  /\ round' \in [mode: Modes, step: {"queued", "mail", "broadcast", "ended", "failed"},
                          todo: SUBSET (Addresses \cup Members \cup Channels)]
           /\ round'.mode = round.mode /\ round'.step = step /\ round'.todo = todo
  BY DEF RoundOK

LEMMA StartKeepsRound == ASSUME RoundOK, NEW mode \in Modes, StartRound(mode) PROVE RoundOK'
  <1>1. round.step = "queued" /\ round' = [mode |-> mode, step |-> "mail", todo |-> Targets(mode)]
        /\ UNCHANGED <<configured, preference, changes, mailed, messaged, tried, wavering>>
    BY DEF StartRound
  <1>2. Targets(mode) \in SUBSET (Addresses \cup Members)
    BY DEF Targets
  <1>3. round'.mode = mode /\ round'.step = "mail" /\ round'.todo = Targets(mode)
        /\ round' \in [mode: Modes, step: {"queued", "mail", "broadcast", "ended", "failed"},
                       todo: SUBSET (Addresses \cup Members \cup Channels)]
    BY <1>1, <1>2
  <1>4. QED
    BY <1>1, <1>2, <1>3 DEF RoundOK

LEMMA ServeKeepsRound == ASSUME RoundOK, NEW t \in Addresses \cup Members, Serve(t) PROVE RoundOK'
  <1>1. round.step = "mail" /\ t \in round.todo /\ mailed[t] = 0 /\ round.todo \in SUBSET (Addresses \cup Members)
    BY DEF Serve, RoundOK, Targets
  <1>2. UNCHANGED <<configured, preference, changes, tried, wavering>>
    BY DEF Serve
  <1>3. Wants(round.mode, t) \in BOOLEAN
    BY DEF Wants
  <1>4. \/ mailed' = mailed /\ round' = [round EXCEPT !.step = "failed"]
        \/ /\ mailed' = IF Wants(round.mode, t) THEN [mailed EXCEPT ![t] = @ + 1] ELSE mailed
           /\ \/ WantsWhatsApp(round.mode, t) /\ round' = [round EXCEPT !.step = "failed"]
              \/ round' = [round EXCEPT !.todo = @ \ {t}]
    BY DEF Serve
  <1>5. /\ mailed' \in [Addresses \cup Members -> Nat]
        /\ \A v \in Addresses \cup Members : v # t => mailed'[v] = mailed[v]
        /\ mailed'[t] \in {0, 1}
    BY <1>1, <1>4 DEF RoundOK
  <1>6. CASE round' = [round EXCEPT !.step = "failed"] /\ (mailed' = mailed \/ WantsWhatsApp(round.mode, t))
    <2>1. round'.mode = round.mode /\ round'.step = "failed" /\ round'.todo = round.todo
          /\ round' \in [mode: Modes, step: {"queued", "mail", "broadcast", "ended", "failed"},
                         todo: SUBSET (Addresses \cup Members \cup Channels)]
      BY <1>6 DEF RoundOK
    <2>2. round.mode # "final reminder" => mailed' = mailed
      BY <1>6 DEF WantsWhatsApp
    <2>3. \A v \in Addresses \cup Members : mailed'[v] <= 1
      <3>1. \A v \in Addresses \cup Members : mailed[v] <= 1
        BY DEF RoundOK
      <3>2. mailed'[t] <= 1
        BY <1>5
      <3>3. QED
        BY <1>5, <3>1, <3>2
    <2>4. round.mode # "final reminder" => \A v \in round.todo : mailed'[v] = 0
      BY <1>1, <2>2 DEF RoundOK
    <2>5. round.todo \subseteq Targets(round.mode) /\ \A c \in Channels : tried'[c] = 0
      BY <1>1, <1>2 DEF RoundOK
    <2>6. Targets(round'.mode) = Targets(round.mode)
      BY <2>1 DEF Targets
    <2>7. preference' \in [Members -> Preferences] /\ tried' \in [Channels -> Nat]
      BY <1>2 DEF RoundOK
    <2>8. QED
      BY <1>5, <2>1, <2>3, <2>4, <2>5, <2>6, <2>7 DEF RoundOK, Preferences, Modes, Channels, Targets
  <1>7. CASE /\ round' = [round EXCEPT !.todo = @ \ {t}]
             /\ mailed' = IF Wants(round.mode, t) THEN [mailed EXCEPT ![t] = @ + 1] ELSE mailed
    <2>1. round'.mode = round.mode /\ round'.step = "mail" /\ round'.todo = round.todo \ {t}
          /\ round' \in [mode: Modes, step: {"queued", "mail", "broadcast", "ended", "failed"},
                         todo: SUBSET (Addresses \cup Members \cup Channels)]
      BY <1>1, <1>7 DEF RoundOK
    <2>2. mailed'[t] = IF Wants(round.mode, t) THEN 1 ELSE 0
      BY <1>1, <1>7 DEF RoundOK
    <2>3. \A v : Wants(round.mode, v)' <=> Wants(round.mode, v)
      BY <1>2, <2>1 DEF Wants
    <2>4. Done(t)'
      BY <2>1, <2>2, <2>3 DEF Done
    <2>5. \A v \in (Addresses \cup Members) \ {t} : Done(v)' <=> Done(v)
      BY <1>5, <2>3 DEF Done
    <2>6. QED
      BY <1>1, <1>2, <1>5, <2>1, <2>4, <2>5 DEF RoundOK, Targets
  <1>8. QED
    BY <1>4, <1>6, <1>7

LEMMA ChannelsKeepRound ==
    ASSUME RoundOK, Served \/ Broadcasted \/ \E c \in Channels : Broadcast(c)
    PROVE  RoundOK'
  <1>1. UNCHANGED <<configured, preference, changes, mailed, messaged, wavering>>
    BY DEF Served, Broadcasted, Broadcast
  <1>2. \A v : Wants(round.mode, v)' <=> Wants(round'.mode, v)
    BY <1>1 DEF Wants
  <1>3. CASE Served
    <2>1. tried' = tried /\ round.step = "mail" /\ round.todo = {}
      BY <1>3 DEF Served
    <2>2. PICK step \in {"broadcast", "ended"}, todo \in SUBSET Channels :
             /\ round' = [round EXCEPT !.step = step, !.todo = todo]
             /\ step = "broadcast" => round.mode = "announcement" /\ todo = Channels
             /\ step = "ended" => round.mode # "announcement"
      <3>1. CASE round.mode = "announcement"
        BY <1>3, <3>1 DEF Served
      <3>2. CASE round.mode # "announcement"
        <4>1. [round EXCEPT !.step = "ended"] = [round EXCEPT !.step = "ended", !.todo = {}]
          BY <2>1 DEF RoundOK
        <4>2. QED
          BY <1>3, <3>2, <4>1 DEF Served
      <3>3. QED
        BY <3>1, <3>2
    <2>3. /\ round' \in [mode: Modes, step: {"queued", "mail", "broadcast", "ended", "failed"},
                         todo: SUBSET (Addresses \cup Members \cup Channels)]
          /\ round'.mode = round.mode /\ round'.step = step /\ round'.todo = todo
      BY <2>2, RoundAt
    <2>4. \A v : Done(v)' <=> Done(v)
      BY <1>1, <2>3 DEF Done, Wants
    <2>5. QED
      BY <1>1, <2>1, <2>2, <2>3, <2>4 DEF RoundOK
  <1>4. CASE Broadcasted
    <2>1. tried' = tried /\ round.step = "broadcast" /\ round.todo = {} /\ round' = [round EXCEPT !.step = "ended"]
      BY <1>4 DEF Broadcasted
    <2>2. /\ round' \in [mode: Modes, step: {"queued", "mail", "broadcast", "ended", "failed"},
                         todo: SUBSET (Addresses \cup Members \cup Channels)]
          /\ round'.mode = round.mode /\ round'.step = "ended" /\ round'.todo = round.todo
      BY <2>1 DEF RoundOK
    <2>3. \A v : Done(v)' <=> Done(v)
      BY <1>1, <2>2 DEF Done, Wants
    <2>4. QED
      BY <1>1, <2>1, <2>2, <2>3 DEF RoundOK
  <1>5. CASE \E c \in Channels : Broadcast(c)
    <2>1. PICK c \in Channels : Broadcast(c)
      BY <1>5
    <2>2. /\ round.step = "broadcast" /\ c \in round.todo
          /\ tried' = IF c \in configured THEN [tried EXCEPT ![c] = @ + 1] ELSE tried
          /\ round' = [round EXCEPT !.todo = @ \ {c}]
      BY <2>1 DEF Broadcast
    <2>3. /\ round' \in [mode: Modes, step: {"queued", "mail", "broadcast", "ended", "failed"},
                         todo: SUBSET (Addresses \cup Members \cup Channels)]
          /\ round'.mode = round.mode /\ round'.step = "broadcast" /\ round'.todo = round.todo \ {c}
      BY <2>2 DEF RoundOK
    <2>4. \A v : Done(v)' <=> Done(v)
      BY <1>1, <2>3 DEF Done, Wants
    <2>5. tried[c] = 0 /\ tried \in [Channels -> Nat]
      BY <2>2 DEF RoundOK
    <2>6. tried' \in [Channels -> Nat] /\ tried'[c] = (IF c \in configured THEN 1 ELSE 0)
          /\ \A d \in Channels : d # c => tried'[d] = tried[d]
      BY <2>2, <2>5
    <2>7. \A d \in Channels : tried'[d] = IF d \in configured \ round'.todo THEN 1 ELSE 0
      BY <2>2, <2>3, <2>6 DEF RoundOK
    <2>8. QED
      BY <1>1, <2>2, <2>3, <2>4, <2>6, <2>7 DEF RoundOK
  <1>6. QED
    BY <1>3, <1>4, <1>5

LEMMA PreferencesKeepRound ==
    ASSUME RoundOK, NEW u \in Members, notification_preferences(u)
    PROVE  RoundOK'
  <1>1. UNCHANGED <<configured, round, mailed, messaged, tried>>
        /\ wavering' = IF round.step = "queued" THEN wavering ELSE wavering \cup {u}
    BY DEF notification_preferences
  <1>2. PICK new \in Preferences : preference' = [preference EXCEPT ![u] = new]
    BY DEF notification_preferences
  <1>3. preference' \in [Members -> Preferences] /\ \A v \in Members : v # u => preference'[v] = preference[v]
    BY <1>2 DEF RoundOK
  <1>4. \A v \in Targets(round.mode) : v # u => (Done(v)' <=> Done(v))
    BY <1>1, <1>3 DEF Done, Wants, Targets
  <1>5. QED
    BY <1>1, <1>3, <1>4 DEF RoundOK

LEMMA RoundNextOK == RoundOK /\ [NoticeNext]_noticeVars => RoundOK'
  <1> SUFFICES ASSUME RoundOK, [NoticeNext]_noticeVars PROVE RoundOK'
    OBVIOUS
  <1>1. CASE UNCHANGED noticeVars
    BY <1>1 DEF noticeVars, RoundOK, Done, Wants
  <1>2. QED
    BY <1>1, StartKeepsRound, ServeKeepsRound, ChannelsKeepRound, PreferencesKeepRound DEF NoticeNext

(* A round that ends has served every target as it wanted to be served,    *)
(* and called every configured channel once, whatever one of them did; one *)
(* that fails leaves its unserved targets and the channels alone           *)
(* (send_automatic_notification, broadcast).                               *)
THEOREM RoundsServeEverybody == NoticeSpec => []RoundsAreWhole
  <1>1. RoundOK => RoundsAreWhole
    BY DEF RoundOK, RoundsAreWhole, Done
  <1>2. QED
    BY <1>1, RoundInitOK, RoundNextOK, PTL DEF NoticeSpec

-----------------------------------------------------------------------------
(* MonthlyReports.                                                         *)

(* The chapters that the loop has still to come to got no report; those it *)
(* has passed, and that were due one all along, got theirs.                *)
LoopOK ==
    /\ report \in [step: {"waiting", "loop", "ended", "died"}, todo: SUBSET Chapters]
    /\ active \subseteq Chapters
    /\ inbox \in [Chapters -> [to: SUBSET LeadUsers, times: Nat]]
    /\ \A c \in Chapters : inbox[c].times <= 1
    /\ report.step = "waiting" => \A c \in Chapters : inbox[c].times = 0
    /\ report.step = "loop" =>
         /\ \A c \in report.todo : inbox[c].times = 0
         /\ \A c \in (Chapters \ unsettled) \ report.todo : inbox[c].times = 1
         /\ \A c \in Chapters \ unsettled : leads(c) # {}
    /\ report.step = "ended" => \A c \in Chapters \ unsettled : inbox[c].times = 1

LEMMA LoopInitOK == ReportInit => LoopOK
  <1> SUFFICES ASSUME ReportInit PROVE LoopOK
    OBVIOUS
  <1>1. inbox \in [Chapters -> [to: SUBSET LeadUsers, times: Nat]] /\ \A c \in Chapters : inbox[c].times = 0
    BY DEF ReportInit, Nobody
  <1>2. report.step = "waiting" /\ report \in [step: {"waiting", "loop", "ended", "died"}, todo: SUBSET Chapters]
    BY DEF ReportInit
  <1>3. active \subseteq Chapters
    BY DEF ReportInit
  <1>4. QED
    BY <1>1, <1>2, <1>3 DEF LoopOK

LEMMA LoopNextOK == LoopOK /\ [ReportNext]_reportVars => LoopOK'
  <1> SUFFICES ASSUME LoopOK, [ReportNext]_reportVars PROVE LoopOK'
    OBVIOUS
  <1>1. CASE Administer
    <2>1. UNCHANGED <<report, inbox>> /\ active' \subseteq Chapters
      BY <1>1 DEF Administer, LoopOK
    <2>2. unsettled' = unsettled \cup {c \in Chapters : c \notin active' \/ leads(c)' = {}}
      BY <1>1 DEF Administer
    <2>3. \A c \in Chapters \ unsettled' : c \notin unsettled /\ leads(c)' # {}
      BY <2>2
    <2>4. QED
      BY <2>1, <2>3 DEF LoopOK
  <1>2. CASE BeginReports
    <2>1. report.step = "waiting" /\ UNCHANGED <<active, chapter_leads, inbox>>
          /\ report' = [step |-> "loop", todo |-> active]
          /\ unsettled' = {c \in Chapters : c \notin active \/ leads(c) = {}}
      BY <1>2 DEF BeginReports
    <2>2. \A c \in Chapters \ unsettled' : c \in active /\ leads(c)' # {}
      BY <2>1 DEF leads
    <2>3. report'.step = "loop" /\ report'.todo = active
          /\ report' \in [step: {"waiting", "loop", "ended", "died"}, todo: SUBSET Chapters]
      BY <2>1 DEF LoopOK
    <2>4. QED
      BY <2>1, <2>2, <2>3 DEF LoopOK
  <1>3. CASE \E c \in Chapters : SendReport(c)
    <2>1. PICK c \in Chapters : SendReport(c)
      BY <1>3
    <2>2. /\ report.step = "loop" /\ c \in report.todo
          /\ UNCHANGED <<active, chapter_leads, unsettled>>
          /\ report' = [report EXCEPT !.todo = @ \ {c}]
      BY <2>1 DEF SendReport
    <2>3. report'.step = "loop" /\ report'.todo = report.todo \ {c}
          /\ report' \in [step: {"waiting", "loop", "ended", "died"}, todo: SUBSET Chapters]
      BY <2>2 DEF LoopOK
    <2>4. \A d : leads(d)' = leads(d) /\ leads(d) \in SUBSET LeadUsers
      BY <2>2 DEF leads
    <2>5. inbox[c].times = 0 /\ inbox \in [Chapters -> [to: SUBSET LeadUsers, times: Nat]]
      BY <2>2 DEF LoopOK
    <2>6. /\ inbox' \in [Chapters -> [to: SUBSET LeadUsers, times: Nat]]
          /\ \A d \in Chapters : d # c => inbox'[d] = inbox[d]
          /\ inbox'[c].times = IF leads(c) = {} THEN 0 ELSE 1
      <3>1. CASE leads(c) = {}
        BY <2>1, <2>5, <3>1 DEF SendReport
      <3>2. CASE leads(c) # {}
        <4>1. inbox' = [inbox EXCEPT ![c] = [to |-> leads(c), times |-> inbox[c].times + 1]]
          BY <2>1, <3>2 DEF SendReport
        <4>2. QED
          BY <2>4, <2>5, <3>2, <4>1
      <3>3. QED
        BY <3>1, <3>2
    <2>7. \A d \in Chapters : inbox'[d].times <= 1
      <3>1. \A d \in Chapters : inbox[d].times <= 1
        BY DEF LoopOK
      <3>2. QED
        BY <2>6, <3>1
    <2>8. QED
      BY <2>2, <2>3, <2>4, <2>6, <2>7 DEF LoopOK
  <1>4. CASE EndReports \/ DieReporting
    <2>1. UNCHANGED <<active, chapter_leads, inbox, unsettled>> /\ report.step = "loop"
      BY <1>4 DEF EndReports, DieReporting
    <2>2. \/ report.todo = {} /\ report' = [report EXCEPT !.step = "ended"]
          \/ report' = [report EXCEPT !.step = "died"]
      BY <1>4 DEF EndReports, DieReporting
    <2>3. /\ report'.step = "died" \/ (report'.step = "ended" /\ report.todo = {})
          /\ report' \in [step: {"waiting", "loop", "ended", "died"}, todo: SUBSET Chapters]
      BY <2>2 DEF LoopOK
    <2>4. QED
      BY <2>1, <2>3 DEF LoopOK
  <1>5. CASE UNCHANGED reportVars
    BY <1>5 DEF reportVars, LoopOK, leads
  <1>6. QED
    BY <1>1, <1>2, <1>3, <1>4, <1>5 DEF ReportNext

(* A run that ends has reported once to every chapter that was open and    *)
(* had a lead all through it, and no run reports to a chapter twice        *)
(* (send_monthly_chapter_reports).                                         *)
THEOREM EveryChapterIsReportedTo == ReportSpec => []ReportsReachTheLeads
  <1>1. LoopOK => ReportsReachTheLeads
    BY DEF LoopOK, ReportsReachTheLeads
  <1>2. QED
    BY <1>1, LoopInitOK, LoopNextOK, PTL DEF ReportSpec

-----------------------------------------------------------------------------
(***************************************************************************)
(* Theorems of WebhookDelivery, for any news, endpoints and retries: the   *)
(* leads' table of deliveries is true, and the deliveries implement        *)
(* WebhookPromise.                                                         *)
(***************************************************************************)

(* A call made its requests one for each retry so far, and one more once   *)
(* it has posted; what it was answered last fits the step it is at; and a  *)
(* call that ended untold has a reason.                                    *)
CallOK(c) ==
    /\ call[c].step = "unsent" => posts[c] = 0 /\ accepted[c] = 0
    /\ call[c].step \in {"unsent", "queued", "post"} =>
         call[c].answer = "none" /\ posts[c] = call[c].retries
    /\ call[c].step \in {"record", "retry"} => posts[c] = call[c].retries + 1
    /\ posts[c] <= max_retries + 1
    /\ call[c].step # "unsent" => endpoint[c[2]] # "new"
    /\ call[c].step = "retry" => call[c].answer # "2xx"
    /\ call[c].answer = "2xx" => accepted[c] > 0
    /\ call[c].step = "done" =>
         \/ call[c].answer = "2xx"
         \/ posts[c] = max_retries + 1
         \/ c \in spoiled
         \/ endpoint[c[2]] = "deleted"

(* The rows of a call whose endpoint is there: none says delivered before  *)
(* the call ends, and until it posts again each request has its row.       *)
RowsOK(c) ==
    /\ endpoint[c[2]] = "new" => rows[c] = NoRows
    /\ endpoint[c[2]] = "active" =>
         /\ call[c].step # "done" => rows[c].delivered = 0
         /\ rows[c].delivered <= accepted[c]
         /\ accepted[c] <= 1 + rows[c].failed
         /\ call[c].step \in {"unsent", "queued", "post", "retry"} => accepted[c] <= rows[c].failed
         /\ call[c].step = "record" => c \in spoiled \/ posts[c] = 1 + rows[c].failed
         /\ call[c].step # "record" => c \in spoiled \/ posts[c] = rows[c].delivered + rows[c].failed

CallRows == [step: {"unsent", "queued", "post", "record", "retry", "done"}, retries: 0..max_retries, answer: Answers]

WebhookInv == WebhookTypeOK /\ \A c \in Calls : CallOK(c) /\ RowsOK(c)

-----------------------------------------------------------------------------

LEMMA WebhookInitInv == WebhookInit => WebhookInv
  BY WebhookConstants, SMT DEF WebhookInit, WebhookInv, WebhookTypeOK, CallOK, RowsOK, Calls, Idle, NoRows, Answers

(* The steps of endpoints and emissions.                                   *)
LEMMA IndexInv ==
    ASSUME WebhookInv, NEW p \in Endpoints, webhook_index(p) PROVE WebhookInv'
  BY SMT DEF webhook_index, WebhookInv, WebhookTypeOK, CallOK, RowsOK, Calls, NoRows

LEMMA DeleteInv ==
    ASSUME WebhookInv, NEW p \in Endpoints, webhook_delete(p) PROVE WebhookInv'
  BY SMT DEF webhook_delete, WebhookInv, WebhookTypeOK, CallOK, RowsOK, Calls, NoRows

LEMMA EmitInv ==
    ASSUME WebhookInv, NEW n \in News, emit(n) PROVE WebhookInv'
  BY SMT DEF emit, Unsent, WebhookInv, WebhookTypeOK, CallOK, RowsOK, Calls

(* The steps of one call c: they change nothing of the others, so each has *)
(* its conditions, and those of c, to see to.                              *)
LEMMA LoadInv ==
    ASSUME WebhookInv, NEW c \in Calls, LoadEndpoint(c) PROVE WebhookInv'
  <1>1. c[2] \in Endpoints
    BY DEF Calls
  <1>2. QED
    BY <1>1, SMT DEF LoadEndpoint, Continue, WebhookInv, WebhookTypeOK, CallOK, RowsOK, Calls

LEMMA RefuseInv ==
    ASSUME WebhookInv, NEW c \in Calls, RefuseUrl(c) PROVE WebhookInv'
  <1>1. c[2] \in Endpoints
    BY DEF Calls
  <1>2. QED
    BY <1>1, SMT DEF RefuseUrl, Continue, WebhookInv, WebhookTypeOK, CallOK, RowsOK, Calls

(* A call after a step that is given by its row.                           *)
LEMMA Stepped ==
    ASSUME WebhookTypeOK, NEW c \in Calls, NEW row \in CallRows, call' = [call EXCEPT ![c] = row]
    PROVE  call' \in [Calls -> CallRows] /\ call'[c] = row /\ \A d \in Calls \ {c} : call'[d] = call[d]
  BY DEF WebhookTypeOK, CallRows

LEMMA Posted ==
    ASSUME NEW row \in CallRows, NEW a \in Answers
    PROVE  LET next == [row EXCEPT !.step = "record", !.answer = a]
           IN  next \in CallRows /\ next.step = "record" /\ next.retries = row.retries /\ next.answer = a
  BY DEF CallRows

LEMMA PostInv ==
    ASSUME WebhookInv, NEW c \in Calls, Post(c) PROVE WebhookInv'
  <1>1. c[2] \in Endpoints
    BY DEF Calls
  <1> DEFINE more == [accepted EXCEPT ![c] = @ + 1]
  <1>2. PICK a \in Answers \ {"none"} :
          /\ call' = [call EXCEPT ![c] = [@ EXCEPT !.step = "record", !.answer = a]]
          /\ accepted' \in {accepted, more}
          /\ a = "2xx" => accepted' = more
    BY DEF Post
  <1> DEFINE row == [call[c] EXCEPT !.step = "record", !.answer = a]
  <1>3. row \in CallRows /\ row.step = "record" /\ row.retries = call[c].retries /\ row.answer = a
    BY Posted DEF WebhookInv, WebhookTypeOK, CallRows
  <1>4. call' = [call EXCEPT ![c] = row]
    BY <1>2
  <1> HIDE DEF row
  <1>5. call[c].step = "post" /\ posts' = [posts EXCEPT ![c] = @ + 1] /\ UNCHANGED <<endpoint, rows, deaths, spoiled>>
    BY DEF Post
  <1>6. accepted' \in {accepted, more} /\ (a = "2xx" => accepted' = more)
    BY <1>2
  <1>7. call' \in [Calls -> CallRows] /\ call'[c] = row /\ \A d \in Calls \ {c} : call'[d] = call[d]
    BY <1>3, <1>4, Stepped DEF WebhookInv
  <1>8. accepted' \in [Calls -> Nat] /\ posts' \in [Calls -> Nat]
    BY <1>5, <1>6, SMT DEF WebhookInv, WebhookTypeOK
  <1>9. /\ posts'[c] = posts[c] + 1 /\ accepted'[c] \in {accepted[c], accepted[c] + 1}
        /\ a = "2xx" => accepted'[c] = accepted[c] + 1
        /\ \A d \in Calls \ {c} : posts'[d] = posts[d] /\ accepted'[d] = accepted[d]
    BY <1>5, <1>6, SMT DEF WebhookInv, WebhookTypeOK
  <1>10. WebhookTypeOK'
    BY <1>5, <1>7, <1>8 DEF WebhookInv, WebhookTypeOK, CallRows
  <1>11. ASSUME NEW d \in Calls \ {c} PROVE (CallOK(d) /\ RowsOK(d))'
    BY <1>5, <1>7, <1>9 DEF WebhookInv, CallOK, RowsOK
  <1>12. CallOK(c)'
    BY <1>5, <1>3, <1>7, <1>9, WebhookConstants, SMT DEF WebhookInv, WebhookTypeOK, CallOK
  <1>13. RowsOK(c)'
    BY <1>5, <1>1, <1>3, <1>7, <1>9, SMT DEF WebhookInv, WebhookTypeOK, CallOK, RowsOK
  <1>14. QED
    BY <1>10, <1>11, <1>12, <1>13 DEF WebhookInv

LEMMA RecordInv ==
    ASSUME WebhookInv, NEW c \in Calls, Record(c) PROVE WebhookInv'
  <1>1. c[2] \in Endpoints
    BY DEF Calls
  <1>2. QED
    BY <1>1, SMT DEF Record, RowSaved, Continue, WebhookInv, WebhookTypeOK, CallOK, RowsOK, Calls

LEMMA RetryInv ==
    ASSUME WebhookInv, NEW c \in Calls, Retry(c) PROVE WebhookInv'
  <1> DEFINE again == [step |-> "queued", retries |-> call[c].retries + 1, answer |-> "none"]
  <1>1. CASE call[c].retries < max_retries
    <2> call[c].retries + 1 \in 0..max_retries
      BY <1>1, WebhookConstants, SMT DEF WebhookInv, WebhookTypeOK
    <2>1. again \in [step: {"queued"}, retries: 0..max_retries, answer: Answers]
      BY SMT DEF Answers
    <2>2. call' = [call EXCEPT ![c] = again]
      BY <1>1 DEF Retry
    <2>3. again.step = "queued" /\ again.retries = call[c].retries + 1 /\ again.answer = "none"
      OBVIOUS
    <2> HIDE DEF again
    <2>4. WebhookTypeOK'
      BY <2>1, <2>2, SMT DEF Retry, WebhookInv, WebhookTypeOK
    <2>5. \A d \in Calls : (CallOK(d) /\ RowsOK(d))'
      BY <2>2, <2>3, SMT DEF Retry, WebhookInv, WebhookTypeOK, CallOK, RowsOK
    <2>6. QED
      BY <2>4, <2>5 DEF WebhookInv
  <1>2. CASE ~(call[c].retries < max_retries)
    <2>1. call' = [call EXCEPT ![c] = [call[c] EXCEPT !.step = "done"]]
      BY <1>2 DEF Retry
    <2>2. call[c].retries = max_retries
      <3>1. call[c].retries \in 0..max_retries
        BY DEF WebhookInv, WebhookTypeOK
      <3>2. QED
        BY <1>2, <3>1, WebhookConstants, SMT
    <2>3. WebhookTypeOK'
      BY <2>1, SMT DEF Retry, WebhookInv, WebhookTypeOK
    <2>4. ASSUME NEW d \in Calls PROVE (CallOK(d) /\ RowsOK(d))'
      BY <2>1, <2>2, SMT DEF Retry, WebhookInv, WebhookTypeOK, CallOK, RowsOK
    <2>5. QED
      BY <2>3, <2>4 DEF WebhookInv
  <1>3. QED
    BY <1>1, <1>2

LEMMA DieInv ==
    ASSUME WebhookInv, NEW c \in Calls, Die(c) PROVE WebhookInv'
  BY SMT DEF Die, Continue, WebhookInv, WebhookTypeOK, CallOK, RowsOK, Calls

LEMMA WebhookNextInv == WebhookInv /\ [WebhookNext]_webhookVars => WebhookInv'
  <1> SUFFICES ASSUME WebhookInv, [WebhookNext]_webhookVars PROVE WebhookInv'
    OBVIOUS
  <1>1. ASSUME NEW p \in Endpoints, webhook_index(p) \/ webhook_delete(p) PROVE WebhookInv'
    BY <1>1, IndexInv, DeleteInv
  <1>2. ASSUME NEW n \in News, emit(n) PROVE WebhookInv'
    BY <1>2, EmitInv
  <1>3. ASSUME NEW c \in Calls, Deliver(c) \/ RefuseUrl(c) \/ Die(c) PROVE WebhookInv'
    BY <1>3, LoadInv, PostInv, RecordInv, RetryInv, RefuseInv, DieInv DEF Deliver
  <1>4. CASE UNCHANGED webhookVars
    BY <1>4 DEF webhookVars, WebhookInv, WebhookTypeOK, CallOK, RowsOK
  <1>5. QED
    BY <1>1, <1>2, <1>3, <1>4 DEF WebhookNext

LEMMA WebhookAlwaysInv == WebhookSpec => []WebhookInv
  BY WebhookInitInv, WebhookNextInv, PTL DEF WebhookSpec

-----------------------------------------------------------------------------

(* The leads' table of deliveries says what happened: no row claims a      *)
(* delivery that the endpoint did not take, each repetition is explained   *)
(* by a failed row, and no request lacks its row without a cause           *)
(* (deliver_webhook and its WebhookDelivery rows).                         *)
THEOREM DeliveryRowsAreTrue == WebhookSpec => []RowsTellTheTruth
  <1>1. WebhookInv => RowsTellTheTruth
    BY SMT DEF WebhookInv, WebhookTypeOK, CallOK, RowsOK, RowsTellTheTruth, Calls
  <1>2. QED
    BY <1>1, WebhookAlwaysInv, PTL

-----------------------------------------------------------------------------
(* The refinement: each statement is a step of the promise, or none.       *)

LEMMA PromiseInitially == WebhookInit => Promise!PromiseInit
  <1> SUFFICES ASSUME WebhookInit PROVE Promise!PromiseInit
    OBVIOUS
  <1>1. \A c \in Calls : Fate(c) = "none"
    BY DEF WebhookInit, Idle, Fate
  <1>2. Removed = {}
    BY DEF WebhookInit, Removed, Calls
  <1>3. QED
    BY <1>1, <1>2 DEF WebhookInit, Promise!PromiseInit

(* A step that settles call c: it was pending, it is settled as the last   *)
(* answer says, and it may have found a reason.                            *)
LEMMA SettledStep ==
    ASSUME WebhookInv, NEW c \in Calls,
           call[c].step \notin {"unsent", "done"},
           call' \in [Calls -> CallRows], call'[c].step = "done", call'[c].answer = call[c].answer,
           \A d \in Calls \ {c} : call'[d] = call[d],
           UNCHANGED <<endpoint, accepted, posts>>,
           spoiled' \in {spoiled, spoiled \cup {c}},
           WebhookInv'
    PROVE  Promise!Settle(c)
  <1> DEFINE fate == [d \in Calls |-> Fate(d)]
             excused == spoiled \cup Removed
  <1>1. Removed' = Removed
    BY DEF Removed
  <1>2. excused' \in {excused, excused \cup {c}}
    BY <1>1
  <1>3. fate[c] = "pending"
    BY DEF Fate, WebhookInv, WebhookTypeOK
  <1>4. fate' = [fate EXCEPT ![c] = IF call[c].answer = "2xx" THEN "told" ELSE "dropped"]
    <2>1. \A d \in Calls \ {c} : Fate(d)' = Fate(d)
      BY DEF Fate
    <2>2. Fate(c)' = IF call[c].answer = "2xx" THEN "told" ELSE "dropped"
      BY DEF Fate
    <2>3. QED
      BY <2>1, <2>2
  <1>5. CASE call[c].answer = "2xx"
    <2>1. accepted[c] > 0
      BY <1>5 DEF WebhookInv, CallOK
    <2>2. QED
      BY <1>2, <1>3, <1>4, <1>5, <2>1 DEF Promise!Settle
  <1>6. CASE call[c].answer # "2xx"
    <2>1. posts[c] = max_retries + 1 \/ c \in excused'
      BY <1>6 DEF WebhookInv, CallOK, Removed
    <2>2. QED
      BY <1>2, <1>3, <1>4, <1>6, <2>1 DEF Promise!Settle
  <1>7. QED
    BY <1>5, <1>6

(* A step that keeps every call as pending, settled or unsent as it was.   *)
LEMMA SilentStep ==
    ASSUME WebhookInv, NEW c \in Calls,
           call[c].step \notin {"unsent", "done"}, call'[c].step \notin {"unsent", "done"},
           \A d \in Calls \ {c} : call'[d] = call[d],
           UNCHANGED <<endpoint, accepted, posts, spoiled>>
    PROVE  UNCHANGED Promise!promiseVars
  <1>1. \A d \in Calls : Fate(d)' = Fate(d)
    BY DEF Fate
  <1>2. Removed' = Removed
    BY DEF Removed
  <1>3. QED
    BY <1>1, <1>2 DEF Promise!promiseVars

LEMMA IndexStep ==
    ASSUME WebhookInv, NEW p \in Endpoints, webhook_index(p) PROVE UNCHANGED Promise!promiseVars
  <1>1. \A d \in Calls : Fate(d)' = Fate(d)
    BY DEF webhook_index, Fate
  <1>2. Removed' = Removed
    BY DEF webhook_index, Removed, Calls, WebhookInv, WebhookTypeOK
  <1>3. QED
    BY <1>1, <1>2 DEF webhook_index, Promise!promiseVars

LEMMA DeleteStep ==
    ASSUME WebhookInv, NEW p \in Endpoints, webhook_delete(p) PROVE \E C \in SUBSET Calls : Promise!Excuse(C)
  <1> DEFINE C == {c \in Calls : c[2] = p}
  <1>1. \A d \in Calls : Fate(d)' = Fate(d)
    BY DEF webhook_delete, Fate
  <1>2. Removed' = Removed \cup C
    BY DEF webhook_delete, Removed, Calls, WebhookInv, WebhookTypeOK
  <1>3. (spoiled \cup Removed)' = (spoiled \cup Removed) \cup C
    BY <1>2 DEF webhook_delete
  <1>4. Promise!Excuse(C)
    BY <1>1, <1>3 DEF webhook_delete, Promise!Excuse
  <1>5. QED
    BY <1>4

LEMMA EmitStep ==
    ASSUME WebhookInv, NEW n \in News, emit(n) PROVE Promise!Announce
  <1> DEFINE C == {c \in Calls : c[1] = n /\ endpoint[c[2]] = "active"}
             fate == [d \in Calls |-> Fate(d)]
  <1>1. \A c \in C : call[c].step = "unsent" /\ Fate(c) = "none"
    BY DEF emit, Unsent, Calls, Fate
  <1>2. \A c \in Calls : Fate(c)' = IF c \in C THEN "pending" ELSE Fate(c)
    <2>1. \A c \in C : call'[c].step = "queued"
      BY DEF emit, WebhookInv, WebhookTypeOK
    <2>2. \A c \in Calls \ C : call'[c] = call[c]
      BY DEF emit
    <2>3. QED
      BY <2>1, <2>2 DEF Fate
  <1>3. C \in SUBSET {c \in Calls : fate[c] = "none"}
    BY <1>1
  <1>4. fate' = [c \in Calls |-> IF c \in C THEN "pending" ELSE fate[c]]
    BY <1>2
  <1>5. Removed' = Removed
    BY DEF emit, Removed
  <1>6. QED
    BY <1>3, <1>4, <1>5 DEF emit, Promise!Announce

LEMMA Continued ==
    ASSUME WebhookTypeOK, NEW c \in Calls, NEW step \in {"post", "retry", "done"}, Continue(c, step)
    PROVE  /\ call' \in [Calls -> CallRows]
           /\ call'[c].step = step /\ call'[c].answer = call[c].answer
           /\ \A d \in Calls \ {c} : call'[d] = call[d]
  <1> DEFINE row == [call[c] EXCEPT !.step = step]
  <1>1. row \in CallRows /\ row.step = step /\ row.answer = call[c].answer
    BY DEF WebhookTypeOK, CallRows
  <1>2. call' = [call EXCEPT ![c] = row]
    BY DEF Continue
  <1> HIDE DEF row
  <1>3. QED
    BY <1>1, <1>2, Stepped

LEMMA LoadStep ==
    ASSUME WebhookInv, WebhookInv', NEW c \in Calls, LoadEndpoint(c)
    PROVE  Promise!Settle(c) \/ UNCHANGED Promise!promiseVars
  <1>1. CASE endpoint[c[2]] = "active"
    BY <1>1, Continued, SilentStep DEF LoadEndpoint, WebhookInv
  <1>2. CASE endpoint[c[2]] # "active"
    BY <1>2, Continued, SettledStep DEF LoadEndpoint, WebhookInv
  <1>3. QED
    BY <1>1, <1>2

LEMMA RefuseStep ==
    ASSUME WebhookInv, WebhookInv', NEW c \in Calls, RefuseUrl(c)
    PROVE  Promise!Settle(c)
  BY Continued, SettledStep DEF RefuseUrl, WebhookInv

LEMMA DieStep ==
    ASSUME WebhookInv, WebhookInv', NEW c \in Calls, Die(c)
    PROVE  Promise!Settle(c)
  BY Continued, SettledStep DEF Die, WebhookInv

LEMMA RecordStep ==
    ASSUME WebhookInv, WebhookInv', NEW c \in Calls, Record(c)
    PROVE  Promise!Settle(c) \/ UNCHANGED Promise!promiseVars
  <1>1. CASE endpoint[c[2]] = "active" /\ call[c].answer # "2xx"
    BY <1>1, Continued, SilentStep DEF Record, WebhookInv
  <1>2. CASE ~(endpoint[c[2]] = "active" /\ call[c].answer # "2xx")
    BY <1>2, Continued, SettledStep DEF Record, WebhookInv
  <1>3. QED
    BY <1>1, <1>2

LEMMA RetryStep ==
    ASSUME WebhookInv, WebhookInv', NEW c \in Calls, Retry(c)
    PROVE  Promise!Settle(c) \/ UNCHANGED Promise!promiseVars
  <1>1. CASE call[c].retries < max_retries
    <2> DEFINE row == [step |-> "queued", retries |-> call[c].retries + 1, answer |-> "none"]
    <2>1. call' = [call EXCEPT ![c] = row]
      BY <1>1 DEF Retry
    <2>2. call'[c] = row /\ row.step = "queued" /\ \A d \in Calls \ {c} : call'[d] = call[d]
      BY <2>1 DEF WebhookInv, WebhookTypeOK
    <2>3. call[c].step = "retry" /\ UNCHANGED <<endpoint, accepted, posts, spoiled>>
      BY DEF Retry
    <2> HIDE DEF row
    <2>4. QED
      BY <2>2, <2>3, SilentStep
  <1>2. CASE ~(call[c].retries < max_retries)
    <2>1. Continue(c, "done")
      BY <1>2 DEF Retry, Continue
    <2>2. QED
      BY <2>1, Continued, SettledStep DEF Retry, WebhookInv
  <1>3. QED
    BY <1>1, <1>2

LEMMA PostStep ==
    ASSUME WebhookInv, NEW c \in Calls, Post(c) PROVE Promise!Try(c)
  <1> DEFINE row(a) == [call[c] EXCEPT !.step = "record", !.answer = a]
             fate == [d \in Calls |-> Fate(d)]
  <1>1. /\ call[c].step = "post" /\ posts' = [posts EXCEPT ![c] = @ + 1]
        /\ accepted' \in {accepted, [accepted EXCEPT ![c] = @ + 1]}
        /\ UNCHANGED <<endpoint, spoiled>>
    BY DEF Post
  <1>2. PICK a \in Answers : call' = [call EXCEPT ![c] = [@ EXCEPT !.step = "record", !.answer = a]]
    BY DEF Post
  <1>3. row(a) \in CallRows /\ row(a).step = "record"
    BY Posted DEF WebhookInv, WebhookTypeOK, CallRows
  <1>4. call'[c].step = "record" /\ \A d \in Calls \ {c} : call'[d] = call[d]
    BY <1>2, <1>3, Stepped DEF WebhookInv
  <1>5. \A d \in Calls : Fate(d)' = Fate(d)
    BY <1>1, <1>4 DEF Fate
  <1>6. Removed' = Removed
    BY <1>1 DEF Removed
  <1>7. fate[c] = "pending" /\ posts[c] < max_retries + 1
    <2>1. call[c].retries \in 0..max_retries /\ posts[c] = call[c].retries
      BY <1>1 DEF WebhookInv, WebhookTypeOK, CallOK
    <2>2. QED
      BY <1>1, <2>1, WebhookConstants, SMT DEF Fate
  <1>8. QED
    BY <1>1, <1>5, <1>6, <1>7 DEF Promise!Try

(* Whatever the chapter's endpoints answer and whoever dies: news is tried *)
(* at most max_retries + 1 times, told only if an endpoint took it, and    *)
(* dropped only with a reason (emit and deliver_webhook).                  *)
THEOREM DeliveriesKeepThePromise == WebhookSpec => ImplementsPromise
  <1>1. WebhookInit => Promise!PromiseInit
    BY PromiseInitially
  <1>2. WebhookInv /\ WebhookInv' /\ [WebhookNext]_webhookVars => [Promise!PromiseNext]_(Promise!promiseVars)
    <2> SUFFICES ASSUME WebhookInv, WebhookInv', [WebhookNext]_webhookVars
                 PROVE  [Promise!PromiseNext]_(Promise!promiseVars)
      OBVIOUS
    <2>1. ASSUME NEW p \in Endpoints, webhook_index(p) PROVE UNCHANGED Promise!promiseVars
      BY <2>1, IndexStep
    <2>2. ASSUME NEW p \in Endpoints, webhook_delete(p) PROVE Promise!PromiseNext
      BY <2>2, DeleteStep DEF Promise!PromiseNext
    <2>3. ASSUME NEW n \in News, emit(n) PROVE Promise!PromiseNext
      BY <2>3, EmitStep DEF Promise!PromiseNext
    <2>4. ASSUME NEW c \in Calls, Deliver(c) \/ RefuseUrl(c) \/ Die(c)
          PROVE  Promise!PromiseNext \/ UNCHANGED Promise!promiseVars
      BY <2>4, LoadStep, PostStep, RecordStep, RetryStep, RefuseStep, DieStep DEF Deliver, Promise!PromiseNext
    <2>5. CASE UNCHANGED webhookVars
      BY <2>5 DEF webhookVars, Promise!promiseVars, Fate, Removed
    <2>6. QED
      BY <2>1, <2>2, <2>3, <2>4, <2>5 DEF WebhookNext
  <1>3. QED
    BY <1>1, <1>2, WebhookAlwaysInv, PTL DEF WebhookSpec, ImplementsPromise, Promise!PromiseSpec

-----------------------------------------------------------------------------
(* The parts side by side (MCOutgoing): what the theorems say of each part *)
(* they say of the composition that TLC runs.                              *)

(* Every behaviour of the composition is one of each part: none of them    *)
(* writes what another one keeps.                                          *)
THEOREM OutgoingRunsItsParts == OutgoingSpec => MailerSpec /\ WebhookSpec /\ NoticeSpec /\ ReportSpec
  <1>1. OutgoingInit => MailerInit /\ WebhookInit /\ NoticeInit /\ ReportInit
    BY DEF OutgoingInit
  <1>2. [OutgoingNext]_<<part, parts>> =>
           /\ [MailerNext]_mailerVars /\ [WebhookNext]_webhookVars
           /\ [NoticeNext]_noticeVars /\ [ReportNext]_reportVars
    BY DEF OutgoingNext, parts
  <1>3. QED
    BY <1>1, <1>2, PTL DEF OutgoingSpec, MailerSpec, WebhookSpec, NoticeSpec, ReportSpec

(* What RoundOK and LoopOK leave out of the types.                         *)
NoticeRest ==
    /\ configured \subseteq Channels \cup {"whatsapp"} /\ changes \in 0..MaxChanges
    /\ messaged \subseteq Members /\ wavering \subseteq Members

ReportRest ==
    /\ chapter_leads \subseteq LeadUsers \X Chapters
    /\ admin \in 0..MaxAdmin /\ ill \in 0..MaxReportDeaths
    /\ unsettled \subseteq Chapters

LEMMA NoticeRestNext == RoundOK /\ NoticeRest /\ [NoticeNext]_noticeVars => NoticeRest'
  <1> SUFFICES ASSUME RoundOK, NoticeRest, [NoticeNext]_noticeVars PROVE NoticeRest'
    OBVIOUS
  <1>1. configured' = configured
    BY DEF NoticeNext, noticeVars, StartRound, Serve, Served, Broadcasted, Broadcast, notification_preferences
  <1>2. ASSUME NEW t \in Addresses \cup Members, Serve(t)
        PROVE  messaged' \subseteq Members /\ UNCHANGED <<changes, wavering>>
    <2>1. t \in Targets(round.mode)
      BY <1>2 DEF Serve, RoundOK
    <2>2. WantsWhatsApp(round.mode, t) => t \in Members
      BY <2>1 DEF WantsWhatsApp, Targets
    <2>3. QED
      BY <1>2, <2>2 DEF Serve, NoticeRest
  <1>3. ASSUME NEW u \in Members, notification_preferences(u)
        PROVE  NoticeRest'
    <2>1. changes' \in 0..MaxChanges
      BY <1>3, NoticeConstants DEF notification_preferences, NoticeRest
    <2>2. QED
      BY <1>1, <1>3, <2>1 DEF notification_preferences, NoticeRest
  <1>4. ASSUME UNCHANGED <<changes, messaged, wavering>>
        PROVE  NoticeRest'
    BY <1>1, <1>4 DEF NoticeRest
  <1>5. QED
    BY <1>1, <1>2, <1>3, <1>4 DEF NoticeNext, NoticeRest, noticeVars, StartRound, Served, Broadcasted, Broadcast

LEMMA ReportRestNext == LoopOK /\ ReportRest /\ [ReportNext]_reportVars => ReportRest'
  <1> SUFFICES ASSUME LoopOK, ReportRest, [ReportNext]_reportVars PROVE ReportRest'
    OBVIOUS
  <1>1. CASE Administer
    <2>1. admin' \in 0..MaxAdmin
      BY <1>1, ReportConstants DEF Administer, ReportRest
    <2>2. chapter_leads' \subseteq LeadUsers \X Chapters
      BY <1>1 DEF Administer, ReportRest
    <2>3. unsettled' \subseteq Chapters /\ ill' = ill
      BY <1>1 DEF Administer, ReportRest
    <2>4. QED
      BY <2>1, <2>2, <2>3 DEF ReportRest
  <1>2. CASE DieReporting
    <2>1. ill' \in 0..MaxReportDeaths
      BY <1>2, ReportConstants DEF DieReporting, ReportRest
    <2>2. QED
      BY <1>2, <2>1 DEF DieReporting, ReportRest
  <1>3. CASE BeginReports
    BY <1>3 DEF BeginReports, ReportRest
  <1>4. QED
    BY <1>1, <1>2, <1>3 DEF ReportNext, EndReports, SendReport, reportVars, ReportRest

(* The rows, the queues and the tasks of all that is sent out keep their   *)
(* types.                                                                  *)
THEOREM OutgoingTypesCorrect == OutgoingSpec => []OutgoingTypeOK
  <1>1. NoticeInit => NoticeRest
    BY NoticeConstants DEF NoticeInit, NoticeRest
  <1>2. ReportInit => ReportRest
    BY ReportConstants DEF ReportInit, ReportRest
  <1>3. NoticeSpec => []RoundOK /\ []NoticeRest
    BY <1>1, RoundInitOK, RoundNextOK, NoticeRestNext, PTL DEF NoticeSpec
  <1>4. ReportSpec => []LoopOK /\ []ReportRest
    BY <1>2, LoopInitOK, LoopNextOK, ReportRestNext, PTL DEF ReportSpec
  <1>5. MailerSpec => []CopyInv
    BY CopyInitInv, CopyNextInv, PTL DEF MailerSpec
  <1>6. CopyInv /\ WebhookInv /\ RoundOK /\ NoticeRest /\ LoopOK /\ ReportRest => OutgoingTypeOK
    BY DEF CopyInv, WebhookInv, RoundOK, NoticeRest, LoopOK, ReportRest, OutgoingTypeOK, NoticeTypeOK, ReportTypeOK
  <1>7. QED
    BY <1>3, <1>4, <1>5, <1>6, WebhookAlwaysInv, OutgoingRunsItsParts, PTL

=============================================================================

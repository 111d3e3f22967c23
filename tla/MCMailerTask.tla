----------------------------- MODULE MCMailerTask -----------------------------
EXTENDS MailerTask, TLC

(* One attendee is confirmed, the others wait.                             *)
SomeWait ==
    [u \in Recipients |-> IF u = CHOOSE v \in Recipients : TRUE THEN "Confirmed" ELSE "Waitlisted"]

=============================================================================

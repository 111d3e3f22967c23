--------------------------- MODULE WebhookPromise ---------------------------
(***************************************************************************)
(* What the chapters are promised of the outbound webhooks: news for an    *)
(* endpoint is tried again until the endpoint takes it, a bounded number   *)
(* of times, and is dropped only for a reason a lead can name.             *)
(***************************************************************************)
EXTENDS Naturals

CONSTANTS
    Calls,          \* the news for one endpoint each
    Attempts        \* how often one may be tried

VARIABLES
    fate,           \* of each call: not emitted, pending, told or dropped
    tries,          \* the requests made for it
    taken,          \* those that the endpoint took
    excused         \* the calls that may be dropped early

promiseVars == <<fate, tries, taken, excused>>

PromiseInit ==
    /\ fate = [c \in Calls |-> "none"]
    /\ tries = [c \in Calls |-> 0]
    /\ taken = [c \in Calls |-> 0]
    /\ excused = {}

(* News, for several endpoints at once.                                    *)
Announce ==
    /\ \E C \in SUBSET {c \in Calls : fate[c] = "none"} :
          fate' = [c \in Calls |-> IF c \in C THEN "pending" ELSE fate[c]]
    /\ UNCHANGED <<tries, taken, excused>>

Try(c) ==
    /\ fate[c] = "pending" /\ tries[c] < Attempts
    /\ tries' = [tries EXCEPT ![c] = @ + 1]
    /\ taken' \in {taken, [taken EXCEPT ![c] = @ + 1]}
    /\ UNCHANGED <<fate, excused>>

(* The endpoint was removed, deactivated or refused, or a worker died.     *)
Excuse(C) ==
    /\ excused' = excused \cup C
    /\ UNCHANGED <<fate, tries, taken>>

Settle(c) ==
    /\ fate[c] = "pending"
    /\ excused' \in {excused, excused \cup {c}}
    /\ \/ taken[c] > 0 /\ fate' = [fate EXCEPT ![c] = "told"]
       \/ /\ tries[c] = Attempts \/ c \in excused'
          /\ fate' = [fate EXCEPT ![c] = "dropped"]
    /\ UNCHANGED <<tries, taken>>

PromiseNext ==
    \/ Announce
    \/ \E C \in SUBSET Calls : Excuse(C)
    \/ \E c \in Calls : Try(c) \/ Settle(c)

PromiseSpec == PromiseInit /\ [][PromiseNext]_promiseVars

=============================================================================

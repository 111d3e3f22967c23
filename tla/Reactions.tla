------------------------------ MODULE Reactions ------------------------------
(***************************************************************************)
(* What one member leaves on a session and its event (apps/events/views.py *)
(* and models.py): a vote, a star, an upvote of a question, a comment, a   *)
(* rating.  The member may click in several tabs: every request reads the  *)
(* row it is to change and then writes, and a lead may hide the question   *)
(* meanwhile.  Unique constraints keep one row of each kind.               *)
(***************************************************************************)
EXTENDS Naturals

CONSTANTS
    Tabs,
    MaxClicks       \* bound: the requests

ASSUME ReactionConstants == MaxClicks \in Nat

VARIABLES
    page,           \* the rows of the member, and whether the question is hidden
    tab,            \* what each tab's request has read and is to write
    clicks,         \* the requests so far, also the primary key of a new row
    meant,          \* history: what the clicks say one by one, since no two last overlapped
    overlap         \* history: two requests overlap, or did since all were quiet

reactionVars == <<page, tab, clicks, meant, overlap>>

-----------------------------------------------------------------------------

NoRow == [id |-> 0, value |-> "none"]
Row(id, value) == [id |-> id, value |-> value]

Tables == {"vote", "star", "upvote", "comment", "rating"}

(* The clicks of each table, and what a row of it may hold.                *)
Clicks == [vote |-> {"like", "dislike"}, star |-> {"star"}, upvote |-> {"upvote"},
           comment |-> {"post", "edit", "delete"}, rating |-> {"good", "bad"}]
Values == [vote |-> {"like", "dislike"}, star |-> {"star"}, upvote |-> {"upvote"},
           comment |-> {"post", "edit"}, rating |-> {"good", "bad"}]

Closed == [table |-> "none", click |-> "none", seen |-> NoRow]

ReactionInit ==
    /\ page = [hidden |-> FALSE, rows |-> [t \in Tables |-> NoRow]]
    /\ tab = [b \in Tabs |-> Closed]
    /\ clicks = 0
    /\ meant = [t \in Tables |-> "none"]
    /\ overlap = FALSE

Busy == {b \in Tabs : tab[b] # Closed}

(* What a click means: a second like takes the first back, a dislike       *)
(* replaces it, and a star or an upvote is taken back by the next one; a   *)
(* rating replaces the one before.                                         *)
Meaning(t, click) ==
    CASE t \in {"vote", "star", "upvote"} -> IF meant[t] = click THEN "none" ELSE click
      [] t = "comment" -> IF click = "delete" THEN "none" ELSE click
      [] t = "rating" -> click

(* The request reads the row.  Editing and deleting a comment need one,    *)
(* an upvote a question that is not hidden; get_or_create has created the  *)
(* star that was not there, and the request is over.                       *)
Click(b, t, click) ==
    LET row == page.rows[t]
    IN  /\ clicks < MaxClicks /\ clicks' = clicks + 1
        /\ tab[b] = Closed
        /\ click \in {"edit", "delete"} => row # NoRow
        /\ click = "post" => row = NoRow /\ \A c \in Tabs : tab[c].click # "post"
        /\ t = "upvote" => ~page.hidden
        /\ IF t = "star" /\ row = NoRow
           THEN /\ page' = [page EXCEPT !.rows[t] = Row(clicks', "star")]
                /\ UNCHANGED tab
           ELSE /\ tab' = [tab EXCEPT ![b] = [table |-> t, click |-> click, seen |-> row]]
                /\ UNCHANGED page
        /\ meant' = [meant EXCEPT ![t] = Meaning(t, click)]
        /\ overlap' = (overlap \/ Busy # {})

(* The rows after a request that saw the row seen; none is an              *)
(* IntegrityError, for an insert that another one precedes.  A delete goes *)
(* by primary key, and save() of a row that is gone inserts it again.      *)
Insert(row, value) == IF row = NoRow THEN {Row(clicks, value)} ELSE {}
Delete(row, seen) == {IF row.id = seen.id THEN NoRow ELSE row}
Save(row, seen, value) == IF row.id \in {0, seen.id} THEN {Row(seen.id, value)} ELSE {}

(* Mutant: session_like and session_dislike look for any vote.             *)
VoteOnce(row, seen, click) ==
    IF seen = NoRow THEN Insert(row, click) ELSE Delete(row, seen)

(* session_like, session_dislike                                           *)
Vote(row, seen, click) ==
    CASE seen = NoRow -> Insert(row, click)
      [] seen.value = click -> Delete(row, seen)
      [] OTHER -> Save(row, seen, click)

(* question_upvote: add() and remove() of the many-to-many table do        *)
(* nothing when nothing is to do.                                          *)
Upvote(row, seen) ==
    IF seen # NoRow THEN {NoRow} ELSE IF row = NoRow THEN Insert(row, "upvote") ELSE {row}

Comment(row, seen, click) ==
    CASE click = "post" -> Insert(row, click)
      [] click = "edit" -> Save(row, seen, click)
      [] click = "delete" -> Delete(row, seen)

(* update_or_create                                                        *)
Rate(row, click) == IF row = NoRow THEN Insert(row, click) ELSE {Row(row.id, click)}

After(t, row, seen, click) ==
    CASE t = "vote" -> Vote(row, seen, click)
      [] t = "star" -> Delete(row, seen)
      [] t = "upvote" -> Upvote(row, seen)
      [] t = "comment" -> Comment(row, seen, click)
      [] t = "rating" -> Rate(row, click)

Finish(b) ==
    LET t == tab[b].table
        after == After(t, page.rows[t], tab[b].seen, tab[b].click)
    IN  /\ tab[b] # Closed
        /\ \/ \E row \in after : page' = [page EXCEPT !.rows[t] = row]
           \/ after = {} /\ UNCHANGED page
        /\ tab' = [tab EXCEPT ![b] = Closed]
        /\ overlap' = (overlap /\ Busy # {b})
        /\ meant' = IF overlap /\ Busy = {b} THEN [u \in Tables |-> page'.rows[u].value] ELSE meant
        /\ UNCHANGED clicks

(* question_hide, by a lead of the chapter                                 *)
question_hide ==
    /\ ~page.hidden
    /\ page' = [page EXCEPT !.hidden = TRUE]
    /\ UNCHANGED <<tab, clicks, meant, overlap>>

ReactionNext ==
    \/ \E b \in Tabs, t \in Tables : \E click \in Clicks[t] : Click(b, t, click)
    \/ \E b \in Tabs : Finish(b)
    \/ question_hide

ReactionSpec == ReactionInit /\ [][ReactionNext]_reactionVars

-----------------------------------------------------------------------------

ReactionTypeOK ==
    /\ page.hidden \in BOOLEAN
    /\ \A t \in Tables : page.rows[t] \in {NoRow} \cup [id: 1..MaxClicks, value: Values[t]]
    /\ \A b \in Tabs :
          tab[b] \in {Closed} \cup [table: Tables, click: UNION {Clicks[t] : t \in Tables},
                                    seen: {NoRow} \cup {page.rows[t] : t \in Tables} \cup
                                          [id: 1..MaxClicks, value: UNION {Values[t] : t \in Tables}]]
    /\ clicks \in 0..MaxClicks /\ overlap \in BOOLEAN
    /\ meant \in [Tables -> {"none"} \cup UNION {Values[t] : t \in Tables}]

(* The clicks of a member count one by one: as long as no two requests     *)
(* overlap, each table has what they say.                                  *)
ClicksCount == ~overlap /\ Busy = {} => \A t \in Tables : page.rows[t].value = meant[t]

=============================================================================

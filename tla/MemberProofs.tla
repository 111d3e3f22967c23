---------------------------- MODULE MemberProofs ----------------------------
(***************************************************************************)
(* Theorems of Membership, Reactions and ChapterSite: a new password or a  *)
(* deletion ends what was issued before, the clicks of a member count one  *)
(* by one, and the three readers of the chapters' hosts agree.             *)
(***************************************************************************)
EXTENDS Membership, Reactions, ChapterSite, TLAPS

-----------------------------------------------------------------------------
(* ChapterSite.  Every saved domain is in lower case, and the unique       *)
(* constraints hold of all the rows there are.                             *)

Lowered == {NoDomain} \cup {Custom(host, TRUE) : host \in Hosts}

SitesLowered == \A c \in Sites : sites[c].there => sites[c].custom_domain \in Lowered

SitesUnique ==
    \A c, d \in Sites : c # d /\ sites[c].there /\ sites[d].there =>
        ~SameSlug(sites[c].subdomain, sites[d].subdomain) /\ ~SameDomain(sites[c].custom_domain, sites[d].custom_domain)

SitesInv == SiteTypeOK /\ SitesLowered /\ SitesUnique

LEMMA SiteIsThere ==
  /\ ~NoSite.there
  /\ \A r \in SiteRows : r.there /\ r.subdomain \in Slugs /\ r.custom_domain \in CustomDomains
  /\ \A r \in {NoSite} \cup SiteRows : r.there => r \in SiteRows
  <1>1. ~NoSite.there
    BY DEF NoSite
  <1>2. \A r \in SiteRows : r.there /\ r.subdomain \in Slugs /\ r.custom_domain \in CustomDomains
    BY DEF SiteRows
  <1> QED BY <1>1, <1>2

(* A slug is a label, in lower case or not.                                *)
LEMMA SlugIs ==
  /\ \A label \in Labels : Slug(label, TRUE) \in Slugs
  /\ \A label \in Labels : Slug(label, TRUE).label = label /\ Slug(label, TRUE).lower = TRUE
  /\ \A s \in Slugs : s.label \in Labels /\ s.lower \in BOOLEAN
  <1>1. ASSUME NEW label \in Labels
        PROVE  /\ Slug(label, TRUE) \in Slugs
               /\ Slug(label, TRUE).label = label /\ Slug(label, TRUE).lower = TRUE
    <2>1. PICK s : s = [label |-> label, lower |-> TRUE]
      OBVIOUS
    <2>2. s \in Slugs /\ s.label = label /\ s.lower = TRUE
      BY <2>1 DEF Slugs
    <2>3. Slug(label, TRUE) = s
      BY <2>1 DEF Slug
    <2> QED BY <2>2, <2>3
  <1>2. \A s \in Slugs : s.label \in Labels /\ s.lower \in BOOLEAN
    BY DEF Slugs
  <1> QED BY <1>1, <1>2

(* What the database takes for equal is so from either side, and equal to  *)
(* the same slug or domain in lower case is equal.                         *)
LEMMA SameIsSymmetric ==
  /\ \A s, t : SameSlug(s, t) => SameSlug(t, s)
  /\ \A d, e : SameDomain(d, e) => SameDomain(e, d)
  BY DEF SameSlug, SameDomain

LEMMA SameAsOne ==
  /\ \A s, t, u : SameSlug(s, u) /\ SameSlug(t, u) => SameSlug(s, t)
  /\ \A d, e, f : SameDomain(d, f) /\ SameDomain(e, f) => SameDomain(d, e)
  BY DEF SameSlug, SameDomain

(* What saving a row as c's does to the table.                             *)
LEMMA SaveSiteKeeps ==
  ASSUME SitesInv, NEW c \in Sites, NEW row \in SiteRows, SaveSite(c, row)
  PROVE  /\ sites' \in [Sites -> {NoSite} \cup SiteRows] /\ saves' \in 0..MaxSaves /\ folds' = folds
         /\ SitesLowered' /\ SitesUnique'
  <1>0. sites \in [Sites -> {NoSite} \cup SiteRows]
    BY DEF SitesInv, SiteTypeOK
  <1>1. PICK domain : domain = IF row.custom_domain.given THEN Custom(row.custom_domain.host, TRUE) ELSE NoDomain
    OBVIOUS
  <1>2. PICK saved : saved = [row EXCEPT !.custom_domain = domain]
    OBVIOUS
  <1>3. Unique(c, saved) /\ sites' = [sites EXCEPT ![c] = saved] /\ folds' = folds
    BY <1>1, <1>2 DEF SaveSite
  <1>4. row.custom_domain \in CustomDomains
    BY DEF SiteRows
  <1>5. domain \in CustomDomains /\ domain \in Lowered
    <2>1. CASE row.custom_domain = NoDomain
      BY <1>1, <2>1 DEF NoDomain, CustomDomains, Lowered
    <2>2. CASE row.custom_domain # NoDomain
      <3>1. PICK host \in Hosts \ {Root, Alias}, lower \in BOOLEAN : row.custom_domain = Custom(host, lower)
        BY <1>4, <2>2 DEF CustomDomains
      <3>2. domain = Custom(host, TRUE)
        BY <1>1, <3>1 DEF Custom
      <3>3. domain \in CustomDomains
        <4>1. \E h \in Hosts \ {Root, Alias}, l \in BOOLEAN : domain = Custom(h, l)
          BY <3>1, <3>2
        <4>2. domain \in {Custom(h, l) : h \in Hosts \ {Root, Alias}, l \in BOOLEAN}
          BY <4>1
        <4> QED BY <4>2 DEF CustomDomains
      <3>4. domain \in Lowered
        BY <3>2 DEF Lowered
      <3> QED BY <3>3, <3>4
    <2> QED BY <2>1, <2>2
  <1>6. saved \in SiteRows /\ saved.custom_domain = domain
    BY <1>2, <1>5 DEF SiteRows
  <1>7. sites' \in [Sites -> {NoSite} \cup SiteRows] /\ SitesLowered'
    BY <1>0, <1>3, <1>5, <1>6 DEF SitesInv, SitesLowered
  <1>8. ASSUME NEW a \in Sites, NEW b \in Sites, a # b, sites'[a].there, sites'[b].there
        PROVE  /\ ~SameSlug(sites'[a].subdomain, sites'[b].subdomain)
               /\ ~SameDomain(sites'[a].custom_domain, sites'[b].custom_domain)
    <2>1. CASE a # c /\ b # c
      BY <1>0, <1>3, <1>8, <2>1 DEF SitesInv, SitesUnique
    <2>2. CASE a = c
      <3>1. sites'[a] = saved /\ sites'[b] = sites[b]
        BY <1>0, <1>3, <1>8, <2>2
      <3> QED BY <1>3, <1>8, <2>2, <3>1, SameIsSymmetric DEF Unique
    <2>3. CASE b = c
      <3>1. sites'[b] = saved /\ sites'[a] = sites[a]
        BY <1>0, <1>3, <1>8, <2>3
      <3> QED BY <1>3, <1>8, <2>3, <3>1 DEF Unique
    <2> QED BY <2>1, <2>2, <2>3
  <1>9. SitesUnique'
    BY <1>3, <1>8 DEF SitesUnique, SameSlug, SameDomain
  <1>10. saves' \in 0..MaxSaves
    BY SiteConstants DEF SaveSite, SitesInv, SiteTypeOK
  <1> QED BY <1>3, <1>7, <1>9, <1>10

LEMMA SitesInit == SiteInit => SitesInv
  BY SiteIsThere, SiteConstants DEF SiteInit, SitesInv, SiteTypeOK, SitesLowered, SitesUnique

(* The invariant says nothing of what a lead has loaded but its type.      *)
LEMMA SitesRest ==
  ASSUME SitesInv, UNCHANGED <<sites, saves, folds>>, editing' \in [Sites -> {NoSite} \cup SiteRows]
  PROVE  SitesInv'
  BY DEF SitesInv, SiteTypeOK, SitesLowered, SitesUnique, SameSlug, SameDomain

LEMMA SitesNext == SitesInv /\ [SiteNext]_siteVars => SitesInv'
  <1> SUFFICES ASSUME SitesInv, [SiteNext]_siteVars PROVE SitesInv'
    OBVIOUS
  <1>0. /\ sites \in [Sites -> {NoSite} \cup SiteRows] /\ editing \in [Sites -> {NoSite} \cup SiteRows]
        /\ saves \in 0..MaxSaves /\ folds \in BOOLEAN
    BY DEF SitesInv, SiteTypeOK
  <1>1. ASSUME NEW c \in Sites, NEW row \in SiteRows, SaveSite(c, row),
               editing' \in [Sites -> {NoSite} \cup SiteRows]
        PROVE  SitesInv'
    BY <1>0, <1>1, SaveSiteKeeps DEF SitesInv, SiteTypeOK
  <1>2. ASSUME NEW c \in Sites, AdminSaves(c)
        PROVE  SitesInv'
    <2>1. PICK slug \in Slugs \cup {Slug(SlugOf[c], TRUE)}, domain \in CustomDomains, active \in BOOLEAN :
             SaveSite(c, [there |-> TRUE, subdomain |-> slug, custom_domain |-> domain, active |-> active])
      BY <1>2 DEF AdminSaves
    <2>2. slug \in Slugs
      BY SiteConstants, SlugIs
    <2>3. [there |-> TRUE, subdomain |-> slug, custom_domain |-> domain, active |-> active] \in SiteRows
      BY <2>2 DEF SiteRows
    <2>4. editing' = editing
      BY <1>2 DEF AdminSaves
    <2> QED BY <1>0, <1>1, <2>1, <2>3, <2>4
  <1>3. ASSUME NEW c \in Sites, import_null_community(c)
        PROVE  SitesInv'
    <2>1. [there |-> TRUE, subdomain |-> Slug(SlugOf[c], TRUE), custom_domain |-> NoDomain, active |-> TRUE]
            \in SiteRows
      <3>1. Slug(SlugOf[c], TRUE) \in Slugs
        BY SiteConstants, SlugIs
      <3>2. NoDomain \in CustomDomains
        BY DEF CustomDomains
      <3> QED BY <3>1, <3>2 DEF SiteRows
    <2> QED BY <1>0, <1>1, <1>3, <2>1 DEF import_null_community
  <1>4. ASSUME NEW c \in Sites, chapter_edit(c)
        PROVE  SitesInv'
    BY <1>0, <1>4, SitesRest DEF chapter_edit
  <1>5. ASSUME NEW c \in Sites, SaveEdited(c)
        PROVE  SitesInv'
    <2>1. editing[c] \in SiteRows /\ editing' \in [Sites -> {NoSite} \cup SiteRows]
      BY <1>0, <1>5, SiteIsThere DEF SaveEdited
    <2>2. CASE SaveSite(c, editing[c])
      BY <1>1, <2>1, <2>2
    <2>3. CASE UNCHANGED <<sites, saves, folds>>
      BY <2>1, <2>3, SitesRest
    <2> QED BY <1>5, <2>2, <2>3 DEF SaveEdited
  <1>6. CASE UNCHANGED siteVars
    BY <1>0, <1>6, SitesRest DEF siteVars
  <1> QED BY <1>2, <1>3, <1>4, <1>5, <1>6 DEF SiteNext

(* The three readers of the rows agree in every state that satisfies it.   *)
LEMMA ReadersAgree == SitesInv => DomainsAgree
  <1> SUFFICES ASSUME SitesInv PROVE DomainsAgree
    OBVIOUS
  <1>1. ASSUME NEW host \in Hosts \ {Alias}
        PROVE  domain_check(host) <=> IsRoot(host) \/ _resolve(host) # {}
    BY <1>1 DEF domain_check, IsRoot, _resolve
  <1>2. ASSUME NEW host \in Hosts, NEW c \in _resolve(host), NEW d \in _resolve(host)
        PROVE  c = d
    <2>1. CASE c \in ActiveAt(host.label) /\ d \in ActiveAt(host.label)
      BY <2>1, SameAsOne DEF ActiveAt, SitesInv, SitesUnique
    <2>2. CASE c \in ActiveOn(host) /\ d \in ActiveOn(host)
      BY <2>2, SameAsOne DEF ActiveOn, SitesInv, SitesUnique
    <2> QED BY <2>1, <2>2 DEF _resolve
  <1>3. ASSUME NEW c \in Sites, sites[c].there, sites[c].active,
               IF sites[c].custom_domain.given THEN sites[c].custom_domain.host.zone = "other"
               ELSE sites[c].subdomain.label # "www" /\ (folds \/ sites[c].subdomain.lower)
        PROVE  _resolve(site_url(c)) = {c}
    <2>0. /\ sites[c] \in SiteRows /\ sites[c].subdomain \in Slugs /\ sites[c].custom_domain \in Lowered
      BY <1>3, SiteIsThere DEF SitesInv, SiteTypeOK, SitesLowered
    <2>1. CASE sites[c].custom_domain.given
      <3>1. PICK host \in Hosts : sites[c].custom_domain = Custom(host, TRUE)
        <4>1. ~NoDomain.given
          BY DEF NoDomain
        <4> QED BY <2>0, <2>1, <4>1 DEF Lowered
      <3>2. site_url(c) = host /\ host.zone = "other"
        BY <1>3, <2>1, <3>1 DEF site_url, Custom
      <3>3. ~IsRoot(host) /\ host.zone # "sub"
        BY <3>2 DEF IsRoot, Root, Alias, Sub
      <3>4. c \in ActiveOn(host)
        BY <1>3, <2>1, <3>1 DEF ActiveOn, SameDomain
      <3>5. _resolve(host) = ActiveOn(host)
        BY <3>3 DEF _resolve
      <3> QED BY <1>2, <3>2, <3>4, <3>5
    <2>2. CASE ~sites[c].custom_domain.given
      <3>1. PICK host : host = Sub(sites[c].subdomain.label)
        OBVIOUS
      <3>2. /\ site_url(c) = host /\ host.zone = "sub" /\ host.label = sites[c].subdomain.label
            /\ host.label # "www" /\ host \in Hosts
        BY <1>3, <2>0, <2>2, <3>1, SlugIs DEF site_url, Sub, Hosts
      <3>3. ~IsRoot(host)
        BY <3>2 DEF IsRoot, Root, Alias, Sub
      <3>4. SameSlug(sites[c].subdomain, Slug(host.label, TRUE))
        <4>1. folds \/ sites[c].subdomain.lower = TRUE
          <5>1. sites[c].subdomain.lower \in BOOLEAN
            BY <2>0, SlugIs
          <5> QED BY <1>3, <2>2, <5>1
        <4>2. PICK slug : slug = Slug(host.label, TRUE)
          OBVIOUS
        <4>3. slug.label = host.label /\ slug.lower = TRUE
          BY <2>0, <3>2, <4>2, SlugIs
        <4>4. SameSlug(sites[c].subdomain, slug)
          BY <3>2, <4>1, <4>3 DEF SameSlug
        <4> QED BY <4>2, <4>4
      <3>5. c \in ActiveAt(host.label)
        BY <1>3, <3>4 DEF ActiveAt
      <3>6. _resolve(host) = ActiveAt(host.label)
        BY <3>2, <3>3 DEF _resolve
      <3> QED BY <1>2, <3>2, <3>5, <3>6
    <2> QED BY <2>1, <2>2
  <1> QED BY <1>1, <1>2, <1>3 DEF DomainsAgree

(* Whatever chapters are saved and when, and whether the database ignores  *)
(* case or not: a certificate may be issued for a host exactly when one    *)
(* site answers there; a chapter's custom domain opens its own site, and   *)
(* its subdomain does, unless it was entered in a case that the database   *)
(* tells apart.                                                            *)
THEOREM ReadersOfHostsAgree == SiteSpec => []DomainsAgree
  BY SitesInit, SitesNext, ReadersAgree, PTL DEF SiteSpec

LEMMA SitesTypeCorrect == SiteSpec => []SiteTypeOK
  <1>1. SitesInv => SiteTypeOK
    BY DEF SitesInv
  <1> QED BY <1>1, SitesInit, SitesNext, PTL DEF SiteSpec

-----------------------------------------------------------------------------
(* Reactions.  As long as no two requests overlap there is one request at  *)
(* the most, its table is as it read it, and what it will write is what    *)
(* the clicks say; every other table is what they say already.             *)

RowsOf(t) == {NoRow} \cup [id: Nat \ {0}, value: Values[t]]

(* What a click means where the row holds value: Meaning, of any value.    *)
Means(t, value, click) ==
    CASE t \in {"vote", "star", "upvote"} -> IF value = click THEN "none" ELSE click
      [] t = "comment" -> IF click = "delete" THEN "none" ELSE click
      [] t = "rating" -> click

(* What a request that reads row, and goes on undisturbed, leaves.         *)
Answers(t, row, click, value) ==
    After(t, row, row, click) # {} /\ \A r \in After(t, row, row, click) : r.value = value

ReadOf(t, row, click) ==
    /\ t \in Tables /\ click \in Clicks[t] /\ row \in RowsOf(t)
    /\ t = "star" => row # NoRow
    /\ click \in {"edit", "delete"} => row # NoRow
    /\ click = "post" => row = NoRow

PageOK ==
    /\ page = [hidden |-> page.hidden, rows |-> page.rows]
    /\ DOMAIN page.rows = Tables /\ \A t \in Tables : page.rows[t] \in RowsOf(t)
    /\ DOMAIN meant = Tables /\ DOMAIN tab = Tabs
    /\ clicks \in Nat /\ overlap \in BOOLEAN

TabsOK == \A b \in Busy : ReadOf(tab[b].table, tab[b].seen, tab[b].click) /\ clicks # 0

Awaited(b) ==
    LET t == tab[b].table
    IN  tab[b].seen = page.rows[t] /\ meant[t] = Means(t, page.rows[t].value, tab[b].click)

Undisturbed ==
    /\ \A b, c \in Busy : b = c
    /\ \A b \in Busy : Awaited(b)
    /\ \A t \in Tables : (\A b \in Busy : tab[b].table # t) => page.rows[t].value = meant[t]

ReactionInv == PageOK /\ TabsOK /\ (~overlap => Undisturbed)

LEMMA TablesAre ==
  /\ Clicks["vote"] = {"like", "dislike"} /\ Clicks["star"] = {"star"} /\ Clicks["upvote"] = {"upvote"}
  /\ Clicks["comment"] = {"post", "edit", "delete"} /\ Clicks["rating"] = {"good", "bad"}
  /\ Values["vote"] = {"like", "dislike"} /\ Values["star"] = {"star"} /\ Values["upvote"] = {"upvote"}
  /\ Values["comment"] = {"post", "edit"} /\ Values["rating"] = {"good", "bad"}
  BY DEF Clicks, Values

(* What a request writes is what its click means, table by table.          *)
LEMMA ClickMeans ==
  ASSUME NEW t, NEW row, NEW click, ReadOf(t, row, click), clicks \in Nat \ {0}
  PROVE  Answers(t, row, click, Means(t, row.value, click))
  <1> USE DEF ReadOf
  <1>0. /\ NoRow.id = 0 /\ NoRow.value = "none"
        /\ \A v : Row(clicks, v).id = clicks /\ Row(clicks, v).value = v
        /\ \A v : Row(row.id, v).id = row.id /\ Row(row.id, v).value = v
    BY DEF NoRow, Row
  <1>1. row # NoRow => row.id \in Nat \ {0} /\ row.value \in Values[t]
    BY DEF RowsOf
  <1>3. CASE t = "vote"
    <2>1. click \in Values[t] /\ click # "none"
      BY <1>3, TablesAre
    <2>2. After(t, row, row, click) = Vote(row, row, click)
      BY <1>3 DEF After
    <2>3. Means(t, row.value, click) = IF row.value = click THEN "none" ELSE click
      BY <1>3 DEF Means
    <2>4. CASE row = NoRow
      BY <1>0, <2>1, <2>2, <2>3, <2>4 DEF Answers, Vote, Insert
    <2>5. CASE row # NoRow /\ row.value = click
      BY <1>0, <2>2, <2>3, <2>5 DEF Answers, Vote, Delete
    <2>6. CASE row # NoRow /\ row.value # click
      BY <1>0, <1>1, <2>1, <2>2, <2>3, <2>6 DEF Answers, Vote, Save
    <2> QED BY <2>4, <2>5, <2>6
  <1>4. CASE t = "star"
    <2>1. row # NoRow /\ click = "star" /\ row.value = "star"
      BY <1>1, <1>4, TablesAre
    <2>2. After(t, row, row, click) = Delete(row, row)
      BY <1>4 DEF After
    <2>3. Means(t, row.value, click) = "none"
      BY <1>4, <2>1 DEF Means
    <2> QED BY <1>0, <2>2, <2>3 DEF Answers, Delete
  <1>5. CASE t = "upvote"
    <2>1. click = "upvote" /\ (row # NoRow => row.value = "upvote") /\ "upvote" \in Values[t]
      BY <1>1, <1>5, TablesAre
    <2>2. After(t, row, row, click) = Upvote(row, row)
      BY <1>5 DEF After
    <2>3. Means(t, row.value, click) = IF row.value = click THEN "none" ELSE click
      BY <1>5 DEF Means
    <2>4. CASE row = NoRow
      BY <1>0, <2>1, <2>2, <2>3, <2>4 DEF Answers, Upvote, Insert
    <2>5. CASE row # NoRow
      BY <1>0, <2>1, <2>2, <2>3, <2>5 DEF Answers, Upvote
    <2> QED BY <2>4, <2>5
  <1>6. CASE t = "comment"
    <2>1. After(t, row, row, click) = Comment(row, row, click)
      BY <1>6 DEF After
    <2>2. Means(t, row.value, click) = IF click = "delete" THEN "none" ELSE click
      BY <1>6 DEF Means
    <2>3. CASE click = "post"
      <3>1. row = NoRow /\ click \in Values[t]
        BY <1>6, <2>3, TablesAre
      <3> QED BY <1>0, <2>1, <2>2, <2>3, <3>1 DEF Answers, Comment, Insert
    <2>4. CASE click = "edit"
      <3>1. row # NoRow /\ click \in Values[t]
        BY <1>6, <2>4, TablesAre
      <3> QED BY <1>0, <2>1, <2>2, <2>4, <3>1 DEF Answers, Comment, Save
    <2>5. CASE click = "delete"
      BY <1>0, <2>1, <2>2, <2>5 DEF Answers, Comment, Delete
    <2> QED BY <1>6, <2>3, <2>4, <2>5, TablesAre
  <1>7. CASE t = "rating"
    <2>1. click \in Values[t]
      BY <1>7, TablesAre
    <2>2. After(t, row, row, click) = Rate(row, click)
      BY <1>7 DEF After
    <2>3. Means(t, row.value, click) = click
      BY <1>7 DEF Means
    <2>4. CASE row = NoRow
      BY <1>0, <2>1, <2>2, <2>3, <2>4 DEF Answers, Rate, Insert
    <2>5. CASE row # NoRow
      BY <1>0, <2>1, <2>2, <2>3, <2>5 DEF Answers, Rate
    <2> QED BY <2>4, <2>5
  <1> QED BY <1>3, <1>4, <1>5, <1>6, <1>7 DEF Tables

(* Whatever came between its read and its write, a request writes a row of *)
(* its table or none.                                                      *)
LEMMA AfterType ==
  ASSUME NEW t, NEW seen, NEW click, ReadOf(t, seen, click), clicks \in Nat \ {0}, NEW row \in RowsOf(t)
  PROVE  After(t, row, seen, click) \subseteq RowsOf(t)
  <1> USE DEF ReadOf
  <1>1. seen # NoRow => seen.id \in Nat \ {0}
    BY DEF RowsOf
  <1>2. row # NoRow => row.id \in Nat \ {0}
    BY DEF RowsOf
  <1>3. \A v \in Values[t] : /\ Row(clicks, v) \in RowsOf(t)
                             /\ (seen # NoRow => Row(seen.id, v) \in RowsOf(t))
                             /\ (row # NoRow => Row(row.id, v) \in RowsOf(t))
    BY <1>1, <1>2 DEF RowsOf, Row
  <1>4. NoRow \in RowsOf(t)
    BY DEF RowsOf
  <1>5. Delete(row, seen) \subseteq RowsOf(t)
    BY <1>4 DEF Delete
  <1>6. ASSUME NEW v \in Values[t]
        PROVE  /\ Insert(row, v) \subseteq RowsOf(t)
               /\ seen # NoRow => Save(row, seen, v) \subseteq RowsOf(t)
    BY <1>3 DEF Insert, Save
  <1>7. CASE t = "vote"
    BY <1>5, <1>6, <1>7, TablesAre DEF After, Vote
  <1>8. CASE t = "star"
    BY <1>5, <1>8 DEF After
  <1>9. CASE t = "upvote"
    <2>1. After(t, row, seen, click) = Upvote(row, seen)
      BY <1>9 DEF After
    <2>2. "upvote" \in Values[t]
      BY <1>9, TablesAre
    <2> QED BY <1>4, <1>6, <2>1, <2>2 DEF Upvote
  <1>10. CASE t = "comment"
    <2>1. After(t, row, seen, click) = Comment(row, seen, click)
      BY <1>10 DEF After
    <2>2. click \in {"post", "edit", "delete"} /\ Values[t] = {"post", "edit"}
      BY <1>10, TablesAre
    <2>3. CASE click = "post"
      BY <1>6, <2>1, <2>2, <2>3 DEF Comment
    <2>4. CASE click = "edit"
      BY <1>6, <2>1, <2>2, <2>4 DEF Comment
    <2>5. CASE click = "delete"
      BY <1>5, <2>1, <2>5 DEF Comment
    <2> QED BY <2>2, <2>3, <2>4, <2>5
  <1>11. CASE t = "rating"
    <2>1. After(t, row, seen, click) = Rate(row, click) /\ click \in Values[t]
      BY <1>11, TablesAre DEF After
    <2> QED BY <1>3, <1>6, <2>1 DEF Rate
  <1> QED BY <1>7, <1>8, <1>9, <1>10, <1>11 DEF Tables

(* A row of one table is written.                                          *)
LEMMA PageWrite ==
  ASSUME PageOK, NEW t \in Tables, NEW row \in RowsOf(t), page' = [page EXCEPT !.rows[t] = row]
  PROVE  /\ page' = [hidden |-> page'.hidden, rows |-> page'.rows]
         /\ DOMAIN page'.rows = Tables /\ page'.rows[t] = row
         /\ \A u \in Tables \ {t} : page'.rows[u] = page.rows[u]
         /\ \A u \in Tables : page'.rows[u] \in RowsOf(u)
  <1>1. PICK rows : rows = [page.rows EXCEPT ![t] = row]
    OBVIOUS
  <1>2. page' = [hidden |-> page.hidden, rows |-> rows]
    <2>1. page' = [page EXCEPT !.rows = rows]
      BY <1>1
    <2>2. page = [hidden |-> page.hidden, rows |-> page.rows]
      BY DEF PageOK
    <2> QED BY <2>1, <2>2
  <1>3. page'.rows = rows /\ page'.hidden = page.hidden
    BY <1>2
  <1>4. DOMAIN rows = Tables /\ rows[t] = row /\ \A u \in Tables \ {t} : rows[u] = page.rows[u]
    BY <1>1 DEF PageOK
  <1> QED BY <1>2, <1>3, <1>4 DEF PageOK

LEMMA MeaningIs ==
  ASSUME NEW t, NEW click
  PROVE  Meaning(t, click) = Means(t, meant[t], click)
  BY DEF Meaning, Means

(* A request begins.                                                       *)
LEMMA ClickKeeps ==
  ASSUME ReactionInv, NEW b \in Tabs, NEW t \in Tables, NEW click \in Clicks[t], Click(b, t, click)
  PROVE  ReactionInv'
  <1>0. PageOK /\ TabsOK /\ (~overlap => Undisturbed)
    BY DEF ReactionInv
  <1>1. PICK row : row = page.rows[t]
    OBVIOUS
  <1>2. row \in RowsOf(t) /\ clicks \in Nat /\ DOMAIN meant = Tables /\ DOMAIN tab = Tabs
    BY <1>0, <1>1 DEF PageOK
  <1>3. /\ clicks' = clicks + 1 /\ tab[b] = Closed
        /\ click \in {"edit", "delete"} => row # NoRow
        /\ click = "post" => row = NoRow
        /\ meant' = [meant EXCEPT ![t] = Means(t, meant[t], click)]
        /\ overlap' = (overlap \/ Busy # {})
    BY <1>1, MeaningIs DEF Click
  <1>4. clicks' \in Nat /\ clicks' # 0 /\ overlap' \in BOOLEAN /\ DOMAIN meant' = Tables
    BY <1>0, <1>2, <1>3 DEF PageOK
  <1>5. ~overlap' => /\ Busy = {} /\ \A u \in Tables : page.rows[u].value = meant[u]
    BY <1>0, <1>3 DEF Undisturbed
  <1>6. meant'[t] = Means(t, meant[t], click) /\ \A u \in Tables \ {t} : meant'[u] = meant[u]
    BY <1>2, <1>3
  <1>7. CASE t = "star" /\ row = NoRow
    <2>1. page' = [page EXCEPT !.rows[t] = Row(clicks', "star")] /\ tab' = tab
      BY <1>1, <1>7 DEF Click
    <2>2. Row(clicks', "star") \in RowsOf(t) /\ Row(clicks', "star").value = "star"
      BY <1>4, <1>7, TablesAre DEF Row, RowsOf
    <2>3. PageOK'
      BY <1>2, <1>4, <2>1, <2>2, <1>0, PageWrite DEF PageOK
    <2>4. Busy' = Busy
      BY <2>1 DEF Busy
    <2>5. TabsOK'
      BY <1>0, <1>4, <2>1, <2>4 DEF TabsOK
    <2>6. ASSUME ~overlap'
          PROVE  Undisturbed'
      <3>1. Means(t, meant[t], click) = "star"
        <4>1. meant[t] = "none" /\ click = "star"
          BY <1>1, <1>5, <1>7, <2>6, TablesAre DEF NoRow
        <4> QED BY <1>7, <4>1 DEF Means
      <3>2. \A u \in Tables : page'.rows[u].value = meant'[u]
        BY <1>0, <1>5, <1>6, <2>1, <2>2, <2>6, <3>1, PageWrite
      <3> QED BY <1>5, <2>4, <2>6, <3>2 DEF Undisturbed
    <2> QED BY <2>3, <2>5, <2>6 DEF ReactionInv
  <1>8. CASE ~(t = "star" /\ row = NoRow)
    <2>1. tab' = [tab EXCEPT ![b] = [table |-> t, click |-> click, seen |-> row]] /\ page' = page
      BY <1>1, <1>8 DEF Click
    <2>2. PageOK'
      BY <1>0, <1>2, <1>4, <2>1 DEF PageOK
    <2>3. /\ tab'[b].table = t /\ tab'[b].click = click /\ tab'[b].seen = row
          /\ \A c \in Tabs \ {b} : tab'[c] = tab[c]
      BY <1>2, <2>1
    <2>4. \A c \in Busy' : c = b \/ (c \in Busy /\ tab'[c] = tab[c])
      BY <2>3 DEF Busy
    <2>5. ReadOf(t, row, click)
      BY <1>2, <1>3, <1>8 DEF ReadOf
    <2>6. TabsOK'
      BY <1>0, <1>4, <2>3, <2>4, <2>5 DEF TabsOK
    <2>7. ASSUME ~overlap'
          PROVE  Undisturbed'
      <3>1. Busy' \subseteq {b}
        BY <1>5, <2>4, <2>7
      <3>2. b \in Busy'
        <4>1. t # "none" /\ Closed.table = "none"
          BY DEF Tables, Closed
        <4> QED BY <2>3, <4>1 DEF Busy
      <3>3. Awaited(b)'
        BY <1>1, <1>5, <1>6, <2>1, <2>3, <2>7 DEF Awaited
      <3>4. \A u \in Tables : (\A c \in Busy' : tab'[c].table # u) => page'.rows[u].value = meant'[u]
        BY <1>5, <1>6, <2>1, <2>3, <2>7, <3>2
      <3> QED BY <3>1, <3>3, <3>4 DEF Undisturbed
    <2> QED BY <2>2, <2>6, <2>7 DEF ReactionInv
  <1> QED BY <1>7, <1>8

(* A request ends.                                                         *)
LEMMA FinishKeeps ==
  ASSUME ReactionInv, NEW b \in Tabs, Finish(b)
  PROVE  ReactionInv'
  <1>0. PageOK /\ TabsOK /\ (~overlap => Undisturbed) /\ b \in Busy
    BY DEF ReactionInv, Finish, Busy
  <1>1. PICK t : t = tab[b].table
    OBVIOUS
  <1>2. PICK after : after = After(t, page.rows[t], tab[b].seen, tab[b].click)
    OBVIOUS
  <1>3. /\ (\E row \in after : page' = [page EXCEPT !.rows[t] = row]) \/ (after = {} /\ page' = page)
        /\ tab' = [tab EXCEPT ![b] = Closed] /\ overlap' = (overlap /\ Busy # {b}) /\ clicks' = clicks
        /\ meant' = IF overlap /\ Busy = {b} THEN [u \in Tables |-> page'.rows[u].value] ELSE meant
    BY <1>1, <1>2 DEF Finish
  <1>4. ReadOf(t, tab[b].seen, tab[b].click) /\ clicks \in Nat \ {0} /\ t \in Tables
    BY <1>0, <1>1 DEF TabsOK, PageOK, ReadOf
  <1>5. after \subseteq RowsOf(t)
    BY <1>0, <1>2, <1>4, AfterType DEF PageOK
  <1>6. /\ page' = [hidden |-> page'.hidden, rows |-> page'.rows] /\ DOMAIN page'.rows = Tables
        /\ \A u \in Tables : page'.rows[u] \in RowsOf(u)
        /\ \A u \in Tables \ {t} : page'.rows[u] = page.rows[u]
        /\ after # {} => page'.rows[t] \in after
    <2>1. CASE \E row \in after : page' = [page EXCEPT !.rows[t] = row]
      BY <1>0, <1>4, <1>5, <2>1, PageWrite
    <2>2. CASE after = {} /\ page' = page
      BY <1>0, <2>2 DEF PageOK
    <2> QED BY <1>3, <2>1, <2>2
  <1>7. DOMAIN meant' = Tables /\ DOMAIN tab' = Tabs /\ overlap' \in BOOLEAN
    BY <1>0, <1>3 DEF PageOK
  <1>8. PageOK'
    BY <1>3, <1>4, <1>6, <1>7 DEF PageOK
  <1>9. /\ Busy' = Busy \ {b}
        /\ \A c \in Busy' : tab'[c] = tab[c]
    BY <1>0, <1>3 DEF Busy, PageOK
  <1>10. TabsOK'
    BY <1>0, <1>3, <1>9 DEF TabsOK
  <1>11. ASSUME ~overlap'
         PROVE  Undisturbed'
    <2>1. Busy = {b}
      BY <1>0, <1>3, <1>11 DEF Undisturbed, PageOK
    <2>2. Busy' = {}
      BY <1>9, <2>1
    <2>3. \A u \in Tables : page'.rows[u].value = meant'[u]
      <3>1. CASE overlap
        BY <1>3, <2>1, <3>1
      <3>2. CASE ~overlap
        <4>1. meant' = meant /\ Awaited(b)
          BY <1>0, <1>3, <3>2 DEF Undisturbed
        <4>2. tab[b].seen = page.rows[t] /\ meant[t] = Means(t, page.rows[t].value, tab[b].click)
          BY <1>1, <4>1 DEF Awaited
        <4>3. Answers(t, page.rows[t], tab[b].click, meant[t])
          BY <1>4, <4>2, ClickMeans
        <4>4. page'.rows[t].value = meant[t]
          BY <1>2, <1>6, <4>2, <4>3 DEF Answers
        <4>5. \A u \in Tables \ {t} : page.rows[u].value = meant[u]
          BY <1>0, <1>1, <2>1, <3>2 DEF Undisturbed
        <4> QED BY <1>6, <4>1, <4>4, <4>5
      <3> QED BY <3>1, <3>2, <1>0 DEF PageOK
    <2> QED BY <2>2, <2>3 DEF Undisturbed
  <1> QED BY <1>8, <1>10, <1>11 DEF ReactionInv

LEMMA ReactionsNext == ReactionInv /\ [ReactionNext]_reactionVars => ReactionInv'
  <1> SUFFICES ASSUME ReactionInv, [ReactionNext]_reactionVars PROVE ReactionInv'
    OBVIOUS
  <1>1. ASSUME tab' = tab, clicks' = clicks, meant' = meant, overlap' = overlap, page'.rows = page.rows,
               page' = [hidden |-> page'.hidden, rows |-> page'.rows]
        PROVE  ReactionInv'
    <2>1. Busy' = Busy
      BY <1>1 DEF Busy
    <2> QED BY <1>1, <2>1 DEF ReactionInv, PageOK, TabsOK, Undisturbed, Awaited
  <1>2. CASE question_hide
    <2>1. page = [hidden |-> page.hidden, rows |-> page.rows] /\ page' = [page EXCEPT !.hidden = TRUE]
      BY <1>2 DEF question_hide, ReactionInv, PageOK
    <2>2. page' = [hidden |-> TRUE, rows |-> page.rows]
      BY <2>1
    <2> QED BY <1>1, <1>2, <2>2 DEF question_hide
  <1>3. CASE UNCHANGED reactionVars
    BY <1>1, <1>3 DEF reactionVars, ReactionInv, PageOK
  <1> QED BY <1>2, <1>3, ClickKeeps, FinishKeeps DEF ReactionNext

LEMMA ReactionsInit == ReactionInit => ReactionInv
  <1> SUFFICES ASSUME ReactionInit PROVE ReactionInv
    OBVIOUS
  <1>1. Busy = {}
    BY DEF ReactionInit, Busy
  <1>2. page = [hidden |-> FALSE, rows |-> [t \in Tables |-> NoRow]]
    BY DEF ReactionInit
  <1>3. page.rows = [t \in Tables |-> NoRow] /\ page.hidden = FALSE
    BY <1>2
  <1>4. PageOK
    BY <1>2, <1>3 DEF ReactionInit, PageOK, RowsOf
  <1>5. Undisturbed
    BY <1>1, <1>3 DEF ReactionInit, Undisturbed, NoRow
  <1> QED BY <1>1, <1>4, <1>5 DEF ReactionInv, TabsOK

(* A member's clicks count one by one: once all requests that overlapped   *)
(* are done, each next click does what its meaning says.                   *)
THEOREM MembersClicksCount == ReactionSpec => []ClicksCount
  <1>1. ReactionInv => ClicksCount
    BY DEF ReactionInv, Undisturbed, ClicksCount
  <1> QED BY <1>1, ReactionsInit, ReactionsNext, PTL DEF ReactionSpec

-----------------------------------------------------------------------------
(* The types, which the count of the clicks bounds: every row's key is the *)
(* number of the request that inserted it first.                           *)

Marks == {"none"} \cup UNION {Values[t] : t \in Tables}

ReactionRest ==
    /\ page.hidden \in BOOLEAN
    /\ clicks \in 0..MaxClicks
    /\ \A t \in Tables : page.rows[t].id <= clicks
    /\ \A b \in Busy : /\ tab[b] = [table |-> tab[b].table, click |-> tab[b].click, seen |-> tab[b].seen]
                       /\ tab[b].seen.id <= clicks
    /\ meant \in [Tables -> Marks]

LEMMA MeansAMark ==
  ASSUME NEW t \in Tables, NEW value, NEW click \in Clicks[t]
  PROVE  Means(t, value, click) \in Marks
  <1>1. \A u \in Tables : Values[u] \subseteq Marks
    BY DEF Marks
  <1>2. click \in Values[t] \/ (t = "comment" /\ click = "delete")
    BY TablesAre DEF Tables
  <1> QED BY <1>1, <1>2 DEF Means, Marks, Tables

(* A request writes a row under a key that was given out by then.          *)
LEMMA AfterKeys ==
  ASSUME NEW t \in Tables, NEW row, NEW seen, NEW click \in Clicks[t], clicks \in Nat,
         row.id <= clicks, seen.id <= clicks, NEW r \in After(t, row, seen, click)
  PROVE  r.id <= clicks
  <1>1. NoRow.id <= clicks /\ \A v : /\ Row(clicks, v).id <= clicks
                                    /\ Row(seen.id, v).id <= clicks
                                    /\ Row(row.id, v).id <= clicks
    BY DEF NoRow, Row
  <1>2. \A q \in Delete(row, seen) : q.id <= clicks
    BY <1>1 DEF Delete
  <1>3. \A v : (\A q \in Insert(row, v) : q.id <= clicks) /\ \A q \in Save(row, seen, v) : q.id <= clicks
    BY <1>1 DEF Insert, Save
  <1>4. CASE t = "vote"
    BY <1>2, <1>3, <1>4 DEF After, Vote
  <1>5. CASE t = "star"
    BY <1>2, <1>5 DEF After
  <1>6. CASE t = "upvote"
    BY <1>1, <1>3, <1>6 DEF After, Upvote
  <1>7. CASE t = "comment"
    BY <1>2, <1>3, <1>7, TablesAre DEF After, Comment
  <1>8. CASE t = "rating"
    BY <1>1, <1>3, <1>8 DEF After, Rate
  <1> QED BY <1>4, <1>5, <1>6, <1>7, <1>8 DEF Tables

LEMMA RestInit == ReactionInit => ReactionRest
  <1> SUFFICES ASSUME ReactionInit PROVE ReactionRest
    OBVIOUS
  <1>1. page.hidden = FALSE /\ page.rows = [t \in Tables |-> NoRow] /\ clicks = 0 /\ Busy = {}
    BY DEF ReactionInit, Busy
  <1>2. meant \in [Tables -> Marks]
    BY DEF ReactionInit, Marks
  <1>3. 0 \in 0..MaxClicks /\ NoRow.id <= 0
    BY ReactionConstants DEF NoRow
  <1> QED BY <1>1, <1>2, <1>3 DEF ReactionRest

LEMMA ClickRest ==
  ASSUME ReactionInv, ReactionRest, NEW b \in Tabs, NEW t \in Tables, NEW click \in Clicks[t], Click(b, t, click)
  PROVE  ReactionRest'
  <1>1. PICK row : row = page.rows[t]
    OBVIOUS
  <1>2. /\ clicks' = clicks + 1 /\ clicks \in Nat /\ clicks' \in 0..MaxClicks
        /\ DOMAIN tab = Tabs /\ meant' = [meant EXCEPT ![t] = Means(t, meant[t], click)]
    <2>1. clicks \in 0..MaxClicks /\ DOMAIN tab = Tabs
      BY DEF ReactionInv, PageOK, ReactionRest
    <2>2. clicks < MaxClicks /\ clicks' = clicks + 1
      BY DEF Click
    <2>3. meant' = [meant EXCEPT ![t] = Means(t, meant[t], click)]
      BY MeaningIs DEF Click
    <2> QED BY <2>1, <2>2, <2>3, ReactionConstants
  <1>3. meant' \in [Tables -> Marks]
    BY <1>2, MeansAMark DEF ReactionRest
  <1>4. \A u \in Tables : page.rows[u].id \in Nat /\ page.rows[u].id <= clicks
    BY DEF ReactionInv, PageOK, RowsOf, NoRow, ReactionRest
  <1>5. \A c \in Busy : tab[c].seen.id \in Nat /\ tab[c].seen.id <= clicks
    <2>1. \A u, seen : seen \in RowsOf(u) => seen.id \in Nat
      BY DEF RowsOf, NoRow
    <2>2. \A c \in Busy : tab[c].seen \in RowsOf(tab[c].table)
      BY DEF ReactionInv, TabsOK, ReadOf
    <2>3. \A c \in Busy : tab[c].seen.id <= clicks
      BY DEF ReactionRest
    <2> QED BY <2>1, <2>2, <2>3
  <1>6. CASE t = "star" /\ row = NoRow
    <2>1. page' = [page EXCEPT !.rows[t] = Row(clicks', "star")] /\ tab' = tab
      BY <1>1, <1>6 DEF Click
    <2>2. Row(clicks', "star") \in RowsOf(t) /\ Row(clicks', "star").id = clicks'
      BY <1>2, <1>6, TablesAre DEF Row, RowsOf
    <2>3. PageOK
      BY DEF ReactionInv
    <2>4. page'.rows[t].id = clicks' /\ \A u \in Tables \ {t} : page'.rows[u] = page.rows[u]
      BY <2>1, <2>2, <2>3, PageWrite
    <2>5. page'.hidden = page.hidden
      BY <2>1, <2>3 DEF PageOK
    <2>6. \A u \in Tables : page'.rows[u].id <= clicks'
      BY <1>2, <1>4, <2>4
    <2>7. Busy' = Busy
      BY <2>1 DEF Busy
    <2> QED BY <1>2, <1>3, <1>5, <2>1, <2>5, <2>6, <2>7 DEF ReactionRest
  <1>7. CASE ~(t = "star" /\ row = NoRow)
    <2>1. tab' = [tab EXCEPT ![b] = [table |-> t, click |-> click, seen |-> row]] /\ page' = page
      BY <1>1, <1>7 DEF Click
    <2>2. \A c \in Busy' : c = b \/ (c \in Busy /\ tab'[c] = tab[c])
      BY <1>2, <2>1 DEF Busy
    <2>3. \A c \in Busy' : /\ tab'[c] = [table |-> tab'[c].table, click |-> tab'[c].click, seen |-> tab'[c].seen]
                          /\ tab'[c].seen.id <= clicks'
      <3>1. tab'[b] = [table |-> t, click |-> click, seen |-> row]
        BY <1>2, <2>1
      <3>2. \A c \in Busy : tab[c] = [table |-> tab[c].table, click |-> tab[c].click, seen |-> tab[c].seen]
        BY DEF ReactionRest
      <3>3. row.id <= clicks'
        BY <1>1, <1>2, <1>4
      <3>4. \A c \in Busy : tab[c].seen.id <= clicks'
        BY <1>2, <1>5
      <3> QED BY <2>2, <3>1, <3>2, <3>3, <3>4
    <2>4. \A u \in Tables : page'.rows[u].id <= clicks'
      BY <1>2, <1>4, <2>1
    <2> QED BY <1>2, <1>3, <2>1, <2>3, <2>4 DEF ReactionRest
  <1> QED BY <1>6, <1>7

LEMMA FinishRest ==
  ASSUME ReactionInv, ReactionRest, NEW b \in Tabs, Finish(b)
  PROVE  ReactionRest'
  <1>0. PageOK /\ TabsOK /\ b \in Busy /\ PageOK' /\ clicks \in Nat
    BY FinishKeeps DEF ReactionInv, Finish, Busy, PageOK
  <1>1. PICK t : t = tab[b].table
    OBVIOUS
  <1>2. PICK after : after = After(t, page.rows[t], tab[b].seen, tab[b].click)
    OBVIOUS
  <1>3. /\ (\E row \in after : page' = [page EXCEPT !.rows[t] = row]) \/ (after = {} /\ page' = page)
        /\ tab' = [tab EXCEPT ![b] = Closed] /\ clicks' = clicks
        /\ meant' = [u \in Tables |-> page'.rows[u].value] \/ meant' = meant
    BY <1>1, <1>2 DEF Finish
  <1>4. ReadOf(t, tab[b].seen, tab[b].click) /\ clicks \in Nat \ {0} /\ t \in Tables /\ tab[b].click \in Clicks[t]
    BY <1>0, <1>1 DEF TabsOK, ReadOf
  <1>5. \A row \in after : row.id <= clicks
    <2>1. page.rows[t].id <= clicks /\ tab[b].seen.id <= clicks
      BY <1>0, <1>4 DEF ReactionRest
    <2> QED BY <1>2, <1>4, <2>1, AfterKeys
  <1>6. page'.hidden \in BOOLEAN /\ \A u \in Tables : page'.rows[u].id <= clicks
    <2>1. ASSUME NEW row \in after, page' = [page EXCEPT !.rows[t] = row]
          PROVE  page'.hidden \in BOOLEAN /\ \A u \in Tables : page'.rows[u].id <= clicks
      <3>1. page'.hidden = page.hidden
        BY <1>0, <2>1 DEF PageOK
      <3>2. after \subseteq RowsOf(t)
        BY <1>0, <1>2, <1>4, AfterType DEF PageOK
      <3>3. page'.rows[t] = row /\ \A u \in Tables \ {t} : page'.rows[u] = page.rows[u]
        BY <1>0, <1>4, <2>1, <3>2, PageWrite
      <3> QED BY <1>5, <3>1, <3>3 DEF ReactionRest
    <2> QED BY <1>3, <2>1 DEF ReactionRest
  <1>7. meant' \in [Tables -> Marks]
    <2>1. \A u \in Tables : page'.rows[u].value \in Marks
      <3>1. \A u \in Tables : page'.rows[u] \in RowsOf(u) /\ Values[u] \subseteq Marks
        BY <1>0 DEF PageOK, Marks
      <3>2. NoRow.value \in Marks
        BY DEF NoRow, Marks
      <3> QED BY <3>1, <3>2 DEF RowsOf
    <2> QED BY <1>3, <2>1 DEF ReactionRest
  <1>8. \A c \in Busy' : c \in Busy /\ tab'[c] = tab[c]
    BY <1>0, <1>3 DEF Busy, PageOK
  <1> QED BY <1>3, <1>6, <1>7, <1>8 DEF ReactionRest

LEMMA RestNext == ReactionInv /\ ReactionRest /\ [ReactionNext]_reactionVars => ReactionRest'
  <1> SUFFICES ASSUME ReactionInv, ReactionRest, [ReactionNext]_reactionVars PROVE ReactionRest'
    OBVIOUS
  <1>1. CASE question_hide
    <2>1. page = [hidden |-> page.hidden, rows |-> page.rows] /\ page' = [page EXCEPT !.hidden = TRUE]
      BY <1>1 DEF question_hide, ReactionInv, PageOK
    <2>2. page'.hidden = TRUE /\ page'.rows = page.rows
      BY <2>1
    <2> QED BY <1>1, <2>2 DEF question_hide, ReactionRest, Busy
  <1>2. CASE UNCHANGED reactionVars
    BY <1>2 DEF reactionVars, ReactionRest, Busy
  <1> QED BY <1>1, <1>2, ClickRest, FinishRest DEF ReactionNext

LEMMA ReactionsTypeCorrect == ReactionSpec => []ReactionTypeOK
  <1>1. ReactionInv /\ ReactionRest => ReactionTypeOK
    <2> SUFFICES ASSUME ReactionInv, ReactionRest PROVE ReactionTypeOK
      OBVIOUS
    <2>1. PageOK /\ TabsOK /\ clicks \in 0..MaxClicks
      BY DEF ReactionInv, ReactionRest
    <2>2. ASSUME NEW t \in Tables, NEW row \in RowsOf(t), row.id <= clicks
          PROVE  row \in {NoRow} \cup [id: 1..MaxClicks, value: Values[t]]
      BY <2>1, <2>2, ReactionConstants DEF RowsOf
    <2>3. \A t \in Tables : page.rows[t] \in {NoRow} \cup [id: 1..MaxClicks, value: Values[t]]
      BY <2>1, <2>2 DEF PageOK, ReactionRest
    <2>4. ASSUME NEW b \in Tabs
          PROVE  tab[b] \in {Closed} \cup [table: Tables, click: UNION {Clicks[t] : t \in Tables},
                                    seen: {NoRow} \cup {page.rows[t] : t \in Tables} \cup
                                          [id: 1..MaxClicks, value: UNION {Values[t] : t \in Tables}]]
      <3>1. CASE b \in Busy
        <4>1. PICK t, click, seen : tab[b] = [table |-> t, click |-> click, seen |-> seen] /\ seen.id <= clicks
          BY <3>1 DEF ReactionRest
        <4>2. ReadOf(t, seen, click)
          BY <2>1, <3>1, <4>1 DEF TabsOK
        <4>3. t \in Tables /\ click \in UNION {Clicks[u] : u \in Tables}
          BY <4>2 DEF ReadOf
        <4>4. seen \in {NoRow} \cup [id: 1..MaxClicks, value: UNION {Values[u] : u \in Tables}]
          <5>1. seen \in {NoRow} \cup [id: 1..MaxClicks, value: Values[t]]
            BY <2>2, <4>1, <4>2 DEF ReadOf
          <5>2. Values[t] \subseteq UNION {Values[u] : u \in Tables}
            BY <4>3
          <5> QED BY <5>1, <5>2
        <4> QED BY <4>1, <4>3, <4>4
      <3> QED BY <3>1 DEF Busy
    <2> QED BY <2>1, <2>3, <2>4 DEF ReactionRest, Marks, PageOK, ReactionTypeOK
  <1> QED BY <1>1, ReactionsInit, ReactionsNext, RestInit, RestNext, PTL DEF ReactionSpec

-----------------------------------------------------------------------------
(* Membership.  A request that will save a row it loaded loaded an active  *)
(* member's, so that a member who is not active is the shell that          *)
(* Anonymize saved.                                                        *)

RequestRecords ==
    [step: {"idle", "profile", "preferences", "password", "invalidate", "delete", "delete tokens",
            "delete address", "create", "activate"},
     copy: Members, token: 0..MaxTokens]

Savers == {"profile", "password"}

RequestsOK == \A r \in Requests : request[r].step \in Savers => request[r].copy.is_active = TRUE

(* The two conjuncts of CredentialsEnd.                                    *)
TokensEnd ==
    \/ \E r \in Requests : At(r, "invalidate") \/ At(r, "delete tokens")
    \/ \A t \in Accepted : t.since = endings

ShellEnds ==
    ~member.is_active =>
        /\ member = Shell
        /\ (\E r \in Requests : At(r, "delete tokens") \/ At(r, "delete address")) \/ ~address

MemberInv == MemberTypeOK /\ RequestsOK /\ TokensEnd /\ ShellEnds

LEMMA MemberTypes ==
  ASSUME MemberTypeOK
  PROVE  /\ member \in Members /\ tokens \subseteq Tokens /\ issued \in 0..MaxTokens
         /\ address \in BOOLEAN /\ number \in BOOLEAN /\ auth_profile \in BOOLEAN
         /\ endings \in 0..MaxEndings /\ request \in [Requests -> RequestRecords]
  BY DEF MemberTypeOK, RequestRecords

LEMMA InvHolds ==
  ASSUME MemberInv
  PROVE  /\ MemberTypeOK /\ RequestsOK /\ TokensEnd /\ ShellEnds
         /\ member \in Members /\ tokens \subseteq Tokens /\ issued \in 0..MaxTokens
         /\ address \in BOOLEAN /\ number \in BOOLEAN /\ auth_profile \in BOOLEAN
         /\ endings \in 0..MaxEndings /\ request \in [Requests -> RequestRecords]
  BY MemberTypes DEF MemberInv

LEMMA FirstPasswords ==
  /\ 0 \in 0..MaxTokens /\ 0 \in 0..MaxEndings /\ 0 \in Passwords /\ 1 \in Passwords
  /\ MaxEndings \in Nat /\ MaxTokens \in Nat
  BY MembershipConstants DEF Passwords

LEMMA ShellIsAMember == Shell \in Members /\ ~Shell.is_active
  BY FirstPasswords DEF Shell, Members

(* The invariant of the next state, put together from its parts.           *)
LEMMA InvOfParts ==
  ASSUME member' \in Members, tokens' \subseteq Tokens, issued' \in 0..MaxTokens,
         address' \in BOOLEAN, number' \in BOOLEAN, auth_profile' \in BOOLEAN,
         endings' \in 0..MaxEndings, request' \in [Requests -> RequestRecords],
         RequestsOK', TokensEnd', ShellEnds'
  PROVE  MemberInv'
  BY DEF MemberInv, MemberTypeOK, RequestRecords

(* A request goes back to idle, or on to a step that saves no copy.        *)
LEMMA RequestMoves ==
  ASSUME MemberInv, NEW r \in Requests, NEW step,
         Ends(r) \/ (Goes(r, step) /\ step \in {"invalidate", "delete tokens", "delete address"})
  PROVE  /\ request' \in [Requests -> RequestRecords]
         /\ \A q \in Requests \ {r} : request'[q] = request[q]
         /\ Ends(r) => request'[r].step = "idle"
         /\ Goes(r, step) => request'[r].step = step
         /\ RequestsOK'
  <1>0. request \in [Requests -> RequestRecords] /\ RequestsOK
    BY InvHolds
  <1>1. NoRequest \in RequestRecords /\ NoRequest.step = "idle"
    BY ShellIsAMember, FirstPasswords DEF NoRequest, RequestRecords
  <1>2. CASE Ends(r)
    <2>1. request' = [request EXCEPT ![r] = NoRequest]
      BY <1>2 DEF Ends
    <2>2. ASSUME Goes(r, step) PROVE request'[r].step = step
      BY <1>0, <2>2 DEF Goes, RequestRecords
    <2>3. request' \in [Requests -> RequestRecords] /\ request'[r].step = "idle"
      BY <1>0, <1>1, <2>1
    <2>4. \A q \in Requests \ {r} : request'[q] = request[q]
      BY <1>0, <2>1
    <2>5. RequestsOK'
      BY <1>0, <2>3, <2>4 DEF RequestsOK, Savers
    <2> QED BY <2>2, <2>3, <2>4, <2>5
  <1>3. CASE Goes(r, step) /\ step \in {"invalidate", "delete tokens", "delete address"} /\ ~Ends(r)
    <2>1. PICK q : q = [request[r] EXCEPT !.step = step]
      OBVIOUS
    <2>2. q \in RequestRecords /\ q.step = step
      BY <1>0, <1>3, <2>1 DEF RequestRecords
    <2>3. request' = [request EXCEPT ![r] = q]
      BY <1>3, <2>1 DEF Goes
    <2>4. request' \in [Requests -> RequestRecords] /\ request'[r].step = step
      BY <1>0, <2>2, <2>3
    <2>5. \A p \in Requests \ {r} : request'[p] = request[p]
      BY <1>0, <2>3
    <2>6. RequestsOK'
      BY <1>0, <1>3, <2>4, <2>5 DEF RequestsOK, Savers
    <2> QED BY <1>3, <2>4, <2>5, <2>6
  <1> QED BY <1>2, <1>3

(* The other requests stay where they are.                                 *)
LEMMA OthersWait ==
  ASSUME NEW r \in Requests, \A q \in Requests \ {r} : request'[q] = request[q],
         NEW step, ~At(r, step), \E q \in Requests : At(q, step)
  PROVE  \E q \in Requests : At(q, step)'
  <1>1. PICK q \in Requests : At(q, step)
    OBVIOUS
  <1>2. q # r /\ request'[q] = request[q] /\ request[q].step = step
    BY <1>1 DEF At
  <1>3. At(q, step)'
    BY <1>2 DEF At
  <1> QED BY <1>3

(* A step that ends no request's clearing, with no new token among the     *)
(* accepted and no ending, leaves the tokens' end as it is.                *)
LEMMA TokensStayEnded ==
  ASSUME TokensEnd, NEW r \in Requests, \A q \in Requests \ {r} : request'[q] = request[q],
         ~At(r, "invalidate"), ~At(r, "delete tokens"),
         \A t \in Accepted' : t \in Accepted \/ t.since = endings, endings' = endings
  PROVE  TokensEnd'
  <1>1. (\E q \in Requests : At(q, "delete tokens")) => \E q \in Requests : At(q, "delete tokens")'
    BY OthersWait
  <1>2. (\E q \in Requests : At(q, "invalidate")) => \E q \in Requests : At(q, "invalidate")'
    BY OthersWait
  <1>3. \/ \E q \in Requests : At(q, "invalidate")' \/ At(q, "delete tokens")'
        \/ \A t \in Accepted' : t.since = endings'
    BY <1>1, <1>2 DEF TokensEnd
  <1> QED BY <1>3 DEF TokensEnd

(* A step that is none of the deletion's, and leaves the member and the    *)
(* address alone, leaves the shell.                                        *)
LEMMA ShellStays ==
  ASSUME ShellEnds, NEW r \in Requests, \A q \in Requests \ {r} : request'[q] = request[q],
         ~At(r, "delete tokens"), ~At(r, "delete address"), UNCHANGED <<member, address>>
  PROVE  ShellEnds'
  <1>1. (\E q \in Requests : At(q, "delete tokens")) => \E q \in Requests : At(q, "delete tokens")'
    BY OthersWait
  <1>2. (\E q \in Requests : At(q, "delete address")) => \E q \in Requests : At(q, "delete address")'
    BY OthersWait
  <1>3. ~member'.is_active =>
           /\ member' = Shell
           /\ (\E q \in Requests : At(q, "delete tokens")' \/ At(q, "delete address")') \/ ~address'
    BY <1>1, <1>2 DEF ShellEnds
  <1> QED BY <1>3 DEF ShellEnds

-----------------------------------------------------------------------------

(* Begin and CheckPassword: the row is copied.                             *)
LEMMA LoadKeeps ==
  ASSUME MemberInv, NEW r \in Requests, NEW step \in {"profile", "preferences", "password", "delete", "create"},
         At(r, "idle"), step # "create" => member.is_active,
         request' = [request EXCEPT ![r] = [step |-> step, copy |-> member, token |-> 0]],
         UNCHANGED <<member, contacts, tokens, issued, endings>>
  PROVE  MemberInv'
  <1>0. /\ RequestsOK /\ TokensEnd /\ ShellEnds /\ member \in Members
        /\ request \in [Requests -> RequestRecords]
    BY InvHolds
  <1>1. PICK new : new = [step |-> step, copy |-> member, token |-> 0]
    OBVIOUS
  <1>2. request' = [request EXCEPT ![r] = new] /\ new.step = step /\ new.copy = member
    BY <1>1
  <1>3. new \in RequestRecords
    BY <1>0, <1>1, FirstPasswords DEF RequestRecords
  <1>4. /\ request' \in [Requests -> RequestRecords] /\ request'[r] = new
        /\ \A q \in Requests \ {r} : request'[q] = request[q]
    BY <1>0, <1>2, <1>3
  <1>5. RequestsOK'
    <2>1. step \in Savers => member.is_active = TRUE
      BY <1>0 DEF Savers, Members
    <2> QED BY <1>0, <1>2, <1>4, <2>1 DEF RequestsOK
  <1>6. /\ UNCHANGED <<member, address, number, auth_profile, tokens, issued, endings>> /\ Accepted' = Accepted
        /\ ~At(r, "invalidate") /\ ~At(r, "delete tokens") /\ ~At(r, "delete address")
    BY DEF contacts, Accepted, At
  <1>7. TokensEnd' /\ ShellEnds'
    BY <1>0, <1>4, <1>6, TokensStayEnded, ShellStays
  <1> QED BY <1>4, <1>5, <1>6, <1>7, InvHolds, InvOfParts

(* The profile is saved from the copy of an active member.                 *)
LEMMA SaveProfileKeeps ==
  ASSUME MemberInv, NEW r \in Requests, SaveProfile(r)
  PROVE  MemberInv'
  <1>0. RequestsOK /\ TokensEnd /\ request \in [Requests -> RequestRecords]
    BY InvHolds
  <1>1. /\ Ends(r) /\ UNCHANGED <<address, number, auth_profile, tokens, issued, endings>>
        /\ request[r].step = "profile" /\ request[r].copy.is_active = TRUE /\ Accepted' = Accepted
    BY <1>0 DEF SaveProfile, RequestsOK, Savers, At, contacts, Accepted
  <1>2. PICK copy : copy = request[r].copy
    OBVIOUS
  <1>3. copy \in Members /\ member' = [copy EXCEPT !.profile = "filled"]
    BY <1>0, <1>2 DEF SaveProfile, RequestRecords
  <1>4. member' \in Members /\ member'.is_active
    BY <1>1, <1>2, <1>3 DEF Members
  <1>5. /\ request' \in [Requests -> RequestRecords] /\ RequestsOK'
        /\ \A q \in Requests \ {r} : request'[q] = request[q]
    BY <1>1, RequestMoves
  <1>6. TokensEnd'
    BY <1>0, <1>1, <1>5, TokensStayEnded DEF At
  <1>7. ShellEnds'
    BY <1>4 DEF ShellEnds
  <1> QED BY <1>1, <1>4, <1>5, <1>6, <1>7, InvHolds, InvOfParts

LEMMA SavePreferencesKeeps ==
  ASSUME MemberInv, NEW r \in Requests, SavePreferences(r)
  PROVE  MemberInv'
  <1>0. TokensEnd /\ ShellEnds
    BY InvHolds
  <1>1. /\ Ends(r) /\ UNCHANGED <<member, address, auth_profile, tokens, issued, endings>>
        /\ number' \in BOOLEAN /\ Accepted' = Accepted
        /\ ~At(r, "invalidate") /\ ~At(r, "delete tokens") /\ ~At(r, "delete address")
    BY DEF SavePreferences, At, Accepted
  <1>2. /\ request' \in [Requests -> RequestRecords] /\ RequestsOK'
        /\ \A q \in Requests \ {r} : request'[q] = request[q]
    BY <1>1, RequestMoves
  <1>3. TokensEnd' /\ ShellEnds'
    BY <1>0, <1>1, <1>2, TokensStayEnded, ShellStays
  <1> QED BY <1>1, <1>2, <1>3, InvHolds, InvOfParts

(* A new password: the request itself is now about to end the tokens.      *)
LEMMA SavePasswordKeeps ==
  ASSUME MemberInv, NEW r \in Requests, SavePassword(r)
  PROVE  MemberInv'
  <1>0. RequestsOK /\ request \in [Requests -> RequestRecords] /\ endings \in 0..MaxEndings
    BY InvHolds
  <1>1. /\ Goes(r, "invalidate") /\ UNCHANGED <<address, number, auth_profile, tokens, issued>>
        /\ request[r].copy.is_active = TRUE /\ endings < MaxEndings /\ endings' = endings + 1
    BY <1>0 DEF SavePassword, Ending, RequestsOK, Savers, At, contacts
  <1>2. endings' \in 0..MaxEndings /\ NewPassword \in Passwords
    BY <1>0, <1>1, MembershipConstants DEF NewPassword, Passwords
  <1>3. PICK copy : copy = request[r].copy
    OBVIOUS
  <1>4. PICK new : new = NewPassword
    OBVIOUS
  <1>5. copy \in Members /\ member' = [copy EXCEPT !.password = new]
    BY <1>0, <1>3, <1>4 DEF SavePassword, RequestRecords
  <1>6. member' \in Members /\ member'.is_active
    BY <1>1, <1>2, <1>3, <1>4, <1>5 DEF Members
  <1>7. /\ request' \in [Requests -> RequestRecords] /\ request'[r].step = "invalidate" /\ RequestsOK'
    BY <1>1, RequestMoves
  <1>8. TokensEnd'
    BY <1>7 DEF TokensEnd, At
  <1>9. ShellEnds'
    BY <1>6 DEF ShellEnds
  <1> QED BY <1>1, <1>2, <1>6, <1>7, <1>8, <1>9, InvHolds, InvOfParts

(* No token is accepted any more.                                          *)
LEMMA InvalidateKeeps ==
  ASSUME MemberInv, NEW r \in Requests, invalidate_api_tokens(r)
  PROVE  MemberInv'
  <1>0. ShellEnds /\ tokens \subseteq Tokens
    BY InvHolds
  <1>1. /\ Ends(r) /\ UNCHANGED <<member, address, number, auth_profile, issued, endings>>
        /\ ~At(r, "delete tokens") /\ ~At(r, "delete address")
        /\ tokens' = {[t EXCEPT !.active = FALSE] : t \in tokens}
    BY DEF invalidate_api_tokens, At, contacts
  <1>2. /\ request' \in [Requests -> RequestRecords] /\ RequestsOK'
        /\ \A q \in Requests \ {r} : request'[q] = request[q]
    BY <1>1, RequestMoves
  <1>3. \A t \in tokens' : t \in Tokens /\ t.active = FALSE
    BY <1>0, <1>1 DEF Tokens
  <1>4. Accepted' = {}
    BY <1>3 DEF Accepted
  <1>5. TokensEnd'
    BY <1>4 DEF TokensEnd
  <1>6. ShellEnds'
    BY <1>0, <1>1, <1>2, ShellStays
  <1> QED BY <1>1, <1>2, <1>3, <1>5, <1>6, InvHolds, InvOfParts

(* The shell: the request itself is now about to delete what is left.      *)
LEMMA AnonymizeKeeps ==
  ASSUME MemberInv, NEW r \in Requests, Anonymize(r)
  PROVE  MemberInv'
  <1>0. endings \in 0..MaxEndings
    BY InvHolds
  <1>1. /\ member' = Shell /\ Goes(r, "delete tokens") /\ UNCHANGED <<address, number, auth_profile, tokens, issued>>
        /\ endings < MaxEndings /\ endings' = endings + 1
    BY DEF Anonymize, Ending, contacts
  <1>2. endings' \in 0..MaxEndings
    <2>1. MaxEndings \in Nat /\ endings \in 0..MaxEndings /\ endings < MaxEndings /\ endings' = endings + 1
      BY <1>0, <1>1, FirstPasswords
    <2> QED BY <2>1
  <1>3. /\ request' \in [Requests -> RequestRecords] /\ request'[r].step = "delete tokens" /\ RequestsOK'
    BY <1>1, RequestMoves
  <1>4. TokensEnd' /\ ShellEnds'
    BY <1>1, <1>3 DEF TokensEnd, ShellEnds, At
  <1> QED BY <1>1, <1>2, <1>3, <1>4, ShellIsAMember, InvHolds, InvOfParts

(* Every token is gone.                                                    *)
LEMMA DeleteTokensKeeps ==
  ASSUME MemberInv, NEW r \in Requests, DeleteTokens(r)
  PROVE  MemberInv'
  <1>0. ShellEnds
    BY InvHolds
  <1>1. /\ tokens' = {} /\ Goes(r, "delete address")
        /\ UNCHANGED <<member, address, number, auth_profile, issued, endings>>
    BY DEF DeleteTokens, contacts
  <1>2. /\ request' \in [Requests -> RequestRecords] /\ request'[r].step = "delete address" /\ RequestsOK'
    BY <1>1, RequestMoves
  <1>3. Accepted' = {} /\ At(r, "delete address")'
    BY <1>1, <1>2 DEF Accepted, At
  <1>4. TokensEnd' /\ ShellEnds'
    BY <1>0, <1>1, <1>3 DEF TokensEnd, ShellEnds
  <1> QED BY <1>1, <1>2, <1>4, InvHolds, InvOfParts

(* The address is gone.                                                    *)
LEMMA DeleteAddressKeeps ==
  ASSUME MemberInv, NEW r \in Requests, DeleteAddress(r)
  PROVE  MemberInv'
  <1>0. TokensEnd /\ ShellEnds
    BY InvHolds
  <1>1. /\ address' = FALSE /\ Ends(r) /\ UNCHANGED <<member, number, auth_profile, tokens, issued, endings>>
        /\ ~At(r, "invalidate") /\ ~At(r, "delete tokens") /\ Accepted' = Accepted
    BY DEF DeleteAddress, At, Accepted
  <1>2. /\ request' \in [Requests -> RequestRecords] /\ RequestsOK'
        /\ \A q \in Requests \ {r} : request'[q] = request[q]
    BY <1>1, RequestMoves
  <1>3. TokensEnd'
    BY <1>0, <1>1, <1>2, TokensStayEnded
  <1>4. ShellEnds'
    BY <1>0, <1>1 DEF ShellEnds
  <1> QED BY <1>1, <1>2, <1>3, <1>4, InvHolds, InvOfParts

(* A token is issued; nobody can use it yet.                               *)
LEMMA CreateKeeps ==
  ASSUME MemberInv, NEW r \in Requests, create_for_request(r)
  PROVE  MemberInv'
  <1>0. /\ RequestsOK /\ TokensEnd /\ ShellEnds /\ tokens \subseteq Tokens /\ issued \in 0..MaxTokens
        /\ request \in [Requests -> RequestRecords]
    BY InvHolds
  <1>1. /\ request[r].step = "create" /\ issued < MaxTokens /\ issued' = issued + 1
        /\ UNCHANGED <<member, address, number, auth_profile, endings>>
        /\ ~At(r, "invalidate") /\ ~At(r, "delete tokens") /\ ~At(r, "delete address")
    BY DEF create_for_request, At, contacts
  <1>2. issued' \in 0..MaxTokens /\ issued' \in 1..MaxTokens
    <2>1. MaxTokens \in Nat /\ issued \in 0..MaxTokens /\ issued < MaxTokens /\ issued' = issued + 1
      BY <1>0, <1>1, FirstPasswords
    <2> QED BY <2>1
  <1>3. PICK for : for = request[r].copy.password
    OBVIOUS
  <1>4. for \in Passwords
    BY <1>0, <1>3 DEF RequestRecords, Members
  <1>5. PICK token : token = [id |-> issued', for |-> for, since |-> 0, active |-> FALSE, expired |-> FALSE]
    OBVIOUS
  <1>6. token \in Tokens /\ token.active = FALSE
    BY <1>2, <1>4, <1>5, FirstPasswords DEF Tokens
  <1>7. tokens' = tokens \cup {token}
    BY <1>3, <1>5 DEF create_for_request
  <1>8. PICK new : new = [request[r] EXCEPT !.step = "activate", !.token = issued']
    OBVIOUS
  <1>9. new \in RequestRecords /\ new.step = "activate"
    BY <1>0, <1>2, <1>8 DEF RequestRecords
  <1>10. request' = [request EXCEPT ![r] = new]
    BY <1>8 DEF create_for_request
  <1>11. /\ request' \in [Requests -> RequestRecords] /\ request'[r] = new
         /\ \A q \in Requests \ {r} : request'[q] = request[q]
    BY <1>0, <1>9, <1>10
  <1>12. RequestsOK'
    BY <1>0, <1>9, <1>11 DEF RequestsOK, Savers
  <1>13. Accepted' = Accepted
    BY <1>6, <1>7 DEF Accepted
  <1>14. TokensEnd' /\ ShellEnds'
    BY <1>0, <1>1, <1>11, <1>13, TokensStayEnded, ShellStays
  <1>15. tokens' \subseteq Tokens
    BY <1>0, <1>6, <1>7
  <1> QED BY <1>1, <1>2, <1>11, <1>12, <1>14, <1>15, InvHolds, InvOfParts

(* A token becomes active, after all the endings that there were.          *)
LEMMA SetActiveKeeps ==
  ASSUME MemberInv, NEW r \in Requests, set_active(r)
  PROVE  MemberInv'
  <1>0. TokensEnd /\ ShellEnds /\ tokens \subseteq Tokens /\ endings \in 0..MaxEndings
    BY InvHolds
  <1>1. /\ Ends(r) /\ UNCHANGED <<member, address, number, auth_profile, issued, endings>>
        /\ ~At(r, "invalidate") /\ ~At(r, "delete tokens") /\ ~At(r, "delete address")
    BY DEF set_active, At, contacts
  <1>2. tokens' = {IF t.id = request[r].token THEN [t EXCEPT !.active = TRUE, !.since = endings] ELSE t :
                   t \in tokens}
    BY DEF set_active
  <1>3. /\ request' \in [Requests -> RequestRecords] /\ RequestsOK'
        /\ \A q \in Requests \ {r} : request'[q] = request[q]
    BY <1>1, RequestMoves
  <1>4. ASSUME NEW t \in tokens'
        PROVE  t \in Tokens /\ (t \in tokens \/ t.since = endings)
    <2>1. PICK u \in tokens :
             t = IF u.id = request[r].token THEN [u EXCEPT !.active = TRUE, !.since = endings] ELSE u
      BY <1>2, <1>4
    <2>2. u \in Tokens
      BY <1>0
    <2> QED BY <1>0, <2>1, <2>2 DEF Tokens
  <1>5. \A t \in Accepted' : t \in Accepted \/ t.since = endings
    BY <1>4 DEF Accepted
  <1>6. TokensEnd' /\ ShellEnds'
    BY <1>0, <1>1, <1>3, <1>5, TokensStayEnded, ShellStays
  <1>7. tokens' \subseteq Tokens
    BY <1>4
  <1> QED BY <1>1, <1>3, <1>6, <1>7, InvHolds, InvOfParts

(* An expired token is accepted no more.                                   *)
LEMMA ExpireKeeps ==
  ASSUME MemberInv, Expire
  PROVE  MemberInv'
  <1>0. RequestsOK /\ TokensEnd /\ ShellEnds /\ tokens \subseteq Tokens
    BY InvHolds
  <1>1. UNCHANGED <<member, address, number, auth_profile, issued, request, endings>>
    BY DEF Expire, contacts
  <1>2. PICK s \in tokens : ~s.expired /\ tokens' = (tokens \ {s}) \cup {[s EXCEPT !.expired = TRUE]}
    BY DEF Expire
  <1>3. PICK old : old = [s EXCEPT !.expired = TRUE]
    OBVIOUS
  <1>4. old \in Tokens /\ old.expired = TRUE
    BY <1>0, <1>3 DEF Tokens
  <1>5. tokens' = (tokens \ {s}) \cup {old}
    BY <1>2, <1>3
  <1>6. Accepted' \subseteq Accepted /\ tokens' \subseteq Tokens
    BY <1>0, <1>4, <1>5 DEF Accepted
  <1>7. RequestsOK' /\ ShellEnds'
    BY <1>0, <1>1 DEF RequestsOK, ShellEnds, At
  <1>8. TokensEnd'
    BY <1>0, <1>1, <1>6 DEF TokensEnd, At
  <1> QED BY <1>1, <1>6, <1>7, <1>8, InvHolds, InvOfParts

LEMMA MemberNextKeeps == MemberInv /\ [MemberNext]_memberVars => MemberInv'
  <1> SUFFICES ASSUME MemberInv, [MemberNext]_memberVars PROVE MemberInv'
    OBVIOUS
  <1>1. ASSUME NEW r \in Requests, NEW step \in {"profile", "preferences", "password", "delete"}, Begin(r, step)
        PROVE  MemberInv'
    BY <1>1, LoadKeeps DEF Begin
  <1>2. ASSUME NEW r \in Requests, CheckPassword(r)
        PROVE  MemberInv'
    BY <1>2, LoadKeeps DEF CheckPassword
  <1>3. CASE UNCHANGED memberVars
    BY <1>3 DEF memberVars, contacts, MemberInv, MemberTypeOK, RequestsOK, TokensEnd, ShellEnds, Accepted, At
  <1> QED BY <1>1, <1>2, <1>3, SaveProfileKeeps, SavePreferencesKeeps, SavePasswordKeeps, InvalidateKeeps,
             AnonymizeKeeps, DeleteTokensKeeps, DeleteAddressKeeps, CreateKeeps, SetActiveKeeps, ExpireKeeps
          DEF MemberNext

LEMMA MemberInitInv == MemberInit => MemberInv
  <1> SUFFICES ASSUME MemberInit PROVE MemberInv
    OBVIOUS
  <1>1. /\ tokens = {} /\ issued = 0 /\ endings = 0 /\ address = TRUE /\ number = FALSE /\ auth_profile \in BOOLEAN
        /\ member = [password |-> 1, profile |-> "blank", is_active |-> TRUE]
        /\ request = [r \in Requests |-> NoRequest]
    BY DEF MemberInit
  <1>2. NoRequest.step = "idle" /\ NoRequest \in RequestRecords
    BY ShellIsAMember, FirstPasswords DEF NoRequest, RequestRecords
  <1>3. \A r \in Requests : request[r] = NoRequest
    BY <1>1
  <1>4. member.is_active /\ Accepted = {} /\ member \in Members
    BY <1>1, FirstPasswords DEF Accepted, Members
  <1>5. MemberTypeOK
    BY <1>1, <1>2, <1>4, FirstPasswords DEF MemberTypeOK, RequestRecords
  <1>6. RequestsOK
    BY <1>2, <1>3 DEF RequestsOK, Savers
  <1>7. TokensEnd /\ ShellEnds
    BY <1>4 DEF TokensEnd, ShellEnds
  <1> QED BY <1>5, <1>6, <1>7 DEF MemberInv

LEMMA MembersTypeCorrect == MemberSpec => []MemberTypeOK
  <1>1. MemberInv => MemberTypeOK
    BY DEF MemberInv
  <1> QED BY <1>1, MemberInitInv, MemberNextKeeps, PTL DEF MemberSpec

(* A new password, or the deletion of the account, ends what was issued    *)
(* before, however any number of requests cross: once such requests are    *)
(* done, what is accepted became active after the last of them, and a      *)
(* member who is not active is the whole shell, with no address.           *)
THEOREM CredentialsAreEnded == MemberSpec => []CredentialsEnd
  <1>1. MemberInv => CredentialsEnd
    BY DEF MemberInv, TokensEnd, ShellEnds, CredentialsEnd
  <1> QED BY <1>1, MemberInitInv, MemberNextKeeps, PTL DEF MemberSpec

=============================================================================

----------------------------- MODULE ChapterSite -----------------------------
(***************************************************************************)
(* The hosts of the chapters' sites (apps/chapters): the admins write the  *)
(* chapters' rows, their leads save them too, and three functions read     *)
(* them: the middleware that resolves the host of a request, the check     *)
(* that lets a certificate be issued for a host, and the canonical URL     *)
(* that the mails and listings link to.                                    *)
(***************************************************************************)
EXTENDS Naturals

CONSTANTS
    Sites,          \* the chapters
    Labels,         \* slugs, among them "www"
    SlugOf,         \* slugify(name) of each chapter
    Domains,        \* the hosts outside ROOT_DOMAIN
    MaxSaves        \* bound: the rows saved

ASSUME SiteConstants == "www" \in Labels /\ SlugOf \in [Sites -> Labels] /\ MaxSaves \in Nat

VARIABLES
    sites,          \* the Chapter rows
    editing,        \* the row that a lead's chapter_edit loaded
    saves,          \* the rows saved so far
    folds           \* whether the database's collation, which no setting chooses, ignores case

siteVars == <<sites, editing, saves, folds>>

-----------------------------------------------------------------------------
(* Hosts: ROOT_DOMAIN, an alias of ROOT_ALIASES, a label under ROOT_DOMAIN *)
(* or another domain.                                                      *)

Root == [zone |-> "root"]
Alias == [zone |-> "alias"]
Sub(label) == [zone |-> "sub", label |-> label]
Hosts == {Root, Alias} \cup {Sub(label) : label \in Labels} \cup {[zone |-> "other", label |-> d] : d \in Domains}

(* subdomain, in lower case or as it was typed.                            *)
Slug(label, lower) == [label |-> label, lower |-> lower]
Slugs == [label: Labels, lower: BOOLEAN]

(* custom_domain, in lower case without blanks or as it was typed.         *)
NoDomain == [given |-> FALSE]
Custom(host, lower) == [given |-> TRUE, host |-> host, lower |-> lower]
CustomDomains == {NoDomain} \cup {Custom(host, lower) : host \in Hosts \ {Root, Alias}, lower \in BOOLEAN}

NoSite == [there |-> FALSE]
SiteRows == [there: {TRUE}, subdomain: Slugs, custom_domain: CustomDomains, active: BOOLEAN]

SiteInit ==
    /\ sites = [c \in Sites |-> NoSite]
    /\ editing = [c \in Sites |-> NoSite]
    /\ saves = 0
    /\ folds \in BOOLEAN

(* What the database takes for equal, in a filter and in a constraint.     *)
SameSlug(s, t) == s.label = t.label /\ (folds \/ s.lower = t.lower)
SameDomain(d, e) == d.given /\ e.given /\ d.host = e.host /\ (folds \/ d.lower = e.lower)

(* The unique constraints, of a row that is to be saved as c's.            *)
Unique(c, row) ==
    \A d \in Sites \ {c} : sites[d].there =>
        ~SameSlug(sites[d].subdomain, row.subdomain) /\ ~SameDomain(sites[d].custom_domain, row.custom_domain)

(* Mutant: save() leaves custom_domain as it was typed.                    *)
SaveSiteAsTyped(c, row) ==
    /\ saves < MaxSaves /\ saves' = saves + 1
    /\ Unique(c, row)
    /\ sites' = [sites EXCEPT ![c] = row]
    /\ UNCHANGED folds

(* Chapter.save(), which lowers custom_domain and not the subdomain; a row *)
(* that breaks a constraint is not saved.                                  *)
SaveSite(c, row) ==
    LET saved == [row EXCEPT !.custom_domain = IF row.custom_domain.given THEN Custom(row.custom_domain.host, TRUE)
                                               ELSE NoDomain]
    IN  /\ saves < MaxSaves /\ saves' = saves + 1
        /\ Unique(c, saved)
        /\ sites' = [sites EXCEPT ![c] = saved]
        /\ UNCHANGED folds

(* An admin enters a chapter or changes it, in any case; a blank subdomain *)
(* is slugify(name), in lower case.                                        *)
AdminSaves(c) ==
    /\ \E slug \in Slugs \cup {Slug(SlugOf[c], TRUE)}, domain \in CustomDomains, active \in BOOLEAN :
          SaveSite(c, [there |-> TRUE, subdomain |-> slug, custom_domain |-> domain, active |-> active])
    /\ UNCHANGED editing

(* import_null_community: a chapter that is not there is created, active   *)
(* by default; it stops at one whose slug another chapter has.             *)
import_null_community(c) ==
    /\ ~sites[c].there
    /\ SaveSite(c, [there |-> TRUE, subdomain |-> Slug(SlugOf[c], TRUE), custom_domain |-> NoDomain, active |-> TRUE])
    /\ UNCHANGED editing

(* chapter_edit: the form has none of the three fields, the save has all;  *)
(* it fails when another chapter has taken one of them.                    *)
chapter_edit(c) ==
    /\ sites[c].there /\ ~editing[c].there
    /\ editing' = [editing EXCEPT ![c] = sites[c]]
    /\ UNCHANGED <<sites, saves, folds>>

SaveEdited(c) ==
    /\ editing[c].there
    /\ \/ SaveSite(c, editing[c])
       \/ ~Unique(c, editing[c]) /\ UNCHANGED <<sites, saves, folds>>
    /\ editing' = [editing EXCEPT ![c] = NoSite]

SiteNext == \E c \in Sites : AdminSaves(c) \/ import_null_community(c) \/ chapter_edit(c) \/ SaveEdited(c)

SiteSpec == SiteInit /\ [][SiteNext]_siteVars

-----------------------------------------------------------------------------
(* The readers, which put the host of a request in lower case.             *)

ActiveAt(label) == {c \in Sites : sites[c].there /\ sites[c].active /\ SameSlug(sites[c].subdomain, Slug(label, TRUE))}
ActiveOn(host) ==
    {c \in Sites : sites[c].there /\ sites[c].active /\ SameDomain(sites[c].custom_domain, Custom(host, TRUE))}

(* _resolve: the chapters that a request of the host may get; with none it *)
(* is the root's site, or a 404.                                           *)
IsRoot(host) == host \in {Root, Alias, Sub("www")}
_resolve(host) ==
    IF IsRoot(host) THEN {}
    ELSE IF host.zone = "sub" THEN ActiveAt(host.label)
    ELSE ActiveOn(host)

domain_check(host) ==
    \/ host \in {Root, Sub("www")}
    \/ IF host.zone = "sub" THEN ActiveAt(host.label) # {} ELSE ActiveOn(host) # {}

site_url(c) == IF sites[c].custom_domain.given THEN sites[c].custom_domain.host ELSE Sub(sites[c].subdomain.label)

-----------------------------------------------------------------------------

SiteTypeOK ==
    /\ sites \in [Sites -> {NoSite} \cup SiteRows]
    /\ editing \in [Sites -> {NoSite} \cup SiteRows]
    /\ saves \in 0..MaxSaves
    /\ folds \in BOOLEAN

(* The three readers agree, whatever was saved: a certificate may be       *)
(* issued for a host exactly when a site answers there, one chapter at the *)
(* most; and the URL of an active chapter opens its own site, if it is not *)
(* a host that the root's site takes first or one under ROOT_DOMAIN that   *)
(* was entered as a custom domain, nor a subdomain entered in upper case   *)
(* that a database which does not ignore case never finds.                 *)
DomainsAgree ==
    /\ \A host \in Hosts \ {Alias} : domain_check(host) <=> IsRoot(host) \/ _resolve(host) # {}
    /\ \A host \in Hosts : \A c, d \in _resolve(host) : c = d
    /\ \A c \in Sites : LET row == sites[c] IN
         /\ row.there /\ row.active
         /\ IF row.custom_domain.given THEN row.custom_domain.host.zone = "other"
            ELSE row.subdomain.label # "www" /\ (folds \/ row.subdomain.lower)
         => _resolve(site_url(c)) = {c}

-----------------------------------------------------------------------------
(* What a comment says, and the code does not do.                          *)

(* Subdomain and custom domain are "stored lowercase" - save() leaves the  *)
(* subdomain as it was typed.                                              *)
StoredLowercase ==
    \A c \in Sites : sites[c].there =>
        sites[c].subdomain.lower /\ (sites[c].custom_domain.given => sites[c].custom_domain.lower)

(* site_url "produce[s] working links": the URL of an active chapter on a  *)
(* subdomain opens its site - with a collation that tells the cases apart  *)
(* it opens none.                                                          *)
SubdomainsOpen ==
    \A c \in Sites : LET row == sites[c] IN
        row.there /\ row.active /\ ~row.custom_domain.given /\ row.subdomain.label # "www" =>
            _resolve(site_url(c)) = {c}

=============================================================================

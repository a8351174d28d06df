---------------------------- MODULE CatalogData ----------------------------
(***************************************************************************)
(* The rows of the three tables of the store (internal/db/model.go and     *)
(* internal/db/migrations), and what one write statement makes of a row.   *)
(*                                                                         *)
(* A column matters here only through who writes it.  The columns of a     *)
(* certificate fall into three groups:                                     *)
(*   registration_id                                the link               *)
(*   valid_date, status, product_name, main_model   shared: written by a   *)
(*                                                  page and by an import  *)
(*   sold_as, series_models, issuer                 scraped: written by a  *)
(*                                                  page only              *)
(* and the value of a group is the edition of the BSMI page, or the        *)
(* release of the open dataset, that it was copied from.                   *)
(***************************************************************************)

CONSTANTS
    Registrations,  \* registration numbers
    Certificates,   \* certificate numbers
    Authorizations, \* authorization numbers
    Editions,       \* states of a registration's page at BSMI
    Releases,       \* releases of the open certificate datasets
    Feeds,          \* releases of the open authorization dataset
    Unlinked,       \* the empty registration_id of an imported certificate
    Blank,          \* the empty scraped columns of an imported certificate
    Absent          \* there is no row with this key

CertificateRow == [registration_id: Registrations \cup {Unlinked},
                   shared: Editions \cup Releases,
                   scraped: Editions \cup {Blank}]

\* A page lists each of its certificates once: SaveRegistration refuses others.
Page == [edition: Editions, certs: SUBSET Certificates]

\* The certificates of a dataset release.  The importer refuses an empty one.
Dataset == [release: Releases, certs: (SUBSET Certificates) \ {{}}]

\* Mutant of Feed: an empty feed is not refused.
FeedOrNothing == [feed: Feeds, auths: SUBSET Authorizations]

\* The authorizations of a feed.  ReplaceAuthorizations refuses an empty one.
Feed == [feed: Feeds, auths: (SUBSET Authorizations) \ {{}}]

ASSUME SentinelAssumption ==
    /\ Unlinked \notin Registrations
    /\ Blank \notin Editions
    /\ Absent \notin Editions
    /\ Absent \notin Feeds
    /\ Absent \notin Page
    /\ Absent \notin CertificateRow

\* The row that a page gives one of its certificates: every column but id and
\* created_at is overwritten, whether the row existed or not.
PageRow(r, edition) ==
    [registration_id |-> r, shared |-> edition, scraped |-> edition]

\* Mutant of ImportRow: the update clause names registration_id too.
ImportRowUnlinking(row, release) ==
    IF row = Absent
    THEN [registration_id |-> Unlinked, shared |-> release, scraped |-> Blank]
    ELSE [row EXCEPT !.registration_id = Unlinked, !.shared = release]

\* The row that an import gives a certificate: inserted with no link and no
\* scraped columns, or updated in its shared columns alone.
ImportRow(row, release) ==
    IF row = Absent
    THEN [registration_id |-> Unlinked, shared |-> release, scraped |-> Blank]
    ELSE [row EXCEPT !.shared = release]

\* row is present and linked to r.
LinkedTo(row, r) == row # Absent /\ row.registration_id = r
=============================================================================

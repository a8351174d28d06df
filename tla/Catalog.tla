------------------------------ MODULE Catalog ------------------------------
(***************************************************************************)
(* What the store promises its callers: SaveRegistration,                  *)
(* ImportCertificates and ReplaceAuthorizations (internal/db/store.go)     *)
(* each take effect at once and as a whole, or not at all.                 *)
(*                                                                         *)
(* CatalogTx models the statements the three are made of, and is checked   *)
(* to implement this module.                                               *)
(***************************************************************************)
EXTENDS CatalogData

VARIABLES
    registration,   \* the vendor columns of each registration
    certificate,    \* the row of each certificate
    authorization,  \* the feed each authorization was copied from
    lastPage        \* history: the page last saved for each registration

tables == <<registration, certificate, authorization>>
vars == <<registration, certificate, authorization, lastPage>>

Init ==
    /\ registration = [r \in Registrations |-> Absent]
    /\ certificate = [c \in Certificates |-> Absent]
    /\ authorization = [a \in Authorizations |-> Absent]
    /\ lastPage = [r \in Registrations |-> Absent]

\* Mutant of SaveRegistration: UPDATE in place of an upsert.
SaveKnownOnly(r, page) ==
    /\ registration' = IF registration[r] = Absent THEN registration
                       ELSE [registration EXCEPT ![r] = page.edition]
    /\ certificate' = [c \in Certificates |->
                          IF c \in page.certs THEN PageRow(r, page.edition)
                          ELSE IF LinkedTo(certificate[c], r) THEN Absent
                          ELSE certificate[c]]
    /\ lastPage' = [lastPage EXCEPT ![r] = page]
    /\ UNCHANGED authorization

\* Mutant of SaveRegistration: the DELETE is missing.
SaveWithoutDelete(r, page) ==
    /\ registration' = [registration EXCEPT ![r] = page.edition]
    /\ certificate' = [c \in Certificates |->
                          IF c \in page.certs THEN PageRow(r, page.edition)
                          ELSE certificate[c]]
    /\ lastPage' = [lastPage EXCEPT ![r] = page]
    /\ UNCHANGED authorization

\* The page replaces the registration and all the certificates linked to it,
\* and takes the ones it lists over from any other registration.
SaveRegistration(r, page) ==
    /\ registration' = [registration EXCEPT ![r] = page.edition]
    /\ certificate' = [c \in Certificates |->
                          IF c \in page.certs THEN PageRow(r, page.edition)
                          ELSE IF LinkedTo(certificate[c], r) THEN Absent
                          ELSE certificate[c]]
    /\ lastPage' = [lastPage EXCEPT ![r] = page]
    /\ UNCHANGED authorization

\* Mutant of ImportCertificates: the import replaces the table.
ImportReplacing(data) ==
    /\ certificate' = [c \in Certificates |->
                          IF c \in data.certs
                          THEN ImportRow(certificate[c], data.release)
                          ELSE Absent]
    /\ UNCHANGED <<registration, authorization, lastPage>>

\* The merged datasets are added to the certificates; nothing is removed.
ImportCertificates(data) ==
    /\ certificate' = [c \in Certificates |->
                          IF c \in data.certs
                          THEN ImportRow(certificate[c], data.release)
                          ELSE certificate[c]]
    /\ UNCHANGED <<registration, authorization, lastPage>>

\* Mutant of ReplaceAuthorizations: the DELETE is missing.
ReplaceWithoutDelete(feed) ==
    /\ authorization' = [a \in Authorizations |->
                            IF a \in feed.auths THEN feed.feed ELSE authorization[a]]
    /\ UNCHANGED <<registration, certificate, lastPage>>

\* The feed replaces every authorization.
ReplaceAuthorizations(feed) ==
    /\ authorization' = [a \in Authorizations |->
                            IF a \in feed.auths THEN feed.feed ELSE Absent]
    /\ UNCHANGED <<registration, certificate, lastPage>>

Next ==
    \/ \E r \in Registrations, page \in Page : SaveRegistration(r, page)
    \/ \E data \in Dataset : ImportCertificates(data)
    \/ \E feed \in Feed : ReplaceAuthorizations(feed)

Spec == Init /\ [][Next]_vars
-----------------------------------------------------------------------------
TypeOK ==
    /\ registration \in [Registrations -> Editions \cup {Absent}]
    /\ certificate \in [Certificates -> CertificateRow \cup {Absent}]
    /\ authorization \in [Authorizations -> Feeds \cup {Absent}]
    /\ lastPage \in [Registrations -> Page \cup {Absent}]

\* A certificate that is linked is linked to a registration that exists,
\* although imports write with the foreign key checks off
\* (store.go:200-216): the item page joins the two tables on this link.
LinksResolve ==
    \A c \in Certificates, r \in Registrations :
        LinkedTo(certificate[c], r) => registration[r] # Absent

\* The copy of a registration is its last page and nothing else: each
\* certificate linked to it is on that page, with the scraped columns of that
\* page, and each shared column is of that page or of an import since
\* (store.go:172-198).  Delisted certificates do not linger, and no mix of
\* two pages is ever stored.
CopyIsLastPage ==
    \A r \in Registrations :
        registration[r] # Absent =>
            /\ lastPage[r] # Absent
            /\ registration[r] = lastPage[r].edition
            /\ \A c \in Certificates :
                  LinkedTo(certificate[c], r) =>
                      /\ c \in lastPage[r].certs
                      /\ certificate[c].scraped = lastPage[r].edition
                      /\ certificate[c].shared \in {lastPage[r].edition} \cup Releases

\* A certificate has scraped details exactly when it is linked: those of a
\* page survive every import, and one that no page listed has none
\* (store.go:231-242; README "Imports preserve existing registration links
\* and scraped details").
DetailsFollowLinks ==
    \A c \in Certificates :
        certificate[c] # Absent =>
            (certificate[c].registration_id = Unlinked <=> certificate[c].scraped = Blank)

\* The authorizations are those of a single feed, never a mix of two
\* (store.go:246-270).
OneFeedAtATime ==
    \A a, b \in Authorizations :
        authorization[a] # Absent /\ authorization[b] # Absent
            => authorization[a] = authorization[b]

\* A certificate disappears only because the page of the registration it was
\* linked to stopped listing it; an import never removes one, and a
\* certificate that no page listed stays (store.go:183, 231-242).
VanishesOnlyWhenDelisted ==
    [][\A c \in Certificates :
          certificate[c] # Absent /\ certificate'[c] = Absent =>
              \E r \in Registrations :
                  /\ LinkedTo(certificate[c], r)
                  /\ lastPage'[r] # Absent
                  /\ c \notin lastPage'[r].certs]_vars

\* Authorizations, once there are some, are never left empty
\* (store.go:247-249; README "malformed or empty authorization feeds leave
\* the previous data intact").
NeverEmptied ==
    [][(\E a \in Authorizations : authorization[a] # Absent)
          => (\E a \in Authorizations : authorization'[a] # Absent)]_vars
=============================================================================

--------------------------- MODULE CatalogProofs ---------------------------
(***************************************************************************)
(* Proofs that Catalog keeps its invariants for every set of registrations,*)
(* certificates, authorizations, editions, releases and feeds.             *)
(***************************************************************************)
EXTENDS Catalog, TLAPS

\* The rows that a page and an import write (store.go:186-195, 231-242).
LEMMA PageRowType ==
    ASSUME NEW r \in Registrations, NEW e \in Editions
    PROVE  /\ PageRow(r, e) \in CertificateRow
           /\ PageRow(r, e) # Absent
           /\ \A r2 \in Registrations : LinkedTo(PageRow(r, e), r2) <=> r2 = r
  BY SentinelAssumption DEF PageRow, CertificateRow, LinkedTo

\* An import never changes the link or the details of a row that exists, and
\* gives neither to a row it inserts (store.go:231-242).
LEMMA ImportRowKeepsLink ==
    ASSUME NEW x \in CertificateRow \cup {Absent}, NEW d \in Releases
    PROVE  /\ ImportRow(x, d) \in CertificateRow
           /\ ImportRow(x, d) # Absent
           /\ ImportRow(x, d).shared = d
           /\ \A r \in Registrations : LinkedTo(ImportRow(x, d), r) <=> LinkedTo(x, r)
           /\ x # Absent => /\ ImportRow(x, d).registration_id = x.registration_id
                            /\ ImportRow(x, d).scraped = x.scraped
           /\ x = Absent => /\ ImportRow(x, d).registration_id = Unlinked
                            /\ ImportRow(x, d).scraped = Blank
<1>1. CASE x = Absent
  BY <1>1, SentinelAssumption DEF ImportRow, CertificateRow, LinkedTo
<1>2. CASE x # Absent
  BY <1>2, SentinelAssumption DEF ImportRow, CertificateRow, LinkedTo
<1>. QED  BY <1>1, <1>2

-----------------------------------------------------------------------------
\* Every table holds rows of its kind, whatever is saved or imported.
THEOREM TypeCorrect == Spec => []TypeOK
<1>1. Init => TypeOK
  BY DEF Init, TypeOK
<1>2. TypeOK /\ [Next]_vars => TypeOK'
  <2> SUFFICES ASSUME TypeOK, [Next]_vars PROVE TypeOK'
    OBVIOUS
  <2> USE DEF TypeOK
  <2>1. ASSUME NEW r \in Registrations, NEW page \in Page, SaveRegistration(r, page)
        PROVE  TypeOK'
    <3>1. page.edition \in Editions /\ page.certs \subseteq Certificates
      BY DEF Page
    <3>2. PageRow(r, page.edition) \in CertificateRow
      BY <3>1, PageRowType
    <3>. QED  BY <2>1, <3>1, <3>2 DEF SaveRegistration
  <2>2. ASSUME NEW data \in Dataset, ImportCertificates(data)
        PROVE  TypeOK'
    <3>1. data.release \in Releases
      BY DEF Dataset
    <3>2. \A c \in Certificates : ImportRow(certificate[c], data.release) \in CertificateRow
      BY <3>1, ImportRowKeepsLink
    <3>. QED  BY <2>2, <3>2 DEF ImportCertificates
  <2>3. ASSUME NEW feed \in Feed, ReplaceAuthorizations(feed)
        PROVE  TypeOK'
    <3>1. feed.feed \in Feeds
      BY DEF Feed
    <3>. QED  BY <2>3, <3>1 DEF ReplaceAuthorizations
  <2>4. CASE UNCHANGED vars
    BY <2>4 DEF vars
  <2>. QED  BY <2>1, <2>2, <2>3, <2>4 DEF Next
<1>. QED  BY <1>1, <1>2, PTL DEF Spec

-----------------------------------------------------------------------------
\* A save gives every certificate of its page the same row, unlinks the rest
\* and leaves what other registrations own; stated for one certificate.
LEMMA SaveEffect ==
    ASSUME TypeOK, NEW r \in Registrations, NEW page \in Page,
           SaveRegistration(r, page), NEW c \in Certificates
    PROVE  /\ c \in page.certs => certificate'[c] = PageRow(r, page.edition)
           /\ c \notin page.certs /\ LinkedTo(certificate[c], r) => certificate'[c] = Absent
           /\ c \notin page.certs /\ ~LinkedTo(certificate[c], r)
                 => certificate'[c] = certificate[c]
           /\ page.edition \in Editions
  BY DEF SaveRegistration, Page

\* An import gives the certificates of its dataset an ImportRow and leaves the
\* others; stated for one certificate.
LEMMA ImportEffect ==
    ASSUME TypeOK, NEW data \in Dataset, ImportCertificates(data), NEW c \in Certificates
    PROVE  /\ data.release \in Releases
           /\ certificate[c] \in CertificateRow \cup {Absent}
           /\ \/ certificate'[c] = certificate[c]
              \/ certificate'[c] = ImportRow(certificate[c], data.release)
  BY DEF ImportCertificates, Dataset, TypeOK

\* Every link leads to a registration that exists, although imports run with
\* the foreign key checks off.
THEOREM LinksAlwaysResolve == Spec => []LinksResolve
<1>1. Init => LinksResolve
  BY DEF Init, LinksResolve, LinkedTo
<1>2. TypeOK /\ LinksResolve /\ [Next]_vars => LinksResolve'
  <2> SUFFICES ASSUME TypeOK, LinksResolve, [Next]_vars,
                      NEW c \in Certificates, NEW r2 \in Registrations,
                      LinkedTo(certificate'[c], r2)
               PROVE  registration'[r2] # Absent
    BY DEF LinksResolve
  <2>1. ASSUME NEW r \in Registrations, NEW page \in Page, SaveRegistration(r, page)
        PROVE  registration'[r2] # Absent
    <3>1. page.edition \in Editions /\ page.edition # Absent
      BY SentinelAssumption DEF Page
    <3>2. CASE r2 = r
      BY <2>1, <3>1, <3>2 DEF SaveRegistration, TypeOK
    <3>3. CASE r2 # r
      <4>1. certificate'[c] = certificate[c]
        BY <2>1, <3>1, <3>3, SaveEffect, PageRowType DEF LinkedTo
      <4>. QED  BY <2>1, <3>3, <4>1 DEF SaveRegistration, LinksResolve, TypeOK
    <3>. QED  BY <3>2, <3>3
  <2>2. ASSUME NEW data \in Dataset, ImportCertificates(data)
        PROVE  registration'[r2] # Absent
    <3>1. LinkedTo(certificate[c], r2)
      BY <2>2, ImportEffect, ImportRowKeepsLink
    <3>. QED  BY <2>2, <3>1 DEF ImportCertificates, LinksResolve
  <2>3. ASSUME NEW feed \in Feed, ReplaceAuthorizations(feed)
        PROVE  registration'[r2] # Absent
    BY <2>3 DEF ReplaceAuthorizations, LinksResolve
  <2>4. CASE UNCHANGED vars
    BY <2>4 DEF vars, LinksResolve
  <2>. QED  BY <2>1, <2>2, <2>3, <2>4 DEF Next
<1>. QED  BY <1>1, <1>2, TypeCorrect, PTL DEF Spec

\* The copy of a registration is its last page and nothing else, whatever
\* other pages and imports are stored before and after it.
THEOREM CopyIsAlwaysLastPage == Spec => []CopyIsLastPage
<1>1. Init => CopyIsLastPage
  BY DEF Init, CopyIsLastPage
<1>2. TypeOK /\ CopyIsLastPage /\ [Next]_vars => CopyIsLastPage'
  <2> SUFFICES ASSUME TypeOK, CopyIsLastPage, [Next]_vars,
                      NEW r2 \in Registrations, registration'[r2] # Absent
               PROVE  /\ lastPage'[r2] # Absent
                      /\ registration'[r2] = lastPage'[r2].edition
                      /\ \A c \in Certificates : LinkedTo(certificate'[c], r2) =>
                            /\ c \in lastPage'[r2].certs
                            /\ certificate'[c].scraped = lastPage'[r2].edition
                            /\ certificate'[c].shared \in {lastPage'[r2].edition} \cup Releases
    BY DEF CopyIsLastPage
  <2>1. ASSUME NEW r \in Registrations, NEW page \in Page, SaveRegistration(r, page),
               r2 = r
        PROVE  /\ lastPage'[r2] # Absent
               /\ registration'[r2] = lastPage'[r2].edition
               /\ \A c \in Certificates : LinkedTo(certificate'[c], r2) =>
                     /\ c \in lastPage'[r2].certs
                     /\ certificate'[c].scraped = lastPage'[r2].edition
                     /\ certificate'[c].shared \in {lastPage'[r2].edition} \cup Releases
    <3>1. lastPage'[r] = page /\ page # Absent /\ registration'[r] = page.edition
      BY <2>1, SentinelAssumption DEF SaveRegistration, TypeOK
    <3>2. ASSUME NEW c \in Certificates, LinkedTo(certificate'[c], r)
          PROVE  c \in page.certs /\ certificate'[c] = PageRow(r, page.edition)
      BY <2>1, <3>2, SaveEffect DEF LinkedTo
    <3>. QED  BY <2>1, <3>1, <3>2 DEF PageRow
  <2>2. ASSUME NEW r \in Registrations, NEW page \in Page, SaveRegistration(r, page),
               r2 # r
        PROVE  /\ lastPage'[r2] = lastPage[r2]
               /\ registration'[r2] = registration[r2]
               /\ \A c \in Certificates : LinkedTo(certificate'[c], r2) =>
                     certificate'[c] = certificate[c]
    <3>1. \A c \in Certificates : LinkedTo(certificate'[c], r2) =>
                 certificate'[c] = certificate[c]
      BY <2>2, SaveEffect, PageRowType DEF LinkedTo
    <3>. QED  BY <2>2, <3>1 DEF SaveRegistration, TypeOK
  <2>3. ASSUME NEW data \in Dataset, ImportCertificates(data)
        PROVE  /\ lastPage'[r2] = lastPage[r2]
               /\ registration'[r2] = registration[r2]
               /\ \A c \in Certificates : LinkedTo(certificate'[c], r2) =>
                     /\ LinkedTo(certificate[c], r2)
                     /\ certificate'[c].scraped = certificate[c].scraped
                     /\ certificate'[c].shared \in {certificate[c].shared} \cup Releases
    <3>1. ASSUME NEW c \in Certificates, LinkedTo(certificate'[c], r2)
          PROVE  /\ LinkedTo(certificate[c], r2)
                 /\ certificate'[c].scraped = certificate[c].scraped
                 /\ certificate'[c].shared \in {certificate[c].shared} \cup Releases
      BY <2>3, <3>1, ImportEffect, ImportRowKeepsLink DEF LinkedTo
    <3>. QED  BY <2>3, <3>1 DEF ImportCertificates
  <2>4. ASSUME NEW feed \in Feed, ReplaceAuthorizations(feed)
        PROVE  UNCHANGED <<registration, certificate, lastPage>>
    BY <2>4 DEF ReplaceAuthorizations
  <2>5. CASE UNCHANGED <<registration, certificate, lastPage>>
    BY <2>5 DEF CopyIsLastPage
  <2>. QED  BY <2>1, <2>2, <2>3, <2>4, <2>5 DEF Next, vars, CopyIsLastPage
<1>. QED  BY <1>1, <1>2, TypeCorrect, PTL DEF Spec

\* A certificate has scraped details exactly when it is linked: an import that
\* meets a linked certificate keeps both, one that does not gives neither.
THEOREM DetailsAlwaysFollowLinks == Spec => []DetailsFollowLinks
<1>1. Init => DetailsFollowLinks
  BY DEF Init, DetailsFollowLinks
<1>2. TypeOK /\ DetailsFollowLinks /\ [Next]_vars => DetailsFollowLinks'
  <2> SUFFICES ASSUME TypeOK, DetailsFollowLinks, [Next]_vars,
                      NEW c \in Certificates, certificate'[c] # Absent
               PROVE  certificate'[c].registration_id = Unlinked
                        <=> certificate'[c].scraped = Blank
    BY DEF DetailsFollowLinks
  <2>1. ASSUME NEW r \in Registrations, NEW page \in Page, SaveRegistration(r, page)
        PROVE  \/ certificate'[c] = PageRow(r, page.edition) /\ page.edition \in Editions
               \/ certificate'[c] = certificate[c]
    BY <2>1, SaveEffect
  <2>2. ASSUME NEW r \in Registrations, NEW e \in Editions
        PROVE  PageRow(r, e).registration_id # Unlinked /\ PageRow(r, e).scraped # Blank
    BY SentinelAssumption DEF PageRow
  <2>3. ASSUME NEW data \in Dataset, ImportCertificates(data)
        PROVE  \/ certificate[c] = Absent /\ certificate'[c].registration_id = Unlinked
                                        /\ certificate'[c].scraped = Blank
               \/ /\ certificate[c] # Absent
                  /\ certificate'[c].registration_id = certificate[c].registration_id
                  /\ certificate'[c].scraped = certificate[c].scraped
    BY <2>3, ImportEffect, ImportRowKeepsLink
  <2>4. ASSUME NEW feed \in Feed, ReplaceAuthorizations(feed)
        PROVE  certificate' = certificate
    BY <2>4 DEF ReplaceAuthorizations
  <2>. QED  BY <2>1, <2>2, <2>3, <2>4 DEF Next, vars, DetailsFollowLinks
<1>. QED  BY <1>1, <1>2, TypeCorrect, PTL DEF Spec

\* The authorizations shown together always come from one feed.
THEOREM AlwaysOneFeed == Spec => []OneFeedAtATime
<1>1. Init => OneFeedAtATime
  BY DEF Init, OneFeedAtATime
<1>2. TypeOK /\ OneFeedAtATime /\ [Next]_vars => OneFeedAtATime'
  <2> SUFFICES ASSUME TypeOK, OneFeedAtATime, [Next]_vars PROVE OneFeedAtATime'
    OBVIOUS
  <2>1. ASSUME NEW feed \in Feed, ReplaceAuthorizations(feed)
        PROVE  OneFeedAtATime'
    BY <2>1 DEF ReplaceAuthorizations, OneFeedAtATime
  <2>2. CASE UNCHANGED authorization
    BY <2>2 DEF OneFeedAtATime
  <2>. QED
    BY <2>1, <2>2 DEF Next, vars, SaveRegistration, ImportCertificates
<1>. QED  BY <1>1, <1>2, TypeCorrect, PTL DEF Spec

\* A certificate disappears only when the page of its registration drops it.
THEOREM OnlyDelistedVanish == Spec => VanishesOnlyWhenDelisted
<1>1. ASSUME TypeOK, [Next]_vars, NEW c \in Certificates,
             certificate[c] # Absent, certificate'[c] = Absent
      PROVE  \E r \in Registrations :
                /\ LinkedTo(certificate[c], r)
                /\ lastPage'[r] # Absent
                /\ c \notin lastPage'[r].certs
  <2>1. ASSUME NEW r \in Registrations, NEW page \in Page, SaveRegistration(r, page)
        PROVE  /\ LinkedTo(certificate[c], r)
               /\ lastPage'[r] # Absent
               /\ c \notin lastPage'[r].certs
    <3>1. lastPage'[r] = page /\ page # Absent
      BY <1>1, <2>1, SentinelAssumption DEF SaveRegistration, TypeOK
    <3>2. c \notin page.certs /\ LinkedTo(certificate[c], r)
      BY <1>1, <2>1, SaveEffect, PageRowType
    <3>. QED  BY <3>1, <3>2
  <2>2. ASSUME NEW data \in Dataset, ImportCertificates(data)
        PROVE  FALSE
    BY <1>1, <2>2, ImportEffect, ImportRowKeepsLink
  <2>3. ASSUME UNCHANGED certificate PROVE FALSE
    BY <1>1, <2>3
  <2>. QED  BY <1>1, <2>1, <2>2, <2>3 DEF Next, vars, ReplaceAuthorizations
<1>2. TypeOK /\ [Next]_vars =>
        [\A c \in Certificates :
            certificate[c] # Absent /\ certificate'[c] = Absent =>
                \E r \in Registrations :
                    /\ LinkedTo(certificate[c], r)
                    /\ lastPage'[r] # Absent
                    /\ c \notin lastPage'[r].certs]_vars
  BY <1>1
<1>. QED  BY <1>2, TypeCorrect, PTL DEF Spec, VanishesOnlyWhenDelisted

\* Replacing the authorizations never leaves the table empty.
THEOREM NeverLeftEmpty == Spec => NeverEmptied
<1>1. TypeOK /\ [Next]_vars =>
        [(\E a \in Authorizations : authorization[a] # Absent)
            => (\E a \in Authorizations : authorization'[a] # Absent)]_vars
  <2> SUFFICES ASSUME TypeOK, [Next]_vars,
                      NEW a \in Authorizations, authorization[a] # Absent
               PROVE  \E b \in Authorizations : authorization'[b] # Absent
    OBVIOUS
  <2>1. ASSUME NEW feed \in Feed, ReplaceAuthorizations(feed)
        PROVE  \E b \in Authorizations : authorization'[b] # Absent
    <3>1. PICK b \in feed.auths : b \in Authorizations
      BY DEF Feed
    <3>2. feed.feed # Absent
      BY SentinelAssumption DEF Feed
    <3>. QED  BY <2>1, <3>1, <3>2 DEF ReplaceAuthorizations
  <2>2. CASE UNCHANGED authorization
    BY <2>2
  <2>. QED  BY <2>1, <2>2 DEF Next, vars, SaveRegistration, ImportCertificates
<1>. QED  BY <1>1, TypeCorrect, PTL DEF Spec, NeverEmptied
=============================================================================

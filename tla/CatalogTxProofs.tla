-------------------------- MODULE CatalogTxProofs --------------------------
(***************************************************************************)
(* Proofs about CatalogTx for every set of clients, registrations,         *)
(* certificates, authorizations and editions: the inductive invariant IInv *)
(* and the refinement of Catalog that follows from it.                     *)
(***************************************************************************)
EXTENDS CatalogTx, TLAPS

IInv ==
    /\ TypeOK
    /\ LocksExclusive
    /\ WritesFollowProgress

-----------------------------------------------------------------------------
(* Rows *)

\* The row a page writes is linked to the registration of that page alone.
LEMMA PageRowType ==
    ASSUME NEW r \in Registrations, NEW e \in Editions
    PROVE  /\ PageRow(r, e) \in CertificateRow
           /\ PageRow(r, e) # Absent
           /\ PageRow(r, e) # Untouched
           /\ \A r2 \in Registrations : LinkedTo(PageRow(r, e), r2) <=> r2 = r
  BY SentinelAssumption, UntouchedAssumption DEF PageRow, CertificateRow, LinkedTo

\* The row an import writes has the link and the details of the row it found.
LEMMA ImportRowKeepsLink ==
    ASSUME NEW x \in CertificateRow \cup {Absent}, NEW d \in Releases
    PROVE  /\ ImportRow(x, d) \in CertificateRow
           /\ ImportRow(x, d) # Absent
           /\ ImportRow(x, d) # Untouched
           /\ \A r \in Registrations : LinkedTo(ImportRow(x, d), r) <=> LinkedTo(x, r)
           /\ x # Absent => /\ ImportRow(x, d).registration_id = x.registration_id
                            /\ ImportRow(x, d).scraped = x.scraped
<1>1. CASE x = Absent
  BY <1>1, SentinelAssumption, UntouchedAssumption DEF ImportRow, CertificateRow, LinkedTo
<1>2. CASE x # Absent
  BY <1>2, SentinelAssumption, UntouchedAssumption DEF ImportRow, CertificateRow, LinkedTo
<1>. QED  BY <1>1, <1>2

-----------------------------------------------------------------------------
(* Types *)

\* The values of a transaction that has written nothing are of their types.
LEMMA NoWritesType ==
    /\ None \in [reg: Registrations \cup {Absent},
                 source: Editions \cup Releases \cup Feeds \cup {Absent},
                 rows: SUBSET (Certificates \cup Authorizations)]
    /\ NoCertWrite \in [Certificates -> CertificateRow \cup {Absent, Untouched}]
    /\ NoAuthWrite \in [Authorizations -> Feeds \cup {Absent, Untouched}]
  BY DEF None, NoCertWrite, NoAuthWrite

\* The types hold at first.
LEMMA InitTypeOK == Init => TypeOK
  BY NoWritesType DEF Init, TypeOK, TablesTypeOK, TransactionsTypeOK

\* Ending a transaction keeps the types of what belongs to it.
LEMMA EndType ==
    ASSUME TransactionsTypeOK, NEW t \in Clients, End(t)
    PROVE  TransactionsTypeOK'
  BY NoWritesType DEF TransactionsTypeOK, End

\* Applying the writes of a transaction changes the rows it wrote, and those
\* alone.
LEMMA AppliedCertificates ==
    ASSUME TypeOK, NEW t \in Clients
    PROVE  /\ Applied(certificate, certWrite[t]) \in [Certificates -> CertificateRow \cup {Absent}]
           /\ \A c \in Certificates :
                 Applied(certificate, certWrite[t])[c] =
                     IF certWrite[t][c] = Untouched THEN certificate[c] ELSE certWrite[t][c]
  BY DEF Applied, TypeOK, TablesTypeOK, TransactionsTypeOK

\* What a commit makes of the authorizations, row by row.
LEMMA AppliedAuthorizations ==
    ASSUME TypeOK, NEW t \in Clients
    PROVE  /\ Applied(authorization, authWrite[t]) \in [Authorizations -> Feeds \cup {Absent}]
           /\ \A a \in Authorizations :
                 Applied(authorization, authWrite[t])[a] =
                     IF authWrite[t][a] = Untouched THEN authorization[a] ELSE authWrite[t][a]
  BY DEF Applied, TypeOK, TablesTypeOK, TransactionsTypeOK

\* Every step keeps the types.
LEMMA NextTypeOK == IInv /\ [Next]_vars => TypeOK'
<1> SUFFICES ASSUME IInv, [Next]_vars PROVE TypeOK'
  OBVIOUS
<1>0. TypeOK /\ TablesTypeOK /\ TransactionsTypeOK
  BY DEF IInv, TypeOK
<1>1. ASSUME NEW t \in Clients, NEW r \in Registrations, NEW page \in Page,
             UpsertRegistration(t, r, page)
      PROVE  TypeOK'
  <2>1. page.edition \in Editions /\ page.certs \subseteq Certificates
    BY DEF Page
  <2>. QED  BY <1>0, <1>1, <2>1
            DEF UpsertRegistration, TypeOK, TablesTypeOK, TransactionsTypeOK, tables
<1>2. ASSUME NEW t \in Clients, DeleteCertificates(t)
      PROVE  TypeOK'
  BY <1>0, <1>2 DEF DeleteCertificates, TypeOK, TablesTypeOK, TransactionsTypeOK, tables
<1>3. ASSUME NEW t \in Clients, NEW c \in Certificates, UpsertCertificate(t, c)
      PROVE  TypeOK'
  <2>1. request[t].reg \in Registrations /\ request[t].source \in Editions
    BY <1>3 DEF UpsertCertificate, IInv, WritesFollowProgress, Progress, SaveProgress
  <2>2. PageRow(request[t].reg, request[t].source) \in CertificateRow
    BY <2>1, PageRowType
  <2>. QED  BY <1>0, <1>3, <2>2
            DEF UpsertCertificate, TypeOK, TablesTypeOK, TransactionsTypeOK, tables
<1>4. ASSUME NEW t \in Clients, CommitSave(t)
      PROVE  TypeOK'
  <2>1. /\ request[t].reg \in Registrations
        /\ request[t].source \in Editions
        /\ request[t].rows \subseteq Certificates
    BY <1>4 DEF CommitSave, IInv, WritesFollowProgress, Progress, SaveProgress
  <2>2. [edition |-> request[t].source, certs |-> request[t].rows] \in Page
    BY <2>1 DEF Page
  <2>3. certificate' \in [Certificates -> CertificateRow \cup {Absent}]
    BY <1>0, <1>4, AppliedCertificates DEF CommitSave
  <2>4. TransactionsTypeOK'
    BY <1>0, <1>4, EndType DEF CommitSave
  <2>5. TablesTypeOK'
    BY <1>0, <1>4, <2>1, <2>2, <2>3 DEF CommitSave, TablesTypeOK
  <2>. QED  BY <2>4, <2>5 DEF TypeOK
<1>5. ASSUME NEW t \in Clients, NEW data \in Dataset, BeginImport(t, data)
      PROVE  TypeOK'
  <2>1. data.release \in Releases /\ data.certs \subseteq Certificates
    BY DEF Dataset
  <2>. QED  BY <1>0, <1>5, <2>1
            DEF BeginImport, TypeOK, TablesTypeOK, TransactionsTypeOK, tables
<1>6. ASSUME NEW t \in Clients, NEW c \in Certificates, ImportCertificate(t, c)
      PROVE  TypeOK'
  <2>1. request[t].source \in Releases
    BY <1>6 DEF ImportCertificate, IInv, WritesFollowProgress, Progress, ImportProgress
  <2>2. ImportRow(certificate[c], request[t].source) \in CertificateRow
    BY <1>0, <2>1, ImportRowKeepsLink DEF TablesTypeOK
  <2>. QED  BY <1>0, <1>6, <2>2
            DEF ImportCertificate, TypeOK, TablesTypeOK, TransactionsTypeOK, tables
<1>7. ASSUME NEW t \in Clients, CommitImport(t)
      PROVE  TypeOK'
  <2>1. certificate' \in [Certificates -> CertificateRow \cup {Absent}]
    BY <1>0, <1>7, AppliedCertificates DEF CommitImport
  <2>2. TransactionsTypeOK'
    BY <1>0, <1>7, EndType DEF CommitImport
  <2>3. TablesTypeOK'
    BY <1>0, <1>7, <2>1 DEF CommitImport, TablesTypeOK
  <2>. QED  BY <2>2, <2>3 DEF TypeOK
<1>8. ASSUME NEW t \in Clients, NEW feed \in Feed, ClearAuthorizations(t, feed)
      PROVE  TypeOK'
  <2>1. feed.feed \in Feeds /\ feed.auths \subseteq Authorizations
    BY DEF Feed
  <2>. QED  BY <1>0, <1>8, <2>1
            DEF ClearAuthorizations, TypeOK, TablesTypeOK, TransactionsTypeOK, tables
<1>9. ASSUME NEW t \in Clients, NEW a \in Authorizations, InsertAuthorization(t, a)
      PROVE  TypeOK'
  <2>1. request[t].source \in Feeds
    BY <1>9 DEF InsertAuthorization, IInv, WritesFollowProgress, Progress, ReplaceProgress
  <2>. QED  BY <1>0, <1>9, <2>1
            DEF InsertAuthorization, TypeOK, TablesTypeOK, TransactionsTypeOK, tables
<1>10. ASSUME NEW t \in Clients, CommitReplace(t)
       PROVE  TypeOK'
  <2>1. authorization' \in [Authorizations -> Feeds \cup {Absent}]
    BY <1>0, <1>10, AppliedAuthorizations DEF CommitReplace
  <2>2. TransactionsTypeOK'
    BY <1>0, <1>10, EndType DEF CommitReplace
  <2>3. TablesTypeOK'
    BY <1>0, <1>10, <2>1 DEF CommitReplace, TablesTypeOK
  <2>. QED  BY <2>2, <2>3 DEF TypeOK
<1>11. ASSUME NEW t \in Clients, Rollback(t)
       PROVE  TypeOK'
  BY <1>0, <1>11, EndType DEF Rollback, TypeOK, TablesTypeOK, TransactionsTypeOK, tables
<1>12. CASE UNCHANGED vars
  BY <1>0, <1>12 DEF vars, tables, TypeOK, TablesTypeOK, TransactionsTypeOK
<1>. QED
  BY <1>1, <1>2, <1>3, <1>4, <1>5, <1>6, <1>7, <1>8, <1>9, <1>10, <1>11, <1>12 DEF Next

-----------------------------------------------------------------------------
(* Steps that do not touch the committed tables *)

\* A client that does not move keeps its progress while nothing is committed.
LEMMA Bystander ==
    ASSUME IInv, NEW u \in Clients, UNCHANGED tables,
           pc'[u] = pc[u], request'[u] = request[u], seen'[u] = seen[u],
           regWrite'[u] = regWrite[u], certWrite'[u] = certWrite[u],
           authWrite'[u] = authWrite[u]
    PROVE  Progress(u)'
<1>1. Progress(u)
  BY DEF IInv, WritesFollowProgress
<1>2. IdleIsClean(u)'
  BY <1>1 DEF Progress, IdleIsClean
<1>3. SaveProgress(u)'
  BY <1>1 DEF Progress, SaveProgress, tables
<1>4. ImportProgress(u)'
  BY <1>1 DEF Progress, ImportProgress, tables
<1>5. ReplaceProgress(u)'
  BY <1>1 DEF Progress, ReplaceProgress, tables
<1>. QED  BY <1>2, <1>3, <1>4, <1>5 DEF Progress

\* One lemma for each action: it keeps the locks exclusive and the writes of every
\* transaction those of its progress.  The first statement of save.
LEMMA UpsertRegistrationStep ==
    ASSUME IInv, NEW t \in Clients, NEW r \in Registrations, NEW page \in Page,
           UpsertRegistration(t, r, page)
    PROVE  LocksExclusive' /\ WritesFollowProgress'
<1> USE DEF UpsertRegistration
<1>0. TransactionsTypeOK /\ LocksExclusive /\ WritesFollowProgress
  BY DEF IInv, TypeOK
<1>1. IdleIsClean(t)
  BY <1>0 DEF WritesFollowProgress, Progress
<1>2. page.edition \in Editions /\ page.certs \subseteq Certificates
  BY DEF Page
<1>3. ASSUME NEW u \in Clients PROVE Progress(u)'
  <2>1. CASE u # t
    BY <1>0, <2>1, Bystander DEF TransactionsTypeOK
  <2>2. CASE u = t
    BY <1>0, <1>1, <1>2, <2>2
    DEF TransactionsTypeOK, Progress, IdleIsClean, SaveProgress, ImportProgress,
        ReplaceProgress
  <2>. QED  BY <2>1, <2>2
<1>4. GapsExclude'
  BY <1>0 DEF WritesFollowProgress, TransactionsTypeOK, GapsExclude, Cleared
<1>5. LocksExclusive'
  BY <1>0 DEF LocksExclusive, TransactionsTypeOK, FreeRegistration, Others
<1>. QED  BY <1>3, <1>4, <1>5 DEF WritesFollowProgress

\* The deletion of the certificates that a page no longer has.
LEMMA DeleteCertificatesStep ==
    ASSUME IInv, NEW t \in Clients, DeleteCertificates(t)
    PROVE  LocksExclusive' /\ WritesFollowProgress'
<1> USE DEF DeleteCertificates
<1>0. TypeOK /\ TransactionsTypeOK /\ LocksExclusive /\ WritesFollowProgress
  BY DEF IInv, TypeOK
<1>1. SaveProgress(t) /\ certWrite[t] = NoCertWrite
  BY <1>0 DEF WritesFollowProgress, Progress, SaveProgress
<1>2. \A c \in Certificates :
         certWrite'[t][c] = IF LinkedTo(certificate[c], request[t].reg) THEN Absent
                            ELSE Untouched
  BY <1>0, <1>1 DEF TransactionsTypeOK, NoCertWrite
<1>3. ASSUME NEW u \in Clients PROVE Progress(u)'
  <2>1. CASE u # t
    BY <1>0, <2>1, Bystander DEF TransactionsTypeOK
  <2>2. CASE u = t
    <3>1. SaveProgress(t)'
      BY <1>0, <1>1, <1>2 DEF TransactionsTypeOK, SaveProgress, tables
    <3>2. IdleIsClean(t)' /\ ImportProgress(t)' /\ ReplaceProgress(t)'
      BY <1>0 DEF TransactionsTypeOK, IdleIsClean, ImportProgress, ReplaceProgress
    <3>. QED  BY <2>2, <3>1, <3>2 DEF Progress
  <2>. QED  BY <2>1, <2>2
<1>4. GapsExclude'
  BY <1>0 DEF WritesFollowProgress, TransactionsTypeOK, GapsExclude, Cleared
<1>5. LocksExclusive'
  <2>1. \A u \in Clients, c \in Certificates :
           u # t => certWrite'[t][c] = Untouched \/ certWrite[u][c] = Untouched
    BY <1>2 DEF Others
  <2>. QED  BY <1>0, <2>1 DEF LocksExclusive, TransactionsTypeOK
<1>. QED  BY <1>3, <1>4, <1>5 DEF WritesFollowProgress

\* One certificate of a page.
LEMMA UpsertCertificateStep ==
    ASSUME IInv, NEW t \in Clients, NEW c \in Certificates, UpsertCertificate(t, c)
    PROVE  LocksExclusive' /\ WritesFollowProgress'
<1> USE DEF UpsertCertificate
<1>0. TransactionsTypeOK /\ LocksExclusive /\ WritesFollowProgress
  BY DEF IInv, TypeOK
<1>1. SaveProgress(t)
  BY <1>0 DEF WritesFollowProgress, Progress
<1>2. ASSUME NEW u \in Clients PROVE Progress(u)'
  <2>1. CASE u # t
    BY <1>0, <2>1, Bystander DEF TransactionsTypeOK
  <2>2. CASE u = t
    <3>1. SaveProgress(t)'
      BY <1>0, <1>1 DEF TransactionsTypeOK, SaveProgress, tables
    <3>2. IdleIsClean(t)' /\ ImportProgress(t)' /\ ReplaceProgress(t)'
      BY <1>0 DEF TransactionsTypeOK, IdleIsClean, ImportProgress, ReplaceProgress
    <3>. QED  BY <2>2, <3>1, <3>2 DEF Progress
  <2>. QED  BY <2>1, <2>2
<1>3. GapsExclude'
  BY <1>0 DEF WritesFollowProgress, TransactionsTypeOK, GapsExclude, Cleared
<1>4. LocksExclusive'
  BY <1>0 DEF LocksExclusive, TransactionsTypeOK, FreeCertificate, Others
<1>. QED  BY <1>2, <1>3, <1>4 DEF WritesFollowProgress

\* The begin of an import.
LEMMA BeginImportStep ==
    ASSUME IInv, NEW t \in Clients, NEW data \in Dataset, BeginImport(t, data)
    PROVE  LocksExclusive' /\ WritesFollowProgress'
<1> USE DEF BeginImport
<1>0. TransactionsTypeOK /\ LocksExclusive /\ WritesFollowProgress
  BY DEF IInv, TypeOK
<1>1. IdleIsClean(t)
  BY <1>0 DEF WritesFollowProgress, Progress
<1>2. data.release \in Releases /\ data.certs \in (SUBSET Certificates) \ {{}}
  BY DEF Dataset
<1>3. ASSUME NEW u \in Clients PROVE Progress(u)'
  <2>1. CASE u # t
    BY <1>0, <2>1, Bystander DEF TransactionsTypeOK
  <2>2. CASE u = t
    <3>1. ImportProgress(t)'
      BY <1>0, <1>1, <1>2
      DEF TransactionsTypeOK, IdleIsClean, ImportProgress, NoCertWrite, tables
    <3>2. IdleIsClean(t)' /\ SaveProgress(t)' /\ ReplaceProgress(t)'
      BY <1>0 DEF TransactionsTypeOK, IdleIsClean, SaveProgress, ReplaceProgress
    <3>. QED  BY <2>2, <3>1, <3>2 DEF Progress
  <2>. QED  BY <2>1, <2>2
<1>4. GapsExclude'
  BY <1>0 DEF WritesFollowProgress, TransactionsTypeOK, GapsExclude, Cleared
<1>5. LocksExclusive'
  BY <1>0 DEF LocksExclusive
<1>. QED  BY <1>3, <1>4, <1>5 DEF WritesFollowProgress

\* One certificate of a file.
LEMMA ImportCertificateStep ==
    ASSUME IInv, NEW t \in Clients, NEW c \in Certificates, ImportCertificate(t, c)
    PROVE  LocksExclusive' /\ WritesFollowProgress'
<1> USE DEF ImportCertificate
<1>0. TransactionsTypeOK /\ LocksExclusive /\ WritesFollowProgress
  BY DEF IInv, TypeOK
<1>1. ImportProgress(t)
  BY <1>0 DEF WritesFollowProgress, Progress
<1>2. ASSUME NEW u \in Clients PROVE Progress(u)'
  <2>1. CASE u # t
    BY <1>0, <2>1, Bystander DEF TransactionsTypeOK
  <2>2. CASE u = t
    <3>1. ImportProgress(t)'
      BY <1>0, <1>1 DEF TransactionsTypeOK, ImportProgress, tables
    <3>2. IdleIsClean(t)' /\ SaveProgress(t)' /\ ReplaceProgress(t)'
      BY <1>0 DEF TransactionsTypeOK, IdleIsClean, SaveProgress, ReplaceProgress
    <3>. QED  BY <2>2, <3>1, <3>2 DEF Progress
  <2>. QED  BY <2>1, <2>2
<1>3. GapsExclude'
  BY <1>0 DEF WritesFollowProgress, TransactionsTypeOK, GapsExclude, Cleared
<1>4. LocksExclusive'
  BY <1>0 DEF LocksExclusive, TransactionsTypeOK, FreeCertificate, Others
<1>. QED  BY <1>2, <1>3, <1>4 DEF WritesFollowProgress

\* The deletion of the authorizations of a feed.
LEMMA ClearAuthorizationsStep ==
    ASSUME IInv, NEW t \in Clients, NEW feed \in Feed, ClearAuthorizations(t, feed)
    PROVE  LocksExclusive' /\ WritesFollowProgress'
<1> USE DEF ClearAuthorizations
<1>0. TypeOK /\ TransactionsTypeOK /\ LocksExclusive /\ WritesFollowProgress
  BY DEF IInv, TypeOK
<1>1. IdleIsClean(t)
  BY <1>0 DEF WritesFollowProgress, Progress
<1>2. feed.feed \in Feeds /\ feed.auths \in (SUBSET Authorizations) \ {{}}
  BY DEF Feed
<1>3. \A a \in Authorizations :
         authWrite'[t][a] = IF authorization[a] # Absent THEN Absent ELSE Untouched
  BY <1>0, <1>1 DEF TransactionsTypeOK, IdleIsClean, NoAuthWrite
<1>4. ASSUME NEW u \in Clients PROVE Progress(u)'
  <2>1. CASE u # t
    BY <1>0, <2>1, Bystander DEF TransactionsTypeOK
  <2>2. CASE u = t
    <3>1. ReplaceProgress(t)'
      BY <1>0, <1>1, <1>2, <1>3 DEF TransactionsTypeOK, IdleIsClean, ReplaceProgress, tables
    <3>2. IdleIsClean(t)' /\ SaveProgress(t)' /\ ImportProgress(t)'
      BY <1>0 DEF TransactionsTypeOK, IdleIsClean, SaveProgress, ImportProgress
    <3>. QED  BY <2>2, <3>1, <3>2 DEF Progress
  <2>. QED  BY <2>1, <2>2
<1>5. \A u \in Clients, a \in Authorizations : u # t => authWrite[u][a] = Untouched
  BY DEF FreeAuthorization, Others
<1>6. LocksExclusive'
  BY <1>0, <1>5 DEF LocksExclusive, TransactionsTypeOK
<1>7. GapsExclude'
  <2> SUFFICES ASSUME NEW u \in Clients, NEW v \in Clients, u # v,
                      pc'[u] = "insertAuthorizations", pc'[v] = "insertAuthorizations"
               PROVE  authWrite'[u] = NoAuthWrite
    BY DEF GapsExclude, Cleared
  <2>1. ASSUME NEW w \in Clients, w # t PROVE authWrite'[w] = NoAuthWrite
    BY <1>0, <1>5, <2>1 DEF TransactionsTypeOK, NoAuthWrite
  <2>2. ASSUME u = t PROVE authWrite'[t] = NoAuthWrite
    <3>1. pc[v] = "insertAuthorizations" /\ v # t
      BY <1>0, <2>2 DEF TransactionsTypeOK
    <3>2. \A a \in Authorizations : authorization[a] = Absent
      BY <1>0, <1>5, <3>1, UntouchedAssumption
      DEF WritesFollowProgress, Progress, ReplaceProgress
    <3>3. authWrite'[t] \in [Authorizations -> Feeds \cup {Absent, Untouched}]
      BY <1>0 DEF TransactionsTypeOK
    <3>. QED  BY <1>3, <3>2, <3>3 DEF NoAuthWrite
  <2>. QED  BY <2>1, <2>2
<1>. QED  BY <1>4, <1>6, <1>7 DEF WritesFollowProgress

\* One authorization of a feed.
LEMMA InsertAuthorizationStep ==
    ASSUME IInv, NEW t \in Clients, NEW a \in Authorizations, InsertAuthorization(t, a)
    PROVE  LocksExclusive' /\ WritesFollowProgress'
<1> USE DEF InsertAuthorization
<1>0. TransactionsTypeOK /\ LocksExclusive /\ WritesFollowProgress
  BY DEF IInv, TypeOK
<1>1. ReplaceProgress(t)
  BY <1>0 DEF WritesFollowProgress, Progress
<1>2. ASSUME NEW u \in Clients PROVE Progress(u)'
  <2>1. CASE u # t
    BY <1>0, <2>1, Bystander DEF TransactionsTypeOK
  <2>2. CASE u = t
    <3>1. ReplaceProgress(t)'
      BY <1>0, <1>1 DEF TransactionsTypeOK, ReplaceProgress, tables
    <3>2. IdleIsClean(t)' /\ SaveProgress(t)' /\ ImportProgress(t)'
      BY <1>0 DEF TransactionsTypeOK, IdleIsClean, SaveProgress, ImportProgress
    <3>. QED  BY <2>2, <3>1, <3>2 DEF Progress
  <2>. QED  BY <2>1, <2>2
<1>3. GapsExclude'
  BY DEF GapsExclude, Cleared
<1>4. LocksExclusive'
  BY <1>0 DEF LocksExclusive, TransactionsTypeOK, FreeAuthorization, Others
<1>. QED  BY <1>2, <1>3, <1>4 DEF WritesFollowProgress

-----------------------------------------------------------------------------
(* Steps that end a transaction *)

\* The client that ends is idle and holds nothing; the others do not move.
LEMMA EndFacts ==
    ASSUME IInv, NEW t \in Clients, End(t)
    PROVE  /\ Progress(t)'
           /\ LocksExclusive'
           /\ GapsExclude'
           /\ \A u \in Clients : u # t =>
                 /\ pc'[u] = pc[u]
                 /\ request'[u] = request[u]
                 /\ seen'[u] = seen[u]
                 /\ regWrite'[u] = regWrite[u]
                 /\ certWrite'[u] = certWrite[u]
                 /\ authWrite'[u] = authWrite[u]
<1> USE DEF End
<1>0. TransactionsTypeOK /\ LocksExclusive /\ WritesFollowProgress
  BY DEF IInv, TypeOK
<1>1. Progress(t)'
  BY <1>0 DEF TransactionsTypeOK, Progress, IdleIsClean, SaveProgress, ImportProgress,
              ReplaceProgress
<1>2. LocksExclusive'
  BY <1>0 DEF LocksExclusive, TransactionsTypeOK, NoCertWrite, NoAuthWrite
<1>3. GapsExclude'
  BY <1>0 DEF WritesFollowProgress, TransactionsTypeOK, GapsExclude, Cleared
<1>4. \A u \in Clients : u # t =>
         /\ pc'[u] = pc[u]
         /\ request'[u] = request[u]
         /\ seen'[u] = seen[u]
         /\ regWrite'[u] = regWrite[u]
         /\ certWrite'[u] = certWrite[u]
         /\ authWrite'[u] = authWrite[u]
  BY <1>0 DEF TransactionsTypeOK
<1>. QED  BY <1>1, <1>2, <1>3, <1>4

\* A rollback, or the end of the process.
LEMMA RollbackStep ==
    ASSUME IInv, NEW t \in Clients, Rollback(t)
    PROVE  LocksExclusive' /\ WritesFollowProgress'
<1>1. End(t) /\ UNCHANGED tables
  BY DEF Rollback
<1>2. ASSUME NEW u \in Clients PROVE Progress(u)'
  BY <1>1, EndFacts, Bystander
<1>. QED  BY <1>1, <1>2, EndFacts DEF WritesFollowProgress

\* A commit that touches no certificate linked to the registration another
\* client is saving, links none to it, and changes no row that client wrote,
\* leaves the progress of that client as it was.
LEMMA CertificatesCommitted ==
    ASSUME IInv, NEW t \in Clients, NEW u \in Clients, u # t, End(t),
           UNCHANGED authorization,
           \A c \in Certificates :
              /\ certWrite[u][c] # Untouched => certificate'[c] = certificate[c]
              /\ \A r \in regWrite[u] :
                    LinkedTo(certificate'[c], r) => LinkedTo(certificate[c], r)
    PROVE  Progress(u)'
<1>0. TransactionsTypeOK /\ Progress(u)
  BY DEF IInv, TypeOK, WritesFollowProgress
<1>1. /\ pc'[u] = pc[u]
      /\ request'[u] = request[u]
      /\ seen'[u] = seen[u]
      /\ regWrite'[u] = regWrite[u]
      /\ certWrite'[u] = certWrite[u]
      /\ authWrite'[u] = authWrite[u]
  BY EndFacts
<1>2. IdleIsClean(u)'
  BY <1>0, <1>1 DEF Progress, IdleIsClean
<1>3. SaveProgress(u)'
  <2> SUFFICES ASSUME pc[u] = "upsertCertificates", NEW c \in Certificates
               PROVE  certWrite[u][c] =
                         IF c \in seen[u] THEN PageRow(request[u].reg, request[u].source)
                         ELSE IF LinkedTo(certificate'[c], request[u].reg) THEN Absent
                         ELSE Untouched
    BY <1>0, <1>1 DEF Progress, SaveProgress
  <2>1. certWrite[u][c] =
            IF c \in seen[u] THEN PageRow(request[u].reg, request[u].source)
            ELSE IF LinkedTo(certificate[c], request[u].reg) THEN Absent
            ELSE Untouched
    BY <1>0 DEF Progress, SaveProgress
  <2>2. request[u].reg \in regWrite[u]
    BY <1>0 DEF Progress, SaveProgress
  <2>3. Absent # Untouched
    BY UntouchedAssumption
  <2>. QED  BY <2>1, <2>2, <2>3
<1>4. ImportProgress(u)'
  <2> SUFFICES ASSUME pc[u] = "importCertificates", NEW c \in Certificates
               PROVE  certWrite[u][c] =
                         IF c \in seen[u] THEN ImportRow(certificate'[c], request[u].source)
                         ELSE Untouched
    BY <1>0, <1>1 DEF Progress, ImportProgress
  <2>1. certWrite[u][c] =
            IF c \in seen[u] THEN ImportRow(certificate[c], request[u].source)
            ELSE Untouched
    BY <1>0 DEF Progress, ImportProgress
  <2>2. ImportRow(certificate[c], request[u].source) # Untouched
    <3>1. request[u].source \in Releases
      BY <1>0 DEF Progress, ImportProgress
    <3>2. certificate[c] \in CertificateRow \cup {Absent}
      BY DEF IInv, TypeOK, TablesTypeOK
    <3>. QED  BY <3>1, <3>2, ImportRowKeepsLink
  <2>. QED  BY <2>1, <2>2
<1>5. ReplaceProgress(u)'
  BY <1>0, <1>1 DEF Progress, ReplaceProgress
<1>. QED  BY <1>2, <1>3, <1>4, <1>5 DEF Progress

\* The commit of a save.
LEMMA CommitSaveStep ==
    ASSUME IInv, NEW t \in Clients, CommitSave(t)
    PROVE  LocksExclusive' /\ WritesFollowProgress'
<1>0. TypeOK /\ TransactionsTypeOK /\ LocksExclusive /\ WritesFollowProgress
  BY DEF IInv, TypeOK
<1>1. /\ pc[t] = "upsertCertificates"
      /\ End(t)
      /\ UNCHANGED authorization
      /\ certificate' = Applied(certificate, certWrite[t])
  BY DEF CommitSave
<1>2. SaveProgress(t)
  BY <1>0 DEF WritesFollowProgress, Progress
<1>3. ASSUME NEW u \in Clients, u # t PROVE Progress(u)'
  <2>1. ASSUME NEW c \in Certificates, certWrite[u][c] # Untouched
        PROVE  certificate'[c] = certificate[c]
    BY <1>0, <1>1, <1>3, <2>1, AppliedCertificates DEF LocksExclusive
  <2>2. ASSUME NEW c \in Certificates, NEW r \in regWrite[u], LinkedTo(certificate'[c], r)
        PROVE  LinkedTo(certificate[c], r)
    <3>1. r \in Registrations /\ r # request[t].reg
      BY <1>0, <1>1, <1>2, <1>3 DEF TransactionsTypeOK, LocksExclusive, SaveProgress
    <3>2. certificate'[c] \in {certificate[c], certWrite[t][c]}
      BY <1>0, <1>1, AppliedCertificates
    <3>3. \/ certWrite[t][c] \in {Absent, Untouched}
          \/ certWrite[t][c] = PageRow(request[t].reg, request[t].source)
      BY <1>1, <1>2 DEF SaveProgress
    <3>4. certWrite[t][c] = Untouched => certificate'[c] = certificate[c]
      BY <1>0, <1>1, AppliedCertificates
    <3>5. ~LinkedTo(Absent, r) /\ ~LinkedTo(PageRow(request[t].reg, request[t].source), r)
      BY <1>1, <1>2, <3>1, PageRowType DEF SaveProgress, LinkedTo
    <3>. QED  BY <2>2, <3>2, <3>3, <3>4, <3>5
  <2>. QED  BY <1>1, <1>3, <2>1, <2>2, CertificatesCommitted
<1>. QED  BY <1>1, <1>3, EndFacts DEF WritesFollowProgress

\* The commit of an import.
LEMMA CommitImportStep ==
    ASSUME IInv, NEW t \in Clients, CommitImport(t)
    PROVE  LocksExclusive' /\ WritesFollowProgress'
<1>0. TypeOK /\ TablesTypeOK /\ TransactionsTypeOK /\ LocksExclusive /\ WritesFollowProgress
  BY DEF IInv, TypeOK
<1>1. /\ pc[t] = "importCertificates"
      /\ End(t)
      /\ UNCHANGED authorization
      /\ certificate' = Applied(certificate, certWrite[t])
  BY DEF CommitImport
<1>2. ImportProgress(t)
  BY <1>0 DEF WritesFollowProgress, Progress
<1>3. ASSUME NEW u \in Clients, u # t PROVE Progress(u)'
  <2>1. ASSUME NEW c \in Certificates, certWrite[u][c] # Untouched
        PROVE  certificate'[c] = certificate[c]
    BY <1>0, <1>1, <1>3, <2>1, AppliedCertificates DEF LocksExclusive
  <2>2. ASSUME NEW c \in Certificates, NEW r \in regWrite[u], LinkedTo(certificate'[c], r)
        PROVE  LinkedTo(certificate[c], r)
    <3>1. r \in Registrations
      BY <1>0 DEF TransactionsTypeOK
    <3>2. certificate'[c] \in {certificate[c], ImportRow(certificate[c], request[t].source)}
      BY <1>0, <1>1, <1>2, AppliedCertificates DEF ImportProgress
    <3>3. LinkedTo(ImportRow(certificate[c], request[t].source), r)
             => LinkedTo(certificate[c], r)
      BY <1>0, <1>1, <1>2, <3>1, ImportRowKeepsLink DEF ImportProgress, TablesTypeOK
    <3>. QED  BY <2>2, <3>2, <3>3
  <2>. QED  BY <1>1, <1>3, <2>1, <2>2, CertificatesCommitted
<1>. QED  BY <1>1, <1>3, EndFacts DEF WritesFollowProgress

\* Only one transaction gets to insert authorizations, so only one can commit
\* them, and no other is waiting between its DELETE and its COMMIT.
LEMMA CommitReplaceAlone ==
    ASSUME IInv, NEW t \in Clients, CommitReplace(t), NEW u \in Clients, u # t
    PROVE  pc[u] # "insertAuthorizations"
<1> SUFFICES ASSUME pc[u] = "insertAuthorizations" PROVE FALSE
  OBVIOUS
<1>1. pc[t] = "insertAuthorizations" /\ seen[t] = request[t].rows
  BY DEF CommitReplace, Complete
<1>2. ReplaceProgress(t) /\ GapsExclude
  BY DEF IInv, WritesFollowProgress, Progress
<1>3. authWrite[t] = NoAuthWrite
  BY <1>1, <1>2 DEF GapsExclude, Cleared
<1>4. PICK a \in request[t].rows : a \in Authorizations
  BY <1>1, <1>2 DEF ReplaceProgress
<1>5. authWrite[t][a] \in Feeds
  BY <1>1, <1>2, <1>4 DEF ReplaceProgress
<1>. QED  BY <1>3, <1>4, <1>5, UntouchedAssumption DEF NoAuthWrite

\* The commit of the authorizations of a feed.
LEMMA CommitReplaceStep ==
    ASSUME IInv, NEW t \in Clients, CommitReplace(t)
    PROVE  LocksExclusive' /\ WritesFollowProgress'
<1>0. TypeOK /\ TransactionsTypeOK /\ LocksExclusive /\ WritesFollowProgress
  BY DEF IInv, TypeOK
<1>1. End(t) /\ UNCHANGED <<registration, certificate, lastPage>>
  BY DEF CommitReplace
<1>2. ASSUME NEW u \in Clients, u # t PROVE Progress(u)'
  <2>1. Progress(u) /\ pc[u] # "insertAuthorizations"
    BY <1>0, <1>2, CommitReplaceAlone DEF WritesFollowProgress
  <2>2. /\ pc'[u] = pc[u]
        /\ request'[u] = request[u]
        /\ seen'[u] = seen[u]
        /\ regWrite'[u] = regWrite[u]
        /\ certWrite'[u] = certWrite[u]
        /\ authWrite'[u] = authWrite[u]
    BY <1>1, <1>2, EndFacts
  <2>3. IdleIsClean(u)'
    BY <2>1, <2>2 DEF Progress, IdleIsClean
  <2>4. SaveProgress(u)'
    BY <1>1, <2>1, <2>2 DEF Progress, SaveProgress
  <2>5. ImportProgress(u)'
    BY <1>1, <2>1, <2>2 DEF Progress, ImportProgress
  <2>6. ReplaceProgress(u)'
    BY <2>1, <2>2 DEF Progress, ReplaceProgress
  <2>. QED  BY <2>3, <2>4, <2>5, <2>6 DEF Progress
<1>. QED  BY <1>1, <1>2, EndFacts DEF WritesFollowProgress

-----------------------------------------------------------------------------
(* The inductive invariant *)

\* The invariant holds at first.
LEMMA InitIInv == Init => IInv
<1> SUFFICES ASSUME Init PROVE IInv
  OBVIOUS
<1>1. TypeOK
  BY InitTypeOK
<1>2. LocksExclusive
  BY DEF Init, LocksExclusive, NoCertWrite, NoAuthWrite
<1>3. WritesFollowProgress
  BY DEF Init, WritesFollowProgress, Progress, IdleIsClean, SaveProgress, ImportProgress,
         ReplaceProgress, GapsExclude, Cleared
<1>. QED  BY <1>1, <1>2, <1>3 DEF IInv

\* Every step keeps it.
LEMMA NextIInv == IInv /\ [Next]_vars => IInv'
<1> SUFFICES ASSUME IInv, [Next]_vars PROVE IInv'
  OBVIOUS
<1>1. TypeOK'
  BY NextTypeOK
<1>2. LocksExclusive' /\ WritesFollowProgress'
  <2>1. CASE UNCHANGED vars
    <3>1. LocksExclusive'
      BY <2>1 DEF IInv, vars, LocksExclusive
    <3>2. \A u \in Clients : Progress(u)'
      BY <2>1, Bystander DEF vars
    <3>3. GapsExclude'
      BY <2>1 DEF IInv, vars, WritesFollowProgress, GapsExclude, Cleared
    <3>. QED  BY <3>1, <3>2, <3>3 DEF WritesFollowProgress
  <2>. QED
    BY <2>1, UpsertRegistrationStep, DeleteCertificatesStep, UpsertCertificateStep,
       CommitSaveStep, BeginImportStep, ImportCertificateStep, CommitImportStep,
       ClearAuthorizationsStep, InsertAuthorizationStep, CommitReplaceStep, RollbackStep
    DEF Next
<1>. QED  BY <1>1, <1>2 DEF IInv

\* However the statements of the clients interleave, every state satisfies the
\* inductive invariant.
THEOREM Invariance == Spec => []IInv
  BY InitIInv, NextIInv, PTL DEF Spec

\* The tables and the transactions hold rows of their kind.
THEOREM TypeCorrect == Spec => []TypeOK
<1>1. IInv => TypeOK
  BY DEF IInv
<1>. QED  BY <1>1, Invariance, PTL

\* No row is ever written by two transactions at once.
THEOREM LocksAlwaysExclusive == Spec => []LocksExclusive
<1>1. IInv => LocksExclusive
  BY DEF IInv
<1>. QED  BY <1>1, Invariance, PTL

\* What a transaction has written is always what the statements it ran would
\* write to the tables as they are committed now.
THEOREM WritesAlwaysFollowProgress == Spec => []WritesFollowProgress
<1>1. IInv => WritesFollowProgress
  BY DEF IInv
<1>. QED  BY <1>1, Invariance, PTL

\* When a save commits, it has written every certificate that is linked to its
\* registration at that moment.
THEOREM DeleteAlwaysComplete == Spec => []DeleteStaysComplete
<1>1. IInv => DeleteStaysComplete
  <2> SUFFICES ASSUME IInv, NEW t \in Clients, NEW c \in Certificates,
                      pc[t] = "upsertCertificates", LinkedTo(certificate[c], request[t].reg)
               PROVE  certWrite[t][c] # Untouched
    BY DEF DeleteStaysComplete
  <2>1. SaveProgress(t)
    BY DEF IInv, WritesFollowProgress, Progress
  <2>2. certWrite[t][c] \in {Absent, PageRow(request[t].reg, request[t].source)}
    BY <2>1 DEF SaveProgress
  <2>3. PageRow(request[t].reg, request[t].source) # Untouched
    BY <2>1, PageRowType DEF SaveProgress
  <2>. QED  BY <2>2, <2>3, UntouchedAssumption
<1>. QED  BY <1>1, Invariance, PTL

\* An import never holds a link or details other than the committed ones.
THEOREM ImportAlwaysKeepsLink == Spec => []ImportKeepsCommittedLink
<1>1. IInv => ImportKeepsCommittedLink
  <2> SUFFICES ASSUME IInv, NEW t \in Clients, NEW c \in Certificates,
                      pc[t] = "importCertificates", certWrite[t][c] # Untouched,
                      certificate[c] # Absent
               PROVE  /\ certWrite[t][c].registration_id = certificate[c].registration_id
                      /\ certWrite[t][c].scraped = certificate[c].scraped
    BY DEF ImportKeepsCommittedLink
  <2>1. ImportProgress(t)
    BY DEF IInv, WritesFollowProgress, Progress
  <2>2. /\ request[t].source \in Releases
        /\ certWrite[t][c] = ImportRow(certificate[c], request[t].source)
    BY <2>1 DEF ImportProgress
  <2>3. certificate[c] \in CertificateRow \cup {Absent}
    BY DEF IInv, TypeOK, TablesTypeOK
  <2>. QED  BY <2>2, <2>3, ImportRowKeepsLink
<1>. QED  BY <1>1, Invariance, PTL

-----------------------------------------------------------------------------
(* Refinement *)

\* A committed save is the whole SaveRegistration of Catalog.
LEMMA CommitSaveRefines ==
    ASSUME IInv, NEW t \in Clients, CommitSave(t)
    PROVE  Promise!Next
<1> DEFINE r == request[t].reg
           page == [edition |-> request[t].source, certs |-> request[t].rows]
<1>0. TypeOK /\ TablesTypeOK
  BY DEF IInv, TypeOK
<1>1. /\ pc[t] = "upsertCertificates"
      /\ seen[t] = request[t].rows
      /\ UNCHANGED authorization
      /\ certificate' = Applied(certificate, certWrite[t])
      /\ lastPage' = [lastPage EXCEPT ![r] = page]
  BY DEF CommitSave, Complete
<1>2. SaveProgress(t)
  BY DEF IInv, WritesFollowProgress, Progress
<1>3. r \in Registrations /\ page \in Promise!Page
  BY <1>1, <1>2 DEF SaveProgress, Promise!Page
<1>4. registration' = [registration EXCEPT ![r] = page.edition]
  BY <1>0, <1>1, <1>2 DEF CommitSave, SaveProgress, TablesTypeOK
<1>5. certificate' = [c \in Certificates |->
                         IF c \in page.certs THEN Promise!PageRow(r, page.edition)
                         ELSE IF Promise!LinkedTo(certificate[c], r) THEN Absent
                         ELSE certificate[c]]
  <2>1. ASSUME NEW c \in Certificates
        PROVE  certificate'[c] = IF c \in request[t].rows
                                 THEN PageRow(r, request[t].source)
                                 ELSE IF LinkedTo(certificate[c], r) THEN Absent
                                 ELSE certificate[c]
    <3>1. certificate'[c] = IF certWrite[t][c] = Untouched THEN certificate[c]
                            ELSE certWrite[t][c]
      BY <1>0, <1>1, AppliedCertificates
    <3>2. certWrite[t][c] = IF c \in request[t].rows THEN PageRow(r, request[t].source)
                            ELSE IF LinkedTo(certificate[c], r) THEN Absent
                            ELSE Untouched
      BY <1>1, <1>2 DEF SaveProgress
    <3>3. PageRow(r, request[t].source) # Untouched
      BY <1>1, <1>2, PageRowType DEF SaveProgress
    <3>. QED  BY <3>1, <3>2, <3>3, UntouchedAssumption
  <2>2. certificate' \in [Certificates -> CertificateRow \cup {Absent}]
    BY <1>0, <1>1, AppliedCertificates
  <2>. QED
    BY <2>1, <2>2 DEF PageRow, LinkedTo, Promise!PageRow, Promise!LinkedTo
<1>6. Promise!SaveRegistration(r, page)
  BY <1>1, <1>4, <1>5 DEF Promise!SaveRegistration
<1>. QED  BY <1>3, <1>6 DEF Promise!Next

\* A committed import is the whole ImportCertificates of Catalog.
LEMMA CommitImportRefines ==
    ASSUME IInv, NEW t \in Clients, CommitImport(t)
    PROVE  Promise!Next
<1> DEFINE data == [release |-> request[t].source, certs |-> request[t].rows]
<1>0. TypeOK /\ TablesTypeOK
  BY DEF IInv, TypeOK
<1>1. /\ pc[t] = "importCertificates"
      /\ seen[t] = request[t].rows
      /\ UNCHANGED <<registration, authorization, lastPage>>
      /\ certificate' = Applied(certificate, certWrite[t])
  BY DEF CommitImport, Complete
<1>2. ImportProgress(t)
  BY DEF IInv, WritesFollowProgress, Progress
<1>3. data \in Promise!Dataset
  BY <1>1, <1>2 DEF ImportProgress, Promise!Dataset
<1>4. certificate' = [c \in Certificates |->
                         IF c \in data.certs THEN Promise!ImportRow(certificate[c], data.release)
                         ELSE certificate[c]]
  <2>1. ASSUME NEW c \in Certificates
        PROVE  certificate'[c] = IF c \in request[t].rows
                                 THEN ImportRow(certificate[c], request[t].source)
                                 ELSE certificate[c]
    <3>1. certificate'[c] = IF certWrite[t][c] = Untouched THEN certificate[c]
                            ELSE certWrite[t][c]
      BY <1>0, <1>1, AppliedCertificates
    <3>2. certWrite[t][c] = IF c \in request[t].rows
                            THEN ImportRow(certificate[c], request[t].source)
                            ELSE Untouched
      BY <1>1, <1>2 DEF ImportProgress
    <3>3. ImportRow(certificate[c], request[t].source) # Untouched
      BY <1>0, <1>1, <1>2, ImportRowKeepsLink DEF ImportProgress, TablesTypeOK
    <3>. QED  BY <3>1, <3>2, <3>3
  <2>2. certificate' \in [Certificates -> CertificateRow \cup {Absent}]
    BY <1>0, <1>1, AppliedCertificates
  <2>. QED  BY <2>1, <2>2 DEF ImportRow, Promise!ImportRow
<1>5. Promise!ImportCertificates(data)
  BY <1>1, <1>4 DEF Promise!ImportCertificates
<1>. QED  BY <1>3, <1>5 DEF Promise!Next

\* A committed replacement is the whole ReplaceAuthorizations of Catalog.
LEMMA CommitReplaceRefines ==
    ASSUME IInv, NEW t \in Clients, CommitReplace(t)
    PROVE  Promise!Next
<1> DEFINE feed == [feed |-> request[t].source, auths |-> request[t].rows]
<1>0. TypeOK
  BY DEF IInv
<1>1. /\ pc[t] = "insertAuthorizations"
      /\ seen[t] = request[t].rows
      /\ UNCHANGED <<registration, certificate, lastPage>>
      /\ authorization' = Applied(authorization, authWrite[t])
  BY DEF CommitReplace, Complete
<1>2. ReplaceProgress(t)
  BY DEF IInv, WritesFollowProgress, Progress
<1>3. feed \in Promise!Feed
  BY <1>1, <1>2 DEF ReplaceProgress, Promise!Feed
<1>4. authorization' = [a \in Authorizations |->
                           IF a \in feed.auths THEN feed.feed ELSE Absent]
  <2>1. ASSUME NEW a \in Authorizations
        PROVE  authorization'[a] = IF a \in request[t].rows THEN request[t].source ELSE Absent
    <3>1. authorization'[a] = IF authWrite[t][a] = Untouched THEN authorization[a]
                              ELSE authWrite[t][a]
      BY <1>0, <1>1, AppliedAuthorizations
    <3>2. authWrite[t][a] = IF a \in request[t].rows THEN request[t].source
                            ELSE IF authorization[a] # Absent THEN Absent
                            ELSE Untouched
      BY <1>1, <1>2 DEF ReplaceProgress
    <3>3. request[t].source # Untouched /\ Absent # Untouched
      BY <1>1, <1>2, UntouchedAssumption DEF ReplaceProgress
    <3>. QED  BY <3>1, <3>2, <3>3
  <2>2. authorization' \in [Authorizations -> Feeds \cup {Absent}]
    BY <1>0, <1>1, AppliedAuthorizations
  <2>. QED  BY <2>1, <2>2
<1>5. Promise!ReplaceAuthorizations(feed)
  BY <1>1, <1>4 DEF Promise!ReplaceAuthorizations
<1>. QED  BY <1>3, <1>5 DEF Promise!Next

\* Interleaved, blocked, failing and crashing transactions together do what
\* whole SaveRegistration, ImportCertificates and ReplaceAuthorizations calls
\* would do one after the other: the statements of CatalogTx implement Catalog.
THEOREM TransactionsImplementCatalog == Spec => ImplementsCatalog
<1>1. Init => Promise!Init
  BY DEF Init, Promise!Init
<1>2. IInv /\ [Next]_vars => [Promise!Next]_Promise!vars
  <2> SUFFICES ASSUME IInv, [Next]_vars PROVE Promise!Next \/ UNCHANGED tables
    BY DEF tables, Promise!vars
  <2>1. CASE UNCHANGED vars
    BY <2>1 DEF vars
  <2>. QED
    BY <2>1, CommitSaveRefines, CommitImportRefines, CommitReplaceRefines
    DEF Next, UpsertRegistration, DeleteCertificates, UpsertCertificate, BeginImport,
        ImportCertificate, ClearAuthorizations, InsertAuthorization, Rollback
<1>. QED  BY <1>1, <1>2, Invariance, PTL DEF Spec, ImplementsCatalog, Promise!Spec
=============================================================================

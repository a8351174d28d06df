----------------------------- MODULE CatalogTx -----------------------------
(***************************************************************************)
(* The transactions of internal/db/store.go, statement by statement.       *)
(*                                                                         *)
(* Clients are the goroutines and processes that write at the same time:   *)
(* item pages and background refreshes of the web server, the running cron *)
(* job, a job started by hand.  Each runs one transaction at a time.       *)
(*                                                                         *)
(* The database is modelled from how the code uses it.  A transaction sees *)
(* the committed tables under its own writes; a row it wrote stays locked  *)
(* until it ends; a statement that meets a row another transaction wrote   *)
(* waits.  DELETE FROM authorization also locks the table against inserts  *)
(* (the gap locks of InnoDB, which do not exclude each other).  SQLite     *)
(* lets one transaction write at a time and so shows a subset of these     *)
(* behaviours.  The gap locks of the other DELETE are left out: they only  *)
(* remove interleavings.  Foreign keys are left out too: LinksResolve      *)
(* shows that the order of the statements never needs them.                *)
(*                                                                         *)
(* The order of the rows of a page, a dataset or a feed is any order.      *)
(***************************************************************************)
EXTENDS CatalogData

CONSTANTS
    Clients,   \* concurrent writers
    Untouched  \* the transaction has not written the row

ASSUME UntouchedAssumption ==
    Untouched \notin CertificateRow \cup Feeds \cup {Absent}

VARIABLES
    registration,   \* the committed vendor columns of each registration
    certificate,    \* the committed row of each certificate
    authorization,  \* the feed of each committed authorization
    lastPage,       \* history: the page last committed for each registration
    pc,             \* pc[t]: what client t is in the middle of
    request,        \* request[t]: the rows it was given, and for which table row
    seen,           \* seen[t]: the rows of the request already written
    regWrite,       \* regWrite[t]: the registrations its transaction wrote
    certWrite,      \* certWrite[t][c]: what it wrote to certificate c
    authWrite       \* authWrite[t][a]: what it wrote to authorization a

tables == <<registration, certificate, authorization, lastPage>>
vars == <<tables, pc, request, seen, regWrite, certWrite, authWrite>>

None == [reg |-> Absent, source |-> Absent, rows |-> {}]
NoCertWrite == [c \in Certificates |-> Untouched]
NoAuthWrite == [a \in Authorizations |-> Untouched]

Init ==
    /\ registration = [r \in Registrations |-> Absent]
    /\ certificate = [c \in Certificates |-> Absent]
    /\ authorization = [a \in Authorizations |-> Absent]
    /\ lastPage = [r \in Registrations |-> Absent]
    /\ pc = [t \in Clients |-> "idle"]
    /\ request = [t \in Clients |-> None]
    /\ seen = [t \in Clients |-> {}]
    /\ regWrite = [t \in Clients |-> {}]
    /\ certWrite = [t \in Clients |-> NoCertWrite]
    /\ authWrite = [t \in Clients |-> NoAuthWrite]

-----------------------------------------------------------------------------
(* Locks and the end of a transaction *)

Others(t) == Clients \ {t}

\* No other transaction wrote the row.
FreeRegistration(t, r) == \A u \in Others(t) : r \notin regWrite[u]
FreeCertificate(t, c) == \A u \in Others(t) : certWrite[u][c] = Untouched
FreeAuthorization(t, a) == \A u \in Others(t) : authWrite[u][a] = Untouched

\* The transactions that hold the gaps of the authorization table.
Cleared == {t \in Clients : pc[t] = "insertAuthorizations"}

\* The connection goes back to the pool with nothing pending.
End(t) ==
    /\ pc' = [pc EXCEPT ![t] = "idle"]
    /\ request' = [request EXCEPT ![t] = None]
    /\ seen' = [seen EXCEPT ![t] = {}]
    /\ regWrite' = [regWrite EXCEPT ![t] = {}]
    /\ certWrite' = [certWrite EXCEPT ![t] = NoCertWrite]
    /\ authWrite' = [authWrite EXCEPT ![t] = NoAuthWrite]

\* An early return, or a crash: the deferred tx.Rollback() drops the writes.
\* A page that repeats a certificate, or has an empty ID, ends here, and so
\* does a feed that repeats an authorization (its INSERT is a plain one).
Rollback(t) == pc[t] # "idle" /\ End(t) /\ UNCHANGED tables

Applied(table, write) ==
    [k \in DOMAIN table |-> IF write[k] = Untouched THEN table[k] ELSE write[k]]

\* All the rows are written.
Complete(t) == seen[t] = request[t].rows

-----------------------------------------------------------------------------
(* SaveRegistration *)

\* Mutant of UpsertRegistration: the row of a known registration is left alone.
InsertRegistration(t, r, page) ==
    /\ pc[t] = "idle"
    /\ FreeRegistration(t, r)
    /\ pc' = [pc EXCEPT ![t] = "deleteCertificates"]
    /\ request' = [request EXCEPT ![t] =
                      [reg |-> r, source |-> page.edition, rows |-> page.certs]]
    /\ regWrite' = [regWrite EXCEPT ![t] = IF registration[r] = Absent THEN {r} ELSE {}]
    /\ UNCHANGED <<tables, seen, certWrite, authWrite>>

\* BEGIN and the first statement.
UpsertRegistration(t, r, page) ==
    /\ pc[t] = "idle"
    /\ FreeRegistration(t, r)
    /\ pc' = [pc EXCEPT ![t] = "deleteCertificates"]
    /\ request' = [request EXCEPT ![t] =
                      [reg |-> r, source |-> page.edition, rows |-> page.certs]]
    /\ regWrite' = [regWrite EXCEPT ![t] = {r}]
    /\ UNCHANGED <<tables, seen, certWrite, authWrite>>

\* DELETE FROM certificate WHERE registration_id=?
DeleteCertificates(t) ==
    LET r == request[t].reg IN
    /\ pc[t] = "deleteCertificates"
    /\ \A u \in Others(t), c \in Certificates :
          certWrite[u][c] # Untouched =>
              ~LinkedTo(certificate[c], r) /\ ~LinkedTo(certWrite[u][c], r)
    /\ pc' = [pc EXCEPT ![t] = "upsertCertificates"]
    /\ certWrite' = [certWrite EXCEPT ![t] =
                        [c \in Certificates |->
                            IF LinkedTo(certificate[c], r) THEN Absent ELSE @[c]]]
    /\ UNCHANGED <<tables, request, seen, regWrite, authWrite>>

UpsertCertificate(t, c) ==
    /\ pc[t] = "upsertCertificates"
    /\ c \in request[t].rows \ seen[t]
    /\ FreeCertificate(t, c)
    /\ seen' = [seen EXCEPT ![t] = @ \cup {c}]
    /\ certWrite' = [certWrite EXCEPT ![t][c] =
                        PageRow(request[t].reg, request[t].source)]
    /\ UNCHANGED <<tables, pc, request, regWrite, authWrite>>

\* Mutant of CommitSave: the errors of the loop are dropped.
CommitSaveEarly(t) ==
    LET r == request[t].reg IN
    /\ pc[t] = "upsertCertificates"
    /\ registration' = [r2 \in Registrations |->
                           IF r2 \in regWrite[t] THEN request[t].source
                           ELSE registration[r2]]
    /\ certificate' = Applied(certificate, certWrite[t])
    /\ lastPage' = [lastPage EXCEPT ![r] =
                       [edition |-> request[t].source, certs |-> request[t].rows]]
    /\ End(t)
    /\ UNCHANGED authorization

CommitSave(t) ==
    LET r == request[t].reg IN
    /\ pc[t] = "upsertCertificates"
    /\ Complete(t)
    /\ registration' = [r2 \in Registrations |->
                           IF r2 \in regWrite[t] THEN request[t].source
                           ELSE registration[r2]]
    /\ certificate' = Applied(certificate, certWrite[t])
    /\ lastPage' = [lastPage EXCEPT ![r] =
                       [edition |-> request[t].source, certs |-> request[t].rows]]
    /\ End(t)
    /\ UNCHANGED authorization

-----------------------------------------------------------------------------
(* ImportCertificates *)

BeginImport(t, data) ==
    /\ pc[t] = "idle"
    /\ pc' = [pc EXCEPT ![t] = "importCertificates"]
    /\ request' = [request EXCEPT ![t] =
                      [reg |-> Absent, source |-> data.release, rows |-> data.certs]]
    /\ UNCHANGED <<tables, seen, regWrite, certWrite, authWrite>>

\* Mutant of ImportCertificate: the row is read, not locked.
ImportUnlocked(t, c) ==
    /\ pc[t] = "importCertificates"
    /\ c \in request[t].rows \ seen[t]
    /\ seen' = [seen EXCEPT ![t] = @ \cup {c}]
    /\ certWrite' = [certWrite EXCEPT ![t][c] =
                        ImportRow(certificate[c], request[t].source)]
    /\ UNCHANGED <<tables, pc, request, regWrite, authWrite>>

ImportCertificate(t, c) ==
    /\ pc[t] = "importCertificates"
    /\ c \in request[t].rows \ seen[t]
    /\ FreeCertificate(t, c)
    /\ seen' = [seen EXCEPT ![t] = @ \cup {c}]
    /\ certWrite' = [certWrite EXCEPT ![t][c] =
                        ImportRow(certificate[c], request[t].source)]
    /\ UNCHANGED <<tables, pc, request, regWrite, authWrite>>

CommitImport(t) ==
    /\ pc[t] = "importCertificates"
    /\ Complete(t)
    /\ certificate' = Applied(certificate, certWrite[t])
    /\ End(t)
    /\ UNCHANGED <<registration, authorization, lastPage>>

-----------------------------------------------------------------------------
(* ReplaceAuthorizations *)

\* Mutant of ClearAuthorizations: the DELETE is missing.
ClearNothing(t, feed) ==
    /\ pc[t] = "idle"
    /\ pc' = [pc EXCEPT ![t] = "insertAuthorizations"]
    /\ request' = [request EXCEPT ![t] =
                      [reg |-> Absent, source |-> feed.feed, rows |-> feed.auths]]
    /\ UNCHANGED <<tables, seen, regWrite, certWrite, authWrite>>

\* BEGIN and DELETE FROM authorization.
ClearAuthorizations(t, feed) ==
    /\ pc[t] = "idle"
    /\ \A a \in Authorizations : FreeAuthorization(t, a)
    /\ pc' = [pc EXCEPT ![t] = "insertAuthorizations"]
    /\ request' = [request EXCEPT ![t] =
                      [reg |-> Absent, source |-> feed.feed, rows |-> feed.auths]]
    /\ authWrite' = [authWrite EXCEPT ![t] =
                        [a \in Authorizations |->
                            IF authorization[a] # Absent THEN Absent ELSE @[a]]]
    /\ UNCHANGED <<tables, seen, regWrite, certWrite>>

InsertAuthorization(t, a) ==
    /\ pc[t] = "insertAuthorizations"
    /\ a \in request[t].rows \ seen[t]
    /\ FreeAuthorization(t, a)
    /\ Cleared = {t}
    /\ seen' = [seen EXCEPT ![t] = @ \cup {a}]
    /\ authWrite' = [authWrite EXCEPT ![t][a] = request[t].source]
    /\ UNCHANGED <<tables, pc, request, regWrite, certWrite>>

CommitReplace(t) ==
    /\ pc[t] = "insertAuthorizations"
    /\ Complete(t)
    /\ authorization' = Applied(authorization, authWrite[t])
    /\ End(t)
    /\ UNCHANGED <<registration, certificate, lastPage>>

-----------------------------------------------------------------------------
Next ==
    \E t \in Clients :
        \/ \E r \in Registrations, page \in Page : UpsertRegistration(t, r, page)
        \/ DeleteCertificates(t)
        \/ \E c \in Certificates : UpsertCertificate(t, c)
        \/ CommitSave(t)
        \/ \E data \in Dataset : BeginImport(t, data)
        \/ \E c \in Certificates : ImportCertificate(t, c)
        \/ CommitImport(t)
        \/ \E feed \in Feed : ClearAuthorizations(t, feed)
        \/ \E a \in Authorizations : InsertAuthorization(t, a)
        \/ CommitReplace(t)
        \/ Rollback(t)

Spec == Init /\ [][Next]_vars
-----------------------------------------------------------------------------
TablesTypeOK ==
    /\ registration \in [Registrations -> Editions \cup {Absent}]
    /\ certificate \in [Certificates -> CertificateRow \cup {Absent}]
    /\ authorization \in [Authorizations -> Feeds \cup {Absent}]
    /\ lastPage \in [Registrations -> Page \cup {Absent}]

TransactionsTypeOK ==
    /\ pc \in [Clients -> {"idle", "deleteCertificates", "upsertCertificates",
                           "importCertificates", "insertAuthorizations"}]
    /\ request \in [Clients -> [reg: Registrations \cup {Absent},
                                source: Editions \cup Releases \cup Feeds \cup {Absent},
                                rows: SUBSET (Certificates \cup Authorizations)]]
    /\ seen \in [Clients -> SUBSET (Certificates \cup Authorizations)]
    /\ regWrite \in [Clients -> SUBSET Registrations]
    /\ certWrite \in [Clients ->
                        [Certificates -> CertificateRow \cup {Absent, Untouched}]]
    /\ authWrite \in [Clients ->
                        [Authorizations -> Feeds \cup {Absent, Untouched}]]

TypeOK == TablesTypeOK /\ TransactionsTypeOK

\* A row that one transaction wrote is written by no other until it ends,
\* whatever the order in which the statements of several transactions run.
LocksExclusive ==
    \A t, u \in Clients :
        t # u =>
            /\ regWrite[t] \cap regWrite[u] = {}
            /\ \A c \in Certificates :
                  certWrite[t][c] = Untouched \/ certWrite[u][c] = Untouched
            /\ \A a \in Authorizations :
                  authWrite[t][a] = Untouched \/ authWrite[u][a] = Untouched

\* A transaction that replaces the copy of a registration has deleted, or will
\* overwrite, every certificate linked to it at the moment it commits, however
\* many other transactions committed since its DELETE (store.go:180-196): the
\* row of the registration, written first, keeps any other save of the same
\* registration out.
DeleteStaysComplete ==
    \A t \in Clients, c \in Certificates :
        /\ pc[t] = "upsertCertificates"
        /\ LinkedTo(certificate[c], request[t].reg)
        => certWrite[t][c] # Untouched

\* What an import has written of a certificate still has the link and the
\* details that the committed row has (store.go:231-239): a page saved in the
\* meantime is not undone by the import.
ImportKeepsCommittedLink ==
    \A t \in Clients, c \in Certificates :
        /\ pc[t] = "importCertificates"
        /\ certWrite[t][c] # Untouched
        /\ certificate[c] # Absent
        => /\ certWrite[t][c].registration_id = certificate[c].registration_id
           /\ certWrite[t][c].scraped = certificate[c].scraped

\* What a transaction has written is determined by how far it got and by the
\* tables as they are committed NOW, not as they were when its statements ran:
\* no commit of another client changes what a finished statement would have
\* done (store.go:172-270).  This is what makes every commit equivalent to the
\* whole call executed at that moment.
IdleIsClean(t) ==
    pc[t] = "idle" =>
        /\ request[t] = None
        /\ seen[t] = {}
        /\ regWrite[t] = {}
        /\ certWrite[t] = NoCertWrite
        /\ authWrite[t] = NoAuthWrite

SaveProgress(t) ==
    LET r == request[t].reg
        edition == request[t].source
    IN
    pc[t] \in {"deleteCertificates", "upsertCertificates"} =>
        /\ r \in Registrations
        /\ edition \in Editions
        /\ request[t].rows \subseteq Certificates
        /\ seen[t] \subseteq request[t].rows
        /\ regWrite[t] = {r}
        /\ authWrite[t] = NoAuthWrite
        /\ pc[t] = "deleteCertificates" => seen[t] = {} /\ certWrite[t] = NoCertWrite
        /\ pc[t] = "upsertCertificates" =>
              \A c \in Certificates :
                  certWrite[t][c] = IF c \in seen[t] THEN PageRow(r, edition)
                                    ELSE IF LinkedTo(certificate[c], r) THEN Absent
                                    ELSE Untouched

ImportProgress(t) ==
    LET release == request[t].source IN
    pc[t] = "importCertificates" =>
        /\ release \in Releases
        /\ request[t].rows \in (SUBSET Certificates) \ {{}}
        /\ seen[t] \subseteq request[t].rows
        /\ regWrite[t] = {}
        /\ authWrite[t] = NoAuthWrite
        /\ \A c \in Certificates :
              certWrite[t][c] = IF c \in seen[t] THEN ImportRow(certificate[c], release)
                                ELSE Untouched

ReplaceProgress(t) ==
    LET feed == request[t].source IN
    pc[t] = "insertAuthorizations" =>
        /\ feed \in Feeds
        /\ request[t].rows \in (SUBSET Authorizations) \ {{}}
        /\ seen[t] \subseteq request[t].rows
        /\ regWrite[t] = {}
        /\ certWrite[t] = NoCertWrite
        /\ \A a \in Authorizations :
              authWrite[t][a] = IF a \in seen[t] THEN feed
                                ELSE IF authorization[a] # Absent THEN Absent
                                ELSE Untouched

\* Two transactions can both have cleared the authorizations only when the
\* table was empty; then neither gets to insert.
GapsExclude ==
    \A t, u \in Cleared : t # u => authWrite[t] = NoAuthWrite

Progress(t) ==
    IdleIsClean(t) /\ SaveProgress(t) /\ ImportProgress(t) /\ ReplaceProgress(t)

WritesFollowProgress == (\A t \in Clients : Progress(t)) /\ GapsExclude

\* The committed tables are the tables of Catalog; what the clients are in the
\* middle of is not part of them.
Promise == INSTANCE Catalog WITH
              registration <- registration, certificate <- certificate,
              authorization <- authorization, lastPage <- lastPage

\* The interleaved transactions are equivalent to whole operations taken one
\* after the other: each commit is one operation of Catalog, and nothing else
\* changes the committed tables.
ImplementsCatalog == Promise!Spec
=============================================================================

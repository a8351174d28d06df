----------------------------- MODULE ImportJob ------------------------------
(***************************************************************************)
(* The jobs import, import-certificates and import-authorizations          *)
(* (internal/collector/import.go, internal/db/store.go).                   *)
(*                                                                         *)
(* The certificates come in three files, of which the first to name a      *)
(* certificate counts.  They are written on a session of their own, whose  *)
(* foreign key checks are off meanwhile.  The transactions themselves are  *)
(* one step here; CatalogTx has their statements.  A row is named for the  *)
(* file and the place in it that it comes from.                            *)
(***************************************************************************)
EXTENDS Process, SequencesExt

CONSTANTS
    NoId,   \* a row without a number
    MaxRows \* bound on the rows of a file

ASSUME ImportAssumption == NoId \notin Ids /\ MaxRows \in Nat \ {0}

VARIABLES
    read,   \* the files read so far
    certs,  \* the rows to write, in their order
    table,  \* table[id]: the row the job has written for a certificate
    feed,   \* the authorizations read
    stored, \* the authorizations the job has put in place of those before
    conn    \* the session of the import

tables == <<table, stored>>
import == <<read, certs, table, feed, stored, conn>>

Files == UNION {[1..n -> Ids \cup {NoId}] : n \in 1..MaxRows}

Row(id, file, place) == [id |-> id, file |-> file, place |-> place]
\* What the table had for a certificate before the job, if anything.
Former == Row(NoId, 0, 0)

Seen(rows) == {rows[i].id : i \in DOMAIN rows}

\* Mutant of Merge: the rows of a certificate that were seen before are replaced.
MergeLast(rows, file, number) ==
    FoldLeftDomain(LAMBDA merged, i :
        IF file[i] = NoId THEN merged
        ELSE Append(SelectSeq(merged, LAMBDA row : row.id # file[i]), Row(file[i], number, i)),
        rows, file)

\* The rows with those of the file that name a certificate not seen before.
Merge(rows, file, number) ==
    FoldLeftDomain(LAMBDA merged, i :
        IF file[i] = NoId \/ file[i] \in Seen(merged) THEN merged
        ELSE Append(merged, Row(file[i], number, i)),
        rows, file)

HasIds(file) == \E i \in DOMAIN file : file[i] # NoId

-----------------------------------------------------------------------------
(* ImportCertificates of the collector *)

Download ==
    /\ pc = "files" /\ ~cancelled
    /\ \E file \in Files :
          /\ HasIds(file)
          /\ read' = Append(read, file)
          /\ certs' = Merge(certs, file, Len(read) + 1)
    /\ Continue(IF Len(read) = 2 THEN "acquire" ELSE "files")
    /\ UNCHANGED <<database, tables, feed, conn>>

\* Mutant of DownloadFails: the file is passed over.
DownloadSkips ==
    /\ pc = "files" /\ read' = Append(read, <<>>)
    /\ Continue(IF Len(read) = 2 THEN "acquire" ELSE "files")
    /\ UNCHANGED <<database, certs, tables, feed, conn>>

\* The request, the XML, no rows, or no numbers in them.
DownloadFails == pc = "files" /\ Fail("end") /\ UNCHANGED <<database, import>>

-----------------------------------------------------------------------------
(* ImportCertificates of the store *)

Acquire ==
    /\ pc = "acquire" /\ ~cancelled
    /\ \E s \in Sessions : Obtain(s, "used") /\ conn' = s
    /\ Continue("disable")
    /\ UNCHANGED <<read, certs, tables, feed>>

AcquireFails ==
    /\ pc = "acquire" /\ QueryFails
    /\ Fail("end")
    /\ UNCHANGED <<read, certs, tables, feed, conn>>

DisableChecks ==
    /\ pc = "disable" /\ ~cancelled
    /\ checks' = [checks EXCEPT ![conn] = FALSE]
    /\ Continue("write")
    /\ UNCHANGED <<pool, import>>

\* Nothing is restored after this: the call to do so is not deferred yet.  Only a
\* statement that was cancelled may have had its effect.
DisableFails ==
    /\ pc = "disable"
    /\ \/ UNCHANGED checks
       \/ cancelled /\ checks' = [checks EXCEPT ![conn] = FALSE]
    /\ Fail("release")
    /\ UNCHANGED <<pool, import>>

Imported ==
    [id \in Ids |-> IF id \in Seen(certs)
                    THEN certs[CHOOSE i \in DOMAIN certs : certs[i].id = id] ELSE table[id]]

\* BEGIN, the upserts and COMMIT.  An error may hide that COMMIT took effect.
Write ==
    /\ pc = "write"
    /\ \/ table' = Imported /\ ~cancelled /\ Continue("restore")
       \/ table' \in {table, Imported} /\ Fail("restore")
    /\ read' = <<>> \* not used again
    /\ UNCHANGED <<database, certs, feed, stored, conn>>

\* With a context of its own.  SQLite ignores it while database/sql is still
\* rolling back the transaction of a context that is done.
RestoreChecks ==
    /\ pc = "restore"
    /\ \/ checks' = [checks EXCEPT ![conn] = TRUE]
       \/ limit = 1 /\ cancelled /\ err /\ UNCHANGED checks
    /\ Continue("release")
    /\ UNCHANGED <<pool, import>>

\* Mutant of RestoreFails: the session is kept.
RestoreFailsKeeping == pc = "restore" /\ Fail("release") /\ UNCHANGED <<database, import>>

\* The session is discarded.
RestoreFails ==
    /\ pc = "restore"
    /\ pool' = [pool EXCEPT ![conn] = "closed"]
    /\ Fail("release")
    /\ UNCHANGED <<checks, import>>

\* The end of ImportCertificates, and where the job goes from there.
AfterCertificates == IF err \/ job = "import-certificates" THEN "end" ELSE "feed"

\* Mutant of Release: the session is not given back.
ReleaseNothing ==
    /\ pc = "release" /\ conn' = None
    /\ Continue(AfterCertificates)
    /\ UNCHANGED <<database, read, certs, tables, feed>>

\* The deferred conn.Close.
Release ==
    /\ pc = "release"
    /\ pool' = [pool EXCEPT ![conn] = IF @ = "used" THEN "idle" ELSE @]
    /\ conn' = None
    /\ Continue(AfterCertificates)
    /\ UNCHANGED <<checks, read, certs, tables, feed>>

-----------------------------------------------------------------------------
(* ImportAuthorizations *)

DownloadFeed ==
    /\ pc = "feed" /\ ~cancelled
    /\ feed' \in SUBSET Ids \* rows without a number are skipped
    /\ Continue("replace")
    /\ UNCHANGED <<database, read, certs, tables, conn>>

DownloadFeedFails == pc = "feed" /\ Fail("end") /\ UNCHANGED <<database, import>>

Replace ==
    /\ pc = "replace" /\ feed # {}
    /\ Query /\ stored' = feed
    /\ Continue("end")
    /\ UNCHANGED <<read, certs, table, feed, conn>>

\* An empty feed is refused; an error may hide that COMMIT took effect.
ReplaceFails ==
    /\ pc = "replace"
    /\ IF feed = {} THEN UNCHANGED <<database, stored>> ELSE QueryFails /\ stored' \in {stored, feed}
    /\ Fail("end")
    /\ UNCHANGED <<read, certs, table, feed, conn>>

ImportStep ==
    \/ Download \/ DownloadFails
    \/ Acquire \/ AcquireFails \/ DisableChecks \/ DisableFails
    \/ Write \/ RestoreChecks \/ RestoreFails \/ Release
    \/ DownloadFeed \/ DownloadFeedFails \/ Replace \/ ReplaceFails
=============================================================================

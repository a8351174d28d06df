------------------------------- MODULE EcJob --------------------------------
(***************************************************************************)
(* The jobs books, friday, momo and pchome (internal/collector/ec.go and   *)
(* ec of jobs.go).                                                         *)
(*                                                                         *)
(* Scan reads the pages of a search one after the other.  The site says on *)
(* each how many there are, and may change its mind.  The job then saves   *)
(* the registrations found that the store does not have.  A page is the    *)
(* numbers in it, the number of products whose own page has to be read     *)
(* (momo and pchome only), whether it has products, and that count.        *)
(***************************************************************************)
EXTENDS Process

CONSTANTS
    MaxPages,  \* pages of a search that are read
    MaxDetails \* bound on the products of a page whose own page has to be read

ASSUME EcAssumption == MaxPages \in Nat \ {0} /\ MaxDetails \in Nat

Sources == {"books", "friday", "momo", "pchome"}

VARIABLES
    page,    \* the page of the search
    pages,   \* how many there are, as the site said last
    details, \* products of the page whose own page is still to be read
    last,    \* a page without products ends the search
    found,   \* the numbers found
    todo,    \* those the job has still to look at
    absent,  \* those BSMI has nothing for
    missed,  \* whether one has failed
    saved    \* the registrations in the store, as far as the job is concerned

ec == <<page, pages, details, last, found, todo, absent, missed, saved>>

\* The numbers are looked at in an order of their own (that of their letters).
Current == CHOOSE id \in todo : TRUE

-----------------------------------------------------------------------------
(* Scan *)

\* The least count a source makes of an answer; no product of books is read.
Least(source) == IF source = "friday" THEN 0 ELSE 1

Search ==
    /\ pc = "search" /\ ~cancelled
    /\ pages' \in Least(job)..MaxPages + 1
    /\ \E ids \in SUBSET Ids : found' = found \cup ids
    /\ last' \in (IF job = "books" THEN {FALSE} ELSE BOOLEAN)
    /\ details' \in (IF job \in {"momo", "pchome"} /\ ~last' THEN 0..MaxDetails ELSE {0})
    /\ last' => found' = found
    /\ Continue("details")
    /\ UNCHANGED <<database, page, todo, absent, missed, saved>>

\* The request, the JSON, or no search data in the page.
SearchFails == pc = "search" /\ Fail("end") /\ UNCHANGED <<database, ec>>

\* The page of a product; one that cannot be read is passed over.
Detail ==
    /\ pc = "details" /\ details > 0 /\ ~cancelled
    /\ \E ids \in SUBSET Ids : found' = found \cup ids
    /\ details' = details - 1
    /\ Continue("details")
    /\ UNCHANGED <<database, page, pages, last, todo, absent, missed, saved>>

\* The pause before the page of a product, or between pages, is cut short.
ScanCancelled ==
    /\ pc = "details" /\ cancelled /\ (details > 0 \/ ~last)
    /\ Fail("end")
    /\ UNCHANGED <<database, ec>>

\* Mutant of Further: as many pages as the site says.
FurtherForEver == ~last /\ page < pages

\* Whether there is another page to read.
Further == ~last /\ page < pages /\ page < MaxPages

NextPage ==
    /\ pc = "details" /\ details = 0
    /\ \/ Further /\ page' = page + 1 /\ Continue("search") /\ UNCHANGED <<pages, last, todo>>
       \/ /\ ~Further /\ todo' = found /\ Continue("registrations")
          /\ page' = 1 /\ pages' = 1 /\ last' = FALSE \* not used again
    /\ UNCHANGED <<database, details, found, absent, missed, saved>>

-----------------------------------------------------------------------------
(* The registrations found *)

Look ==
    /\ pc = "registrations" /\ todo # {}
    /\ Query
    /\ todo' = IF Current \in saved THEN todo \ {Current} ELSE todo
    /\ Continue(IF Current \in saved THEN "registrations" ELSE "fetch")
    /\ UNCHANGED <<page, pages, details, last, found, absent, missed, saved>>

LookFails ==
    /\ pc = "registrations" /\ todo # {}
    /\ QueryFails
    /\ Fail("end")
    /\ UNCHANGED ec

\* BSMI has a page for the registration, or none.
Fetch ==
    /\ pc = "fetch" /\ ~cancelled
    /\ \/ Continue("save") /\ UNCHANGED absent
       \/ Continue("pause") /\ absent' = absent \cup {Current}
    /\ UNCHANGED <<database, page, pages, details, last, found, todo, missed, saved>>

\* Mutant of Miss: the error is only reported.
MissNothing ==
    IF cancelled THEN Fail("end") /\ UNCHANGED missed ELSE Continue("pause") /\ UNCHANGED missed

\* An error is kept for the end of the job, unless the process has to stop.
Miss ==
    IF cancelled THEN Fail("end") /\ UNCHANGED missed ELSE Continue("pause") /\ missed' = TRUE

FetchFails ==
    /\ pc = "fetch" /\ Miss
    /\ UNCHANGED <<database, page, pages, details, last, found, todo, absent, saved>>

Save ==
    /\ pc = "save"
    /\ Query /\ saved' = saved \cup {Current}
    /\ Continue("pause")
    /\ UNCHANGED <<page, pages, details, last, found, todo, absent, missed>>

SaveFails ==
    /\ pc = "save"
    /\ QueryFails /\ saved' \in {saved, saved \cup {Current}}
    /\ Miss
    /\ UNCHANGED <<page, pages, details, last, found, todo, absent>>

Pause ==
    /\ pc = "pause"
    /\ todo' = todo \ {Current}
    /\ Continue("registrations") \/ (cancelled /\ Fail("end"))
    /\ UNCHANGED <<database, page, pages, details, last, found, absent, missed, saved>>

EcDone ==
    /\ pc = "registrations" /\ todo = {}
    /\ IF missed THEN Fail("end") ELSE Continue("end")
    /\ UNCHANGED <<database, ec>>

EcStep ==
    \/ Search \/ SearchFails \/ Detail \/ ScanCancelled \/ NextPage
    \/ Look \/ LookFails \/ Fetch \/ FetchFails \/ Save \/ SaveFails \/ Pause \/ EcDone
=============================================================================

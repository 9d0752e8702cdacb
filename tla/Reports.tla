-------------------------------- MODULE Reports --------------------------------
(***************************************************************************)
(* What solr-search reports of the documents tracked in Redis: the count   *)
(* of failures that a scrape of /v1/metrics brings up to date, and the     *)
(* listings of documents by status.  Both read the keys first and the      *)
(* records afterwards, while the lister, the indexer and administrators    *)
(* change them.                                                            *)
(***************************************************************************)
EXTENDS Naturals, Sequences, FiniteSets, FiniteSetsExt

CONSTANTS
    TrackedDocs,
    Scrapers,       \* threads that serve /v1/metrics
    MaxChanges      \* bound: changes of records

ASSUME ReportsOK == IsFiniteSet(TrackedDocs) /\ MaxChanges \in Nat

VARIABLES
    tracked,    \* document -> its record, or Untracked
    changes,    \* how often records changed
    failures,   \* ghost: failures since the API started, with those it found
    known,      \* _failed_keys_last_seen
    counted,    \* _indexing_failures_total
    scrapes,    \* the scrapes under way
    overtaken,  \* ghost: a scrape was applied after one that read since its scan
    listing     \* a listing under way, or the last one

reportsVars == <<tracked, changes, failures, known, counted, scrapes, overtaken, listing>>

Untracked == "untracked"
Records   == {"queued", "text", "processed", "failed"}

NoScrape  == [step |-> "idle", keys |-> {}, later |-> {}, late |-> FALSE]
NoListing == [step |-> "none", view |-> "triage", filter |-> "all", keys |-> {}, moved |-> {},
              documents |-> {}, counts |-> <<>>]

FailedIn(r) == {d \in TrackedDocs : r[d] = "failed"}

\* The API starts: it has counted nothing and seen no key.
ReportsInit ==
    /\ tracked \in [TrackedDocs -> {Untracked, "failed"}]
    /\ failures = Cardinality(FailedIn(tracked))
    /\ known = {} /\ counted = 0 /\ changes = 0
    /\ scrapes = [s \in Scrapers |-> NoScrape]
    /\ overtaken = FALSE /\ listing = NoListing

-----------------------------------------------------------------------------
\* Somebody writes or deletes a record: the indexer's save_state (which makes a record
\* where there is none), the lister's write-back, a requeue or a reindex.
RecordChanges(d, to) ==
    /\ changes < MaxChanges /\ changes' = changes + 1
    /\ to # tracked[d]
    /\ tracked' = [tracked EXCEPT ![d] = to]
    /\ failures' = IF to = "failed" THEN failures + 1 ELSE failures
    /\ listing' = IF listing.step = "reading" THEN [listing EXCEPT !.moved = @ \cup {d}] ELSE NoListing
    /\ UNCHANGED <<known, counted, scrapes, overtaken>>

-----------------------------------------------------------------------------
\* The keys of a scan: those that are there.
ScanKeys == {d \in TrackedDocs : tracked[d] # Untracked}

ScrapeBegins(s) ==
    /\ scrapes[s].step = "idle"
    /\ scrapes' = [scrapes EXCEPT ![s] = [NoScrape EXCEPT !.step = "scanned", !.keys = ScanKeys]]
    /\ UNCHANGED <<tracked, changes, failures, known, counted, overtaken, listing>>

\* One MGET: the failed ones of the keys.  This scrape is later than those under way.
ScrapeReads(s) ==
    /\ scrapes[s].step = "scanned"
    /\ scrapes' = [t \in Scrapers |->
           IF t = s THEN [scrapes[s] EXCEPT !.step = "read", !.keys = @ \cap FailedIn(tracked)]
           ELSE IF scrapes[t].step = "idle" THEN scrapes[t]
           ELSE [scrapes[t] EXCEPT !.later = @ \cup {s}]]
    /\ UNCHANGED <<tracked, changes, failures, known, counted, overtaken, listing>>

\* sync_indexing_failures: what was not failed at the last scrape is a new failure.
Sync(failed) ==
    /\ counted' = counted + Cardinality(failed \ known)
    /\ known' = failed

Finished(s) == [t \in Scrapers |->
    IF t = s THEN NoScrape
    ELSE [scrapes[t] EXCEPT !.late = @ \/ s \in scrapes[t].later]]

ScrapeSyncs(s) ==
    /\ scrapes[s].step = "read"
    /\ Sync(scrapes[s].keys)
    /\ scrapes' = Finished(s)
    /\ overtaken' = (overtaken \/ scrapes[s].late)
    /\ UNCHANGED <<tracked, changes, failures, listing>>

\* Mutant: no answer counts as no failures.
ScrapeFailsEmpty(s) ==
    /\ scrapes[s].step = "scanned"
    /\ Sync({})
    /\ scrapes' = [scrapes EXCEPT ![s] = NoScrape]
    /\ UNCHANGED <<tracked, changes, failures, overtaken, listing>>

\* Redis does not answer, or its breaker is open: the failures are left as they are.
ScrapeFails(s) ==
    /\ scrapes[s].step = "scanned"
    /\ scrapes' = [scrapes EXCEPT ![s] = NoScrape]
    /\ UNCHANGED <<tracked, changes, failures, known, counted, overtaken, listing>>

\* The figures live as long as the process.
ApiRestarts ==
    /\ counted > 0
    /\ known' = {} /\ counted' = 0
    /\ failures' = Cardinality(FailedIn(tracked))
    /\ scrapes' = [s \in Scrapers |-> NoScrape]
    /\ overtaken' = FALSE /\ listing' = NoListing
    /\ UNCHANGED <<tracked, changes>>

-----------------------------------------------------------------------------
\* The two listings classify differently: a document with its text in Solr and no chunks
\* yet is queued in the triage and processing in the indexing status.
StatusIn(view, r) ==
    IF r # "text" THEN r ELSE IF view = "triage" THEN "queued" ELSE "processing"

Statuses == {"queued", "processing", "processed", "failed"}

\* Which of the listed documents make up the page asked for is left out.
ListingBegins(view, filter) ==
    /\ listing.step \in {"none", "done"}
    /\ listing' = [NoListing EXCEPT !.step = "reading", !.view = view, !.filter = filter,
                                    !.keys = ScanKeys, !.counts = [x \in Statuses |-> 0]]
    /\ UNCHANGED <<tracked, changes, failures, known, counted, scrapes, overtaken>>

CountIn(d) ==
    LET status == StatusIn(listing.view, tracked[d]) IN
    [listing EXCEPT !.keys = @ \ {d}, !.counts[status] = @ + 1,
        !.documents = IF listing.filter \in {"all", status} THEN @ \cup {d} ELSE @]

\* Mutant: a record that is gone ends the listing.
ListsUntilVanished ==
    /\ listing.step = "reading" /\ listing.keys # {}
    /\ \E d \in listing.keys :
          listing' = IF tracked[d] # Untracked THEN CountIn(d) ELSE [listing EXCEPT !.keys = {}]
    /\ UNCHANGED <<tracked, changes, failures, known, counted, scrapes, overtaken>>

\* A record that is gone when its turn comes is skipped.
ListsOne ==
    /\ listing.step = "reading" /\ listing.keys # {}
    /\ \E d \in listing.keys :
          listing' = IF tracked[d] # Untracked THEN CountIn(d)
                     ELSE [listing EXCEPT !.keys = @ \ {d}]
    /\ UNCHANGED <<tracked, changes, failures, known, counted, scrapes, overtaken>>

ListingEnds ==
    /\ listing.step = "reading" /\ listing.keys = {}
    /\ listing' = [listing EXCEPT !.step = "done"]
    /\ UNCHANGED <<tracked, changes, failures, known, counted, scrapes, overtaken>>

\* A key that is read when Redis fails ends the listing with an error.
ListingFails ==
    /\ listing.step = "reading" /\ listing' = NoListing
    /\ UNCHANGED <<tracked, changes, failures, known, counted, scrapes, overtaken>>

RecordsNext == \E d \in TrackedDocs, to \in Records \cup {Untracked} : RecordChanges(d, to)

ScrapesNext == \/ \E s \in Scrapers : ScrapeBegins(s) \/ ScrapeReads(s) \/ ScrapeSyncs(s) \/ ScrapeFails(s)
               \/ ApiRestarts

ListingNext == \/ \E filter \in Statuses \cup {"all"} : \E view \in {"triage", "indexing"} :
                      ListingBegins(view, filter)
               \/ ListsOne \/ ListingEnds \/ ListingFails

ReportsNext == RecordsNext \/ ScrapesNext \/ ListingNext

ReportsSpec == ReportsInit /\ [][ReportsNext]_reportsVars

-----------------------------------------------------------------------------
\* The counter never exceeds the failures there were, through scrapes that Redis does
\* not answer and records that go and come back: only a scrape that is applied after
\* another that read the records since its own scan can make a failure count twice.
FailuresCountedOnce == ~overtaken => counted <= failures

\* A listing has every document whose record stood still meanwhile and matches, and
\* counts all that stood still, whatever happened to the others.
ListingIsComplete ==
    listing.step = "done" =>
        LET still == {d \in TrackedDocs \ listing.moved : tracked[d] # Untracked} IN
        /\ \A d \in still : d \in listing.documents <=>
                                listing.filter \in {"all", StatusIn(listing.view, tracked[d])}
        /\ \A x \in Statuses :
               listing.counts[x] >= Cardinality({d \in still : StatusIn(listing.view, tracked[d]) = x})
=============================================================================

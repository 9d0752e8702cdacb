----------------------- MODULE IndexingPipelineProps -----------------------
(* What the ingestion pipeline promises, and what its documents say of it. *)
EXTENDS IndexingPipeline, FiniteSets

StoresOK ==
    /\ disk \in [Docs -> 0..MaxVersion]
    /\ rec \in [Docs -> Record]
    /\ queue \in Seq(Docs)
    /\ parent \in [Docs -> 0..MaxVersion]
    /\ chunk \in [Docs -> [1..MaxChunks -> 0..MaxVersion]]

ListerOK ==
    /\ lpc \in {"idle", "publish", "stat", "store"}
    /\ lpc # "idle" => ldoc \in Docs
    /\ lpc = "idle" => ldoc = NoDoc
    /\ lval \in Record
    /\ scan \subseteq Docs

IndexerOK ==
    /\ ipc \in {"idle", "check", "post", "load", "store", "again", "extract", "chunk", "ack"}
    /\ ipc # "idle" => idoc \in Docs
    /\ ipc = "idle" => idoc = NoDoc /\ ~linked
    /\ iver \in 0..MaxVersion
    /\ ipc = "chunk" \/ iupd = "done" => iver # 0
    /\ inext \in Nat
    /\ ipc = "chunk" => inext # 0
    /\ iupd \in Updates
    /\ ipc \in {"load", "store", "again"} <=> iupd # "none"
    /\ idraft \in Record
    /\ linked \in BOOLEAN

AdminOK ==
    /\ apc \in {"idle", "failed", "processed", "scan", "wipe"}
    /\ adoc \in Docs \cup {NoDoc}
    /\ atodo \subseteq Docs
    /\ udoc \in Docs \cup {NoDoc}

SpentOK ==
    /\ spent \in [Kinds -> Nat]
    /\ \A k \in Kinds : spent[k] <= Budget[k]

\* Every variable has its type: in particular a process at work has a file, an
\* idle one has none, and no more was spent than the budget allows.
TypeOK == StoresOK /\ ListerOK /\ IndexerOK /\ AdminOK /\ SpentOK

-----------------------------------------------------------------------------
\* Messages for d that still cause work: queued, or delivered and not finished.
Outstanding(d) == Cardinality({i \in DOMAIN queue : queue[i] = d})
                    + (IF linked /\ idoc = d /\ ipc # "ack" THEN 1 ELSE 0)

\* What record r says of file d is in Solr: its text when it says
\* "text_indexed", every chunk it counts when it says "processed".
Backed(r, d) ==
    /\ r.text \/ r.processed => parent[d] # 0
    /\ r.processed => \A i \in 1..r.chunks : chunk[d][i] # 0

\* Until a reindex empties Solr, tracking records tell the truth, whatever
\* crashed, was delivered twice or was overwritten by the lister in between
\* (index_document's save_states, handle_document's stale set).
ProcessedIsSearchable ==
    spent["reindex"] = 0 => \A d \in Docs : Backed(rec[d], d)

\* Its inductive strengthening: the records on their way to Redis are truthful
\* too, and phase 2 has posted the chunks it is past.
TruthInv ==
    spent["reindex"] = 0 =>
        /\ \A d \in Docs : Backed(rec[d], d)
        /\ lpc # "idle" => Backed(lval, ldoc)
        /\ ipc = "store" => Backed(idraft, idoc)
        /\ ipc \in {"extract", "chunk"} \/ iupd \in {"phase1", "done"} => parent[idoc] # 0
        /\ ipc = "chunk" => \A i \in 1..ChunkCount[iver] : i < inext => chunk[idoc][i] # 0
        /\ iupd = "done" => \A i \in 1..ChunkCount[iver] : chunk[idoc][i] # 0

\* Of a processed document that no message is outstanding for, no chunk that the
\* record counts is older than the full text (phase 2 reads the file after phase 1).
\* Only those: index_document deletes no chunk, so a version with fewer chunks
\* leaves the higher ones of the version it replaces in Solr, and a hit's passage
\* may come from one of these.
CountedChunksMatch ==
    spent["reindex"] = 0 /\ spent["persist"] = 0 =>
        \A d \in Docs : rec[d].processed /\ Outstanding(d) = 0 =>
            \A i \in 1..rec[d].chunks : chunk[d][i] >= parent[d]

\* A file has one message outstanding at most, plus one for each event that
\* made the pipeline forget it had one.  Rewriting a file over and over never
\* adds a message: handle_document publishes a change only when the record is
\* processed (line 94).  A save that Redis broke off and did all the same is such
\* an event: the retry declares processed again what the lister has queued since.
DuplicatesArePaidFor ==
    \A d \in Docs :
        Outstanding(d) <= 1 + spent["crash"] + spent["abort"] + spent["forget"]
                            + spent["reindex"] + spent["upload"] + spent["remove"]
                            + spent["retry"]

\* Solr's full text of a file only moves forward, except when a reindex empties
\* the collection: a redelivered or duplicate message never brings back an
\* older version (index_document reads the file at the time it posts it).
TextNeverRegresses ==
    [][\A d \in Docs : parent'[d] >= parent[d] \/ spent'["reindex"] > spent["reindex"]]_vars

\* Every file gets its text into Solr, through crashes, redeliveries, requeues
\* and edits.  Only an attempt that failed, by a failing request or a file that
\* was missing, may leave it to the operator.
EventuallySearchable ==
    \A d \in Docs : disk[d] # 0 ~>
        parent[d] # 0 \/ spent["fault"] > 0 \/ spent["remove"] > 0

\* The pipeline comes to rest: no combination of failed, requeued, emptied or
\* half-deleted records makes the lister publish the same files for ever.
EventuallyQuiet == <>[](queue = <<>> /\ ipc = "idle")

-----------------------------------------------------------------------------
(* Statements of the documentation. *)

\* observability-runbook.md:59: the lister "Enqueues new/modified file paths",
\* so Solr ends up with the current version of every file.
EventuallyCurrent == <>[](\A d \in Docs : disk[d] # 0 => parent[d] = disk[d])

\* solr-search main.py:2734: after a reindex "The document-lister will
\* rediscover every file on its next scan and re-enqueue them".
ReindexRediscovers == <>[](\A d \in Docs : disk[d] # 0 => parent[d] # 0)
=============================================================================

-------------------------- MODULE IndexingPipeline --------------------------
(***************************************************************************)
(* The ingestion pipeline: the document-lister scans the library and      *)
(* publishes paths, the document-indexer consumes them and writes Solr,   *)
(* and both keep one tracking record per file in Redis, which the admin   *)
(* endpoints of solr-search delete to have files indexed again.           *)
(*                                                                         *)
(* A file's content is its version: versions grow, and the version stands *)
(* for the modification time too (st_mtime).  Solr holds, for each file,  *)
(* the version its parent document and each of its chunk documents were   *)
(* built from (0 = no such document).  Everything the environment may do  *)
(* (edit a file, kill a process, drop a connection) draws on Budget; Apart *)
(* lets one run explore several scopes side by side.                      *)
(***************************************************************************)
EXTENDS Integers, Sequences

CONSTANTS Docs,        \* files of the library (paths under BASE_PATH)
          NoDoc,       \* "no file": the value of an idle process
          Budget,      \* how often each kind of event may happen
          Apart,       \* for each kind, those it does not happen together with
          MaxChunks,   \* most chunks a file yields
          ChunkCount,  \* chunks of each version of a file
          TooLong,     \* versions over MAX_PDF_PAGES
          BatchSize    \* EMBEDDING_BATCH_SIZE

Kinds == {"write", "remove", "upload", "crash", "abort", "lost",
          "fault", "persist", "retry", "forget", "reindex"}

MaxVersion == Budget["write"] + Budget["upload"]
Versions   == 1..MaxVersion

ASSUME ConstantsOK ==
    /\ NoDoc \notin Docs
    /\ Budget \in [Kinds -> Nat]
    /\ Apart \in [Kinds -> SUBSET Kinds]
    /\ MaxChunks \in Nat
    /\ ChunkCount \in [Versions -> 0..MaxChunks]
    /\ TooLong \subseteq Versions
    /\ BatchSize \in Nat \ {0}

VARIABLES
    disk,     \* version of each file, 0 when there is no file
    rec,      \* Redis tracking record of each file
    queue,    \* RabbitMQ queue: paths not delivered yet
    parent,   \* Solr: version of each file's parent document
    chunk,    \* Solr: version of each of its chunk documents
    lpc, ldoc, lval, scan,                \* document-lister
    ipc, idoc, iver, inext, iupd, idraft, \* document-indexer: callback
    linked,   \* its AMQP connection still holds the delivery
    apc, adoc, atodo,                     \* solr-search: admin request
    udoc,     \* solr-search: upload written but not published yet
    spent     \* events drawn from Budget so far

listerVars  == <<lpc, ldoc, lval, scan>>
indexerVars == <<ipc, idoc, iver, inext, iupd, idraft, linked>>
adminVars   == <<apc, adoc, atodo>>
solrVars    == <<parent, chunk>>
vars == <<disk, rec, queue, solrVars, listerVars, indexerVars, adminVars,
          udoc, spent>>

-----------------------------------------------------------------------------
(* Tracking records.  A key that is absent has every field at its default. *)

PhaseStages == {"text_indexing", "embedding_indexing"}
Failures    == PhaseStages \cup {"page_guard", "unknown"}
Stages      == Failures \cup {"none"}
Updates     == Failures \cup {"phase1", "done", "none"}

Record == [known: BOOLEAN, mtime: 0..MaxVersion, processed: BOOLEAN,
           failed: BOOLEAN, stage: Stages, text: BOOLEAN, emb: BOOLEAN,
           chunks: 0..MaxChunks]

NoRecord == [known |-> FALSE, mtime |-> 0, processed |-> FALSE,
             failed |-> FALSE, stage |-> "none", text |-> FALSE,
             emb |-> FALSE, chunks |-> 0]

\* Mutant: the failure leaves "processed" as it was.
FailedKeepsProcessed(r, s, mtime) ==
    [r EXCEPT !.known = TRUE, !.mtime = mtime, !.failed = TRUE, !.stage = s]

\* mark_failure: what a failure in stage s merges into the record.
Failed(r, s, mtime) ==
    [r EXCEPT !.known = TRUE, !.mtime = mtime, !.processed = FALSE,
              !.failed = TRUE, !.stage = s]

\* save_state after phase 1 succeeded.
TextIndexed(r, mtime) ==
    [r EXCEPT !.known = TRUE, !.mtime = mtime, !.processed = FALSE,
              !.failed = FALSE, !.stage = "none", !.text = TRUE,
              !.emb = FALSE]

\* Mutant: the record is rebuilt and loses last_modified.
CompletedForgetsTime(r, n) ==
    [r EXCEPT !.known = TRUE, !.mtime = 0, !.processed = TRUE, !.emb = TRUE,
              !.chunks = n]

\* The last save_state of index_document: it names no other field.
Completed(r, n) ==
    [r EXCEPT !.known = TRUE, !.processed = TRUE, !.emb = TRUE, !.chunks = n]

\* _classify_doc_state
Status(r) == CASE r.failed    -> "failed"
               [] r.processed -> "processed"
               [] OTHER       -> "queued"

Spend(kind) == /\ spent[kind] < Budget[kind]
               /\ \A k \in Apart[kind] : spent[k] = 0
               /\ spent' = [spent EXCEPT ![kind] = @ + 1]

NewVersion == spent["write"] + spent["upload"] + 1

-----------------------------------------------------------------------------
Init ==
    /\ disk = [d \in Docs |-> 0]
    /\ rec = [d \in Docs |-> NoRecord]
    /\ queue = <<>>
    /\ parent = [d \in Docs |-> 0]
    /\ chunk = [d \in Docs |-> [i \in 1..MaxChunks |-> 0]]
    /\ lpc = "idle" /\ ldoc = NoDoc /\ lval = NoRecord /\ scan = {}
    /\ ipc = "idle" /\ idoc = NoDoc /\ iver = 0 /\ inext = 0
    /\ iupd = "none" /\ idraft = NoRecord /\ linked = FALSE
    /\ apc = "idle" /\ adoc = NoDoc /\ atodo = {}
    /\ udoc = NoDoc
    /\ spent = [k \in Kinds |-> 0]

-----------------------------------------------------------------------------
(* The library: people add, replace and remove files.                      *)

WriteFile(d) ==
    /\ Spend("write")
    /\ disk' = [disk EXCEPT ![d] = NewVersion]
    /\ UNCHANGED <<rec, queue, solrVars, listerVars, indexerVars, adminVars, udoc>>

RemoveFile(d) ==
    /\ disk[d] # 0
    /\ Spend("remove")
    /\ disk' = [disk EXCEPT ![d] = 0]
    /\ UNCHANGED <<rec, queue, solrVars, listerVars, indexerVars, adminVars, udoc>>

-----------------------------------------------------------------------------
(* document-lister *)

ListerIdle == lpc' = "idle" /\ ldoc' = NoDoc /\ lval' = NoRecord

\* produce/process_path: one scan of the library, in any order.
BeginScan ==
    /\ lpc = "idle" /\ scan = {}
    /\ scan' = {d \in Docs : disk[d] # 0}
    /\ UNCHANGED <<disk, rec, queue, solrVars, lpc, ldoc, lval, indexerVars,
                   adminVars, udoc, spent>>

\* is_file() fails for a file removed since the directory was read.
SkipFile(d) ==
    /\ lpc = "idle" /\ d \in scan /\ disk[d] = 0
    /\ scan' = scan \ {d}
    /\ UNCHANGED <<disk, rec, queue, solrVars, lpc, ldoc, lval, indexerVars,
                   adminVars, udoc, spent>>

\* Mutant: the key that is read is not the key that is written.
ReadRecordWrongKey(d) ==
    /\ lpc = "idle" /\ d \in scan /\ disk[d] # 0
    /\ scan' = scan \ {d}
    /\ ldoc' = d /\ lval' = NoRecord /\ lpc' = "publish"
    /\ UNCHANGED <<disk, rec, queue, solrVars, indexerVars, adminVars, udoc, spent>>

\* handle_document: redis_client.get.  A new document is published before
\* its record exists.
ReadRecord(d) ==
    /\ lpc = "idle" /\ d \in scan /\ disk[d] # 0
    /\ scan' = scan \ {d}
    /\ ldoc' = d
    /\ lval' = rec[d]
    /\ lpc' = IF rec[d].known THEN "stat" ELSE "publish"
    /\ UNCHANGED <<disk, rec, queue, solrVars, indexerVars, adminVars, udoc, spent>>

\* push_file_to_queue.  There are no publisher confirms: the broker may drop
\* the message and the lister goes on all the same.
Publish ==
    /\ lpc = "publish"
    /\ \/ queue' = Append(queue, ldoc) /\ UNCHANGED spent
       \/ Spend("lost") /\ UNCHANGED queue
    /\ lpc' = IF lval.known THEN "store" ELSE "stat"
    /\ UNCHANGED <<disk, rec, solrVars, ldoc, lval, scan, indexerVars, adminVars, udoc>>

\* Mutant: every change is published, processed or not.
StatFileAlwaysPublishes ==
    /\ lpc = "stat" /\ disk[ldoc] # 0
    /\ IF lval.known /\ lval.mtime = disk[ldoc] THEN ListerIdle
       ELSE /\ lval' = [lval EXCEPT !.known = TRUE, !.mtime = disk[ldoc],
                                    !.processed = FALSE]
            /\ lpc' = IF lval.known THEN "publish" ELSE "store"
            /\ UNCHANGED ldoc
    /\ UNCHANGED <<disk, rec, queue, solrVars, scan, indexerVars, adminVars, udoc, spent>>

\* path.stat() and what handle_document makes of it.  Only a processed
\* document that changed is published again.
StatFile ==
    /\ lpc = "stat" /\ disk[ldoc] # 0
    /\ \/ /\ ~lval.known
          /\ lval' = [NoRecord EXCEPT !.known = TRUE, !.mtime = disk[ldoc]]
          /\ lpc' = "store" /\ UNCHANGED ldoc
       \/ /\ lval.known /\ lval.mtime # disk[ldoc]
          /\ lval' = [lval EXCEPT !.mtime = disk[ldoc], !.processed = FALSE]
          /\ lpc' = IF lval.processed THEN "publish" ELSE "store"
          /\ UNCHANGED ldoc
       \/ /\ lval.known /\ lval.mtime = disk[ldoc]
          /\ ListerIdle
    /\ UNCHANGED <<disk, rec, queue, solrVars, scan, indexerVars, adminVars, udoc, spent>>

\* path.stat() of a file that is gone raises; the container is restarted.
StatMissing ==
    /\ lpc = "stat" /\ disk[ldoc] = 0
    /\ ListerIdle
    /\ scan' = {}
    /\ UNCHANGED <<disk, rec, queue, solrVars, indexerVars, adminVars, udoc, spent>>

\* redis_client.set of the record read at ReadRecord, as changed since.
StoreRecord ==
    /\ lpc = "store"
    /\ rec' = [rec EXCEPT ![ldoc] = lval]
    /\ ListerIdle
    /\ UNCHANGED <<disk, queue, solrVars, scan, indexerVars, adminVars, udoc, spent>>

\* A Redis or AMQP error, or a restart: the scan starts over (@retry).
AbortScan ==
    /\ lpc # "idle" \/ scan # {}
    /\ Spend("abort")
    /\ ListerIdle
    /\ scan' = {}
    /\ UNCHANGED <<disk, rec, queue, solrVars, indexerVars, adminVars, udoc>>

ListerStep == \/ BeginScan \/ Publish \/ StatFile \/ StatMissing \/ StoreRecord
              \/ \E d \in Docs : SkipFile(d) \/ ReadRecord(d)

-----------------------------------------------------------------------------
(* document-indexer: callback, one delivery at a time (prefetch_count = 1) *)

\* Mutant: the delivery is not forgotten.
IndexerIdleKeepsDelivery ==
    /\ ipc' = "idle" /\ UNCHANGED idoc /\ iver' = 0 /\ inext' = 0
    /\ iupd' = "none" /\ idraft' = NoRecord /\ linked' = FALSE

IndexerIdle ==
    /\ ipc' = "idle" /\ idoc' = NoDoc /\ iver' = 0 /\ inext' = 0
    /\ iupd' = "none" /\ idraft' = NoRecord /\ linked' = FALSE

Deliver ==
    /\ ipc = "idle" /\ queue # <<>>
    /\ queue' = Tail(queue)
    /\ ipc' = "check" /\ idoc' = Head(queue) /\ linked' = TRUE
    /\ UNCHANGED <<disk, rec, solrVars, listerVars, iver, inext, iupd, idraft,
                   adminVars, udoc, spent>>

\* Begin a save_state whose update is named u; only the last one of
\* index_document still needs the version it worked on.
Saving(u) == /\ ipc' = "load" /\ iupd' = u
             /\ iver' = IF u = "done" THEN iver ELSE 0
             /\ inext' = 0

\* index_document up to the thumbnail: suffix, existence and page guard.
CheckFile ==
    /\ ipc = "check"
    /\ \/ disk[idoc] = 0 /\ Saving("unknown")
       \/ disk[idoc] \in TooLong /\ Saving("page_guard")
       \/ /\ disk[idoc] \in Versions \ TooLong
          /\ ipc' = "post" /\ UNCHANGED <<iupd, iver, inext>>
    /\ UNCHANGED <<disk, rec, queue, solrVars, listerVars, idoc, idraft, linked,
                   adminVars, udoc, spent>>

\* Mutant: the text comes from a cache keyed by the record's last_modified.
PostTextCached ==
    /\ ipc = "post" /\ disk[idoc] # 0
    /\ parent' = [parent EXCEPT ![idoc] = IF rec[idoc].mtime # 0
                                          THEN rec[idoc].mtime ELSE disk[idoc]]
    /\ Saving("phase1")
    /\ UNCHANGED <<disk, rec, queue, chunk, listerVars, idoc, idraft, linked,
                   adminVars, udoc, spent>>

\* Phase 1: stream the file to /update/extract.
PostText ==
    /\ ipc = "post" /\ disk[idoc] # 0
    /\ parent' = [parent EXCEPT ![idoc] = disk[idoc]]
    /\ \/ Saving("phase1") /\ UNCHANGED spent
       \/ Saving("text_indexing") /\ Spend("fault")  \* done, answer lost
    /\ UNCHANGED <<disk, rec, queue, chunk, listerVars, idoc, idraft, linked,
                   adminVars, udoc>>

PostTextFails ==
    /\ ipc = "post"
    /\ \/ disk[idoc] = 0 /\ UNCHANGED spent
       \/ Spend("fault")
    /\ Saving("text_indexing")
    /\ UNCHANGED <<disk, rec, queue, solrVars, listerVars, idoc, idraft, linked,
                   adminVars, udoc>>

\* Phase 2 begins: the file is read again, whatever it holds by now.
ExtractText ==
    /\ ipc = "extract" /\ disk[idoc] # 0
    /\ ipc' = "chunk" /\ iver' = disk[idoc] /\ inext' = 1
    /\ UNCHANGED <<disk, rec, queue, solrVars, listerVars, idoc, iupd, idraft,
                   linked, adminVars, udoc, spent>>

\* Mutant: the last chunk of the document is cut off.
BatchCutShort == inext .. (IF inext + BatchSize <= ChunkCount[iver]
                           THEN inext + BatchSize - 1 ELSE ChunkCount[iver] - 1)

Batch == inext .. (IF inext + BatchSize <= ChunkCount[iver]
                   THEN inext + BatchSize - 1 ELSE ChunkCount[iver])

\* index_chunks: embed and post one batch.  Chunks of an earlier version
\* beyond the new count are left in Solr.
PostChunks ==
    /\ ipc = "chunk" /\ inext <= ChunkCount[iver]
    /\ chunk' = [chunk EXCEPT ![idoc] =
                    [i \in 1..MaxChunks |-> IF i \in Batch THEN iver ELSE @[i]]]
    /\ \/ inext' = inext + BatchSize /\ UNCHANGED <<ipc, iupd, iver, spent>>
       \/ Saving("embedding_indexing") /\ Spend("fault")
    /\ UNCHANGED <<disk, rec, queue, parent, listerVars, idoc, idraft, linked,
                   adminVars, udoc>>

EmbeddingFails ==
    /\ \/ ipc = "extract" /\ disk[idoc] = 0 /\ UNCHANGED spent
       \/ ipc \in {"extract", "chunk"} /\ Spend("fault")
    /\ Saving("embedding_indexing")
    /\ UNCHANGED <<disk, rec, queue, solrVars, listerVars, idoc, idraft, linked,
                   adminVars, udoc>>

ChunksDone ==
    /\ ipc = "chunk" /\ inext > ChunkCount[iver]
    /\ Saving("done")
    /\ UNCHANGED <<disk, rec, queue, solrVars, listerVars, idoc, idraft, linked,
                   adminVars, udoc, spent>>

\* load_state and update: the record as it is in Redis, with the update merged in.
Merged(mtime) == CASE iupd = "phase1" -> TextIndexed(rec[idoc], mtime)
                   [] iupd = "done"   -> Completed(rec[idoc], ChunkCount[iver])
                   [] OTHER           -> Failed(rec[idoc], iupd, mtime)

\* save_state, first half: the caller has stat the file; get the record, merge.
LoadState ==
    /\ ipc = "load"
    /\ iupd = "phase1" => disk[idoc] # 0
    /\ idraft' = Merged(disk[idoc])
    /\ ipc' = "store"
    /\ UNCHANGED <<disk, rec, queue, solrVars, listerVars, idoc, iver, inext,
                   iupd, linked, adminVars, udoc, spent>>

\* save_state, second half.  Every failure is recorded a second time by
\* callback, with stage "unknown".
StoreState ==
    /\ ipc = "store"
    /\ rec' = [rec EXCEPT ![idoc] = idraft]
    /\ idraft' = NoRecord
    /\ \/ iupd \in Failures \ {"unknown"} /\ Saving("unknown")
       \/ /\ iupd \in {"phase1", "done", "unknown"}
          /\ ipc' = IF iupd = "phase1" THEN "extract" ELSE "ack"
          /\ iupd' = "none" /\ iver' = 0 /\ inext' = 0
    /\ UNCHANGED <<disk, queue, solrVars, listerVars, idoc, linked, adminVars,
                   udoc, spent>>

\* @retry: Redis breaks off the set, which it may have done, and save_state runs
\* again with the same update; whoever writes the record meanwhile is merged in.
StoreRetried ==
    /\ ipc = "store"
    /\ Spend("retry")
    /\ rec' \in {rec, [rec EXCEPT ![idoc] = idraft]}
    /\ ipc' = "again"
    /\ UNCHANGED <<disk, queue, solrVars, listerVars, idoc, iver, inext, iupd,
                   idraft, linked, adminVars, udoc>>

LoadAgain ==
    /\ ipc = "again"
    /\ idraft' = Merged(idraft.mtime)
    /\ ipc' = "store"
    /\ UNCHANGED <<disk, rec, queue, solrVars, listerVars, idoc, iver, inext,
                   iupd, linked, adminVars, udoc, spent>>

\* save_state raises: stat of a file that is gone (phase 1's save is outside
\* the try), or a Redis error that is not retried.  callback records
\* "unknown"; when that raises too, the delivery is acknowledged regardless.
SaveFails ==
    /\ ipc = "load"
    /\ \/ iupd = "phase1" /\ disk[idoc] = 0 /\ UNCHANGED spent
       \/ Spend("persist")
    /\ \/ iupd # "unknown" /\ Saving("unknown")
       \/ /\ iupd = "unknown"
          /\ ipc' = "ack" /\ iupd' = "none" /\ UNCHANGED <<iver, inext>>
    /\ UNCHANGED <<disk, rec, queue, solrVars, listerVars, idoc, idraft, linked,
                   adminVars, udoc>>

\* basic_ack: a no-op for the broker when the connection was lost before.
Ack ==
    /\ ipc = "ack"
    /\ IndexerIdle
    /\ UNCHANGED <<disk, rec, queue, solrVars, listerVars, adminVars, udoc, spent>>

\* The connection drops during the work (missed heartbeats, broker restart):
\* the broker returns the delivery to the queue, the callback goes on.
Disconnect ==
    /\ linked
    /\ Spend("crash")
    /\ queue' = <<idoc>> \o queue
    /\ linked' = FALSE
    /\ UNCHANGED <<disk, rec, solrVars, listerVars, ipc, idoc, iver, inext,
                   iupd, idraft, adminVars, udoc>>

\* Mutant: deliveries are acknowledged when they are sent (auto_ack).
CrashAutoAck ==
    /\ ipc # "idle"
    /\ Spend("crash")
    /\ IndexerIdle
    /\ UNCHANGED <<disk, rec, queue, solrVars, listerVars, adminVars, udoc>>

\* The process dies and is restarted.
Crash ==
    /\ ipc # "idle"
    /\ Spend("crash")
    /\ queue' = IF linked THEN <<idoc>> \o queue ELSE queue
    /\ IndexerIdle
    /\ UNCHANGED <<disk, rec, solrVars, listerVars, adminVars, udoc>>

IndexerStep == \/ Deliver \/ CheckFile \/ PostText \/ PostTextFails
               \/ ExtractText \/ PostChunks \/ EmbeddingFails \/ ChunksDone
               \/ LoadState \/ LoadAgain \/ StoreState \/ SaveFails \/ Ack

-----------------------------------------------------------------------------
(* solr-search: admin requests, one at a time, and uploads *)

Known == {d \in Docs : rec[d].known}

AdminIdle == apc' = "idle" /\ adoc' = NoDoc /\ atodo' = {}

\* admin_requeue_document; also a record Redis evicts (allkeys-lru).
ForgetRecord(d) ==
    /\ rec[d].known
    /\ Spend("forget")
    /\ rec' = [rec EXCEPT ![d] = NoRecord]
    /\ UNCHANGED <<disk, queue, solrVars, listerVars, indexerVars, adminVars, udoc>>

\* admin_requeue_failed, admin_clear_processed: list the keys, then read each
\* record and delete the key when the status is the one asked for.
BeginBulk(status) ==
    /\ apc = "idle" /\ Known # {}
    /\ Spend("forget")
    /\ apc' = status /\ atodo' = Known
    /\ UNCHANGED <<disk, rec, queue, solrVars, listerVars, indexerVars, adoc, udoc>>

BulkRead(d) ==
    /\ apc \in {"failed", "processed"} /\ adoc = NoDoc /\ d \in atodo
    /\ atodo' = atodo \ {d}
    /\ adoc' = IF rec[d].known /\ Status(rec[d]) = apc THEN d ELSE NoDoc
    /\ UNCHANGED <<disk, rec, queue, solrVars, listerVars, indexerVars, apc,
                   udoc, spent>>

BulkDelete ==
    /\ adoc # NoDoc
    /\ rec' = [rec EXCEPT ![adoc] = NoRecord]
    /\ adoc' = NoDoc
    /\ UNCHANGED <<disk, queue, solrVars, listerVars, indexerVars, apc, atodo,
                   udoc, spent>>

\* admin_reindex: empty the Solr collection first ...
ReindexSolr ==
    /\ apc = "idle"
    /\ Spend("reindex")
    /\ parent' = [d \in Docs |-> 0]
    /\ chunk' = [d \in Docs |-> [i \in 1..MaxChunks |-> 0]]
    /\ apc' = "scan"
    /\ UNCHANGED <<disk, rec, queue, listerVars, indexerVars, adoc, atodo, udoc>>

\* ... then scan the tracking keys and delete them one by one.
ReindexScan ==
    /\ apc = "scan"
    /\ apc' = "wipe" /\ atodo' = Known
    /\ UNCHANGED <<disk, rec, queue, solrVars, listerVars, indexerVars, adoc,
                   udoc, spent>>

ReindexWipe(d) ==
    /\ apc = "wipe" /\ d \in atodo
    /\ rec' = [rec EXCEPT ![d] = NoRecord]
    /\ atodo' = atodo \ {d}
    /\ UNCHANGED <<disk, queue, solrVars, listerVars, indexerVars, apc, adoc,
                   udoc, spent>>

AdminDone ==
    /\ apc \notin {"idle", "scan"} /\ adoc = NoDoc /\ atodo = {}
    /\ AdminIdle
    /\ UNCHANGED <<disk, rec, queue, solrVars, listerVars, indexerVars, udoc, spent>>

\* A timeout after Solr's answer was lost, a Redis error, an open breaker:
\* the request ends with a 5xx and what it did so far stays done.
AdminFails ==
    /\ apc # "idle"
    /\ Spend("fault")
    /\ AdminIdle
    /\ UNCHANGED <<disk, rec, queue, solrVars, listerVars, indexerVars, udoc>>

\* upload_pdf: a name that is taken is replaced by a fresh one.  The upload
\* directory is inside the scanned library.
UploadWrite(d) ==
    /\ udoc = NoDoc /\ disk[d] = 0
    /\ Spend("upload")
    /\ disk' = [disk EXCEPT ![d] = NewVersion]
    /\ udoc' = d
    /\ UNCHANGED <<rec, queue, solrVars, listerVars, indexerVars, adminVars>>

\* Unconfirmed, as the lister's.
UploadPublish ==
    /\ udoc # NoDoc
    /\ \/ queue' = Append(queue, udoc) /\ UNCHANGED spent
       \/ Spend("lost") /\ UNCHANGED queue
    /\ udoc' = NoDoc
    /\ UNCHANGED <<disk, rec, solrVars, listerVars, indexerVars, adminVars>>

\* _publish_to_queue fails: the file is unlinked again.
UploadFails ==
    /\ udoc # NoDoc
    /\ Spend("fault")
    /\ disk' = [disk EXCEPT ![udoc] = 0]
    /\ udoc' = NoDoc
    /\ UNCHANGED <<rec, queue, solrVars, listerVars, indexerVars, adminVars>>

AdminStep == \/ BulkDelete \/ ReindexScan \/ AdminDone
             \/ \E d \in Docs : BulkRead(d) \/ ReindexWipe(d)

-----------------------------------------------------------------------------
ListerNext  == ListerStep \/ AbortScan
IndexerNext == IndexerStep \/ StoreRetried \/ Disconnect \/ Crash
AdminNext   == \/ AdminStep \/ ReindexSolr \/ AdminFails
               \/ \E d \in Docs : ForgetRecord(d)
               \/ \E status \in {"failed", "processed"} : BeginBulk(status)
LibraryNext == \/ UploadPublish \/ UploadFails
               \/ \E d \in Docs : WriteFile(d) \/ RemoveFile(d) \/ UploadWrite(d)

Next == ListerNext \/ IndexerNext \/ AdminNext \/ LibraryNext

Spec == Init /\ [][Next]_vars

\* The services keep running: the lister polls for ever, the indexer consumes
\* whatever is queued, and a request that was accepted runs to its end.
FairSpec == /\ Spec
            /\ WF_vars(ListerStep) /\ WF_vars(IndexerStep)
            /\ WF_vars(AdminStep) /\ WF_vars(UploadPublish)
=============================================================================

-------------------------------- MODULE Uploads --------------------------------
(***************************************************************************)
(* The upload endpoint from the moment the content is read: it chooses a   *)
(* name, writes the file, publishes the path and answers without giving up *)
(* the event loop, so one upload at a time is in there; the indexer works  *)
(* meanwhile.  A name is the sequence of its stem, a number, and of the    *)
(* seconds it was stamped with; contents are the numbers of the uploads.   *)
(***************************************************************************)
EXTENDS Naturals, Sequences, Functions

CONSTANTS
    FileNames,      \* what clients offer, sanitized
    LongNames,  \* those a stamp makes longer than the file system allows
    BasePath, UploadDir, \* of the indexer, and of the uploads
    MaxUploads, LastSecond \* bounds

ASSUME UploadsOK == /\ FileNames \subseteq Seq(Nat) \ {<<>>} /\ LongNames \subseteq FileNames
                    /\ SubSeq(UploadDir, 1, Len(BasePath)) = BasePath
                    /\ MaxUploads \in Nat /\ LastSecond \in Nat

VARIABLES
    second,
    count,    \* uploads so far
    upload,   \* the one under way: step, path, second, whether the name fits
    disk,     \* the upload directory
    sent,     \* the paths in the queue
    indexed,  \* what the indexer made of them: id and content
    failed,   \* the paths whose record says that indexing failed
    lost,     \* ghost: the contents whose message or whose failure nobody kept
    accepted  \* what was answered 202: path, content and upload_id

indexerState == <<indexed, failed>>
uploadsVars  == <<second, count, upload, disk, sent, indexerState, lost, accepted>>

NoUpload == [step |-> "none"]
Partial  == 0

UploadsInit ==
    /\ second = 1 /\ count = 0 /\ upload = NoUpload
    /\ disk = <<>> /\ sent = {} /\ indexed = {} /\ failed = {} /\ lost = {} /\ accepted = {}

\* Mutant: the name is taken as it comes.
ChooseAnyway(n) ==
    /\ upload.step = "none" /\ count < MaxUploads
    /\ count' = count + 1
    /\ upload' = [step |-> "write", path |-> n, at |-> second, fits |-> TRUE]
    /\ UNCHANGED <<second, disk, sent, indexerState, lost, accepted>>

\* A taken name gets a stamp; whether that is free is not asked.
Choose(n) ==
    /\ upload.step = "none" /\ count < MaxUploads
    /\ count' = count + 1
    /\ upload' = IF n \in DOMAIN disk
                 THEN [step |-> "write", path |-> Append(n, second), at |-> second,
                      fits |-> n \notin LongNames]
                 ELSE [step |-> "write", path |-> n, at |-> second, fits |-> TRUE]
    /\ UNCHANGED <<second, disk, sent, indexerState, lost, accepted>>

Put(body) == disk' = [p \in DOMAIN disk \cup {upload.path} |->
                          IF p = upload.path THEN body ELSE disk[p]]

Write ==
    /\ upload.step = "write" /\ upload.fits
    /\ Put(count)
    /\ upload' = [upload EXCEPT !.step = "publish"]
    /\ UNCHANGED <<second, count, sent, indexerState, lost, accepted>>

\* 500.  write_bytes truncates first: what it wrote of a file stays.
WriteFails ==
    /\ upload.step = "write"
    /\ UNCHANGED disk \/ (upload.fits /\ Put(Partial))
    /\ upload' = NoUpload
    /\ UNCHANGED <<second, count, sent, indexerState, lost, accepted>>

\* basic_publish without publisher confirms: the broker may drop the message, and the
\* upload is answered all the same.
Publish ==
    /\ upload.step = "publish"
    /\ \/ sent' = sent \cup {upload.path} /\ UNCHANGED lost
       \/ lost' = lost \cup {count} /\ UNCHANGED sent
    /\ upload' = [upload EXCEPT !.step = "answer"]
    /\ UNCHANGED <<second, count, disk, indexerState, accepted>>

\* Mutant: the error is logged, and the upload goes on.
PublishFailsUnseen ==
    /\ upload.step = "publish"
    /\ sent' \in {sent, sent \cup {upload.path}}
    /\ upload' = [upload EXCEPT !.step = "answer"]
    /\ UNCHANGED <<second, count, disk, indexerState, lost, accepted>>

\* 502, and the file is removed if that works.  The broker may have the message.
PublishFails ==
    /\ upload.step = "publish"
    /\ disk' \in {disk, Restrict(disk, DOMAIN disk \ {upload.path})}
    /\ sent' \in {sent, sent \cup {upload.path}}
    /\ upload' = NoUpload
    /\ UNCHANGED <<second, count, indexerState, lost, accepted>>

\* The hash of the whole path; the indexer hashes it from its base path on.
UploadId(p) == <<UploadDir, p>>
SolrId(p)   == <<SubSeq(UploadDir, Len(BasePath) + 1, Len(UploadDir)), p>>

Answer ==
    /\ upload.step = "answer"
    /\ accepted' = accepted \cup {[path |-> upload.path, body |-> count, id |-> UploadId(upload.path)]}
    /\ upload' = NoUpload
    /\ UNCHANGED <<second, count, disk, sent, indexerState, lost>>

\* Closing the connection fails, or the process dies at any step: file and message
\* stay as they are.
NoAnswer ==
    /\ upload.step # "none"
    /\ upload' = NoUpload
    /\ UNCHANGED <<second, count, disk, sent, indexerState, lost, accepted>>

\* The indexer takes a path and indexes what is there.
IndexUpload(p) ==
    /\ p \in sent /\ p \in DOMAIN disk
    /\ sent' = sent \ {p}
    /\ indexed' = indexed \cup {[id |-> SolrId(p), body |-> disk[p]]}
    /\ failed' = failed \ {p}
    /\ UNCHANGED <<second, count, upload, disk, lost, accepted>>

\* The file is gone, refused by the page guard, or Solr or the embeddings fail.  The
\* message is acknowledged even if that cannot be recorded either.
IndexFails(p) ==
    /\ p \in sent
    /\ sent' = sent \ {p}
    /\ \/ failed' = failed \cup {p} /\ UNCHANGED lost
       \/ lost' = lost \cup {disk[q] : q \in {p} \cap DOMAIN disk} /\ UNCHANGED failed
    /\ UNCHANGED <<second, count, upload, disk, indexed, accepted>>

NextSecond ==
    /\ second < LastSecond
    /\ second' = second + 1
    /\ UNCHANGED <<count, upload, disk, sent, indexerState, lost, accepted>>

UploadsNext ==
    \/ \E n \in FileNames : Choose(n)
    \/ Write \/ WriteFails \/ Publish \/ PublishFails \/ Answer \/ NoAnswer
    \/ \E p \in sent : IndexUpload(p) \/ IndexFails(p)
    \/ NextSecond

UploadsSpec == UploadsInit /\ [][UploadsNext]_uploadsVars

-----------------------------------------------------------------------------
\* A file in the upload directory is replaced or removed only by the upload that
\* made it, or by one whose stamp is the last part of the file's name.
FilesStand ==
    [][\A p \in DOMAIN disk :
          \/ p \in DOMAIN disk' /\ disk'[p] = disk[p]
          \/ disk[p] = count
          \/ Len(p) > 1 /\ p[Len(p)] = upload.at]_uploadsVars

\* What was answered 202 is in the queue, in Solr with the content it had, or recorded
\* as failed, as long as its file stands: whatever names collide and whatever uploads
\* fail in between.  The exceptions are a message that the broker dropped and a
\* failure that Redis did not take: nothing is left of those but the file.
AcceptedIsIndexed ==
    \A u \in accepted :
        \/ u.path \in sent \cup failed
        \/ [id |-> SolrId(u.path), body |-> u.body] \in indexed
        \/ u.path \notin DOMAIN disk \/ disk[u.path] # u.body
        \/ u.body \in lost
=============================================================================

---------------------- MODULE IndexingPipeline_proofs ----------------------
(***************************************************************************)
(* Proofs about the ingestion pipeline, for any library, any budget of     *)
(* failures, any number of chunks and any batch size:                      *)
(*   - every state is well typed (TypeCorrect);                            *)
(*   - tracking records tell the truth about Solr (RecordsTruthful);       *)
(*   - the full text in Solr only moves forward (TextMovesForward);        *)
(*   - messages outstanding are paid for (DuplicatesPaid);                 *)
(*   - the chunks that a settled document's record counts are as new as    *)
(*     its text (ChunksMatch).                                             *)
(***************************************************************************)
EXTENDS IndexingPipelineProps, SequenceTheorems, FiniteSetTheorems, TLAPS

(* What the helpers return, so that the steps need not expand records.     *)

LEMMA RecordTypes ==
    /\ NoRecord \in Record
    /\ \A r \in Record, s \in Failures, m \in 0..MaxVersion : Failed(r, s, m) \in Record
    /\ \A r \in Record, m \in 0..MaxVersion : TextIndexed(r, m) \in Record
    /\ \A r \in Record, n \in 0..MaxChunks : Completed(r, n) \in Record
    /\ \A r \in Record, m \in 0..MaxVersion :
          /\ [NoRecord EXCEPT !.known = TRUE, !.mtime = m] \in Record
          /\ [r EXCEPT !.mtime = m, !.processed = FALSE] \in Record
<1>1. MaxVersion \in Nat /\ MaxChunks \in Nat
  BY ConstantsOK DEF MaxVersion, Kinds
<1>2. NoRecord \in Record
  BY <1>1 DEF NoRecord, Record, Stages
<1>3. \A r \in Record, s \in Failures, m \in 0..MaxVersion : Failed(r, s, m) \in Record
  BY DEF Failed, Record, Stages
<1>4. \A r \in Record, m \in 0..MaxVersion : TextIndexed(r, m) \in Record
  BY DEF TextIndexed, Record, Stages
<1>5. \A r \in Record, n \in 0..MaxChunks : Completed(r, n) \in Record
  BY DEF Completed, Record
<1>6. \A r \in Record, m \in 0..MaxVersion :
          /\ [NoRecord EXCEPT !.known = TRUE, !.mtime = m] \in Record
          /\ [r EXCEPT !.mtime = m, !.processed = FALSE] \in Record
  BY <1>2 DEF Record
<1> QED BY <1>2, <1>3, <1>4, <1>5, <1>6

LEMMA SpendTyped ==
    ASSUME SpentOK, NEW k \in Kinds, Spend(k)
    PROVE  /\ SpentOK'
           /\ spent'[k] = spent[k] + 1
           /\ \A j \in Kinds : spent'[j] >= spent[j]
<1>1. Budget \in [Kinds -> Nat]
  BY ConstantsOK
<1>2. spent[k] < Budget[k] /\ spent' = [spent EXCEPT ![k] = @ + 1]
  BY DEF Spend
<1>3. spent[k] \in Nat /\ Budget[k] \in Nat
  BY <1>1 DEF SpentOK
<1>4. \A j \in Kinds : spent'[j] = IF j = k THEN spent[k] + 1 ELSE spent[j]
  BY <1>2 DEF SpentOK
<1> QED BY <1>1, <1>2, <1>3, <1>4 DEF SpentOK

LEMMA NewVersionTyped ==
    ASSUME SpentOK,
           spent["write"] < Budget["write"] \/ spent["upload"] < Budget["upload"]
    PROVE  NewVersion \in 0..MaxVersion
<1>1. /\ spent["write"] \in Nat /\ spent["write"] <= Budget["write"]
      /\ spent["upload"] \in Nat /\ spent["upload"] <= Budget["upload"]
  BY DEF SpentOK, Kinds
<1>2. Budget["write"] \in Nat /\ Budget["upload"] \in Nat
  BY ConstantsOK DEF Kinds
<1> QED BY <1>1, <1>2 DEF NewVersion, MaxVersion

-----------------------------------------------------------------------------
(* What each process leaves alone.                                         *)

LEMMA ListerFrame ==
    ASSUME ListerNext
    PROVE  UNCHANGED <<disk, solrVars, indexerVars, adminVars, udoc>>
BY Zenon DEF ListerNext, ListerStep, BeginScan, SkipFile, ReadRecord, Publish, StatFile, StatMissing, StoreRecord, AbortScan

LEMMA IndexerFrame ==
    ASSUME IndexerNext
    PROVE  UNCHANGED <<disk, listerVars, adminVars, udoc>>
BY Zenon DEF IndexerNext, IndexerStep, Deliver, CheckFile, PostText, PostTextFails, ExtractText, PostChunks, EmbeddingFails, ChunksDone, LoadState, LoadAgain, StoreState, StoreRetried, SaveFails, Ack, Disconnect, Crash

LEMMA AdminFrame ==
    ASSUME AdminNext
    PROVE  UNCHANGED <<disk, queue, listerVars, indexerVars, udoc>>
BY Zenon DEF AdminNext, AdminStep, ForgetRecord, BeginBulk, BulkRead, BulkDelete, ReindexSolr, ReindexScan, ReindexWipe, AdminDone, AdminFails

LEMMA LibraryFrame ==
    ASSUME LibraryNext
    PROVE  UNCHANGED <<rec, solrVars, listerVars, indexerVars, adminVars>>
BY Zenon DEF LibraryNext, UploadPublish, UploadFails, WriteFile, RemoveFile, UploadWrite

-----------------------------------------------------------------------------
(* Which steps write each shared store.                                    *)

LEMMA QueueWriters ==
    ASSUME [Next]_vars
    PROVE  UNCHANGED queue \/ Publish \/ Deliver \/ Disconnect \/ Crash \/ UploadPublish
<1>1. CASE ListerNext
  BY <1>1, Zenon DEF solrVars, ListerNext, ListerStep, BeginScan, SkipFile, ReadRecord, Publish, StatFile,
       StatMissing, StoreRecord, AbortScan
<1>2. CASE IndexerNext
  BY <1>2, Zenon DEF solrVars, IndexerNext, IndexerStep, Deliver, CheckFile, PostText, PostTextFails,
       ExtractText, PostChunks, EmbeddingFails, ChunksDone, LoadState, LoadAgain, StoreState, StoreRetried,
       SaveFails, Ack, Disconnect, Crash
<1>3. CASE AdminNext
  BY <1>3, AdminFrame DEF solrVars
<1>4. CASE LibraryNext
  BY <1>4, Zenon DEF solrVars, LibraryNext, UploadPublish, UploadFails, WriteFile, RemoveFile, UploadWrite
<1>5. CASE UNCHANGED vars
  BY <1>5 DEF vars, solrVars
<1> QED BY <1>1, <1>2, <1>3, <1>4, <1>5 DEF Next

LEMMA RecordWriters ==
    ASSUME [Next]_vars
    PROVE  UNCHANGED rec \/ StoreRecord \/ StoreState \/ StoreRetried \/ BulkDelete
             \/ \E d \in Docs : ForgetRecord(d) \/ ReindexWipe(d)
<1>1. CASE ListerNext
  BY <1>1, Zenon DEF solrVars, ListerNext, ListerStep, BeginScan, SkipFile, ReadRecord, Publish, StatFile,
       StatMissing, StoreRecord, AbortScan
<1>2. CASE IndexerNext
  BY <1>2, Zenon DEF solrVars, IndexerNext, IndexerStep, Deliver, CheckFile, PostText, PostTextFails,
       ExtractText, PostChunks, EmbeddingFails, ChunksDone, LoadState, LoadAgain, StoreState, StoreRetried,
       SaveFails, Ack, Disconnect, Crash
<1>3. CASE AdminNext
  BY <1>3, Zenon DEF solrVars, AdminNext, AdminStep, ForgetRecord, BeginBulk, BulkRead, BulkDelete,
       ReindexSolr, ReindexScan, ReindexWipe, AdminDone, AdminFails
<1>4. CASE LibraryNext
  BY <1>4, LibraryFrame DEF solrVars
<1>5. CASE UNCHANGED vars
  BY <1>5 DEF vars, solrVars
<1> QED BY <1>1, <1>2, <1>3, <1>4, <1>5 DEF Next

LEMMA SolrWriters ==
    ASSUME [Next]_vars
    PROVE  UNCHANGED solrVars \/ PostText \/ PostChunks \/ ReindexSolr
<1>1. CASE ListerNext
  BY <1>1, ListerFrame DEF solrVars
<1>2. CASE IndexerNext
  BY <1>2, Zenon DEF solrVars, IndexerNext, IndexerStep, Deliver, CheckFile, PostText, PostTextFails,
       ExtractText, PostChunks, EmbeddingFails, ChunksDone, LoadState, LoadAgain, StoreState, StoreRetried,
       SaveFails, Ack, Disconnect, Crash
<1>3. CASE AdminNext
  BY <1>3, Zenon DEF solrVars, AdminNext, AdminStep, ForgetRecord, BeginBulk, BulkRead, BulkDelete,
       ReindexSolr, ReindexScan, ReindexWipe, AdminDone, AdminFails
<1>4. CASE LibraryNext
  BY <1>4, LibraryFrame DEF solrVars
<1>5. CASE UNCHANGED vars
  BY <1>5 DEF vars, solrVars
<1> QED BY <1>1, <1>2, <1>3, <1>4, <1>5 DEF Next

-----------------------------------------------------------------------------
(* Type correctness, one group of variables at a time.                     *)

LEMMA TypeInit == Init => TypeOK
<1> SUFFICES ASSUME Init PROVE TypeOK
  OBVIOUS
<1>1. MaxVersion \in Nat /\ MaxChunks \in Nat
  BY ConstantsOK DEF MaxVersion, Kinds
<1>2. SpentOK
  BY ConstantsOK DEF Init, SpentOK
<1>3. chunk \in [Docs -> [1..MaxChunks -> 0..MaxVersion]]
  BY <1>1 DEF Init
<1>a. NoRecord \in Record
  BY RecordTypes
<1>b. 0 \in 0..MaxVersion
  BY <1>1
<1>c. queue \in Seq(Docs)
  <2>1. queue = <<>>
    BY DEF Init
  <2> QED BY <2>1
<1>4. StoresOK
  <2>1. disk \in [Docs -> 0..MaxVersion] /\ parent \in [Docs -> 0..MaxVersion]
    BY <1>b DEF Init
  <2>2. rec \in [Docs -> Record]
    BY <1>a DEF Init
  <2> QED BY <2>1, <2>2, <1>3, <1>c DEF StoresOK
<1>5. ListerOK /\ AdminOK
  BY <1>a DEF Init, ListerOK, AdminOK
<1>6. IndexerOK
  <2>1. /\ ipc = "idle" /\ idoc = NoDoc /\ iver = 0 /\ inext = 0
        /\ iupd = "none" /\ idraft = NoRecord /\ linked = FALSE
    BY DEF Init
  <2> QED BY <2>1, <1>a, <1>b DEF IndexerOK, Updates
<1> QED BY <1>2, <1>4, <1>5, <1>6 DEF TypeOK

\* Events are counted up.
LEMMA SpendsOnly ==
    ASSUME [Next]_vars
    PROVE  UNCHANGED spent \/ \E k \in Kinds : Spend(k)
<1>1. CASE ListerNext
  BY <1>1, Zenon DEF ListerNext, ListerStep, BeginScan, SkipFile, ReadRecord, Publish,
     StatFile, StatMissing, StoreRecord, AbortScan, Kinds
<1>2. CASE IndexerNext
  BY <1>2, Zenon DEF IndexerNext, IndexerStep, Deliver, CheckFile, PostText, PostTextFails,
     ExtractText, PostChunks, EmbeddingFails, ChunksDone, LoadState, LoadAgain, StoreState, StoreRetried,
     SaveFails, Ack, Disconnect, Crash, Kinds
<1>3. CASE AdminNext
  BY <1>3, Zenon DEF AdminNext, AdminStep, ForgetRecord, BeginBulk, BulkRead, BulkDelete,
     ReindexSolr, ReindexScan, ReindexWipe, AdminDone, AdminFails, Kinds
<1>4. CASE LibraryNext
  BY <1>4, Zenon DEF LibraryNext, UploadPublish, UploadFails, WriteFile, RemoveFile,
     UploadWrite, Kinds
<1>5. CASE UNCHANGED vars
  BY <1>5 DEF vars
<1> QED BY <1>1, <1>2, <1>3, <1>4, <1>5 DEF Next

LEMMA SpentGrows ==
    ASSUME SpentOK, [Next]_vars, NEW k \in Kinds
    PROVE  spent'[k] >= spent[k]
<1>1. CASE UNCHANGED spent
  BY <1>1 DEF SpentOK
<1>2. CASE \E j \in Kinds : Spend(j)
  BY <1>2, SpendTyped
<1> QED BY <1>1, <1>2, SpendsOnly

LEMMA SpentStep == SpentOK /\ [Next]_vars => SpentOK'
<1> SUFFICES ASSUME SpentOK, [Next]_vars PROVE SpentOK'
  OBVIOUS
<1>1. CASE UNCHANGED spent
  BY <1>1 DEF SpentOK
<1>2. CASE \E k \in Kinds : Spend(k)
  BY <1>2, SpendTyped
<1> QED BY <1>1, <1>2, SpendsOnly

LEMMA ListerTypeStep == TypeOK /\ [Next]_vars => ListerOK'
<1> SUFFICES ASSUME TypeOK, [Next]_vars PROVE ListerOK'
  OBVIOUS
<1> USE DEF TypeOK, ListerOK
<1>1. CASE BeginScan
  BY <1>1 DEF BeginScan
<1>2. ASSUME NEW d \in Docs, SkipFile(d) PROVE ListerOK'
  BY <1>2 DEF SkipFile
<1>3. ASSUME NEW d \in Docs, ReadRecord(d) PROVE ListerOK'
  BY <1>3 DEF ReadRecord, StoresOK
<1>4. CASE Publish
  BY <1>4 DEF Publish
<1>5. CASE StatFile
  <2>1. disk[ldoc] \in 0..MaxVersion
    BY <1>5 DEF StatFile, StoresOK
  <2> QED BY <1>5, <2>1, RecordTypes DEF StatFile, ListerIdle
<1>6. CASE StatMissing
  BY <1>6, RecordTypes DEF StatMissing, ListerIdle
<1>7. CASE StoreRecord
  BY <1>7, RecordTypes DEF StoreRecord, ListerIdle
<1>8. CASE AbortScan
  BY <1>8, RecordTypes DEF AbortScan, ListerIdle
<1>9. CASE UNCHANGED listerVars
  BY <1>9 DEF listerVars
<1> QED
  BY <1>1, <1>2, <1>3, <1>4, <1>5, <1>6, <1>7, <1>8, <1>9,
     IndexerFrame, AdminFrame, LibraryFrame
  DEF Next, ListerNext, ListerStep, vars

LEMMA StoresTypeStep == TypeOK /\ [Next]_vars => StoresOK'
<1> SUFFICES ASSUME TypeOK, [Next]_vars PROVE StoresOK'
  OBVIOUS
<1> USE DEF TypeOK
<1>0. MaxVersion \in Nat /\ MaxChunks \in Nat /\ 0 \in 0..MaxVersion
  BY ConstantsOK DEF MaxVersion, Kinds
<1>1. disk' \in [Docs -> 0..MaxVersion]
  <2> USE DEF StoresOK
  <2>1. ASSUME NEW d \in Docs, WriteFile(d) \/ UploadWrite(d) PROVE disk' \in [Docs -> 0..MaxVersion]
    <3>1. NewVersion \in 0..MaxVersion
      BY <2>1, NewVersionTyped DEF WriteFile, UploadWrite, Spend
    <3> QED BY <2>1, <3>1 DEF WriteFile, UploadWrite
  <2>2. ASSUME NEW d \in Docs, RemoveFile(d) PROVE disk' \in [Docs -> 0..MaxVersion]
    BY <2>2, <1>0 DEF RemoveFile
  <2>3. CASE UploadPublish \/ UploadFails
    BY <2>3, <1>0 DEF UploadPublish, UploadFails
  <2>4. CASE UNCHANGED disk
    BY <2>4
  <2> QED
    BY <2>1, <2>2, <2>3, <2>4, ListerFrame, IndexerFrame, AdminFrame
    DEF Next, LibraryNext, vars
<1>2. queue' \in Seq(Docs)
  <2>0. queue \in Seq(Docs)
    BY DEF StoresOK
  <2>1. CASE Publish
    BY <2>0, <2>1 DEF Publish, ListerOK
  <2>2. CASE Deliver
    BY <2>0, <2>2 DEF Deliver
  <2>3. CASE Disconnect \/ Crash
    <3>1. queue' \in {queue, <<idoc>> \o queue} /\ (queue' = queue \/ idoc \in Docs)
      BY <2>3 DEF Disconnect, Crash, IndexerOK
    <3>2. CASE queue' = queue
      BY <2>0, <3>2
    <3>3. CASE queue' = <<idoc>> \o queue /\ idoc \in Docs
      <4>1. <<idoc>> \in Seq(Docs)
        BY <3>3
      <4> QED BY <2>0, <3>3, <4>1, ConcatProperties
    <3> QED BY <3>1, <3>2, <3>3
  <2>4. CASE UploadPublish
    BY <2>0, <2>4 DEF UploadPublish, AdminOK
  <2> QED BY <2>0, <2>1, <2>2, <2>3, <2>4, QueueWriters
<1>3. rec' \in [Docs -> Record]
  <2> USE DEF StoresOK
  <2>1. CASE StoreRecord
    BY <2>1 DEF StoreRecord, ListerOK
  <2>2. CASE StoreState \/ StoreRetried
    BY <2>2 DEF StoreState, StoreRetried, IndexerOK
  <2>3. CASE BulkDelete
    BY <2>3, RecordTypes DEF BulkDelete
  <2>4. ASSUME NEW d \in Docs, ForgetRecord(d) \/ ReindexWipe(d) PROVE rec' \in [Docs -> Record]
    BY <2>4, RecordTypes DEF ForgetRecord, ReindexWipe
  <2> QED BY <2>1, <2>2, <2>3, <2>4, RecordWriters
<1>4. parent' \in [Docs -> 0..MaxVersion] /\ chunk' \in [Docs -> [1..MaxChunks -> 0..MaxVersion]]
  <2> USE DEF StoresOK
  <2>1. CASE PostText
    <3>1. idoc \in Docs
      BY <2>1 DEF PostText, IndexerOK
    <3>2. disk[idoc] \in 0..MaxVersion
      BY <3>1
    <3> QED BY <2>1, <3>1, <3>2 DEF PostText
  <2>2. CASE PostChunks
    <3>1. iver \in 0..MaxVersion /\ UNCHANGED parent
      BY <2>2 DEF PostChunks, IndexerOK
    <3>2. chunk' = [chunk EXCEPT ![idoc] =
                      [i \in 1..MaxChunks |-> IF i \in Batch THEN iver ELSE chunk[idoc][i]]]
      BY <2>2 DEF PostChunks
    <3>3. idoc \in Docs
      BY <2>2 DEF PostChunks, IndexerOK
    <3>4. [i \in 1..MaxChunks |-> IF i \in Batch THEN iver ELSE chunk[idoc][i]]
             \in [1..MaxChunks -> 0..MaxVersion]
      BY <3>1, <3>3
    <3> QED BY <3>1, <3>2, <3>3, <3>4
  <2>3. CASE ReindexSolr
    BY <2>3, <1>0 DEF ReindexSolr
  <2> QED BY <2>1, <2>2, <2>3, SolrWriters DEF solrVars
<1> QED BY <1>1, <1>2, <1>3, <1>4 DEF StoresOK

LEMMA IndexerTypeStep == TypeOK /\ [Next]_vars => IndexerOK'
<1> SUFFICES ASSUME TypeOK, [Next]_vars PROVE IndexerOK'
  OBVIOUS
<1> USE DEF TypeOK, IndexerOK, Updates, Failures, PhaseStages
<1>0. MaxVersion \in Nat /\ 0 \in 0..MaxVersion /\ BatchSize \in Nat \ {0}
  BY ConstantsOK DEF MaxVersion, Kinds
<1>a. NoRecord \in Record
  BY RecordTypes
<1>1. CASE Deliver
  <2>1. Head(queue) \in Docs
    BY <1>1 DEF Deliver, StoresOK
  <2> QED BY <1>1, <2>1, ConstantsOK DEF Deliver
<1>2. CASE CheckFile
  BY <1>2, <1>0 DEF CheckFile, Saving
<1>3. CASE PostText \/ PostTextFails
  BY <1>3, <1>0 DEF PostText, PostTextFails, Saving
<1>4. CASE ExtractText
  <2>1. disk[idoc] \in 0..MaxVersion /\ disk[idoc] # 0
    BY <1>4 DEF ExtractText, StoresOK
  <2> QED BY <1>4, <2>1 DEF ExtractText
<1>5. CASE PostChunks
  BY <1>5, <1>0 DEF PostChunks, Saving
<1>6. CASE EmbeddingFails
  BY <1>6, <1>0 DEF EmbeddingFails, Saving
<1>7. CASE ChunksDone
  BY <1>7, <1>0 DEF ChunksDone, Saving
<1>8. CASE LoadState \/ LoadAgain
  <2>1. rec[idoc] \in Record /\ disk[idoc] \in 0..MaxVersion /\ idraft.mtime \in 0..MaxVersion
    BY <1>8 DEF LoadState, LoadAgain, StoresOK, Record
  <2>2. iupd # "none" /\ (iupd = "done" => ChunkCount[iver] \in 0..MaxChunks)
    BY <1>8, ConstantsOK, <1>0 DEF Versions, LoadState, LoadAgain
  <2>3. PICK m \in 0..MaxVersion : idraft' = Merged(m)
    BY <1>8, <2>1 DEF LoadState, LoadAgain
  <2>4. idraft' \in Record
    BY <2>1, <2>2, <2>3, RecordTypes DEF Merged
  <2> QED BY <1>8, <2>4 DEF LoadState, LoadAgain
<1>9. CASE StoreState
  BY <1>9, <1>0, <1>a DEF StoreState, Saving
<1>10. CASE SaveFails
  BY <1>10, <1>0 DEF SaveFails, Saving
<1>14. CASE StoreRetried
  BY <1>14 DEF StoreRetried
<1>11. CASE Ack \/ Crash
  <2>1. IndexerIdle
    BY <1>11, Zenon DEF Ack, Crash
  <2> QED BY <2>1, <1>0, <1>a DEF IndexerIdle
<1>12. CASE Disconnect
  BY <1>12 DEF Disconnect
<1>13. CASE UNCHANGED indexerVars
  BY <1>13 DEF indexerVars
<1> QED
  BY <1>1, <1>2, <1>3, <1>4, <1>5, <1>6, <1>7, <1>8, <1>9, <1>10, <1>11, <1>12,
     <1>13, <1>14, ListerFrame, AdminFrame, LibraryFrame
  DEF Next, IndexerNext, IndexerStep, vars

LEMMA AdminTypeStep == TypeOK /\ [Next]_vars => AdminOK'
<1> SUFFICES ASSUME TypeOK, [Next]_vars PROVE AdminOK'
  OBVIOUS
<1> USE DEF TypeOK, AdminOK
<1>1. CASE AdminNext
  <2>1. UNCHANGED udoc
    BY <1>1, AdminFrame
  <2>2. ASSUME NEW d \in Docs, ForgetRecord(d) \/ BulkRead(d) \/ ReindexWipe(d)
        PROVE  AdminOK'
    BY <2>2 DEF ForgetRecord, BulkRead, ReindexWipe, adminVars
  <2>3. CASE BulkDelete \/ ReindexSolr
    BY <2>3 DEF BulkDelete, ReindexSolr
  <2>4. ASSUME NEW status \in {"failed", "processed"}, BeginBulk(status)
        PROVE  AdminOK'
    BY <2>4 DEF BeginBulk, Known
  <2>5. CASE ReindexScan
    BY <2>5 DEF ReindexScan, Known
  <2>6. CASE AdminDone \/ AdminFails
    BY <2>6 DEF AdminDone, AdminFails, AdminIdle
  <2> QED BY <1>1, <2>2, <2>3, <2>4, <2>5, <2>6 DEF AdminNext, AdminStep
<1>2. CASE LibraryNext
  <2>1. UNCHANGED adminVars
    BY <1>2, LibraryFrame
  <2>2. udoc' \in Docs \cup {NoDoc}
    BY <1>2 DEF LibraryNext, UploadPublish, UploadFails, WriteFile, RemoveFile, UploadWrite
  <2> QED BY <2>1, <2>2 DEF adminVars
<1>3. CASE UNCHANGED <<adminVars, udoc>>
  BY <1>3 DEF adminVars
<1> QED BY <1>1, <1>2, <1>3, ListerFrame, IndexerFrame DEF Next, vars

LEMMA TypeStep == TypeOK /\ [Next]_vars => TypeOK'
BY SpentStep, ListerTypeStep, StoresTypeStep, IndexerTypeStep, AdminTypeStep DEF TypeOK

\* Type correctness: whatever the actors do, every variable has its type; a
\* process at work has a file and no more is spent than the budget.
THEOREM TypeCorrect == Spec => []TypeOK
BY TypeInit, TypeStep, PTL DEF Spec

-----------------------------------------------------------------------------
(* Truthful records.                                                       *)

\* Without a reindex, what is in Solr stays in Solr.
LEMMA SolrKeeps ==
    ASSUME TypeOK, [Next]_vars, spent'["reindex"] = 0
    PROVE  /\ spent["reindex"] = 0
           /\ \A d \in Docs : parent[d] # 0 => parent'[d] # 0
           /\ \A d \in Docs, i \in 1..MaxChunks : chunk[d][i] # 0 => chunk'[d][i] # 0
<1> USE DEF TypeOK
<1>1. spent["reindex"] = 0
  <2>1. spent'["reindex"] >= spent["reindex"] /\ spent["reindex"] \in Nat
    BY SpentGrows DEF SpentOK, Kinds
  <2> QED BY <2>1
<1>2. ~ReindexSolr
  BY <1>1, SpendTyped DEF ReindexSolr, Kinds
<1>3. CASE PostText
  <2>1. idoc \in Docs /\ UNCHANGED chunk
    BY <1>3 DEF PostText, IndexerOK
  <2>2. parent' = [parent EXCEPT ![idoc] = disk[idoc]] /\ disk[idoc] # 0
    BY <1>3 DEF PostText
  <2> QED BY <1>1, <2>1, <2>2 DEF StoresOK
<1>4. CASE PostChunks
  <2>1. idoc \in Docs /\ iver # 0 /\ UNCHANGED parent
    BY <1>4 DEF PostChunks, IndexerOK
  <2>2. chunk' = [chunk EXCEPT ![idoc] =
                    [i \in 1..MaxChunks |-> IF i \in Batch THEN iver ELSE chunk[idoc][i]]]
    BY <1>4 DEF PostChunks
  <2>3. \A d \in Docs, i \in 1..MaxChunks : chunk[d][i] # 0 => chunk'[d][i] # 0
    BY <2>1, <2>2 DEF StoresOK
  <2> QED BY <1>1, <2>1, <2>3
<1>5. CASE UNCHANGED solrVars
  BY <1>1, <1>5 DEF solrVars
<1> QED BY <1>2, <1>3, <1>4, <1>5, SolrWriters

LEMMA BackedKept ==
    ASSUME TypeOK, [Next]_vars, spent'["reindex"] = 0,
           NEW r \in Record, NEW d \in Docs, Backed(r, d)
    PROVE  Backed(r, d)'
<1>1. \A i \in 1..r.chunks : i \in 1..MaxChunks
  BY ConstantsOK DEF Record
<1> QED BY <1>1, SolrKeeps DEF Backed

LEMMA NothingClaimed == ASSUME NEW d PROVE Backed(NoRecord, d) /\ Backed(NoRecord, d)'
BY DEF Backed, NoRecord

LEMMA TruthInit == Init => TruthInv
BY NothingClaimed DEF Init, TruthInv

LEMMA TruthRecords ==
    ASSUME TypeOK, TruthInv, [Next]_vars, spent'["reindex"] = 0, NEW d \in Docs
    PROVE  Backed(rec[d], d)'
<1> USE DEF TypeOK
<1>0. /\ spent["reindex"] = 0
      /\ rec \in [Docs -> Record] /\ lval \in Record /\ idraft \in Record
  BY SolrKeeps DEF StoresOK, ListerOK, IndexerOK
<1>1. \A r \in Record : rec'[d] = r /\ Backed(r, d) => Backed(rec[d], d)'
  BY BackedKept DEF Backed
<1>2. CASE rec'[d] = rec[d]
  BY <1>0, <1>1, <1>2 DEF TruthInv
<1>3. CASE rec'[d] = NoRecord
  BY <1>3 DEF Backed, NoRecord
<1>4. CASE StoreRecord
  <2>1. rec' = [rec EXCEPT ![ldoc] = lval] /\ lpc # "idle"
    BY <1>4 DEF StoreRecord
  <2> QED BY <1>0, <1>1, <1>2, <2>1 DEF TruthInv
<1>5. CASE StoreState \/ StoreRetried
  <2>1. rec' \in {rec, [rec EXCEPT ![idoc] = idraft]} /\ ipc = "store"
    BY <1>5 DEF StoreState, StoreRetried
  <2> QED BY <1>0, <1>1, <1>2, <2>1 DEF TruthInv
<1>6. CASE BulkDelete \/ \E e \in Docs : ForgetRecord(e) \/ ReindexWipe(e)
  <2>1. rec'[d] \in {rec[d], NoRecord}
    BY <1>0, <1>6 DEF BulkDelete, ForgetRecord, ReindexWipe
  <2> QED BY <1>2, <1>3, <2>1
<1> QED BY <1>2, <1>4, <1>5, <1>6, RecordWriters

\* The lister only takes claims back, it never makes one.
LEMMA TruthLister ==
    ASSUME TypeOK, TruthInv, [Next]_vars, spent'["reindex"] = 0, lpc' # "idle"
    PROVE  Backed(lval, ldoc)'
<1> USE DEF TypeOK
<1>0. /\ spent["reindex"] = 0 /\ rec \in [Docs -> Record] /\ lval \in Record
      /\ lpc # "idle" => ldoc \in Docs
  BY SolrKeeps DEF StoresOK, ListerOK
<1>1. ASSUME NEW r \in Record, NEW d \in Docs, Backed(r, d),
             ldoc' = d, lval'.text => r.text, lval'.processed => r.processed,
             lval'.chunks = r.chunks
      PROVE  Backed(lval, ldoc)'
  BY <1>1, BackedKept DEF Backed
<1>2. ASSUME NEW d \in Docs, ReadRecord(d) PROVE Backed(lval, ldoc)'
  BY <1>0, <1>1, <1>2 DEF ReadRecord, TruthInv
<1>3. CASE StatFile
  <2>1. lpc # "idle" /\ UNCHANGED ldoc
    BY <1>3 DEF StatFile, ListerIdle
  <2>2. CASE lval' = [NoRecord EXCEPT !.known = TRUE, !.mtime = disk[ldoc]]
    BY <2>2 DEF Backed, NoRecord
  <2>3. CASE lval' = [lval EXCEPT !.mtime = disk[ldoc], !.processed = FALSE]
    <3>1. lval'.text = lval.text /\ lval'.chunks = lval.chunks /\ ~lval'.processed
      BY <1>0, <2>3 DEF Record
    <3> QED BY <1>0, <1>1, <2>1, <3>1 DEF TruthInv
  <2> QED BY <1>3, <2>2, <2>3 DEF StatFile, ListerIdle
<1>4. CASE lpc # "idle" /\ UNCHANGED <<ldoc, lval>>
  BY <1>0, <1>1, <1>4 DEF TruthInv
<1>5. CASE ListerNext
  <2>1. \/ \E d \in Docs : ReadRecord(d)
        \/ StatFile
        \/ lpc # "idle" /\ UNCHANGED <<ldoc, lval>>
    BY <1>5 DEF ListerNext, ListerStep, BeginScan, SkipFile, Publish, StatMissing,
       StoreRecord, AbortScan, ListerIdle
  <2> QED BY <1>2, <1>3, <1>4, <2>1
<1>6. CASE UNCHANGED listerVars
  BY <1>4, <1>6 DEF listerVars
<1> QED BY <1>5, <1>6, IndexerFrame, AdminFrame, LibraryFrame DEF Next, vars

\* What the indexer is about to claim, it has posted.
Posted == /\ ipc = "store" => Backed(idraft, idoc)
          /\ ipc \in {"extract", "chunk"} \/ iupd \in {"phase1", "done"} => parent[idoc] # 0
          /\ ipc = "chunk" => \A i \in 1..ChunkCount[iver] : i < inext => chunk[idoc][i] # 0
          /\ iupd = "done" => \A i \in 1..ChunkCount[iver] : chunk[idoc][i] # 0

LEMMA TruthIndexer ==
    ASSUME TypeOK, TruthInv, [Next]_vars, spent'["reindex"] = 0
    PROVE  Posted'
<1> USE DEF TypeOK
<1>0. /\ spent["reindex"] = 0 /\ Posted
      /\ rec \in [Docs -> Record] /\ idraft \in Record
  BY SolrKeeps DEF StoresOK, IndexerOK, TruthInv, Posted
<1>a. iver # 0 => ChunkCount[iver] \in Nat /\ \A i \in 1..ChunkCount[iver] : i \in 1..MaxChunks
  <2>1. iver # 0 => iver \in Versions
    BY ConstantsOK DEF IndexerOK, Versions, MaxVersion, Kinds
  <2> QED BY <2>1, ConstantsOK
<1>1. CASE Deliver
  BY <1>1 DEF Deliver, Posted, IndexerOK
<1>2. CASE CheckFile \/ PostTextFails \/ EmbeddingFails \/ SaveFails
  <2>1. /\ ipc' \in {"load", "post", "ack"}
        /\ iupd' \in {"unknown", "page_guard", "text_indexing", "embedding_indexing", "none"}
    BY <1>2 DEF CheckFile, PostTextFails, EmbeddingFails, SaveFails, Saving, IndexerOK
  <2> QED BY <2>1 DEF Posted
<1>3. CASE PostText
  <2>1. ipc' = "load" /\ iupd' \in {"phase1", "text_indexing"} /\ UNCHANGED idoc
    BY <1>3 DEF PostText, Saving
  <2>2. parent'[idoc] # 0
    BY <1>3 DEF PostText, IndexerOK, StoresOK
  <2> QED BY <2>1, <2>2 DEF Posted
<1>4. CASE ExtractText
  <2>1. ipc = "extract" /\ ipc' = "chunk" /\ inext' = 1 /\ UNCHANGED <<idoc, iupd, parent>>
    BY <1>4 DEF ExtractText, solrVars
  <2>2. iupd = "none"
    BY <2>1 DEF IndexerOK
  <2> QED BY <1>0, <2>1, <2>2 DEF Posted
<1>5. CASE PostChunks
  <2>1. /\ ipc = "chunk" /\ idoc \in Docs /\ iver # 0 /\ UNCHANGED <<parent, idoc>>
        /\ iupd' \in {"none", "embedding_indexing"} /\ ipc' \in {"chunk", "load"}
    BY <1>5 DEF PostChunks, Saving, IndexerOK
  <2>2. chunk' = [chunk EXCEPT ![idoc] =
                    [i \in 1..MaxChunks |-> IF i \in Batch THEN iver ELSE chunk[idoc][i]]]
    BY <1>5 DEF PostChunks
  <2>3. CASE ipc' = "load"
    BY <1>0, <1>5, <2>1, <2>3 DEF Posted, PostChunks, Saving
  <2>4. CASE ipc' = "chunk"
    <3>1. inext' = inext + BatchSize /\ UNCHANGED <<iver, iupd>>
      BY <1>5, <2>4 DEF PostChunks, Saving
    <3>2. ASSUME NEW i \in 1..ChunkCount[iver], i < inext' PROVE chunk'[idoc][i] # 0
      <4>1. i \in 1..MaxChunks
        BY <1>a, <2>1
      <4>2. i < inext \/ i \in Batch
        <5>1. inext \in Nat /\ BatchSize \in Nat /\ ChunkCount[iver] \in Nat
          BY <1>a, <2>1, ConstantsOK DEF IndexerOK
        <5> QED BY <3>1, <3>2, <5>1 DEF Batch
      <4>3. chunk'[idoc][i] = IF i \in Batch THEN iver ELSE chunk[idoc][i]
        BY <2>1, <2>2, <4>1 DEF StoresOK
      <4> QED BY <1>0, <2>1, <3>2, <4>2, <4>3 DEF Posted
    <3>3. iupd' = "none"
      BY <2>1, <3>1 DEF IndexerOK
    <3> QED BY <1>0, <2>1, <2>4, <3>1, <3>2, <3>3 DEF Posted
  <2> QED BY <2>1, <2>3, <2>4
<1>6. CASE ChunksDone
  <2>1. /\ ipc = "chunk" /\ inext > ChunkCount[iver] /\ ipc' = "load" /\ iupd' = "done"
        /\ UNCHANGED <<iver, idoc, parent, chunk>>
    BY <1>6 DEF ChunksDone, Saving, solrVars
  <2>2. \A i \in 1..ChunkCount[iver] : i < inext
    <3>1. inext \in Nat /\ iver \in Versions
      <4>1. inext \in Nat /\ iver \in 0..MaxVersion /\ iver # 0
        BY <2>1 DEF IndexerOK
      <4>2. MaxVersion \in Nat
        BY ConstantsOK DEF MaxVersion, Kinds
      <4> QED BY <4>1, <4>2 DEF Versions
    <3>2. ChunkCount[iver] \in Nat
      BY <3>1, ConstantsOK, SMTT(40) DEF Versions, MaxVersion, Kinds
    <3> QED BY <2>1, <3>1, <3>2, SMTT(40)
  <2> QED BY <1>0, <2>1, <2>2 DEF Posted
<1>7. CASE LoadState \/ LoadAgain
  <2>1. /\ ipc \in {"load", "again"} /\ ipc' = "store" /\ idoc \in Docs
        /\ UNCHANGED <<idoc, iupd, iver, parent, chunk>>
    BY <1>7 DEF LoadState, LoadAgain, solrVars, IndexerOK
  <2>0. PICK m : idraft' = Merged(m)
    BY <1>7 DEF LoadState, LoadAgain
  <2>2. rec[idoc] \in Record /\ Backed(rec[idoc], idoc)
    BY <1>0, <2>1 DEF TruthInv
  <2>3. Backed(idraft', idoc)
    <3>1. CASE iupd = "phase1"
      <4>1. idraft' = TextIndexed(rec[idoc], m)
        BY <2>0, <3>1 DEF Merged
      <4>2. ~idraft'.processed
        BY <2>2, <4>1 DEF TextIndexed, Record
      <4> QED BY <1>0, <3>1, <4>2 DEF Backed, Posted
    <3>2. CASE iupd = "done"
      <4>1. idraft' = Completed(rec[idoc], ChunkCount[iver])
        BY <2>0, <3>2 DEF Merged
      <4>2. idraft'.chunks = ChunkCount[iver]
        BY <2>2, <4>1 DEF Completed, Record
      <4> QED BY <1>0, <3>2, <4>2 DEF Backed, Posted
    <3>3. CASE iupd \notin {"phase1", "done"}
      <4>1. idraft' = Failed(rec[idoc], iupd, m)
        BY <2>0, <3>3 DEF Merged
      <4>2. ~idraft'.processed /\ idraft'.text = rec[idoc].text
        BY <2>2, <4>1 DEF Failed, Record
      <4> QED BY <2>2, <4>2 DEF Backed
    <3> QED BY <3>1, <3>2, <3>3
  <2> QED BY <1>0, <2>1, <2>3 DEF Posted, Backed
<1>8. CASE StoreState
  <2>1. ipc' \in {"load", "extract", "ack"} /\ iupd' \in {"unknown", "none"}
        /\ (ipc' = "extract" => iupd = "phase1") /\ UNCHANGED <<idoc, parent, chunk>>
    BY <1>8 DEF StoreState, Saving, solrVars
  <2> QED BY <1>0, <2>1 DEF Posted
<1>9. CASE Ack \/ Crash
  <2>1. ipc' = "idle" /\ iupd' = "none"
    BY <1>9 DEF Ack, Crash, IndexerIdle
  <2> QED BY <2>1 DEF Posted
<1>10. CASE UNCHANGED <<ipc, idoc, iver, inext, iupd, idraft>>
  <2>1. ipc = "store" => Backed(idraft, idoc)'
    <3>1. CASE ipc = "store"
      <4>1. idoc \in Docs /\ Backed(idraft, idoc)
        BY <1>0, <3>1 DEF IndexerOK, Posted
      <4>2. \A i \in 1..idraft.chunks : i \in 1..MaxChunks
        BY <1>0, ConstantsOK DEF Record
      <4> QED BY <1>10, <4>1, <4>2, SolrKeeps DEF Backed
    <3> QED BY <3>1
  <2>2. CASE ipc = "idle"
    BY <1>10, <2>2 DEF Posted, IndexerOK
  <2>3. CASE ipc # "idle"
    <3>1. idoc \in Docs
      BY <2>3 DEF IndexerOK
    <3>2. parent[idoc] # 0 => parent'[idoc] # 0
      BY <3>1, SolrKeeps
    <3>3. iver # 0 => \A i \in 1..ChunkCount[iver] : chunk[idoc][i] # 0 => chunk'[idoc][i] # 0
      BY <1>a, <3>1, SolrKeeps
    <3> QED BY <1>0, <1>10, <2>1, <3>2, <3>3 DEF Posted, IndexerOK
  <2> QED BY <2>2, <2>3
<1>13. CASE StoreRetried
  <2>1. ipc' = "again" /\ UNCHANGED <<idoc, iver, iupd, parent, chunk>>
    BY <1>13 DEF StoreRetried, solrVars
  <2> QED BY <1>0, <2>1 DEF Posted
<1>11. CASE IndexerNext
  BY <1>1, <1>2, <1>3, <1>4, <1>5, <1>6, <1>7, <1>8, <1>9, <1>10, <1>11, <1>13
  DEF IndexerNext, IndexerStep, Disconnect
<1>12. CASE UNCHANGED indexerVars
  BY <1>10, <1>12 DEF indexerVars
<1> QED BY <1>11, <1>12, ListerFrame, AdminFrame, LibraryFrame DEF Next, vars

LEMMA TruthStep == TypeOK /\ TruthInv /\ [Next]_vars => TruthInv'
<1> SUFFICES ASSUME TypeOK, TruthInv, [Next]_vars, spent'["reindex"] = 0
             PROVE  TruthInv'
  BY DEF TruthInv
<1>1. \A d \in Docs : Backed(rec[d], d)'
  BY TruthRecords
<1>2. lpc' # "idle" => Backed(lval, ldoc)'
  BY TruthLister
<1>3. Posted'
  BY TruthIndexer
<1> QED BY <1>1, <1>2, <1>3 DEF TruthInv, Posted

\* A tracking record never claims text or chunks that are not in Solr, unless
\* a reindex emptied it: for every library, every interleaving of lister,
\* indexer and admin requests, and any number of crashes and redeliveries.
THEOREM RecordsTruthful == Spec => []ProcessedIsSearchable
<1>1. Init => TypeOK /\ TruthInv
  BY TypeInit, TruthInit
<1>2. TypeOK /\ TruthInv /\ [Next]_vars => (TypeOK /\ TruthInv)'
  BY TypeStep, TruthStep
<1>3. TruthInv => ProcessedIsSearchable
  BY DEF TruthInv, ProcessedIsSearchable
<1> QED BY <1>1, <1>2, <1>3, PTL DEF Spec

-----------------------------------------------------------------------------
(* Text only moves forward.                                                *)

\* Every version in the library or in Solr was given out already, and Solr has
\* no newer text than the library.
FreshInv ==
    /\ \A d \in Docs : disk[d] < NewVersion /\ parent[d] < NewVersion
    /\ \A d \in Docs : disk[d] # 0 => parent[d] <= disk[d]

LEMMA DiskWriters ==
    ASSUME [Next]_vars
    PROVE  UNCHANGED disk \/ UploadFails
             \/ \E d \in Docs : WriteFile(d) \/ RemoveFile(d) \/ UploadWrite(d)
<1>1. CASE LibraryNext
  BY <1>1, Zenon DEF LibraryNext, UploadPublish
<1>2. CASE UNCHANGED vars
  BY <1>2 DEF vars
<1> QED BY <1>1, <1>2, ListerFrame, IndexerFrame, AdminFrame DEF Next

LEMMA VersionsGrow ==
    ASSUME SpentOK, [Next]_vars
    PROVE  /\ NewVersion \in Nat /\ NewVersion >= 1
           /\ NewVersion' \in Nat /\ NewVersion' >= NewVersion
           /\ Spend("write") \/ Spend("upload") => NewVersion' = NewVersion + 1
<1>1. /\ spent["write"] \in Nat /\ spent["upload"] \in Nat
      /\ spent'["write"] \in Nat /\ spent'["upload"] \in Nat
  BY SpentStep DEF SpentOK, Kinds
<1>2. spent'["write"] >= spent["write"] /\ spent'["upload"] >= spent["upload"]
  BY SpentGrows DEF Kinds
<1>3. Spend("write") => spent'["write"] = spent["write"] + 1 /\ spent'["upload"] = spent["upload"]
  BY DEF Spend, SpentOK, Kinds
<1>4. Spend("upload") => spent'["upload"] = spent["upload"] + 1 /\ spent'["write"] = spent["write"]
  BY DEF Spend, SpentOK, Kinds
<1> QED BY <1>1, <1>2, <1>3, <1>4 DEF NewVersion

LEMMA FreshInit == Init => FreshInv
<1> SUFFICES ASSUME Init PROVE FreshInv
  OBVIOUS
<1>1. spent["write"] = 0 /\ spent["upload"] = 0
  BY DEF Init, Kinds
<1>2. \A d \in Docs : disk[d] = 0 /\ parent[d] = 0
  BY DEF Init
<1> QED BY <1>1, <1>2 DEF FreshInv, NewVersion

LEMMA FreshStep == TypeOK /\ FreshInv /\ [Next]_vars => FreshInv'
<1> SUFFICES ASSUME TypeOK, FreshInv, [Next]_vars PROVE FreshInv'
  OBVIOUS
<1>0. /\ NewVersion \in Nat /\ NewVersion >= 1
      /\ NewVersion' \in Nat /\ NewVersion' >= NewVersion
      /\ Spend("write") \/ Spend("upload") => NewVersion' = NewVersion + 1
  BY VersionsGrow DEF TypeOK
<1>1. \A d \in Docs : disk[d] \in Nat /\ parent[d] \in Nat
  BY ConstantsOK DEF TypeOK, StoresOK, MaxVersion, Kinds
<1>2. CASE UNCHANGED parent
  <2>1. ASSUME NEW e \in Docs, WriteFile(e) \/ UploadWrite(e) PROVE FreshInv'
    <3>1. NewVersion' = NewVersion + 1
      BY <1>0, <2>1 DEF WriteFile, UploadWrite
    <3>2. \A d \in Docs : disk'[d] = IF d = e THEN NewVersion ELSE disk[d]
      BY <2>1 DEF WriteFile, UploadWrite, TypeOK, StoresOK
    <3> QED BY <1>0, <1>1, <1>2, <3>1, <3>2 DEF FreshInv
  <2>2. ASSUME NEW e \in Docs \cup {udoc}, disk' = [disk EXCEPT ![e] = 0] PROVE FreshInv'
    <3>1. \A d \in Docs : disk'[d] = IF d = e THEN 0 ELSE disk[d]
      BY <2>2 DEF TypeOK, StoresOK
    <3> QED BY <1>0, <1>1, <1>2, <3>1 DEF FreshInv
  <2>3. CASE UNCHANGED disk
    BY <1>0, <1>1, <1>2, <2>3 DEF FreshInv
  <2> QED BY <2>1, <2>2, <2>3, DiskWriters DEF RemoveFile, UploadFails
<1>3. CASE PostText
  <2>1. idoc \in Docs /\ disk[idoc] # 0 /\ UNCHANGED disk
    BY <1>3 DEF PostText, TypeOK, IndexerOK
  <2>2. \A d \in Docs : parent'[d] = IF d = idoc THEN disk[idoc] ELSE parent[d]
    BY <1>3, <2>1 DEF PostText, TypeOK, StoresOK
  <2> QED BY <1>0, <1>1, <2>1, <2>2 DEF FreshInv
<1>4. CASE PostChunks
  BY <1>2, <1>4 DEF PostChunks
<1>5. CASE ReindexSolr
  <2>1. UNCHANGED disk /\ \A d \in Docs : parent'[d] = 0
    BY <1>5 DEF ReindexSolr
  <2> QED BY <1>0, <1>1, <2>1 DEF FreshInv
<1> QED BY <1>2, <1>3, <1>4, <1>5, SolrWriters DEF solrVars

LEMMA ForwardStep ==
    TypeOK /\ FreshInv /\ [Next]_vars =>
      [\A d \in Docs : parent'[d] >= parent[d] \/ spent'["reindex"] > spent["reindex"]]_vars
<1> SUFFICES ASSUME TypeOK, FreshInv, [Next]_vars, NEW d \in Docs
             PROVE  parent'[d] >= parent[d] \/ spent'["reindex"] > spent["reindex"]
  OBVIOUS
<1>1. disk[d] \in Nat /\ parent[d] \in Nat
  BY ConstantsOK DEF TypeOK, StoresOK, MaxVersion, Kinds
<1>2. CASE UNCHANGED parent
  BY <1>1, <1>2
<1>3. CASE PostText
  <2>1. idoc \in Docs /\ disk[idoc] # 0
    BY <1>3 DEF PostText, TypeOK, IndexerOK
  <2>2. parent'[d] = IF d = idoc THEN disk[d] ELSE parent[d]
    BY <1>3, <2>1 DEF PostText, TypeOK, StoresOK
  <2> QED BY <1>1, <2>1, <2>2 DEF FreshInv
<1>4. CASE PostChunks
  BY <1>2, <1>4 DEF PostChunks
<1>5. CASE ReindexSolr
  <2>1. spent'["reindex"] = spent["reindex"] + 1 /\ spent["reindex"] \in Nat
    BY <1>5, SpendTyped DEF ReindexSolr, Kinds, TypeOK, SpentOK
  <2> QED BY <2>1
<1> QED BY <1>2, <1>3, <1>4, <1>5, SolrWriters DEF solrVars

\* No redelivery, duplicate message or late retry brings an older text of a file
\* back into Solr; only a reindex takes text away.
THEOREM TextMovesForward == Spec => TextNeverRegresses
<1>1. Spec => []FreshInv
  BY FreshInit, FreshStep, TypeCorrect, PTL DEF Spec
<1> QED BY <1>1, ForwardStep, TypeCorrect, PTL DEF Spec, TextNeverRegresses

-----------------------------------------------------------------------------
(* Messages of a queue.                                                    *)

Copies(q, d) == Cardinality({i \in DOMAIN q : q[i] = d})

LEMMA CopiesNat ==
    ASSUME NEW q \in Seq(Docs), NEW d
    PROVE  /\ IsFiniteSet({i \in DOMAIN q : q[i] = d}) /\ Copies(q, d) \in Nat
           /\ (\E i \in DOMAIN q : q[i] = d) => Copies(q, d) >= 1
<1> DEFINE S == {i \in DOMAIN q : q[i] = d}
<1>1. S \in SUBSET (1..Len(q)) /\ Len(q) \in Nat
  OBVIOUS
<1>2. IsFiniteSet(1..Len(q))
  BY <1>1, FS_Interval
<1>3. IsFiniteSet(S)
  BY <1>1, <1>2, FS_Subset
<1>4. Cardinality(S) \in Nat /\ (Cardinality(S) = 0 <=> S = {})
  BY <1>3, FS_CardinalityType, FS_EmptySet
<1> QED BY <1>3, <1>4 DEF Copies

\* The head of a queue is one of its messages.
LEMMA CopiesTail ==
    ASSUME NEW q \in Seq(Docs), q # <<>>, NEW d
    PROVE  Copies(q, d) = Copies(Tail(q), d) + (IF Head(q) = d THEN 1 ELSE 0)
<1> DEFINE S == {i \in DOMAIN q : q[i] = d}
           T == {i \in DOMAIN Tail(q) : Tail(q)[i] = d}
           f == [i \in T |-> i + 1]
<1>1. /\ Len(q) \in Nat /\ Len(q) >= 1 /\ DOMAIN q = 1..Len(q) /\ Head(q) = q[1]
      /\ DOMAIN Tail(q) = 1..(Len(q) - 1) /\ Tail(q) \in Seq(Docs)
      /\ \A i \in 1..(Len(q) - 1) : Tail(q)[i] = q[i + 1]
  OBVIOUS
<1>2. IsFiniteSet(S) /\ IsFiniteSet(T) /\ Cardinality(T) \in Nat
  BY <1>1, CopiesNat DEF Copies
<1>3. f \in Injection(T, S \ {1})
  <2>1. \A i \in T : i \in 1..(Len(q) - 1) /\ q[i + 1] = d
    BY <1>1
  <2>2. \A i \in T : i + 1 \in S \ {1}
    BY <1>1, <2>1
  <2>3. \A i, j \in T : i + 1 = j + 1 => i = j
    BY <2>1
  <2> HIDE DEF S, T
  <2> QED BY <2>2, <2>3 DEF Injection, IsInjective
<1>4. f \in Surjection(T, S \ {1})
  <2>1. ASSUME NEW k \in S \ {1} PROVE \E i \in T : f[i] = k
    <3>1. k \in 2..Len(q) /\ q[k] = d
      BY <1>1
    <3>2. k - 1 \in T
      <4>1. k - 1 \in 1..(Len(q) - 1) /\ (k - 1) + 1 = k
        BY <1>1, <3>1
      <4> QED BY <1>1, <3>1, <4>1
    <3>3. f[k - 1] = k
      BY <3>1, <3>2
    <3> QED BY <3>2, <3>3
  <2>2. f \in [T -> S \ {1}]
    BY <1>3 DEF Injection
  <2> HIDE DEF S, T, f
  <2> QED BY <2>1, <2>2 DEF Surjection
<1>5. Cardinality(S \ {1}) = Cardinality(T)
  <2>1. f \in Bijection(T, S \ {1})
    <3> HIDE DEF S, T, f
    <3> QED BY <1>3, <1>4 DEF Bijection
  <2>2. ExistsBijection(T, S \ {1})
    <3> HIDE DEF S, T, f
    <3> QED BY <2>1 DEF ExistsBijection
  <2> HIDE DEF S, T, f
  <2> QED BY <1>2, <2>2, FS_Bijection
<1>6. Cardinality(S \ {1}) = IF 1 \in S THEN Cardinality(S) - 1 ELSE Cardinality(S)
  <2> HIDE DEF S
  <2> QED BY <1>2, FS_RemoveElement
<1>7. 1 \in S <=> Head(q) = d
  BY <1>1
<1>8. Cardinality(S) \in Nat
  <2> HIDE DEF S
  <2> QED BY <1>2, FS_CardinalityType
<1>9. Copies(q, d) = Cardinality(S) /\ Copies(Tail(q), d) = Cardinality(T)
  BY DEF Copies
<1> HIDE DEF S, T
<1> QED BY <1>2, <1>5, <1>6, <1>7, <1>8, <1>9

\* A message that is put back in front.
LEMMA CopiesPush ==
    ASSUME NEW q \in Seq(Docs), NEW x \in Docs, NEW d
    PROVE  Copies(<<x>> \o q, d) = Copies(q, d) + (IF x = d THEN 1 ELSE 0)
<1> DEFINE p == <<x>> \o q
<1>1. p \in Seq(Docs) /\ p # <<>> /\ Head(p) = x /\ Tail(p) = q
  OBVIOUS
<1> HIDE DEF p
<1>2. Copies(p, d) = Copies(q, d) + (IF x = d THEN 1 ELSE 0)
  BY <1>1, CopiesTail
<1> QED BY <1>2 DEF p

\* A message that is published.
LEMMA CopiesAppend ==
    ASSUME NEW q \in Seq(Docs), NEW x \in Docs, NEW d
    PROVE  Copies(Append(q, x), d) = Copies(q, d) + (IF x = d THEN 1 ELSE 0)
<1> DEFINE n == Len(q) + 1
           S == {i \in DOMAIN q : q[i] = d}
           T == {i \in DOMAIN Append(q, x) : Append(q, x)[i] = d}
<1>1. /\ Len(q) \in Nat /\ DOMAIN q = 1..Len(q) /\ DOMAIN Append(q, x) = 1..n
      /\ Append(q, x)[n] = x /\ \A i \in 1..Len(q) : Append(q, x)[i] = q[i]
  OBVIOUS
<1>2. T = IF x = d THEN S \cup {n} ELSE S
  <2>1. \A i \in 1..n : i \in 1..Len(q) \/ i = n
    BY <1>1
  <2>2. \A i \in 1..Len(q) : i \in 1..n /\ i # n
    BY <1>1
  <2>3. n \in 1..n
    BY <1>1
  <2>4. \A i \in T : i \in S \/ (i = n /\ x = d)
    <3>1. \A i \in T : i \in 1..n /\ Append(q, x)[i] = d
      BY <1>1
    <3>2. \A i \in 1..Len(q) : Append(q, x)[i] = d => i \in S
      BY <1>1
    <3> HIDE DEF S, T, n
    <3> QED BY <1>1, <2>1, <3>1, <3>2
  <2>5. S \subseteq T
    BY <1>1, <2>2
  <2>6. x = d => n \in T
    BY <1>1, <2>3
  <2> HIDE DEF S, T, n
  <2> QED BY <2>4, <2>5, <2>6
<1>3. n \notin S
  BY <1>1
<1>4. IsFiniteSet(S) /\ Cardinality(S) \in Nat
  BY CopiesNat DEF Copies
<1>5. Copies(q, d) = Cardinality(S) /\ Copies(Append(q, x), d) = Cardinality(T)
  BY DEF Copies
<1> HIDE DEF S, T, n
<1>6. Cardinality(S \cup {n}) = Cardinality(S) + 1
  BY <1>3, <1>4, FS_AddElement
<1>7. CASE x = d
  BY <1>2, <1>5, <1>6, <1>7
<1>8. CASE x # d
  BY <1>2, <1>4, <1>5, <1>8
<1> QED BY <1>7, <1>8

-----------------------------------------------------------------------------
(* Duplicates are paid for.                                                *)

\* A delivery the indexer has not finished, whether the broker still waits for its
\* acknowledgement or has put it back already.
Working(d) == IF idoc = d /\ ipc \notin {"idle", "ack"} THEN 1 ELSE 0

\* A record on which the lister publishes the file (again).
Open(r) == ~r.known \/ r.processed

\* What the lister may still publish: it holds a file to publish, or it will find
\* the record open.  A record it is about to close does not count, nor does the
\* record of a new file that it is about to look at; the second message is that of
\* a new file that is gone before it was looked at.
Publishable(d) ==
    IF ldoc = d /\ lpc = "publish" THEN (IF ~lval.known /\ disk[d] = 0 THEN 2 ELSE 1)
    ELSE IF ldoc = d /\ lpc = "stat" /\ lval.known /\ lval.processed THEN 1
    ELSE IF ldoc = d /\ (lpc = "store" \/ (lpc = "stat" /\ ~lval.known /\ disk[d] # 0)) THEN 0
    ELSE IF Open(rec[d]) THEN 1 ELSE 0

\* An admin request that may still delete the record, an upload not published yet.
Deletable(d) == IF apc = "scan" \/ d \in atodo \/ adoc = d THEN 1 ELSE 0
Uploading(d) == IF udoc = d THEN 1 ELSE 0

Paid == spent["crash"] + spent["abort"] + spent["forget"]
          + spent["reindex"] + spent["upload"] + spent["remove"] + spent["retry"]

\* Everything that is a message for d, or may become one.
Due(d) == Copies(queue, d) + Working(d) + Publishable(d) + Deletable(d) + Uploading(d)

DuePaid == \A d \in Docs : Due(d) <= 1 + Paid

\* The lister only ever stores a record that it closes, and the indexer one that is
\* not processed, unless it is done.
DraftsClose ==
    /\ lpc = "store" => lval.known /\ ~lval.processed
    /\ lpc = "publish" /\ lval.known => ~lval.processed
    /\ ipc = "store" /\ iupd # "done" => idraft.known /\ ~idraft.processed

\* A bulk request deletes each record once.
BulkOnce == adoc # NoDoc => apc \in {"failed", "processed"} /\ adoc \notin atodo

LEMMA DueTyped ==
    ASSUME TypeOK, [Next]_vars, NEW d
    PROVE  /\ Copies(queue, d) \in Nat /\ Working(d) \in {0, 1} /\ Publishable(d) \in {0, 1, 2}
           /\ Deletable(d) \in {0, 1} /\ Uploading(d) \in {0, 1}
           /\ Copies(queue, d)' \in Nat /\ Working(d)' \in {0, 1} /\ Publishable(d)' \in {0, 1, 2}
           /\ Deletable(d)' \in {0, 1} /\ Uploading(d)' \in {0, 1}
           /\ UNCHANGED queue => Copies(queue, d)' = Copies(queue, d)
<1>1. queue \in Seq(Docs) /\ queue' \in Seq(Docs)
  BY TypeStep DEF TypeOK, StoresOK
<1>2. Copies(queue, d) \in Nat /\ Copies(queue', d) \in Nat
  BY <1>1, CopiesNat
<1>3. Copies(queue, d)' = Copies(queue', d)
  BY DEF Copies
<1> QED BY <1>2, <1>3 DEF Working, Publishable, Deletable, Uploading

\* Every event is counted.
LEMMA PaidSteps ==
    ASSUME TypeOK, [Next]_vars
    PROVE  /\ Paid \in Nat /\ Paid' \in Nat /\ Paid' >= Paid
           /\ \A k \in {"crash", "abort", "forget", "reindex", "upload", "remove", "retry"} :
                 Spend(k) => Paid' = Paid + 1
<1>1. /\ spent \in [Kinds -> Nat] /\ spent' \in [Kinds -> Nat]
      /\ \A k \in Kinds : spent'[k] >= spent[k]
  BY SpentStep, SpentGrows DEF TypeOK, SpentOK
<1>2. Paid \in Nat /\ Paid' \in Nat /\ Paid' >= Paid
  BY <1>1 DEF Paid, Kinds
<1>3. ASSUME NEW k \in {"crash", "abort", "forget", "reindex", "upload", "remove", "retry"}, Spend(k)
      PROVE  Paid' = Paid + 1
  <2>1. \A j \in Kinds : spent'[j] = IF j = k THEN spent[j] + 1 ELSE spent[j]
    BY <1>1, <1>3 DEF Spend
  <2> QED BY <1>1, <2>1 DEF Paid, Kinds
<1> QED BY <1>2, <1>3

\* What the lister may publish of d only depends on d.
LEMMA PublishableFrame ==
    ASSUME TypeOK, NEW d \in Docs, UNCHANGED listerVars
    PROVE  /\ (Open(rec'[d]) => Open(rec[d])) /\ (disk'[d] # disk[d] => disk'[d] # 0)
                 => Publishable(d)' <= Publishable(d)
           /\ disk'[d] = disk[d] \/ rec'[d] = rec[d] => Publishable(d)' <= Publishable(d) + 1
  BY DEF listerVars, Publishable, Open

LEMMA DraftsStep == TypeOK /\ DraftsClose /\ [Next]_vars => DraftsClose'
<1> SUFFICES ASSUME TypeOK, DraftsClose, [Next]_vars PROVE DraftsClose'
  OBVIOUS
<1> USE DEF TypeOK
<1>1. ListerNext \/ UNCHANGED listerVars
  BY IndexerFrame, AdminFrame, LibraryFrame DEF Next, vars
<1>2. IndexerNext \/ UNCHANGED indexerVars
  BY ListerFrame, AdminFrame, LibraryFrame DEF Next, vars
<1>3. /\ lpc' = "store" => lval'.known /\ ~lval'.processed
      /\ lpc' = "publish" /\ lval'.known => ~lval'.processed
  <2>1. CASE UNCHANGED listerVars
    BY <2>1 DEF listerVars, DraftsClose
  <2>2. CASE StatFile
    <3>1. lval \in Record /\ NoRecord \in Record
      BY RecordTypes DEF ListerOK
    <3>2. ~NoRecord.processed
      BY DEF NoRecord
    <3>3. CASE ~lval.known /\ lval' = [NoRecord EXCEPT !.known = TRUE, !.mtime = disk[ldoc]]
      <4>1. lval'.known /\ ~lval'.processed
        BY <3>1, <3>2, <3>3 DEF Record
      <4> QED BY <4>1
    <3>4. CASE lval.known /\ lval' = [lval EXCEPT !.mtime = disk[ldoc], !.processed = FALSE]
      <4>1. ~lval'.processed /\ lval'.known
        BY <3>1, <3>4 DEF Record
      <4> QED BY <4>1
    <3>5. CASE ListerIdle
      BY <3>5 DEF ListerIdle
    <3> QED BY <2>2, <3>3, <3>4, <3>5 DEF StatFile
  <2>3. CASE Publish
    BY <2>3 DEF Publish, DraftsClose
  <2>4. ASSUME NEW d \in Docs, ReadRecord(d)
        PROVE  /\ lpc' = "store" => lval'.known /\ ~lval'.processed
               /\ lpc' = "publish" /\ lval'.known => ~lval'.processed
    BY <2>4 DEF ReadRecord
  <2>5. CASE StatMissing \/ StoreRecord \/ AbortScan \/ BeginScan \/ \E d \in Docs : SkipFile(d)
    <3>1. lpc' = "idle"
      BY <2>5 DEF StatMissing, StoreRecord, AbortScan, ListerIdle, BeginScan, SkipFile
    <3> QED BY <3>1
  <2> QED BY <1>1, <2>1, <2>2, <2>3, <2>4, <2>5 DEF ListerNext, ListerStep
<1>4. ipc' = "store" /\ iupd' # "done" => idraft'.known /\ ~idraft'.processed
  <2>1. CASE UNCHANGED indexerVars
    BY <2>1 DEF indexerVars, DraftsClose
  <2>2. CASE LoadState \/ LoadAgain
    <3>1. rec[idoc] \in Record /\ UNCHANGED iupd
      BY <2>2 DEF LoadState, LoadAgain, IndexerOK, StoresOK
    <3>0. PICK m : idraft' = Merged(m)
      BY <2>2 DEF LoadState, LoadAgain
    <3>2. CASE iupd = "phase1"
      <4>1. idraft' = TextIndexed(rec[idoc], m)
        BY <3>0, <3>2 DEF Merged
      <4> QED BY <3>1, <4>1 DEF TextIndexed, Record
    <3>3. CASE iupd \notin {"phase1", "done"}
      <4>1. idraft' = Failed(rec[idoc], iupd, m)
        BY <3>0, <3>3 DEF Merged
      <4> QED BY <3>1, <4>1 DEF Failed, Record
    <3> QED BY <3>1, <3>2, <3>3
  <2>3. CASE IndexerNext /\ ~LoadState /\ ~LoadAgain /\ ~Disconnect
    <3>1. ipc' # "store"
      BY <2>3 DEF IndexerNext, IndexerStep, Deliver, CheckFile, PostText, PostTextFails, ExtractText,
                  PostChunks, EmbeddingFails, ChunksDone, StoreState, StoreRetried, SaveFails, Ack, Crash, Saving, IndexerIdle
    <3> QED BY <3>1
  <2>4. CASE Disconnect
    BY <2>4 DEF Disconnect, DraftsClose
  <2> QED BY <1>2, <2>1, <2>2, <2>3, <2>4
<1> QED BY <1>3, <1>4 DEF DraftsClose

LEMMA BulkStep == TypeOK /\ BulkOnce /\ [Next]_vars => BulkOnce'
<1> SUFFICES ASSUME TypeOK, BulkOnce, [Next]_vars PROVE BulkOnce'
  OBVIOUS
<1>1. CASE UNCHANGED adminVars
  BY <1>1 DEF adminVars, BulkOnce
<1>2. CASE AdminNext
  BY <1>2 DEF AdminNext, AdminStep, ForgetRecord, BeginBulk, BulkRead, BulkDelete, ReindexSolr, ReindexScan,
              ReindexWipe, AdminDone, AdminFails, AdminIdle, BulkOnce, adminVars
<1> QED BY <1>1, <1>2, ListerFrame, IndexerFrame, LibraryFrame DEF Next, vars

\* One lemma per process: what becomes due is paid for.
LEMMA DueLister ==
    ASSUME TypeOK, DraftsClose, ListerNext, [Next]_vars, NEW d \in Docs
    PROVE  Due(d)' <= Due(d) + (Paid' - Paid)
<1> USE DEF TypeOK
<1>1. /\ UNCHANGED disk /\ Working(d)' = Working(d) /\ Deletable(d)' = Deletable(d) /\ Uploading(d)' = Uploading(d)
  BY ListerFrame DEF indexerVars, adminVars, Working, Deletable, Uploading
<1>2. /\ Copies(queue, d) \in Nat /\ Working(d) \in {0, 1} /\ Publishable(d) \in {0, 1, 2}
      /\ Deletable(d) \in {0, 1} /\ Uploading(d) \in {0, 1}
      /\ Copies(queue, d)' \in Nat /\ Publishable(d)' \in {0, 1, 2}
  BY DueTyped
<1>3. Paid \in Nat /\ Paid' \in Nat /\ Paid' >= Paid
  BY PaidSteps
<1>4. SUFFICES Copies(queue, d)' + Publishable(d)' <= Copies(queue, d) + Publishable(d) + (Paid' - Paid)
  BY <1>1, <1>2, <1>3 DEF Due
<1>a. ASSUME UNCHANGED queue PROVE Copies(queue, d)' = Copies(queue, d)
  BY <1>a DEF Copies
<1>b. /\ lpc = "idle" => ldoc # d
      /\ rec[d] \in Record /\ lval \in Record
  BY ConstantsOK DEF ListerOK, StoresOK
<1>5. CASE BeginScan \/ \E e \in Docs : SkipFile(e)
  <2>1. Publishable(d)' = Publishable(d) /\ UNCHANGED queue
    BY <1>5 DEF BeginScan, SkipFile, Publishable
  <2> QED BY <1>2, <1>3, <1>a, <2>1
<1>6. ASSUME NEW e \in Docs, ReadRecord(e)
      PROVE  Copies(queue, d)' + Publishable(d)' <= Copies(queue, d) + Publishable(d) + (Paid' - Paid)
  <2>1. UNCHANGED <<queue, rec, disk>> /\ lpc = "idle" /\ disk[e] # 0 /\ ldoc' = e /\ lval' = rec[e]
        /\ lpc' = IF rec[e].known THEN "stat" ELSE "publish"
    BY <1>6 DEF ReadRecord
  <2>2. Publishable(d) = IF Open(rec[d]) THEN 1 ELSE 0
    BY <1>b, <2>1 DEF Publishable
  <2>3. Publishable(d)' = IF Open(rec[d]) THEN 1 ELSE 0
    BY <2>1 DEF Publishable, Open
  <2> QED BY <1>2, <1>3, <1>a, <2>1, <2>2, <2>3
<1>7. CASE Publish
  <2>1. /\ lpc = "publish" /\ lpc' = IF lval.known THEN "store" ELSE "stat"
        /\ UNCHANGED <<rec, disk, ldoc, lval>> /\ ldoc \in Docs
    BY <1>7 DEF Publish, ListerOK
  <2>2. Copies(queue, d)' <= Copies(queue, d) + (IF ldoc = d THEN 1 ELSE 0)
    <3>1. CASE UNCHANGED queue
      BY <1>2, <1>a, <3>1
    <3>2. CASE queue' = Append(queue, ldoc)
      <4>1. Copies(queue', d) = Copies(queue, d) + (IF ldoc = d THEN 1 ELSE 0)
        BY <2>1, <3>2, CopiesAppend DEF StoresOK
      <4> QED BY <1>2, <4>1 DEF Copies
    <3> QED BY <1>7, <3>1, <3>2 DEF Publish
  <2>3. CASE ldoc # d
    <3>1. Publishable(d)' = Publishable(d)
      BY <2>1, <2>3 DEF Publishable
    <3> QED BY <1>2, <1>3, <2>2, <2>3, <3>1
  <2>4. CASE ldoc = d
    <3>1. Publishable(d)' + 1 <= Publishable(d)
      BY <2>1, <2>4 DEF Publishable
    <3> QED BY <1>2, <1>3, <2>2, <2>4, <3>1
  <2> QED BY <2>3, <2>4
<1>8. CASE StatFile
  <2>1. /\ lpc = "stat" /\ UNCHANGED <<rec, disk, queue>> /\ disk[ldoc] # 0
        /\ \/ ~lval.known /\ lpc' = "store" /\ UNCHANGED ldoc
           \/ lval.known /\ lpc' = (IF lval.processed THEN "publish" ELSE "store") /\ UNCHANGED ldoc
              /\ (lpc' = "publish" => lval'.known)
           \/ lval.known /\ ldoc' = NoDoc /\ lpc' = "idle"
    <3>1. lval' = [lval EXCEPT !.mtime = disk[ldoc], !.processed = FALSE] => lval'.known = lval.known
      BY <1>b DEF Record
    <3> QED BY <1>8, <3>1 DEF StatFile, ListerIdle
  <2>2. Publishable(d)' <= Publishable(d)
    <3>1. CASE ldoc # d
      <4>1. ldoc' # d
        BY <2>1, <3>1, ConstantsOK
      <4> QED BY <2>1, <3>1, <4>1 DEF Publishable
    <3>2. CASE ldoc = d
      BY <2>1, <3>2, ConstantsOK DEF Publishable, Open
    <3> QED BY <3>1, <3>2
  <2> QED BY <1>2, <1>3, <1>a, <2>1, <2>2
<1>9. CASE StatMissing
  <2>1. lpc = "stat" /\ disk[ldoc] = 0 /\ UNCHANGED <<rec, disk, queue>> /\ ldoc' = NoDoc /\ lpc' = "idle"
    BY <1>9 DEF StatMissing, ListerIdle
  <2>2. Publishable(d)' <= Publishable(d)
    BY <2>1, ConstantsOK DEF Publishable, Open
  <2> QED BY <1>2, <1>3, <1>a, <2>1, <2>2
<1>10. CASE StoreRecord
  <2>1. /\ lpc = "store" /\ UNCHANGED <<disk, queue>> /\ ldoc' = NoDoc /\ lpc' = "idle"
        /\ rec' = [rec EXCEPT ![ldoc] = lval] /\ ldoc \in Docs /\ lval.known /\ ~lval.processed
    BY <1>10 DEF StoreRecord, ListerIdle, ListerOK, DraftsClose
  <2>2. rec'[d] = IF ldoc = d THEN lval ELSE rec[d]
    BY <2>1 DEF StoresOK
  <2>3. Publishable(d)' <= Publishable(d)
    BY <2>1, <2>2, ConstantsOK DEF Publishable, Open
  <2> QED BY <1>2, <1>3, <1>a, <2>1, <2>3
<1>11. CASE AbortScan
  <2>1. UNCHANGED <<queue, disk, rec>> /\ ldoc' = NoDoc /\ lpc' = "idle" /\ Paid' = Paid + 1
    BY <1>11, PaidSteps DEF AbortScan, ListerIdle
  <2>2. Publishable(d)' <= 1
    BY <2>1, ConstantsOK DEF Publishable
  <2> QED BY <1>2, <1>3, <1>a, <2>1, <2>2
<1> QED BY <1>5, <1>6, <1>7, <1>8, <1>9, <1>10, <1>11 DEF ListerNext, ListerStep

LEMMA DueIndexer ==
    ASSUME TypeOK, DraftsClose, IndexerNext, [Next]_vars, NEW d \in Docs
    PROVE  Due(d)' <= Due(d) + (Paid' - Paid)
<1> USE DEF TypeOK
<1> DEFINE Goal == Copies(queue, d)' + Working(d)' + Publishable(d)'
                     <= Copies(queue, d) + Working(d) + Publishable(d) + (Paid' - Paid)
<1>1. UNCHANGED <<disk, listerVars>> /\ Deletable(d)' = Deletable(d) /\ Uploading(d)' = Uploading(d)
  BY IndexerFrame DEF adminVars, Deletable, Uploading
<1>2. /\ Copies(queue, d) \in Nat /\ Working(d) \in {0, 1} /\ Publishable(d) \in {0, 1, 2}
      /\ Deletable(d) \in {0, 1} /\ Uploading(d) \in {0, 1}
      /\ Copies(queue, d)' \in Nat /\ Working(d)' \in {0, 1} /\ Publishable(d)' \in {0, 1, 2}
      /\ UNCHANGED queue => Copies(queue, d)' = Copies(queue, d)
  BY DueTyped
<1>3. Paid \in Nat /\ Paid' \in Nat /\ Paid' >= Paid
  BY PaidSteps
<1>4. SUFFICES Goal
  BY <1>1, <1>2, <1>3 DEF Due
<1>5. /\ UNCHANGED rec => Publishable(d)' = Publishable(d)
      /\ (Open(rec'[d]) => Open(rec[d])) => Publishable(d)' <= Publishable(d)
      /\ Publishable(d)' <= Publishable(d) + 1
  <2>1. UNCHANGED rec => Publishable(d)' = Publishable(d)
    BY <1>1 DEF listerVars, Publishable
  <2> QED BY <1>1, <2>1, PublishableFrame
<1> HIDE DEF Goal
<1>6. ASSUME UNCHANGED <<queue, rec>>, Working(d)' <= Working(d) PROVE Goal
  BY <1>2, <1>3, <1>5, <1>6 DEF Goal
<1>7. CASE Deliver
  <2>1. /\ ipc = "idle" /\ ipc' = "check" /\ idoc' = Head(queue) /\ UNCHANGED rec
        /\ queue \in Seq(Docs) /\ queue # <<>> /\ queue' = Tail(queue)
    BY <1>7 DEF Deliver, StoresOK
  <2>2. Copies(queue, d) = Copies(queue', d) + (IF Head(queue) = d THEN 1 ELSE 0)
    BY <2>1, CopiesTail
  <2>3. Working(d) = 0 /\ Working(d)' = IF Head(queue) = d THEN 1 ELSE 0
    BY <2>1 DEF Working
  <2>4. Copies(queue, d)' = Copies(queue', d)
    BY DEF Copies
  <2> QED BY <1>2, <1>3, <1>5, <2>1, <2>2, <2>3, <2>4 DEF Goal
<1>8. CASE \/ CheckFile \/ PostText \/ PostTextFails \/ ExtractText \/ PostChunks \/ EmbeddingFails
           \/ ChunksDone \/ LoadState \/ LoadAgain \/ SaveFails
  <2>1. UNCHANGED <<queue, rec, idoc>> /\ ipc \notin {"idle", "ack"}
    BY <1>8 DEF CheckFile, PostText, PostTextFails, ExtractText, PostChunks, EmbeddingFails, ChunksDone,
                LoadState, LoadAgain, SaveFails
  <2>2. Working(d)' <= Working(d)
    BY <2>1 DEF Working
  <2> QED BY <1>6, <2>1, <2>2
<1>9. CASE Ack
  <2>1. UNCHANGED <<queue, rec>> /\ Working(d)' = 0
    BY <1>9 DEF Ack, IndexerIdle, Working
  <2> QED BY <1>2, <1>6, <2>1
<1>10. CASE StoreState
  <2>1. /\ UNCHANGED <<queue, idoc>> /\ ipc = "store" /\ idoc \in Docs /\ rec' = [rec EXCEPT ![idoc] = idraft]
        /\ iupd = "done" => ipc' = "ack"
    BY <1>10 DEF StoreState, IndexerOK, Failures, PhaseStages
  <2>2. \A e \in Docs : rec'[e] = IF idoc = e THEN idraft ELSE rec[e]
    BY <2>1 DEF StoresOK
  <2>3. CASE idoc = d /\ iupd = "done"
    <3>1. Working(d) = 1 /\ Working(d)' = 0
      BY <2>1, <2>3 DEF Working
    <3> QED BY <1>2, <1>3, <1>5, <2>1, <3>1 DEF Goal
  <2>4. CASE ~(idoc = d /\ iupd = "done")
    <3>1. Open(rec'[d]) => Open(rec[d])
      BY <2>1, <2>2, <2>4 DEF DraftsClose, Open
    <3>2. Working(d)' <= Working(d)
      BY <2>1 DEF Working
    <3> QED BY <1>2, <1>3, <1>5, <2>1, <3>1, <3>2 DEF Goal
  <2> QED BY <2>3, <2>4
<1>12. CASE StoreRetried
  <2>1. UNCHANGED <<queue, idoc>> /\ ipc = "store" /\ ipc' = "again" /\ Paid' = Paid + 1
    BY <1>12, PaidSteps DEF StoreRetried
  <2>2. Working(d)' <= Working(d)
    BY <2>1 DEF Working
  <2> QED BY <1>2, <1>3, <1>5, <2>1, <2>2 DEF Goal
<1>11. CASE Disconnect \/ Crash
  <2>1. /\ UNCHANGED rec /\ Paid' = Paid + 1 /\ Working(d)' <= Working(d) /\ queue \in Seq(Docs)
        /\ idoc \in Docs /\ queue' \in {queue, <<idoc>> \o queue}
    <3>1. UNCHANGED rec /\ idoc \in Docs /\ queue' \in {queue, <<idoc>> \o queue}
      BY <1>11 DEF Disconnect, Crash, IndexerOK
    <3>2. Paid' = Paid + 1
      BY <1>11, PaidSteps DEF Disconnect, Crash
    <3>3. CASE Disconnect
      <4>1. Working(d)' = Working(d)
        BY <3>3 DEF Disconnect, Working
      <4> QED BY <1>2, <3>1, <3>2, <4>1 DEF StoresOK
    <3>4. CASE Crash
      <4>1. Working(d)' = 0
        BY <3>4 DEF Crash, IndexerIdle, Working
      <4> QED BY <1>2, <3>1, <3>2, <4>1 DEF StoresOK
    <3> QED BY <1>11, <3>3, <3>4
  <2>2. Copies(<<idoc>> \o queue, d) <= Copies(queue, d) + 1
    BY <1>2, <2>1, CopiesPush
  <2>3. Copies(queue, d)' <= Copies(queue, d) + 1
    <3>1. Copies(queue, d)' = Copies(queue', d)
      BY DEF Copies
    <3>2. CASE queue' = queue
      BY <1>2, <3>2
    <3>3. CASE queue' = <<idoc>> \o queue
      BY <1>2, <2>2, <3>1, <3>3, Zenon
    <3> QED BY <2>1, <3>2, <3>3
  <2> QED BY <1>2, <1>3, <1>5, <2>1, <2>3 DEF Goal
<1> QED BY <1>7, <1>8, <1>9, <1>10, <1>11, <1>12 DEF IndexerNext, IndexerStep

LEMMA DueAdmin ==
    ASSUME TypeOK, BulkOnce, AdminNext, [Next]_vars, NEW d \in Docs
    PROVE  Due(d)' <= Due(d) + (Paid' - Paid)
<1> USE DEF TypeOK
<1> DEFINE Goal == Publishable(d)' + Deletable(d)' <= Publishable(d) + Deletable(d) + (Paid' - Paid)
<1>1. UNCHANGED <<disk, queue, listerVars>> /\ Working(d)' = Working(d) /\ Uploading(d)' = Uploading(d)
  BY AdminFrame DEF indexerVars, Working, Uploading
<1>2. /\ Copies(queue, d) \in Nat /\ Working(d) \in {0, 1} /\ Publishable(d) \in {0, 1, 2}
      /\ Deletable(d) \in {0, 1} /\ Uploading(d) \in {0, 1}
      /\ Deletable(d)' \in {0, 1} /\ Publishable(d)' \in {0, 1, 2}
      /\ Copies(queue, d)' = Copies(queue, d)
  BY <1>1, DueTyped
<1>3. Paid \in Nat /\ Paid' \in Nat /\ Paid' >= Paid
  BY PaidSteps
<1>4. SUFFICES Goal
  BY <1>1, <1>2, <1>3 DEF Due
<1>5. /\ rec'[d] = rec[d] => Publishable(d)' <= Publishable(d)
      /\ Publishable(d)' <= Publishable(d) + 1
  BY <1>1, PublishableFrame
<1> HIDE DEF Goal
<1>6. ASSUME rec'[d] = rec[d], Deletable(d)' <= Deletable(d) \/ Paid' = Paid + 1 PROVE Goal
  BY <1>2, <1>3, <1>5, <1>6 DEF Goal
<1>7. ASSUME Deletable(d) = 1, Deletable(d)' = 0 PROVE Goal
  BY <1>2, <1>3, <1>5, <1>7 DEF Goal
<1>8. ASSUME NEW e \in Docs, ForgetRecord(e) PROVE Goal
  <2>1. Paid' = Paid + 1 /\ UNCHANGED adminVars
    BY <1>8, PaidSteps DEF ForgetRecord
  <2>2. Deletable(d)' = Deletable(d)
    BY <2>1 DEF adminVars, Deletable
  <2> QED BY <1>2, <1>3, <1>5, <2>1, <2>2 DEF Goal
<1>9. ASSUME NEW status \in {"failed", "processed"}, BeginBulk(status) PROVE Goal
  <2>1. Paid' = Paid + 1 /\ UNCHANGED rec
    BY <1>9, PaidSteps DEF BeginBulk
  <2> QED BY <1>6, <2>1
<1>10. ASSUME NEW e \in Docs, BulkRead(e) PROVE Goal
  <2>1. UNCHANGED <<rec, apc>> /\ apc # "scan" /\ adoc = NoDoc /\ e \in atodo /\ atodo' = atodo \ {e} /\ adoc' \in {e, NoDoc}
    BY <1>10 DEF BulkRead
  <2>2. Deletable(d)' <= Deletable(d)
    BY <2>1, ConstantsOK DEF Deletable
  <2> QED BY <1>6, <2>1, <2>2
<1>11. CASE BulkDelete
  <2>1. adoc \in Docs /\ rec' = [rec EXCEPT ![adoc] = NoRecord] /\ adoc' = NoDoc /\ UNCHANGED <<apc, atodo>>
        /\ apc # "scan" /\ adoc \notin atodo
    BY <1>11 DEF BulkDelete, AdminOK, BulkOnce
  <2>2. CASE adoc = d
    <3>1. Deletable(d) = 1 /\ Deletable(d)' = 0
      BY <2>1, <2>2, ConstantsOK DEF Deletable
    <3> QED BY <1>7, <3>1
  <2>3. CASE adoc # d
    <3>1. rec'[d] = rec[d]
      BY <2>1, <2>3 DEF StoresOK
    <3>2. Deletable(d)' <= Deletable(d)
      BY <2>1, <2>3, ConstantsOK DEF Deletable
    <3> QED BY <1>6, <3>1, <3>2
  <2> QED BY <2>2, <2>3
<1>12. CASE ReindexSolr
  <2>1. Paid' = Paid + 1 /\ UNCHANGED rec
    BY <1>12, PaidSteps DEF ReindexSolr
  <2> QED BY <1>6, <2>1
<1>13. CASE ReindexScan
  <2>1. Deletable(d) = 1 /\ UNCHANGED rec
    BY <1>13 DEF ReindexScan, Deletable
  <2> QED BY <1>2, <1>6, <2>1
<1>14. ASSUME NEW e \in Docs, ReindexWipe(e) PROVE Goal
  <2>1. apc = "wipe" /\ UNCHANGED <<apc, adoc>> /\ adoc = NoDoc /\ e \in atodo /\ atodo' = atodo \ {e}
        /\ rec' = [rec EXCEPT ![e] = NoRecord]
    BY <1>14 DEF ReindexWipe, BulkOnce
  <2>2. CASE e = d
    <3>1. Deletable(d) = 1 /\ Deletable(d)' = 0
      BY <2>1, <2>2, ConstantsOK DEF Deletable
    <3> QED BY <1>7, <3>1
  <2>3. CASE e # d
    <3>1. rec'[d] = rec[d]
      BY <2>1, <2>3 DEF StoresOK
    <3>2. Deletable(d)' <= Deletable(d)
      BY <2>1, <2>3 DEF Deletable
    <3> QED BY <1>6, <3>1, <3>2
  <2> QED BY <2>2, <2>3
<1>15. CASE AdminDone \/ AdminFails
  <2>1. UNCHANGED rec /\ Deletable(d)' = 0
    BY <1>15, ConstantsOK DEF AdminDone, AdminFails, AdminIdle, Deletable
  <2> QED BY <1>2, <1>6, <2>1
<1> QED BY <1>8, <1>9, <1>10, <1>11, <1>12, <1>13, <1>14, <1>15 DEF AdminNext, AdminStep

LEMMA DueLibrary ==
    ASSUME TypeOK, LibraryNext, [Next]_vars, NEW d \in Docs
    PROVE  Due(d)' <= Due(d) + (Paid' - Paid)
<1> USE DEF TypeOK
<1> DEFINE Goal == Copies(queue, d)' + Publishable(d)' + Uploading(d)'
                     <= Copies(queue, d) + Publishable(d) + Uploading(d) + (Paid' - Paid)
<1>1. UNCHANGED <<rec, listerVars>> /\ Working(d)' = Working(d) /\ Deletable(d)' = Deletable(d)
  BY LibraryFrame DEF indexerVars, adminVars, Working, Deletable
<1>2. /\ Copies(queue, d) \in Nat /\ Working(d) \in {0, 1} /\ Publishable(d) \in {0, 1, 2}
      /\ Deletable(d) \in {0, 1} /\ Uploading(d) \in {0, 1}
      /\ Uploading(d)' \in {0, 1} /\ Publishable(d)' \in {0, 1, 2} /\ Copies(queue, d)' \in Nat
      /\ UNCHANGED queue => Copies(queue, d)' = Copies(queue, d)
  BY DueTyped
<1>3. Paid \in Nat /\ Paid' \in Nat /\ Paid' >= Paid
  BY PaidSteps
<1>4. SUFFICES Goal
  BY <1>1, <1>2, <1>3 DEF Due
<1>5. /\ (disk'[d] # disk[d] => disk'[d] # 0) => Publishable(d)' <= Publishable(d)
      /\ Publishable(d)' <= Publishable(d) + 1
  BY <1>1, PublishableFrame
<1> HIDE DEF Goal
<1>6. ASSUME NEW e \in Docs, WriteFile(e) \/ UploadWrite(e) PROVE Goal
  <2>1. NewVersion # 0
    <3>1. NewVersion \in Nat /\ NewVersion >= 1
      BY VersionsGrow
    <3> QED BY <3>1
  <2>2. disk'[d] # disk[d] => disk'[d] # 0
    BY <1>6, <2>1 DEF WriteFile, UploadWrite, StoresOK
  <2>3. UNCHANGED queue
    BY <1>6 DEF WriteFile, UploadWrite
  <2>4. Uploading(d)' <= Uploading(d) \/ Paid' = Paid + 1
    BY <1>2, <1>6, PaidSteps DEF WriteFile, UploadWrite, Uploading
  <2> QED BY <1>2, <1>3, <1>5, <2>2, <2>3, <2>4 DEF Goal
<1>7. ASSUME NEW e \in Docs, RemoveFile(e) PROVE Goal
  <2>1. UNCHANGED <<queue, udoc>> /\ Paid' = Paid + 1
    BY <1>7, PaidSteps DEF RemoveFile
  <2>2. Uploading(d)' = Uploading(d)
    BY <2>1 DEF Uploading
  <2> QED BY <1>2, <1>3, <1>5, <2>1, <2>2 DEF Goal
<1>8. CASE UploadPublish
  <2>1. /\ udoc \in Docs /\ udoc' = NoDoc /\ UNCHANGED disk /\ queue \in Seq(Docs)
        /\ queue' = Append(queue, udoc) \/ UNCHANGED queue
    BY <1>8 DEF UploadPublish, AdminOK, StoresOK
  <2>2. Copies(queue', d) <= Copies(queue, d) + (IF udoc = d THEN 1 ELSE 0)
    <3>1. CASE queue' = Append(queue, udoc)
      <4>1. Copies(queue', d) = Copies(queue, d) + (IF udoc = d THEN 1 ELSE 0)
        BY <2>1, <3>1, CopiesAppend
      <4> QED BY <1>2, <4>1
    <3>2. CASE UNCHANGED queue
      BY <1>2, <3>2
    <3> QED BY <2>1, <3>1, <3>2
  <2>3. Uploading(d) = (IF udoc = d THEN 1 ELSE 0) /\ Uploading(d)' = 0
    BY <2>1, ConstantsOK DEF Uploading
  <2>4. Copies(queue, d)' = Copies(queue', d)
    BY DEF Copies
  <2>5. Publishable(d)' <= Publishable(d)
    BY <1>5, <2>1
  <2>6. Copies(queue, d)' + Uploading(d)' <= Copies(queue, d) + Uploading(d)
    BY <1>2, <2>2, <2>3, <2>4
  <2> QED BY <1>2, <1>3, <2>5, <2>6 DEF Goal
<1>9. CASE UploadFails
  <2>1. udoc \in Docs /\ UNCHANGED queue /\ udoc' = NoDoc /\ disk' = [disk EXCEPT ![udoc] = 0]
    BY <1>9 DEF UploadFails, AdminOK
  <2>2. Uploading(d) = (IF udoc = d THEN 1 ELSE 0) /\ Uploading(d)' = 0
    BY <2>1, ConstantsOK DEF Uploading
  <2>3. udoc # d => disk'[d] = disk[d]
    BY <2>1 DEF StoresOK
  <2> QED BY <1>2, <1>3, <1>5, <2>1, <2>2, <2>3 DEF Goal
<1> QED BY <1>6, <1>7, <1>8, <1>9 DEF LibraryNext

LEMMA DueStep == TypeOK /\ DraftsClose /\ BulkOnce /\ DuePaid /\ [Next]_vars => DuePaid'
<1> SUFFICES ASSUME TypeOK, DraftsClose, BulkOnce, DuePaid, [Next]_vars, NEW d \in Docs
             PROVE  Due(d)' <= 1 + Paid'
  BY DEF DuePaid
<1>1. Due(d)' <= Due(d) + (Paid' - Paid)
  <2>1. CASE Next
    BY <2>1, DueLister, DueIndexer, DueAdmin, DueLibrary DEF Next
  <2>2. CASE UNCHANGED vars
    <3>1. Due(d)' = Due(d) /\ Paid' = Paid
      BY <2>2 DEF vars, listerVars, indexerVars, adminVars, Due, Copies, Working, Publishable, Deletable,
                  Uploading, Paid
    <3>2. Due(d) \in Nat
      BY DueTyped DEF Due
    <3> QED BY <3>1, <3>2, PaidSteps
  <2> QED BY <2>1, <2>2
<1>2. Due(d) <= 1 + Paid
  BY DEF DuePaid
<1>3. Due(d) \in Nat /\ Due(d)' \in Nat
  BY DueTyped DEF Due
<1> QED BY <1>1, <1>2, <1>3, PaidSteps

LEMMA DueInit == Init => DraftsClose /\ BulkOnce /\ DuePaid
<1> SUFFICES ASSUME Init PROVE DraftsClose /\ BulkOnce /\ DuePaid
  OBVIOUS
<1>1. DraftsClose /\ BulkOnce
  BY DEF Init, DraftsClose, BulkOnce
<1>2. ASSUME NEW d \in Docs PROVE Due(d) <= 1 + Paid
  <2>1. Copies(queue, d) = 0
    <3>1. {i \in DOMAIN queue : queue[i] = d} = {}
      BY DEF Init
    <3> QED BY <3>1, FS_EmptySet DEF Copies
  <2>2. Working(d) = 0 /\ Publishable(d) \in {0, 1} /\ Deletable(d) = 0 /\ Uploading(d) = 0
    BY ConstantsOK DEF Init, Working, Publishable, Deletable, Uploading
  <2>3. Paid \in Nat
    BY TypeInit DEF TypeOK, SpentOK, Paid, Kinds
  <2> QED BY <2>1, <2>2, <2>3 DEF Due
<1> QED BY <1>1, <1>2 DEF DuePaid

\* A file never has more messages outstanding than one and what made the pipeline
\* forget: edits alone, however many, add none.
THEOREM DuplicatesPaid == Spec => []DuplicatesArePaidFor
<1>1. Init => TypeOK /\ DraftsClose /\ BulkOnce /\ DuePaid
  BY TypeInit, DueInit
<1>2. TypeOK /\ DraftsClose /\ BulkOnce /\ DuePaid /\ [Next]_vars => (TypeOK /\ DraftsClose /\ BulkOnce /\ DuePaid)'
  BY TypeStep, DraftsStep, BulkStep, DueStep
<1>3. TypeOK /\ DuePaid => DuplicatesArePaidFor
  <2> SUFFICES ASSUME TypeOK, DuePaid, NEW d \in Docs
               PROVE  Outstanding(d) <= 1 + spent["crash"] + spent["abort"] + spent["forget"]
                                          + spent["reindex"] + spent["upload"] + spent["remove"]
                                          + spent["retry"]
    BY DEF DuplicatesArePaidFor
  <2>1. Copies(queue, d) \in Nat /\ Publishable(d) \in Nat /\ Deletable(d) \in Nat /\ Uploading(d) \in Nat
    BY CopiesNat DEF TypeOK, StoresOK, Publishable, Deletable, Uploading
  <2>2. Outstanding(d) = Copies(queue, d) + (IF linked /\ idoc = d /\ ipc # "ack" THEN 1 ELSE 0)
    BY DEF Outstanding, Copies
  <2>3. (IF linked /\ idoc = d /\ ipc # "ack" THEN 1 ELSE 0) <= Working(d) /\ Working(d) \in Nat
    BY DEF Working, TypeOK, IndexerOK
  <2>4. Due(d) <= 1 + Paid
    BY DEF DuePaid
  <2>5. Outstanding(d) \in Nat /\ Outstanding(d) <= 1 + Paid
    <3>1. Paid \in Nat
      BY DEF TypeOK, SpentOK, Paid, Kinds
    <3> QED BY <2>1, <2>2, <2>3, <2>4, <3>1 DEF Due
  <2>6. ASSUME NEW n \in Nat, NEW a \in Nat, NEW b \in Nat, NEW c \in Nat,
               NEW e \in Nat, NEW f \in Nat, NEW g \in Nat, NEW h \in Nat,
               n <= 1 + (a + b + c + e + f + g + h)
        PROVE  n <= 1 + a + b + c + e + f + g + h
    BY <2>6
  <2>7. /\ spent["crash"] \in Nat /\ spent["abort"] \in Nat /\ spent["forget"] \in Nat
        /\ spent["reindex"] \in Nat /\ spent["upload"] \in Nat /\ spent["remove"] \in Nat
        /\ spent["retry"] \in Nat
    BY DEF TypeOK, SpentOK, Kinds
  <2>8. Outstanding(d) <= 1 + (spent["crash"] + spent["abort"] + spent["forget"]
                                 + spent["reindex"] + spent["upload"] + spent["remove"] + spent["retry"])
    BY <2>5 DEF Paid
  <2> QED BY <2>5, <2>6, <2>7, <2>8
<1> QED BY <1>1, <1>2, <1>3, PTL DEF Spec

-----------------------------------------------------------------------------
(* The chunks a settled document's record counts are no older than its text. *)

\* A delivery that the broker took back is queued again.
Returned == ipc # "idle" /\ ~linked => Copies(queue, idoc) >= 1

\* Phase 2 posts chunks that are no older than the text, all of them before it is done.
PhaseTwo ==
    /\ ipc = "chunk" => /\ iver >= parent[idoc]
                        /\ \A i \in 1..ChunkCount[iver] : i < inext => chunk[idoc][i] >= parent[idoc]
    /\ iupd = "done" => \A i \in 1..ChunkCount[iver] : chunk[idoc][i] >= parent[idoc]
    /\ ipc = "store" /\ iupd = "done" => idraft.chunks = ChunkCount[iver]

Matches(d) == \A i \in 1..rec[d].chunks : chunk[d][i] >= parent[d]

Settled == \A d \in Docs : rec[d].processed /\ Outstanding(d) = 0 => Matches(d)

ChunksInv == spent["reindex"] = 0 /\ spent["persist"] = 0 => PhaseTwo /\ Settled

LEMMA ReturnedStep == TypeOK /\ Returned /\ [Next]_vars => Returned'
<1> SUFFICES ASSUME TypeOK, Returned, [Next]_vars, ipc' # "idle", ~linked' PROVE Copies(queue', idoc') >= 1
  BY DEF Returned, Copies
<1> USE DEF TypeOK
<1>0. queue \in Seq(Docs) /\ \A d : Copies(queue, d) \in Nat
  BY CopiesNat DEF StoresOK
<1>1. CASE IndexerNext
  <2>1. CASE Deliver
    BY <2>1 DEF Deliver
  <2>2. CASE Ack \/ Crash
    BY <2>2 DEF Ack, Crash, IndexerIdle
  <2>3. CASE Disconnect
    <3>1. idoc \in Docs /\ idoc' = idoc /\ queue' = <<idoc>> \o queue
      BY <2>3 DEF Disconnect, IndexerOK
    <3>2. Copies(<<idoc>> \o queue, idoc) = Copies(queue, idoc) + 1
      BY <1>0, <3>1, CopiesPush
    <3> QED BY <1>0, <3>1, <3>2
  <2>4. CASE \/ CheckFile \/ PostText \/ PostTextFails \/ ExtractText \/ PostChunks \/ EmbeddingFails
             \/ ChunksDone \/ LoadState \/ LoadAgain \/ SaveFails \/ StoreState \/ StoreRetried
    <3>1. UNCHANGED <<queue, idoc, linked>> /\ ipc # "idle"
      BY <2>4 DEF CheckFile, PostText, PostTextFails, ExtractText, PostChunks, EmbeddingFails, ChunksDone,
                  LoadState, LoadAgain, SaveFails, StoreState, StoreRetried
    <3> QED BY <3>1 DEF Returned
  <2> QED BY <1>1, <2>1, <2>2, <2>3, <2>4 DEF IndexerNext, IndexerStep
<1>2. CASE UNCHANGED indexerVars
  <2>1. Copies(queue, idoc) >= 1 /\ idoc' = idoc
    BY <1>2 DEF indexerVars, Returned
  <2>2. CASE UNCHANGED queue
    BY <2>1, <2>2
  <2>3. CASE \E x \in Docs : queue' = Append(queue, x)
    <3>1. PICK x \in Docs : queue' = Append(queue, x)
      BY <2>3
    <3>2. Copies(Append(queue, x), idoc) = Copies(queue, idoc) + (IF x = idoc THEN 1 ELSE 0)
      BY <1>0, CopiesAppend
    <3> QED BY <1>0, <2>1, <3>1, <3>2
  <2>4. CASE Deliver \/ Disconnect \/ Crash
    BY <1>2, <2>4 DEF Deliver, Disconnect, Crash, indexerVars, IndexerIdle
  <2> QED BY <2>2, <2>3, <2>4, QueueWriters DEF Publish, UploadPublish, ListerOK, AdminOK
<1> QED BY <1>1, <1>2, ListerFrame, AdminFrame, LibraryFrame DEF Next, vars

LEMMA QuietSpending ==
    ASSUME TypeOK, [Next]_vars, spent'["reindex"] = 0, spent'["persist"] = 0
    PROVE  spent["reindex"] = 0 /\ spent["persist"] = 0 /\ ~ReindexSolr /\ ~Spend("persist")
<1>1. \A k \in Kinds : spent'[k] >= spent[k] /\ spent[k] \in Nat
  BY SpentGrows DEF TypeOK, SpentOK
<1>2. Spend("persist") => spent'["persist"] = spent["persist"] + 1
  BY SpendTyped DEF TypeOK, Kinds
<1>3. ReindexSolr => spent'["reindex"] = spent["reindex"] + 1
  BY SpendTyped DEF TypeOK, Kinds, ReindexSolr
<1> QED BY <1>1, <1>2, <1>3 DEF Kinds

LEMMA OutstandingIs ==
    ASSUME TypeOK, NEW d
    PROVE  /\ Copies(queue, d) \in Nat
           /\ Outstanding(d) = Copies(queue, d) + (IF linked /\ idoc = d /\ ipc # "ack" THEN 1 ELSE 0)
BY CopiesNat DEF TypeOK, StoresOK, Outstanding, Copies

\* Only the end of an attempt takes a file's last message away.
LEMMA OutstandingKept ==
    ASSUME TypeOK, TypeOK', [Next]_vars, ~Spend("persist"), ~StoreState,
           NEW d \in Docs, Outstanding(d)' = 0
    PROVE  Outstanding(d) = 0
<1> DEFINE held == linked /\ idoc = d /\ ipc # "ack"
<1>a. /\ Copies(queue, d) \in Nat /\ Copies(queue', d) \in Nat
      /\ Outstanding(d) = Copies(queue, d) + (IF held THEN 1 ELSE 0)
  BY OutstandingIs, CopiesNat DEF TypeOK, StoresOK
<1>b. Outstanding(d)' = Copies(queue', d) + (IF held' THEN 1 ELSE 0)
  BY DEF Outstanding, Copies
<1>c. Copies(queue', d) = 0 /\ ~held'
  BY <1>a, <1>b
<1>d. queue \in Seq(Docs)
  BY DEF TypeOK, StoresOK
<1> SUFFICES Copies(queue, d) = 0 /\ ~held
  BY <1>a
<1>1. CASE IndexerNext
  <2>1. CASE Deliver
    <3>1. queue # <<>> /\ queue' = Tail(queue) /\ ipc' = "check" /\ idoc' = Head(queue) /\ linked'
          /\ ipc = "idle" /\ ~linked
      BY <2>1 DEF Deliver, TypeOK, IndexerOK
    <3>2. Copies(queue, d) = Copies(Tail(queue), d) + (IF Head(queue) = d THEN 1 ELSE 0)
      BY <1>d, <3>1, CopiesTail
    <3> QED BY <1>c, <3>1, <3>2
  <2>2. CASE Disconnect \/ (Crash /\ linked)
    <3>1. idoc \in Docs /\ queue' = <<idoc>> \o queue
      BY <2>2 DEF Disconnect, Crash, TypeOK, IndexerOK
    <3>2. Copies(<<idoc>> \o queue, d) = Copies(queue, d) + (IF idoc = d THEN 1 ELSE 0)
      BY <1>d, <3>1, CopiesPush
    <3> QED BY <1>a, <1>c, <3>1, <3>2
  <2>3. CASE Ack \/ (Crash /\ ~linked)
    BY <1>c, <2>3 DEF Ack, Crash
  <2>4. CASE \/ CheckFile \/ PostText \/ PostTextFails \/ ExtractText \/ PostChunks \/ EmbeddingFails
             \/ ChunksDone \/ LoadState \/ LoadAgain \/ SaveFails \/ StoreRetried
    <3>1. UNCHANGED <<queue, idoc, linked>> /\ ipc' # "ack"
      BY <2>4 DEF CheckFile, PostText, PostTextFails, ExtractText, PostChunks, EmbeddingFails, ChunksDone,
                  LoadState, LoadAgain, SaveFails, StoreRetried, Saving
    <3> QED BY <1>c, <3>1
  <2> QED BY <1>1, <2>1, <2>2, <2>3, <2>4 DEF IndexerNext, IndexerStep
<1>2. CASE UNCHANGED indexerVars
  <2>1. ~held
    BY <1>c, <1>2 DEF indexerVars
  <2>2. CASE UNCHANGED queue
    BY <1>c, <2>1, <2>2
  <2>3. ASSUME NEW x \in Docs, queue' = Append(queue, x) PROVE Copies(queue, d) = 0
    <3>1. Copies(Append(queue, x), d) = Copies(queue, d) + (IF x = d THEN 1 ELSE 0)
      BY <1>d, CopiesAppend
    <3> QED BY <1>a, <1>c, <2>3, <3>1
  <2>4. CASE Deliver \/ Disconnect \/ Crash
    BY <1>2, <2>4 DEF Deliver, Disconnect, Crash, indexerVars, IndexerIdle, TypeOK, IndexerOK
  <2> QED BY <2>1, <2>2, <2>3, <2>4, QueueWriters DEF Publish, UploadPublish, TypeOK, ListerOK, AdminOK
<1> QED BY <1>1, <1>2, ListerFrame, AdminFrame, LibraryFrame DEF Next, vars

\* Whoever does not touch the indexer does not write Solr, unless it empties it.
LEMMA OnlyTheIndexerPosts ==
    ASSUME TypeOK, [Next]_vars, ~ReindexSolr, UNCHANGED indexerVars
    PROVE  UNCHANGED <<parent, chunk>>
<1>1. ~PostText
  BY DEF PostText, Saving, indexerVars
<1>2. ~PostChunks
  BY ConstantsOK DEF PostChunks, Saving, indexerVars, TypeOK, IndexerOK
<1> QED BY <1>1, <1>2, SolrWriters DEF solrVars

LEMMA PhaseTwoStep ==
    ASSUME TypeOK, FreshInv, PhaseTwo, [Next]_vars, ~ReindexSolr
    PROVE  PhaseTwo'
<1> USE DEF TypeOK
<1>a. iver # 0 => ChunkCount[iver] \in Nat /\ \A i \in 1..ChunkCount[iver] : i \in 1..MaxChunks
  <2>1. iver # 0 => iver \in Versions
    BY ConstantsOK DEF IndexerOK, Versions, MaxVersion, Kinds
  <2> QED BY <2>1, ConstantsOK
<1>b. \A d \in Docs : disk[d] \in Nat /\ parent[d] \in Nat
  BY ConstantsOK DEF StoresOK, MaxVersion, Kinds
<1>1. CASE Deliver \/ Ack \/ Crash
  BY <1>1 DEF Deliver, Ack, Crash, IndexerIdle, PhaseTwo, IndexerOK
<1>2. CASE CheckFile \/ PostText \/ PostTextFails \/ EmbeddingFails \/ SaveFails \/ StoreState
  <2>1. ipc' \in {"load", "post", "ack", "extract"} /\ iupd' # "done"
    BY <1>2 DEF CheckFile, PostText, PostTextFails, EmbeddingFails, SaveFails, StoreState, Saving, IndexerOK
  <2> QED BY <2>1 DEF PhaseTwo
<1>3. CASE ExtractText
  <2>1. /\ idoc \in Docs /\ disk[idoc] # 0 /\ iver' = disk[idoc] /\ inext' = 1 /\ iupd' = "none"
        /\ UNCHANGED <<parent, chunk, idoc>> /\ ipc' = "chunk"
    BY <1>3 DEF ExtractText, solrVars, IndexerOK
  <2>2. iver' >= parent'[idoc']
    BY <1>b, <2>1 DEF FreshInv
  <2> QED BY <2>1, <2>2 DEF PhaseTwo
<1>4. CASE PostChunks
  <2>1. /\ ipc = "chunk" /\ idoc \in Docs /\ iver # 0 /\ UNCHANGED <<parent, idoc>>
        /\ iupd' \in {"none", "embedding_indexing"} /\ ipc' \in {"chunk", "load"}
    BY <1>4 DEF PostChunks, Saving, IndexerOK
  <2>2. chunk' = [chunk EXCEPT ![idoc] =
                    [i \in 1..MaxChunks |-> IF i \in Batch THEN iver ELSE chunk[idoc][i]]]
    BY <1>4 DEF PostChunks
  <2>3. CASE ipc' = "chunk"
    <3>1. inext' = inext + BatchSize /\ UNCHANGED iver
      BY <1>4, <2>3 DEF PostChunks, Saving
    <3>2. ASSUME NEW i \in 1..ChunkCount[iver], i < inext' PROVE chunk'[idoc][i] >= parent[idoc]
      <4>1. i < inext \/ i \in Batch
        <5>1. inext \in Nat /\ BatchSize \in Nat
          BY <2>1, ConstantsOK DEF IndexerOK
        <5> QED BY <1>a, <2>1, <3>1, <3>2, <5>1 DEF Batch
      <4>2. chunk'[idoc][i] = IF i \in Batch THEN iver ELSE chunk[idoc][i]
        BY <1>a, <2>1, <2>2 DEF StoresOK
      <4> QED BY <2>1, <4>1, <4>2 DEF PhaseTwo
    <3> QED BY <2>1, <2>3, <3>1, <3>2 DEF PhaseTwo
  <2> QED BY <2>1, <2>3 DEF PhaseTwo
<1>5. CASE ChunksDone
  <2>1. /\ ipc = "chunk" /\ inext > ChunkCount[iver] /\ ipc' = "load" /\ iupd' = "done"
        /\ UNCHANGED <<iver, idoc, parent, chunk>> /\ inext \in Nat /\ iver # 0
    BY <1>5 DEF ChunksDone, Saving, solrVars, IndexerOK
  <2>2. \A i \in 1..ChunkCount[iver] : i < inext
    BY <1>a, <2>1
  <2> QED BY <2>1, <2>2 DEF PhaseTwo
<1>6. CASE LoadState \/ LoadAgain
  <2>1. /\ ipc' = "store" /\ idoc \in Docs /\ UNCHANGED <<idoc, iupd, iver, parent, chunk>>
    BY <1>6 DEF LoadState, LoadAgain, solrVars, IndexerOK
  <2>2. iupd = "done" => idraft'.chunks = ChunkCount[iver]
    <3>1. iupd = "done" => idraft' = Completed(rec[idoc], ChunkCount[iver])
      BY <1>6 DEF LoadState, LoadAgain, Merged
    <3>2. rec[idoc] \in Record
      BY <2>1 DEF StoresOK
    <3> QED BY <3>1, <3>2 DEF Completed, Record
  <2> QED BY <2>1, <2>2 DEF PhaseTwo
<1>7. CASE Disconnect
  BY <1>7 DEF Disconnect, solrVars, PhaseTwo
<1>9. CASE StoreRetried
  BY <1>9 DEF StoreRetried, solrVars, PhaseTwo
<1>8. CASE UNCHANGED indexerVars
  BY <1>8, OnlyTheIndexerPosts DEF indexerVars, PhaseTwo
<1> QED BY <1>1, <1>2, <1>3, <1>4, <1>5, <1>6, <1>7, <1>8, <1>9, ListerFrame, AdminFrame, LibraryFrame
        DEF Next, vars, IndexerNext, IndexerStep

LEMMA SettledStep ==
    ASSUME TypeOK, TypeOK', DraftsClose, Returned', PhaseTwo, Settled, [Next]_vars,
           ~ReindexSolr, ~Spend("persist")
    PROVE  Settled'
<1> USE DEF TypeOK
<1> SUFFICES ASSUME NEW d \in Docs, rec'[d].processed, Outstanding(d)' = 0
             PROVE  Matches(d)'
  BY DEF Settled
<1>a. /\ rec[d] \in Record /\ lval \in Record
      /\ Copies(queue', d) \in Nat
      /\ Outstanding(d)' = Copies(queue', d) + (IF linked' /\ idoc' = d /\ ipc' # "ack" THEN 1 ELSE 0)
  BY CopiesNat DEF StoresOK, ListerOK, Outstanding, Copies
\* An attempt that goes on keeps the file outstanding.
<1>b. ~(idoc' = d /\ ipc' \notin {"idle", "ack"})
  BY <1>a DEF Returned
<1>1. CASE StoreState
  <2>1. /\ ipc = "store" /\ idoc \in Docs /\ UNCHANGED <<idoc, linked, queue, parent, chunk>>
        /\ rec' = [rec EXCEPT ![idoc] = idraft]
        /\ ipc' = "ack" => iupd \in {"done", "unknown"}
        /\ ipc' \in {"load", "extract", "ack"}
    BY <1>1 DEF StoreState, Saving, solrVars, IndexerOK
  <2>2. CASE d = idoc
    <3>1. rec'[d] = idraft
      BY <2>1, <2>2 DEF StoresOK
    <3>2. iupd = "done"
      BY <1>b, <2>1, <2>2, <3>1 DEF DraftsClose
    <3>3. \A i \in 1..idraft.chunks : chunk[d][i] >= parent[d]
      BY <2>1, <2>2, <3>2 DEF PhaseTwo
    <3> QED BY <2>1, <3>1, <3>3 DEF Matches
  <2>3. CASE d # idoc
    <3>1. rec'[d] = rec[d]
      BY <2>1, <2>3 DEF StoresOK
    <3>2. Outstanding(d) = 0
      BY <1>a, <2>1, <2>3, OutstandingIs
    <3> QED BY <2>1, <3>1, <3>2 DEF Settled, Matches
  <2> QED BY <2>2, <2>3
<1>2. CASE ~StoreState
  <2>1. rec'[d] = rec[d]
    <3>1. CASE StoreRecord
      <4>1. ldoc \in Docs /\ rec' = [rec EXCEPT ![ldoc] = lval] /\ ~lval.processed
        BY <3>1 DEF StoreRecord, ListerOK, DraftsClose
      <4> QED BY <4>1 DEF StoresOK
    <3>3. CASE StoreRetried
      <4>1. idoc # d
        BY <1>b, <3>3 DEF StoreRetried
      <4> QED BY <3>3, <4>1 DEF StoreRetried, StoresOK
    <3>2. CASE BulkDelete \/ \E e \in Docs : ForgetRecord(e) \/ ReindexWipe(e)
      <4>1. rec'[d] \in {rec[d], NoRecord}
        BY <3>2 DEF BulkDelete, ForgetRecord, ReindexWipe, StoresOK
      <4> QED BY <4>1 DEF NoRecord
    <3> QED BY <1>2, <3>1, <3>2, <3>3, RecordWriters
  <2>2. Outstanding(d) = 0
    BY <1>2, OutstandingKept
  <2>3. Matches(d)
    BY <2>1, <2>2 DEF Settled
  <2>4. parent'[d] = parent[d] /\ chunk'[d] = chunk[d]
    <3>1. CASE UNCHANGED solrVars
      BY <3>1 DEF solrVars
    <3>2. CASE PostText \/ PostChunks
      <4>1. idoc \in Docs /\ idoc' = idoc /\ ipc' \in {"load", "chunk"}
        BY <3>2 DEF PostText, PostChunks, Saving, IndexerOK
      <4>2. idoc # d
        BY <1>b, <4>1
      <4> QED BY <3>2, <4>1, <4>2 DEF PostText, PostChunks, StoresOK
    <3> QED BY <3>1, <3>2, SolrWriters
  <2> QED BY <2>1, <2>3, <2>4 DEF Matches
<1> QED BY <1>1, <1>2

LEMMA ChunksInit == Init => Returned /\ ChunksInv
<1> SUFFICES ASSUME Init PROVE Returned /\ ChunksInv
  OBVIOUS
<1>1. Returned /\ PhaseTwo
  BY DEF Init, Returned, PhaseTwo
<1>2. \A d \in Docs : ~rec[d].processed
  BY DEF Init, NoRecord
<1> QED BY <1>1, <1>2 DEF ChunksInv, Settled

LEMMA ChunksStep ==
    TypeOK /\ TypeOK' /\ FreshInv /\ DraftsClose /\ Returned' /\ ChunksInv /\ [Next]_vars => ChunksInv'
<1> SUFFICES ASSUME TypeOK, TypeOK', FreshInv, DraftsClose, Returned', ChunksInv, [Next]_vars,
                    spent'["reindex"] = 0, spent'["persist"] = 0
             PROVE  PhaseTwo' /\ Settled'
  BY DEF ChunksInv
<1>1. ~ReindexSolr /\ ~Spend("persist") /\ PhaseTwo /\ Settled
  BY QuietSpending DEF ChunksInv
<1> QED BY <1>1, PhaseTwoStep, SettledStep

\* The chunks that the record of a settled document counts are no older than its
\* full text, as long as Redis takes every record and nobody empties Solr; of the
\* chunks beyond the count it says nothing.
THEOREM ChunksMatch == Spec => []CountedChunksMatch
<1> DEFINE I == TypeOK /\ FreshInv /\ DraftsClose /\ Returned /\ ChunksInv
<1>1. Init => I
  BY TypeInit, FreshInit, DueInit, ChunksInit
<1>2. I /\ [Next]_vars => I'
  <2> SUFFICES ASSUME I, [Next]_vars PROVE I'
    OBVIOUS
  <2>1. TypeOK' /\ FreshInv' /\ DraftsClose' /\ Returned'
    BY TypeStep, FreshStep, DraftsStep, ReturnedStep
  <2> QED BY <2>1, ChunksStep
<1>3. I => CountedChunksMatch
  BY DEF ChunksInv, Settled, Matches, CountedChunksMatch
<1> QED BY <1>1, <1>2, <1>3, PTL DEF Spec
=============================================================================

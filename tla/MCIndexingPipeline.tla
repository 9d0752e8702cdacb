------------------------ MODULE MCIndexingPipeline ------------------------
(* Small instances of the ingestion pipeline: what each run may spend.      *)
EXTENDS IndexingPipelineProps, TLC

\* Files are interchangeable (safety runs only).
Permute == Permutations(Docs)

None == [k \in Kinds |-> 0]

\* Edits, removals, process deaths, aborted scans, failing requests and saves.
BudgetFailures == ("write" :> 2 @@ "remove" :> 1 @@ "crash" :> 1 @@ "abort" :> 1
                   @@ "fault" :> 1 @@ "persist" :> 1 @@ "retry" :> 1 @@ "lost" :> 1) @@ None

\* One file: either these or what makes a document be indexed again, so what is in one
\* only stays apart; a retried save with edits, crashes and faults.
BudgetOne == ("forget" :> 1 @@ "reindex" :> 1) @@ BudgetFailures
Again == {"forget", "reindex"}
Odd   == {"remove", "abort", "persist", "lost"}
Rare  == Odd \cup {"crash", "retry"}
Scopes == [k \in Kinds |-> CASE k = "retry" -> Again \cup Odd
                             [] k \in Odd   -> Again \cup {"retry"}
                             [] k = "crash" -> Again
                             [] k \in Again -> Rare
                             [] OTHER       -> {}]
LiveScopes == [k \in Kinds |-> CASE k = "retry" -> {"fault"} [] k = "fault" -> {"retry"} [] OTHER -> {}]
OneScope == [k \in Kinds |-> {}]

\* Two files, one of them uploaded; a lost message.
BudgetTwo == ("write" :> 1 @@ "upload" :> 1 @@ "fault" :> 1 @@ "forget" :> 1
              @@ "lost" :> 1) @@ None

\* What must happen in the end, with edits and anything done twice.
BudgetLive == ("write" :> 2 @@ "crash" :> 1 @@ "fault" :> 1 @@ "retry" :> 1 @@ "forget" :> 1) @@ None

BudgetEdit    == ("write" :> 2) @@ None
BudgetReindex == ("write" :> 1 @@ "reindex" :> 1) @@ None

\* A short first version, then longer and shorter ones.
Chunks1 == [v \in Versions |-> 1]
Chunks2 == <<2, 1>>
=============================================================================

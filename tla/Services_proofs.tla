--------------------------- MODULE Services_proofs ---------------------------
(***************************************************************************)
(* The parts of solr-search that share no state: the registry of backups,  *)
(* the figures and listings of the reports, uploads, and what searches     *)
(* answer.                                                                 *)
(***************************************************************************)
EXTENDS Backups, Uploads, Reports, Search, FiniteSetTheorems, TLAPS

-----------------------------------------------------------------------------
(* Backups: every operation of the registry is ended by its task, and none *)
(* that had a failure ends as completed.                                   *)

Operation == [operation : {"backup", "restore", "test-restore"}, tier : Tiers \cup {"all"},
              dry_run : BOOLEAN, status : {"in_progress", "completed", "failed"}, codes : SUBSET Nat]
Task      == [step : {"created", "running", "exited", "gone"}, todo : Seq(Tiers), worst : Nat]

RegistryTypes ==
    /\ operations \in Seq(Operation) /\ tasks \in Seq(Task)
    /\ Len(tasks) = Len(operations)
    /\ entries \subseteq Tiers

\* The exit code that is kept tells of every failure so far, until the task records it.
WorstTells ==
    \A i \in DOMAIN operations :
        tasks[i].step # "gone" /\ tasks[i].worst = 0 => {1, 2} \cap operations[i].codes = {}

RegistryInv == RegistryTypes /\ InProgressIsAlive /\ WorstTells /\ CompletedHadNoFailure

-----------------------------------------------------------------------------
\* The initial registry is empty.
LEMMA RegistryInit == BackupsInit => RegistryInv
BY DEF BackupsInit, RegistryInv, RegistryTypes, InProgressIsAlive, WorstTells, CompletedHadNoFailure

\* A step that changes one operation and its task, typed, keeps the invariant if it
\* keeps what the invariant says of them.
LEMMA OneChanges ==
    ASSUME RegistryInv, NEW i \in DOMAIN operations, NEW o \in Operation, NEW t \in Task,
           operations' = [operations EXCEPT ![i] = o], tasks' = [tasks EXCEPT ![i] = t],
           entries' \subseteq Tiers,
           o.status = "in_progress" <=> t.step # "gone",
           t.step # "gone" /\ t.worst = 0 => {1, 2} \cap o.codes = {},
           o.status = "completed" => {1, 2} \cap o.codes = {}
    PROVE  RegistryInv'
<1>1. RegistryTypes' BY DEF RegistryInv, RegistryTypes
<1>2. /\ DOMAIN operations' = DOMAIN operations /\ DOMAIN tasks = DOMAIN operations
      /\ operations'[i] = o /\ tasks'[i] = t
      /\ \A j \in DOMAIN operations : j # i => operations'[j] = operations[j] /\ tasks'[j] = tasks[j]
    BY DEF RegistryInv, RegistryTypes
<1>3. InProgressIsAlive' BY <1>2 DEF RegistryInv, InProgressIsAlive
<1>4. WorstTells' BY <1>2 DEF RegistryInv, WorstTells
<1>5. CompletedHadNoFailure' BY <1>2 DEF RegistryInv, CompletedHadNoFailure
<1> QED BY <1>1, <1>3, <1>4, <1>5 DEF RegistryInv

\* A new operation comes with its task.
LEMMA StartKeeps ==
    ASSUME RegistryInv, NEW kind \in {"backup", "restore", "test-restore"},
           NEW tier \in Tiers \cup {"all"}, NEW dry \in BOOLEAN, Start(kind, tier, dry)
    PROVE  RegistryInv'
<1> DEFINE o == [operation |-> kind, tier |-> tier, dry_run |-> dry,
                 status |-> "in_progress", codes |-> {}]
           t == [step |-> "created", todo |-> <<>>, worst |-> 0]
           n == Len(operations) + 1
<1>1. o \in Operation /\ t \in Task BY DEF Operation, Task
<1>2. operations' = Append(operations, o) /\ tasks' = Append(tasks, t) /\ entries' = entries
    BY DEF Start
<1>3. /\ operations \in Seq(Operation) /\ tasks \in Seq(Task) /\ Len(tasks) = Len(operations)
      /\ entries \subseteq Tiers
    BY DEF RegistryInv, RegistryTypes
<1> HIDE DEF o, t
<1>4. RegistryTypes' BY <1>1, <1>2, <1>3 DEF RegistryTypes
<1>5. /\ DOMAIN operations' = 1..n /\ DOMAIN operations = 1 .. n - 1
      /\ operations'[n] = o /\ tasks'[n] = t
      /\ \A j \in DOMAIN operations : operations'[j] = operations[j] /\ tasks'[j] = tasks[j]
    BY <1>2, <1>3
<1>6. \A j \in DOMAIN operations' : j = n \/ j \in DOMAIN operations BY <1>5, <1>3
<1>7. o.status = "in_progress" /\ o.codes = {} /\ t.step = "created" BY DEF o, t
<1>8. InProgressIsAlive' BY <1>5, <1>6, <1>7 DEF RegistryInv, InProgressIsAlive
<1>9. WorstTells' BY <1>5, <1>6, <1>7 DEF RegistryInv, WorstTells
<1>10. CompletedHadNoFailure' BY <1>5, <1>6, <1>7 DEF RegistryInv, CompletedHadNoFailure
<1> QED BY <1>4, <1>8, <1>9, <1>10 DEF RegistryInv

\* The tiers of a backup, in the order of the orchestrator.
LEMMA InOrderType == \A tier \in Tiers \cup {"all"} : InOrder(tier) \in Seq(Tiers)
<1>1. <<"critical", "high", "medium">> \in Seq(Tiers) BY DEF Tiers
<1>2. \A tier \in Tiers : <<tier>> \in Seq(Tiers) OBVIOUS
<1>3. \A tier \in Tiers : tier # "all" BY DEF Tiers
<1> QED BY <1>1, <1>2, <1>3 DEF InOrder

\* The task of an operation that ended.
Gone == [step |-> "gone", todo |-> <<>>, worst |-> 0]

LEMMA GoneType == Gone \in Task /\ Gone.step = "gone"
<1>1. <<>> \in Seq(Tiers) OBVIOUS
<1> QED BY <1>1 DEF Gone, Task

\* A step keeps the invariant.
LEMMA RegistryStep == RegistryInv /\ [BackupsNext]_backupsVars => RegistryInv'
<1> SUFFICES ASSUME RegistryInv, [BackupsNext]_backupsVars PROVE RegistryInv'
    OBVIOUS
<1> USE BackupsOK
<1>t. /\ operations \in Seq(Operation) /\ tasks \in Seq(Task) /\ Len(tasks) = Len(operations)
      /\ entries \subseteq Tiers /\ DOMAIN tasks = DOMAIN operations
      /\ \A i \in DOMAIN operations : operations[i] \in Operation /\ tasks[i] \in Task
    BY DEF RegistryInv, RegistryTypes
<1>1. ASSUME NEW dry \in BOOLEAN, NEW tier \in Tiers \cup {"all"}, TriggerBackup(tier, dry)
      PROVE  RegistryInv'
    BY <1>1, StartKeeps DEF TriggerBackup
<1>2. ASSUME NEW dry \in BOOLEAN, TriggerRestore(dry) PROVE RegistryInv'
    BY <1>2, <1>t, StartKeeps DEF TriggerRestore
<1>3. ASSUME TestRestore PROVE RegistryInv'
    BY <1>3, <1>t, StartKeeps DEF TestRestore
<1>4. ASSUME NEW i \in DOMAIN operations, SpawnFails(i) PROVE RegistryInv'
  <2> DEFINE o == [operations[i] EXCEPT !.status = "failed"]
  <2>1. o \in Operation BY <1>t DEF Operation
  <2>2. operations' = [operations EXCEPT ![i] = o] /\ tasks' = [tasks EXCEPT ![i] = Gone]
        /\ entries' = entries
      BY <1>4, <1>t DEF SpawnFails, Ends, Gone
  <2>3. o.status = "failed" BY <1>t DEF Operation
  <2> HIDE DEF o
  <2> QED BY <2>1, <2>2, <2>3, <1>t, GoneType, OneChanges
<1>5. ASSUME NEW i \in DOMAIN operations, SpawnBackup(i) PROVE RegistryInv'
  <2>1. operations' = [operations EXCEPT ![i] = operations[i]] /\ entries' = entries
      BY <1>5, <1>t DEF SpawnBackup
  <2>2. /\ operations[i].status = "in_progress"
        /\ tasks[i].worst = 0 => {1, 2} \cap operations[i].codes = {}
      BY <1>5 DEF SpawnBackup, RegistryInv, InProgressIsAlive, WorstTells
  <2>3. CASE lock = Unlocked
    <3> DEFINE t == [tasks[i] EXCEPT !.step = "running", !.todo = InOrder(operations[i].tier)]
    <3>1. InOrder(operations[i].tier) \in Seq(Tiers) BY <1>t, InOrderType DEF Operation
    <3>2. t \in Task /\ t.step = "running" /\ t.worst = tasks[i].worst BY <3>1, <1>t DEF Task
    <3>3. tasks' = [tasks EXCEPT ![i] = t] BY <1>5, <1>t, <2>3 DEF SpawnBackup
    <3> HIDE DEF t
    <3> QED BY <2>1, <2>2, <3>2, <3>3, <1>t, OneChanges
  <2>4. CASE lock # Unlocked
    <3> DEFINE t == [tasks[i] EXCEPT !.step = "exited", !.worst = 1]
    <3>1. t \in Task /\ t.step = "exited" /\ t.worst = 1 BY <1>t DEF Task
    <3>2. t.step # "gone" /\ ~(t.worst = 0)
      <4> HIDE DEF t
      <4> QED BY <3>1
    <3>3. tasks' = [tasks EXCEPT ![i] = t] BY <1>5, <1>t, <2>4 DEF SpawnBackup
    <3> HIDE DEF t
    <3> QED BY <2>1, <2>2, <3>1, <3>2, <3>3, <1>t, OneChanges
  <2> QED BY <2>3, <2>4
<1>6. ASSUME NEW i \in DOMAIN operations, SpawnRestore(i) PROVE RegistryInv'
  <2> DEFINE o == operations[i]
  <2>1. PICK rc \in RestoreScript : tasks' = [tasks EXCEPT ![i].step = "exited", ![i].worst = rc]
      BY <1>6 DEF SpawnRestore
  <2>2. rc \in Nat /\ rc # 0 BY DEF RestoreScript, RestoreEnvironment
  <2> DEFINE t == [tasks[i] EXCEPT !.step = "exited", !.worst = rc]
  <2>3. t \in Task /\ t.step = "exited" /\ t.worst = rc BY <1>t, <2>2 DEF Task
  <2>4. tasks' = [tasks EXCEPT ![i] = t] BY <2>1, <1>t
  <2>5. operations' = [operations EXCEPT ![i] = o] /\ entries' = entries /\ o \in Operation
      BY <1>6, <1>t DEF SpawnRestore
  <2>6. o.status = "in_progress" BY <1>6 DEF SpawnRestore, RegistryInv, InProgressIsAlive
  <2> HIDE DEF o, t
  <2> QED BY <2>2, <2>3, <2>4, <2>5, <2>6, <1>t, OneChanges
<1>7. ASSUME NEW i \in DOMAIN operations, RunTier(i) PROVE RegistryInv'
  <2>1. PICK rc \in ExitCodes :
          /\ tasks' = [tasks EXCEPT ![i].todo = Tail(@), ![i].worst = Worst(@, rc)]
          /\ operations' = [operations EXCEPT ![i].codes = @ \cup {rc}]
          /\ entries' = IF rc \in {0, 2} /\ ~operations[i].dry_run
                        THEN entries \cup {Head(tasks[i].todo)} ELSE entries
      BY <1>7 DEF RunTier
  <2>2. tasks[i].step = "running" /\ tasks[i].todo # <<>> BY <1>7 DEF RunTier
  <2>3. /\ tasks[i].todo \in Seq(Tiers) /\ tasks[i].worst \in Nat /\ operations[i].codes \subseteq Nat
        /\ rc \in Nat
      BY <1>t DEF Task, Operation
  <2>4. Worst(tasks[i].worst, rc) \in Nat
        /\ (Worst(tasks[i].worst, rc) = 0 => tasks[i].worst = 0 /\ rc \notin {1, 2})
      BY <2>3 DEF Worst
  <2> DEFINE o == [operations[i] EXCEPT !.codes = @ \cup {rc}]
             t == [tasks[i] EXCEPT !.todo = Tail(@), !.worst = Worst(@, rc)]
  <2>5. /\ o \in Operation /\ o.status = operations[i].status
        /\ o.codes = operations[i].codes \cup {rc}
      BY <1>t, <2>3 DEF Operation
  <2>6. Tail(tasks[i].todo) \in Seq(Tiers) BY <2>2, <2>3
  <2>7. t \in Task /\ t.step = "running" /\ t.worst = Worst(tasks[i].worst, rc)
      BY <1>t, <2>2, <2>4, <2>6 DEF Task
  <2>8. operations' = [operations EXCEPT ![i] = o] /\ tasks' = [tasks EXCEPT ![i] = t]
      BY <2>1, <1>t
  <2>9. entries' \subseteq Tiers BY <2>1, <2>2, <2>3, <1>t
  <2>10. operations[i].status = "in_progress"
        /\ (tasks[i].worst = 0 => {1, 2} \cap operations[i].codes = {})
      BY <2>2 DEF RegistryInv, InProgressIsAlive, WorstTells
  <2> HIDE DEF o, t
  <2>11. t.worst = 0 => {1, 2} \cap o.codes = {} BY <2>4, <2>5, <2>7, <2>10
  <2> QED BY <2>5, <2>7, <2>8, <2>9, <2>10, <2>11, OneChanges
<1>8. ASSUME NEW i \in DOMAIN operations, ScriptExits(i) PROVE RegistryInv'
  <2> DEFINE o == operations[i]
             t == [tasks[i] EXCEPT !.step = "exited"]
  <2>1. t \in Task /\ t.step = "exited" /\ t.worst = tasks[i].worst BY <1>t DEF Task
  <2>2. /\ operations' = [operations EXCEPT ![i] = o] /\ tasks' = [tasks EXCEPT ![i] = t]
        /\ entries' = entries /\ o \in Operation
      BY <1>8, <1>t DEF ScriptExits
  <2>3. o.status = "in_progress" /\ (tasks[i].worst = 0 => {1, 2} \cap o.codes = {})
      BY <1>8 DEF ScriptExits, RegistryInv, InProgressIsAlive, WorstTells
  <2> HIDE DEF o, t
  <2> QED BY <2>1, <2>2, <2>3, <1>t, OneChanges
<1>9. ASSUME NEW i \in DOMAIN operations, RecordOutcome(i) PROVE RegistryInv'
  <2> DEFINE outcome == IF tasks[i].worst = 0 THEN "completed" ELSE "failed"
             o == [operations[i] EXCEPT !.status = outcome]
  <2>1. o \in Operation BY <1>t DEF Operation
  <2>2. operations' = [operations EXCEPT ![i] = o] /\ tasks' = [tasks EXCEPT ![i] = Gone]
        /\ entries' = entries
      BY <1>9, <1>t DEF RecordOutcome, Ends, Gone
  <2>3. o.status = outcome /\ o.codes = operations[i].codes BY <1>t DEF Operation
  <2>4. outcome = "completed" => {1, 2} \cap operations[i].codes = {}
      BY <1>9 DEF RecordOutcome, RegistryInv, WorstTells
  <2>5. outcome # "in_progress" OBVIOUS
  <2> HIDE DEF o, outcome
  <2> QED BY <2>1, <2>2, <2>3, <2>4, <2>5, <1>t, GoneType, OneChanges
<1>10. ASSUME CronStarts \/ CronEnds PROVE RegistryInv'
    BY <1>10, <1>t DEF CronStarts, CronEnds, RegistryInv, RegistryTypes, InProgressIsAlive,
                       WorstTells, CompletedHadNoFailure
<1>11. ASSUME BackupsRestart PROVE RegistryInv'
    BY <1>11, <1>t DEF BackupsRestart, RegistryInv, RegistryTypes, InProgressIsAlive,
                       WorstTells, CompletedHadNoFailure
<1>12. ASSUME UNCHANGED backupsVars PROVE RegistryInv'
    BY <1>12 DEF backupsVars, RegistryInv, RegistryTypes, InProgressIsAlive,
                 WorstTells, CompletedHadNoFailure
<1> QED
    BY <1>1, <1>2, <1>3, <1>4, <1>5, <1>6, <1>7, <1>8, <1>9, <1>10, <1>11, <1>12 DEF BackupsNext

LEMMA RegistryInvariant == BackupsSpec => []RegistryInv
BY RegistryInit, RegistryStep, PTL DEF BackupsSpec

-----------------------------------------------------------------------------
\* An operation reads in_progress exactly as long as its task lives, whatever fails
\* in the task, the script or the container (backup_service.py, _execute_backup and
\* _execute_restore).
THEOREM EveryTaskEndsItsRecord == BackupsSpec => []InProgressIsAlive
BY RegistryInvariant, PTL DEF RegistryInv

\* A backup that reads completed had no tier script that exited with 1 or 2, at any
\* place in the order of the tiers (backup.sh, worst_rc).
THEOREM CompletedIsClean == BackupsSpec => []CompletedHadNoFailure
BY RegistryInvariant, PTL DEF RegistryInv

-----------------------------------------------------------------------------
(* Reports: failures are counted once.                                     *)

Scrape == [step : {"idle", "scanned", "read"}, keys : SUBSET TrackedDocs,
           later : SUBSET Scrapers, late : BOOLEAN]

ScrapeTypes ==
    /\ tracked \in [TrackedDocs -> Records \cup {Untracked}]
    /\ failures \in Nat /\ counted \in Nat /\ known \subseteq TrackedDocs
    /\ scrapes \in [Scrapers -> Scrape]
    /\ overtaken \in BOOLEAN

Failing == FailedIn(tracked)

\* Scrapes that are to be applied, and were not overtaken yet.
Scanning == {s \in Scrapers : scrapes[s].step = "scanned" /\ ~scrapes[s].late}
Applying == {s \in Scrapers : scrapes[s].step = "read" /\ ~scrapes[s].late}

\* Documents that failed after the scan of t, and are in S: t takes them for recovered.
Missed(t, S) == (Failing \ scrapes[t].keys) \cap S

\* total[s] is where the counter may be once scrape s has been applied: enough for
\* what s counts, for the scrapes that come after it, and for the failures that none
\* of them has seen.
Accounted(total) ==
    /\ counted + Cardinality(Failing \ known) <= failures
    /\ \A t \in Scanning :
          counted + Cardinality(Failing \ known) + Cardinality(Missed(t, known)) <= failures
    /\ \A s \in Applying :
          /\ counted + Cardinality(scrapes[s].keys \ known) <= total[s]
          /\ total[s] + Cardinality(Failing \ scrapes[s].keys) <= failures
          /\ \A t \in Applying \ {s} : s \notin scrapes[t].later =>
                total[s] + Cardinality(scrapes[t].keys \ scrapes[s].keys) <= total[t]
          /\ \A t \in Scanning : s \notin scrapes[t].later =>
                total[s] + Cardinality(Failing \ scrapes[s].keys)
                         + Cardinality(Missed(t, scrapes[s].keys)) <= failures

FailuresInv == ScrapeTypes /\ (~overtaken => \E total \in [Scrapers -> Int] : Accounted(total))

LEMMA Sizes ==
    /\ \A S \in SUBSET TrackedDocs : IsFiniteSet(S) /\ Cardinality(S) \in Nat
    /\ \A S, T \in SUBSET TrackedDocs : S \subseteq T => Cardinality(S) <= Cardinality(T)
    /\ \A S \in SUBSET TrackedDocs : \A d : Cardinality(S \cup {d}) <= Cardinality(S) + 1
    /\ \A S, T \in SUBSET TrackedDocs :
          S \cap T = {} => Cardinality(S \cup T) = Cardinality(S) + Cardinality(T)
    /\ Cardinality({}) = 0
<1>1. \A S \in SUBSET TrackedDocs : IsFiniteSet(S) /\ Cardinality(S) \in Nat
  BY ReportsOK, FS_Subset, FS_CardinalityType
<1>2. \A S, T \in SUBSET TrackedDocs : S \subseteq T => Cardinality(S) <= Cardinality(T)
  BY <1>1, FS_Subset
<1>3. ASSUME NEW S \in SUBSET TrackedDocs, NEW d
      PROVE  Cardinality(S \cup {d}) <= Cardinality(S) + 1
  <2>1. Cardinality(S \cup {d}) = IF d \in S THEN Cardinality(S) ELSE Cardinality(S) + 1
    BY <1>1, FS_AddElement
  <2>2. Cardinality(S) \in Nat
    BY <1>1
  <2> QED BY <2>1, <2>2
<1>4. ASSUME NEW S \in SUBSET TrackedDocs, NEW T \in SUBSET TrackedDocs, S \cap T = {}
      PROVE  Cardinality(S \cup T) = Cardinality(S) + Cardinality(T)
  <2>1. Cardinality(S \cup T) = Cardinality(S) + Cardinality(T) - Cardinality(S \cap T)
    BY <1>1, FS_Union
  <2>2. Cardinality(S \cap T) = 0 /\ Cardinality(S) \in Nat /\ Cardinality(T) \in Nat
    BY <1>1, <1>4, FS_EmptySet
  <2> QED BY <2>1, <2>2
<1> QED BY <1>1, <1>2, <1>3, <1>4, FS_EmptySet

\* A scrape that saw keys counts the failed ones of them, and what it missed of X is
\* what a counter that knows X counts twice.
LEMMA CountedTwice ==
    ASSUME NEW F \in SUBSET TrackedDocs, NEW keys, NEW X
    PROVE  Cardinality((keys \cap F) \ X) + Cardinality(F \ keys)
             = Cardinality(F \ X) + Cardinality((F \ keys) \cap X)
<1> DEFINE A == (keys \cap F) \ X
           B == (F \ keys) \ X
           C == (F \ keys) \cap X
<1>1. /\ A \in SUBSET TrackedDocs /\ B \in SUBSET TrackedDocs /\ C \in SUBSET TrackedDocs
      /\ A \cap B = {} /\ B \cap C = {}
      /\ F \ X = A \cup B /\ F \ keys = B \cup C
  OBVIOUS
<1> HIDE DEF A, B, C
<1>2. Cardinality(A \cup B) = Cardinality(A) + Cardinality(B)
  BY <1>1, Sizes
<1>3. Cardinality(B \cup C) = Cardinality(B) + Cardinality(C)
  BY <1>1, Sizes
<1>4. Cardinality(A) \in Nat /\ Cardinality(B) \in Nat /\ Cardinality(C) \in Nat
  BY <1>1, Sizes
<1>5. Cardinality(F \ X) = Cardinality(A \cup B) /\ Cardinality(F \ keys) = Cardinality(B \cup C)
  BY <1>1, Zenon
<1>6. Cardinality(A) + Cardinality(F \ keys) = Cardinality(F \ X) + Cardinality(C)
  BY <1>2, <1>3, <1>4, <1>5
<1> QED BY <1>6 DEF A, C

\* One more failure (n = 1) is one more to count for whoever knows X, and not two.
LEMMA FailureSize ==
    ASSUME NEW F \in SUBSET TrackedDocs, NEW d \in TrackedDocs, NEW n \in {0, 1},
           NEW G \in SUBSET (F \cup {d}), n = 0 => G \subseteq F, NEW X
    PROVE  Cardinality(G \ X) \in Nat /\ Cardinality(G \ X) <= Cardinality(F \ X) + n
<1> DEFINE A == F \ X
           C == G \ X
<1>1. A \in SUBSET TrackedDocs /\ C \in SUBSET TrackedDocs /\ A \cup {d} \in SUBSET TrackedDocs
  OBVIOUS
<1>2. C \subseteq A \cup {d} /\ (n = 0 => C \subseteq A)
  OBVIOUS
<1> HIDE DEF A, C
<1>3. /\ Cardinality(A) \in Nat /\ Cardinality(C) \in Nat /\ Cardinality(A \cup {d}) \in Nat
      /\ Cardinality(A \cup {d}) <= Cardinality(A) + 1
      /\ Cardinality(C) <= Cardinality(A \cup {d}) /\ (n = 0 => Cardinality(C) <= Cardinality(A))
  BY <1>1, <1>2, Sizes
<1>4. Cardinality(C) <= Cardinality(A) + n
  BY <1>3
<1> QED BY <1>3, <1>4 DEF A, C

LEMMA FailureSizes ==
    ASSUME NEW F \in SUBSET TrackedDocs, NEW d \in TrackedDocs, NEW n \in {0, 1},
           NEW G \in SUBSET (F \cup {d}), n = 0 => G \subseteq F, NEW keys, NEW X
    PROVE  /\ Cardinality((G \ keys) \cap X) \in Nat
           /\ Cardinality(G \ X) + Cardinality((G \ keys) \cap X)
                <= Cardinality(F \ X) + Cardinality((F \ keys) \cap X) + n
<1> DEFINE A == F \ X
           B == (F \ keys) \cap X
           C == G \ X
           D == (G \ keys) \cap X
<1>1. /\ A \in SUBSET TrackedDocs /\ B \in SUBSET TrackedDocs
      /\ C \in SUBSET TrackedDocs /\ D \in SUBSET TrackedDocs
      /\ A \cup {d} \in SUBSET TrackedDocs /\ B \cup {d} \in SUBSET TrackedDocs
  OBVIOUS
<1>2. d \in X => C \subseteq A /\ D \subseteq B \cup {d}
  OBVIOUS
<1>3. d \notin X => C \subseteq A \cup {d} /\ D \subseteq B
  OBVIOUS
<1>a. n = 0 => C \subseteq A /\ D \subseteq B
  OBVIOUS
<1> HIDE DEF A, B, C, D
<1>4. /\ Cardinality(A) \in Nat /\ Cardinality(B) \in Nat /\ Cardinality(C) \in Nat /\ Cardinality(D) \in Nat
      /\ Cardinality(A \cup {d}) \in Nat /\ Cardinality(B \cup {d}) \in Nat
      /\ Cardinality(A \cup {d}) <= Cardinality(A) + 1 /\ Cardinality(B \cup {d}) <= Cardinality(B) + 1
  BY <1>1, Sizes
<1>5. Cardinality(C) + Cardinality(D) <= Cardinality(A) + Cardinality(B) + n
  <2>1. CASE n = 0
    <3>1. Cardinality(C) <= Cardinality(A) /\ Cardinality(D) <= Cardinality(B)
      BY <1>1, <1>a, <2>1, Sizes
    <3> QED BY <1>4, <2>1, <3>1
  <2>2. CASE n = 1 /\ d \in X
    <3>1. Cardinality(C) <= Cardinality(A) /\ Cardinality(D) <= Cardinality(B \cup {d})
      BY <1>1, <1>2, <2>2, Sizes
    <3> QED BY <1>4, <2>2, <3>1
  <2>3. CASE n = 1 /\ d \notin X
    <3>1. Cardinality(C) <= Cardinality(A \cup {d}) /\ Cardinality(D) <= Cardinality(B)
      BY <1>1, <1>3, <2>3, Sizes
    <3> QED BY <1>4, <2>3, <3>1
  <2> QED BY <2>1, <2>2, <2>3
<1> QED BY <1>4, <1>5 DEF A, B, C, D

\* What the sets of the invariant are made of.
LEMMA ScrapeSets ==
    ASSUME ScrapeTypes
    PROVE  /\ Failing \in SUBSET TrackedDocs
           /\ \A s \in Scrapers : scrapes[s].keys \in SUBSET TrackedDocs
           /\ \A X : Failing \ X \in SUBSET TrackedDocs
           /\ \A X : Cardinality(Failing \ X) \in Nat
           /\ \A t, X : Missed(t, X) \in SUBSET TrackedDocs /\ Cardinality(Missed(t, X)) \in Nat
           /\ \A s \in Scrapers : \A X : Cardinality(scrapes[s].keys \ X) \in Nat
<1>1. Failing \in SUBSET TrackedDocs /\ \A s \in Scrapers : scrapes[s].keys \in SUBSET TrackedDocs
  BY DEF ScrapeTypes, Scrape, Failing, FailedIn
<1>2. \A t, X : Missed(t, X) \in SUBSET TrackedDocs
  BY <1>1 DEF Missed
<1>3. \A X : Failing \ X \in SUBSET TrackedDocs
  BY <1>1
<1>4. \A s \in Scrapers : \A X : scrapes[s].keys \ X \in SUBSET TrackedDocs
  BY <1>1
<1> QED BY <1>1, <1>2, <1>3, <1>4, Sizes

LEMMA ScrapeTypesInit == ReportsInit => ScrapeTypes
<1> SUFFICES ASSUME ReportsInit PROVE ScrapeTypes
  OBVIOUS
<1>1. tracked \in [TrackedDocs -> Records \cup {Untracked}]
  BY DEF ReportsInit, Records
<1>2. failures \in Nat
  BY Sizes DEF ReportsInit, FailedIn
<1> QED BY <1>1, <1>2 DEF ReportsInit, ScrapeTypes, Scrape, NoScrape

LEMMA ScrapeTypesStep == ScrapeTypes /\ [ReportsNext]_reportsVars => ScrapeTypes'
<1> SUFFICES ASSUME ScrapeTypes, [ReportsNext]_reportsVars PROVE ScrapeTypes'
  OBVIOUS
<1> USE DEF ScrapeTypes
<1>a. \A S \in SUBSET TrackedDocs : Cardinality(S) \in Nat
  BY Sizes
<1>1. ASSUME NEW d \in TrackedDocs, NEW to \in Records \cup {Untracked}, RecordChanges(d, to)
      PROVE  ScrapeTypes'
  BY <1>1 DEF RecordChanges
<1>2. ASSUME NEW s \in Scrapers, ScrapeBegins(s) PROVE ScrapeTypes'
  BY <1>2 DEF ScrapeBegins, ScanKeys, NoScrape, Scrape
<1>3. ASSUME NEW s \in Scrapers, ScrapeReads(s) PROVE ScrapeTypes'
  <2> DEFINE new(t) == IF t = s THEN [scrapes[s] EXCEPT !.step = "read", !.keys = @ \cap FailedIn(tracked)]
                       ELSE IF scrapes[t].step = "idle" THEN scrapes[t]
                       ELSE [scrapes[t] EXCEPT !.later = @ \cup {s}]
  <2>1. ASSUME NEW t \in Scrapers PROVE new(t) \in Scrape
    <3>1. scrapes[t] \in Scrape /\ scrapes[s] \in Scrape
      OBVIOUS
    <3>2. CASE t = s
      BY <3>1, <3>2 DEF Scrape
    <3>3. CASE t # s /\ scrapes[t].step = "idle"
      BY <3>1, <3>3
    <3>4. CASE t # s /\ scrapes[t].step # "idle"
      BY <3>1, <3>4 DEF Scrape
    <3> QED BY <3>2, <3>3, <3>4
  <2> HIDE DEF new
  <2>2. scrapes' = [t \in Scrapers |-> new(t)]
    BY <1>3 DEF ScrapeReads, new
  <2>3. UNCHANGED <<tracked, failures, known, counted, overtaken>>
    BY <1>3 DEF ScrapeReads
  <2> QED BY <2>1, <2>2, <2>3
<1>4. ASSUME NEW s \in Scrapers, ScrapeSyncs(s) PROVE ScrapeTypes'
  <2> DEFINE new(t) == IF t = s THEN NoScrape ELSE [scrapes[t] EXCEPT !.late = @ \/ s \in scrapes[t].later]
  <2>1. ASSUME NEW t \in Scrapers PROVE new(t) \in Scrape
    <3>1. scrapes[t] \in Scrape
      OBVIOUS
    <3>2. CASE t = s
      BY <3>2 DEF NoScrape, Scrape
    <3>3. CASE t # s
      BY <3>1, <3>3 DEF Scrape
    <3> QED BY <3>2, <3>3
  <2> HIDE DEF new
  <2>2. scrapes' = [t \in Scrapers |-> new(t)]
    BY <1>4 DEF ScrapeSyncs, Finished, new
  <2>3. scrapes[s].keys \in SUBSET TrackedDocs /\ scrapes[s].keys \ known \in SUBSET TrackedDocs
    BY DEF Scrape
  <2>4. counted' \in Nat /\ known' \subseteq TrackedDocs
    BY <1>4, <1>a, <2>3 DEF ScrapeSyncs, Sync
  <2>5. overtaken' \in BOOLEAN
    BY <1>4 DEF ScrapeSyncs
  <2> QED BY <1>4, <2>1, <2>2, <2>4, <2>5 DEF ScrapeSyncs
<1>5. ASSUME NEW s \in Scrapers, ScrapeFails(s) PROVE ScrapeTypes'
  BY <1>5 DEF ScrapeFails, NoScrape, Scrape
<1>6. CASE ApiRestarts
  <2>1. FailedIn(tracked) \in SUBSET TrackedDocs
    BY DEF FailedIn
  <2> QED BY <1>6, <1>a, <2>1 DEF ApiRestarts, NoScrape, Scrape
<1>7. CASE ListingNext \/ UNCHANGED reportsVars
  <2>1. UNCHANGED <<tracked, failures, known, counted, scrapes, overtaken>>
    BY <1>7 DEF ListingNext, ListingBegins, ListsOne, ListingEnds, ListingFails, reportsVars
  <2> QED BY <2>1
<1> QED BY <1>1, <1>2, <1>3, <1>4, <1>5, <1>6, <1>7 DEF ReportsNext, RecordsNext, ScrapesNext

-----------------------------------------------------------------------------
\* Whatever the step, the sets that are counted keep the sizes that are accounted for.

LEMMA AccountedRecords ==
    ASSUME ScrapeTypes, NEW total \in [Scrapers -> Int], Accounted(total),
           NEW d \in TrackedDocs, NEW to \in Records \cup {Untracked}, RecordChanges(d, to)
    PROVE  Accounted(total)'
<1> DEFINE n == IF to = "failed" THEN 1 ELSE 0
<1>1. failures' = failures + n /\ UNCHANGED <<known, counted, scrapes>>
  BY DEF RecordChanges, ScrapeTypes
<1>2. /\ n \in {0, 1} /\ Failing \in SUBSET TrackedDocs
      /\ Failing' \in SUBSET (Failing \cup {d}) /\ (n = 0 => Failing' \subseteq Failing)
  BY DEF RecordChanges, ScrapeTypes, Failing, FailedIn
<1> HIDE DEF n
<1>3. \A X : /\ Cardinality(Failing' \ X) \in Nat
             /\ Cardinality(Failing' \ X) <= Cardinality(Failing \ X) + n
  BY <1>2, FailureSize
<1>4. \A t, X : /\ Cardinality((Failing' \ scrapes[t].keys) \cap X) \in Nat
                /\ Cardinality(Failing' \ X) + Cardinality((Failing' \ scrapes[t].keys) \cap X)
                     <= Cardinality(Failing \ X) + Cardinality((Failing \ scrapes[t].keys) \cap X) + n
  <2> SUFFICES ASSUME NEW t, NEW X
               PROVE  /\ Cardinality((Failing' \ scrapes[t].keys) \cap X) \in Nat
                      /\ Cardinality(Failing' \ X) + Cardinality((Failing' \ scrapes[t].keys) \cap X)
                           <= Cardinality(Failing \ X) + Cardinality((Failing \ scrapes[t].keys) \cap X) + n
    OBVIOUS
  <2> QED BY <1>2, FailureSizes
<1>5. Scanning' = Scanning /\ Applying' = Applying /\ Scanning \subseteq Scrapers /\ Applying \subseteq Scrapers
  BY <1>1 DEF Scanning, Applying
<1>6. /\ counted \in Nat /\ failures \in Nat /\ n \in Nat
      /\ \A X : Cardinality(Failing \ X) \in Nat
      /\ \A t, X : Cardinality(Missed(t, X)) \in Nat
      /\ \A s \in Scrapers : \A X : Cardinality(scrapes[s].keys \ X) \in Nat
  <2>1. counted \in Nat /\ failures \in Nat /\ n \in Nat
    BY <1>2 DEF ScrapeTypes
  <2> QED BY <2>1, ScrapeSets
<1>7. counted' + Cardinality(Failing' \ known') <= failures'
  <2>1. counted + Cardinality(Failing \ known) <= failures
    BY DEF Accounted
  <2>2. /\ Cardinality(Failing' \ known) \in Nat /\ Cardinality(Failing \ known) \in Nat
        /\ Cardinality(Failing' \ known) <= Cardinality(Failing \ known) + n
    BY <1>3, <1>6
  <2>3. counted + Cardinality(Failing' \ known) <= failures + n
    BY <1>2, <1>6, <2>1, <2>2
  <2> QED BY <1>1, <2>3
<1>8. ASSUME NEW t \in Scanning'
      PROVE  counted' + Cardinality(Failing' \ known') + Cardinality(Missed(t, known)') <= failures'
  <2>1. counted + Cardinality(Failing \ known) + Cardinality((Failing \ scrapes[t].keys) \cap known) <= failures
    BY <1>5 DEF Accounted, Missed
  <2>2. /\ Cardinality(Failing' \ known) \in Nat /\ Cardinality(Failing \ known) \in Nat
        /\ Cardinality((Failing' \ scrapes[t].keys) \cap known) \in Nat
        /\ Cardinality((Failing \ scrapes[t].keys) \cap known) \in Nat
    BY <1>3, <1>4, <1>6 DEF Missed
  <2>3. Cardinality(Failing' \ known) + Cardinality((Failing' \ scrapes[t].keys) \cap known)
           <= Cardinality(Failing \ known) + Cardinality((Failing \ scrapes[t].keys) \cap known) + n
    BY <1>4
  <2>4. counted + Cardinality(Failing' \ known) + Cardinality((Failing' \ scrapes[t].keys) \cap known) <= failures + n
    BY <1>2, <1>6, <2>1, <2>2, <2>3
  <2> QED BY <1>1, <2>4 DEF Missed
<1>9. ASSUME NEW s \in Applying'
      PROVE  /\ counted' + Cardinality(scrapes'[s].keys \ known') <= total[s]
             /\ total[s] + Cardinality(Failing' \ scrapes'[s].keys) <= failures'
             /\ \A t \in Applying' \ {s} : s \notin scrapes'[t].later =>
                   total[s] + Cardinality(scrapes'[t].keys \ scrapes'[s].keys) <= total[t]
             /\ \A t \in Scanning' : s \notin scrapes'[t].later =>
                   total[s] + Cardinality(Failing' \ scrapes'[s].keys)
                            + Cardinality(Missed(t, scrapes[s].keys)') <= failures'
  <2>1. total[s] \in Int /\ s \in Applying
    BY <1>5
  <2>2. total[s] + Cardinality(Failing' \ scrapes[s].keys) <= failures'
    <3>1. total[s] + Cardinality(Failing \ scrapes[s].keys) <= failures
      BY <2>1 DEF Accounted
    <3>2. /\ Cardinality(Failing' \ scrapes[s].keys) \in Nat /\ Cardinality(Failing \ scrapes[s].keys) \in Nat
          /\ Cardinality(Failing' \ scrapes[s].keys) <= Cardinality(Failing \ scrapes[s].keys) + n
      BY <1>3, <1>6
    <3> QED BY <1>1, <1>2, <1>6, <2>1, <3>1, <3>2
  <2>3. ASSUME NEW t \in Scanning, s \notin scrapes[t].later
        PROVE  total[s] + Cardinality(Failing' \ scrapes[s].keys)
                        + Cardinality((Failing' \ scrapes[t].keys) \cap scrapes[s].keys) <= failures'
    <3>1. total[s] + Cardinality(Failing \ scrapes[s].keys) + Cardinality(Missed(t, scrapes[s].keys)) <= failures
      BY <2>1, <2>3 DEF Accounted
    <3>2. Cardinality(Failing' \ scrapes[s].keys) + Cardinality((Failing' \ scrapes[t].keys) \cap scrapes[s].keys)
            <= Cardinality(Failing \ scrapes[s].keys) + Cardinality(Missed(t, scrapes[s].keys)) + n
      BY <1>4 DEF Missed
    <3>3. /\ Cardinality(Failing' \ scrapes[s].keys) \in Nat
          /\ Cardinality((Failing' \ scrapes[t].keys) \cap scrapes[s].keys) \in Nat
      BY <1>3, <1>4, <1>5
    <3>4. Cardinality(Failing \ scrapes[s].keys) \in Nat /\ Cardinality(Missed(t, scrapes[s].keys)) \in Nat
      BY <1>6
    <3> QED BY <1>1, <1>2, <1>6, <2>1, <3>1, <3>2, <3>3, <3>4
  <2> QED BY <1>1, <1>5, <2>1, <2>2, <2>3 DEF Accounted, Missed
<1> QED BY <1>7, <1>8, <1>9 DEF Accounted

LEMMA AccountedBegins ==
    ASSUME ScrapeTypes, NEW total \in [Scrapers -> Int], Accounted(total),
           NEW s \in Scrapers, ScrapeBegins(s)
    PROVE  Accounted(total)'
<1>1. /\ scrapes[s].step = "idle"
      /\ scrapes' = [scrapes EXCEPT ![s] = [NoScrape EXCEPT !.step = "scanned", !.keys = ScanKeys]]
      /\ UNCHANGED <<known, counted, failures>>
  BY DEF ScrapeBegins
<1>2. Failing' = Failing /\ Failing \subseteq ScanKeys
  BY DEF ScrapeBegins, Failing, FailedIn, ScanKeys, Untracked
<1>3. \A t \in Scrapers \ {s} : scrapes'[t] = scrapes[t]
  BY <1>1 DEF ScrapeTypes
<1>4. scrapes'[s].step = "scanned" /\ scrapes'[s].keys = ScanKeys
  BY <1>1 DEF ScrapeTypes, NoScrape
<1>5. Applying' = Applying /\ s \notin Applying /\ Scanning' \ {s} = Scanning \ {s} /\ Applying \subseteq Scrapers
      /\ Scanning' \subseteq Scrapers
  BY <1>1, <1>3, <1>4 DEF Applying, Scanning
<1>6. \A X : Missed(s, X)' = {}
  BY <1>2, <1>4 DEF Missed
<1>7. \A t \in Scrapers \ {s} : \A X : (Failing' \ scrapes'[t].keys) \cap X = (Failing \ scrapes[t].keys) \cap X
  BY <1>2, <1>3
<1>8. /\ counted \in Nat /\ failures \in Nat /\ Cardinality({}) = 0
      /\ \A X : Cardinality(Failing \ X) \in Nat
  BY ScrapeSets, Sizes DEF ScrapeTypes
<1>9. ASSUME NEW t \in Scanning'
      PROVE  counted' + Cardinality(Failing' \ known') + Cardinality(Missed(t, known)') <= failures'
  <2>0. counted + Cardinality(Failing \ known) <= failures /\ Cardinality(Failing \ known) \in Nat
    BY <1>8 DEF Accounted
  <2>1. CASE t = s
    <3>1. Missed(t, known)' = {}
      BY <1>6, <2>1 DEF Missed
    <3>2. counted + Cardinality(Failing \ known) + Cardinality({}) <= failures
      BY <1>8, <2>0
    <3> QED BY <1>1, <1>2, <3>1, <3>2
  <2>2. CASE t # s
    <3>1. Missed(t, known)' = Missed(t, known) /\ t \in Scanning
      BY <1>1, <1>5, <1>7, <2>2 DEF Missed
    <3>2. counted + Cardinality(Failing \ known) + Cardinality(Missed(t, known)) <= failures
      BY <3>1 DEF Accounted
    <3> QED BY <1>1, <1>2, <3>1, <3>2
  <2> QED BY <2>1, <2>2
<1>10. ASSUME NEW r \in Applying', NEW t \in Scanning', r \notin scrapes'[t].later
       PROVE  total[r] + Cardinality(Failing' \ scrapes'[r].keys)
                       + Cardinality(Missed(t, scrapes[r].keys)') <= failures'
  <2>0. r \in Applying /\ r # s /\ scrapes'[r] = scrapes[r] /\ total[r] \in Int
    BY <1>3, <1>5
  <2>1. CASE t = s
    <3>1. Missed(t, scrapes[r].keys)' = {}
      BY <1>2, <1>4, <2>0, <2>1 DEF Missed
    <3>2. total[r] + Cardinality(Failing \ scrapes[r].keys) <= failures
      BY <2>0 DEF Accounted
    <3>3. Cardinality(Failing \ scrapes[r].keys) \in Nat
      BY <1>8
    <3>4. total[r] + Cardinality(Failing \ scrapes[r].keys) + Cardinality({}) <= failures
      BY <1>8, <2>0, <3>2, <3>3
    <3> QED BY <1>1, <1>2, <2>0, <3>1, <3>4
  <2>2. CASE t # s
    <3>1. t \in Scanning /\ r \notin scrapes[t].later /\ scrapes'[t] = scrapes[t]
      BY <1>3, <1>5, <1>10, <2>2
    <3>2. Missed(t, scrapes[r].keys)' = Missed(t, scrapes[r].keys)
      BY <1>2, <2>0, <3>1 DEF Missed
    <3>3. total[r] + Cardinality(Failing \ scrapes[r].keys) + Cardinality(Missed(t, scrapes[r].keys)) <= failures
      BY <2>0, <3>1 DEF Accounted
    <3> QED BY <1>1, <1>2, <2>0, <3>2, <3>3
  <2> QED BY <2>1, <2>2
<1>11. ASSUME NEW r \in Applying'
       PROVE  /\ counted' + Cardinality(scrapes'[r].keys \ known') <= total[r]
              /\ total[r] + Cardinality(Failing' \ scrapes'[r].keys) <= failures'
              /\ \A t \in Applying' \ {r} : r \notin scrapes'[t].later =>
                   total[r] + Cardinality(scrapes'[t].keys \ scrapes'[r].keys) <= total[t]
  BY <1>1, <1>2, <1>3, <1>5 DEF Accounted
<1> QED BY <1>1, <1>2, <1>9, <1>10, <1>11 DEF Accounted

LEMMA AccountedReads ==
    ASSUME ScrapeTypes, NEW total \in [Scrapers -> Int], Accounted(total),
           NEW s \in Scrapers, ScrapeReads(s)
    PROVE  \E new \in [Scrapers -> Int] : Accounted(new)'
<1> DEFINE keys == scrapes[s].keys
<1>1. /\ scrapes[s].step = "scanned" /\ UNCHANGED <<tracked, known, counted, failures>>
      /\ scrapes' = [t \in Scrapers |->
           IF t = s THEN [scrapes[s] EXCEPT !.step = "read", !.keys = @ \cap FailedIn(tracked)]
           ELSE IF scrapes[t].step = "idle" THEN scrapes[t]
           ELSE [scrapes[t] EXCEPT !.later = @ \cup {s}]]
  BY DEF ScrapeReads
<1>2. Failing' = Failing /\ Failing \in SUBSET TrackedDocs /\ keys \in SUBSET TrackedDocs
  BY <1>1, ScrapeSets DEF Failing
<1>3. /\ counted \in Nat /\ failures \in Nat
      /\ \A X : Cardinality(Failing \ X) \in Nat
      /\ \A t, X : Cardinality(Missed(t, X)) \in Nat
  BY ScrapeSets DEF ScrapeTypes
<1>4. /\ scrapes'[s].step = "read" /\ scrapes'[s].keys = keys \cap Failing
      /\ scrapes'[s].later = scrapes[s].later /\ scrapes'[s].late = scrapes[s].late
  <2>1. scrapes[s] \in Scrape
    BY DEF ScrapeTypes
  <2>2. scrapes'[s] = [scrapes[s] EXCEPT !.step = "read", !.keys = @ \cap Failing]
    BY <1>1 DEF Failing
  <2> QED BY <2>1, <2>2 DEF Scrape
<1>5. ASSUME NEW t \in Scrapers \ {s}
      PROVE  /\ scrapes'[t].step = scrapes[t].step /\ scrapes'[t].keys = scrapes[t].keys
             /\ scrapes'[t].late = scrapes[t].late
             /\ scrapes'[t].later = IF scrapes[t].step = "idle" THEN scrapes[t].later
                                    ELSE scrapes[t].later \cup {s}
  <2>1. scrapes[t] \in Scrape
    BY DEF ScrapeTypes
  <2>2. CASE scrapes[t].step = "idle"
    BY <1>1, <2>2
  <2>3. CASE scrapes[t].step # "idle"
    <3>1. scrapes'[t] = [scrapes[t] EXCEPT !.later = @ \cup {s}]
      BY <1>1, <2>3
    <3> QED BY <2>1, <2>3, <3>1 DEF Scrape
  <2> QED BY <2>2, <2>3
<1>6. /\ Scanning' = Scanning \ {s} /\ Applying' \ {s} = Applying \ {s} /\ s \notin Applying
      /\ s \in Applying' => s \in Scanning
      /\ Applying' \subseteq Scrapers /\ Scanning' \subseteq Scrapers /\ s \notin Scanning'
  BY <1>1, <1>4, <1>5 DEF Scanning, Applying
\* Whoever scanned or read before has this scrape among the later ones.
<1>7. \A t \in (Scanning' \cup Applying') \ {s} :
          s \in scrapes'[t].later /\ scrapes[t].later \subseteq scrapes'[t].later
  BY <1>5, <1>6 DEF Scanning, Applying
<1>8. PICK new \in [Scrapers -> Int] : /\ new[s] = failures - Cardinality(Failing \ keys)
                                      /\ \A t \in Scrapers \ {s} : new[t] = total[t]
  <2> DEFINE m == [total EXCEPT ![s] = failures - Cardinality(Failing \ keys)]
  <2>1. failures - Cardinality(Failing \ keys) \in Int
    BY <1>3, SMTT(40)
  <2>2. m \in [Scrapers -> Int] /\ m[s] = failures - Cardinality(Failing \ keys)
        /\ \A t \in Scrapers \ {s} : m[t] = total[t]
    BY <2>1
  <2> QED BY <2>2
<1>9. \A X : Cardinality((keys \cap Failing) \ X) + Cardinality(Failing \ keys)
                = Cardinality(Failing \ X) + Cardinality(Missed(s, X))
  <2> SUFFICES ASSUME NEW X
               PROVE  Cardinality((keys \cap Failing) \ X) + Cardinality(Failing \ keys)
                        = Cardinality(Failing \ X) + Cardinality(Missed(s, X))
    OBVIOUS
  <2>1. Missed(s, X) = (Failing \ keys) \cap X
    BY DEF Missed
  <2> HIDE DEF keys
  <2>2. Failing \in SUBSET TrackedDocs
    BY <1>2
  <2>3. Cardinality((keys \cap Failing) \ X) + Cardinality(Failing \ keys)
           = Cardinality(Failing \ X) + Cardinality((Failing \ keys) \cap X)
    BY <2>2, CountedTwice, ZenonT(30)
  <2> QED BY <2>1, <2>3
<1>a. \A X : Cardinality((keys \cap Failing) \ X) \in Nat
  <2>1. \A X : (keys \cap Failing) \ X \in SUBSET TrackedDocs
    BY <1>2
  <2> QED BY <2>1, Sizes
<1>b. Failing \ (keys \cap Failing) = Failing \ keys
  OBVIOUS
<1> HIDE DEF keys
<1>10. counted' + Cardinality(Failing' \ known') <= failures'
  BY <1>1, <1>2 DEF Accounted
<1>11. ASSUME NEW t \in Scanning'
       PROVE  counted' + Cardinality(Failing' \ known') + Cardinality(Missed(t, known)') <= failures'
  <2>1. t \in Scanning /\ t \in Scrapers \ {s}
    BY <1>6
  <2>2. Missed(t, known)' = Missed(t, known)
    BY <1>1, <1>2, <1>5, <2>1 DEF Missed
  <2> QED BY <1>1, <1>2, <2>1, <2>2 DEF Accounted
<1>12. ASSUME NEW t \in Applying'
       PROVE  /\ counted' + Cardinality(scrapes'[t].keys \ known') <= new[t]
              /\ new[t] + Cardinality(Failing' \ scrapes'[t].keys) <= failures'
              /\ \A u \in Applying' \ {t} : t \notin scrapes'[u].later =>
                   new[t] + Cardinality(scrapes'[u].keys \ scrapes'[t].keys) <= new[u]
              /\ \A u \in Scanning' : t \notin scrapes'[u].later =>
                   new[t] + Cardinality(Failing' \ scrapes'[t].keys)
                          + Cardinality(Missed(u, scrapes[t].keys)') <= failures'
  <2>1. CASE t = s
    <3>1. counted + Cardinality(Failing \ known) + Cardinality(Missed(s, known)) <= failures
      BY <1>6, <2>1 DEF Accounted
    <3>2. Cardinality((keys \cap Failing) \ known) + Cardinality(Failing \ keys)
            = Cardinality(Failing \ known) + Cardinality(Missed(s, known))
      BY <1>9
    <3>3. /\ Cardinality((keys \cap Failing) \ known) \in Nat /\ Cardinality(Failing \ keys) \in Nat
          /\ Cardinality(Failing \ known) \in Nat /\ Cardinality(Missed(s, known)) \in Nat
      BY <1>3, <1>a
    <3>4. counted + Cardinality((keys \cap Failing) \ known) <= new[s]
      BY <1>3, <1>8, <3>1, <3>2, <3>3
    <3>5. new[s] + Cardinality(Failing \ keys) <= failures
      BY <1>3, <1>8, <3>3
    <3> QED BY <1>1, <1>2, <1>4, <1>6, <1>7, <1>b, <2>1, <3>4, <3>5
  <2>2. CASE t # s
    <3>1. t \in Applying /\ t \in Scrapers \ {s} /\ new[t] = total[t] /\ total[t] \in Int
          /\ scrapes'[t].keys = scrapes[t].keys
      BY <1>5, <1>6, <1>8, <2>2
    <3>2. /\ counted' + Cardinality(scrapes'[t].keys \ known') <= new[t]
          /\ new[t] + Cardinality(Failing' \ scrapes'[t].keys) <= failures'
      BY <1>1, <1>2, <3>1 DEF Accounted
    <3>3. ASSUME NEW u \in Applying' \ {t}, t \notin scrapes'[u].later
          PROVE  new[t] + Cardinality(scrapes'[u].keys \ scrapes'[t].keys) <= new[u]
      <4>1. CASE u = s
        <5>1. s \in Scanning /\ t \notin scrapes[s].later
          BY <1>4, <1>6, <3>3, <4>1
        <5>2. total[t] + Cardinality(Failing \ scrapes[t].keys) + Cardinality(Missed(s, scrapes[t].keys)) <= failures
          BY <3>1, <5>1 DEF Accounted
        <5>3. Cardinality((keys \cap Failing) \ scrapes[t].keys) + Cardinality(Failing \ keys)
                = Cardinality(Failing \ scrapes[t].keys) + Cardinality(Missed(s, scrapes[t].keys))
          BY <1>9
        <5>4. /\ Cardinality((keys \cap Failing) \ scrapes[t].keys) \in Nat /\ Cardinality(Failing \ keys) \in Nat
              /\ Cardinality(Failing \ scrapes[t].keys) \in Nat /\ Cardinality(Missed(s, scrapes[t].keys)) \in Nat
          BY <1>3, <1>a
        <5>5. total[t] + Cardinality((keys \cap Failing) \ scrapes[t].keys) <= new[s]
          BY <1>3, <1>8, <3>1, <5>2, <5>3, <5>4
        <5> QED BY <1>4, <3>1, <4>1, <5>5
      <4>2. CASE u # s
        <5>1. u \in Applying \ {t} /\ u \in Scrapers \ {s} /\ t \notin scrapes[u].later
              /\ new[u] = total[u] /\ scrapes'[u].keys = scrapes[u].keys
          BY <1>5, <1>6, <1>7, <1>8, <3>3, <4>2
        <5> QED BY <3>1, <5>1 DEF Accounted
      <4> QED BY <4>1, <4>2
    <3>4. ASSUME NEW u \in Scanning', t \notin scrapes'[u].later
          PROVE  new[t] + Cardinality(Failing' \ scrapes'[t].keys)
                        + Cardinality(Missed(u, scrapes[t].keys)') <= failures'
      <4>1. u \in Scanning /\ u \in Scrapers \ {s} /\ t \notin scrapes[u].later
        BY <1>6, <1>7, <3>4
      <4>2. Missed(u, scrapes[t].keys)' = Missed(u, scrapes[t].keys)
        BY <1>2, <1>5, <3>1, <4>1 DEF Missed
      <4>3. total[t] + Cardinality(Failing \ scrapes[t].keys) + Cardinality(Missed(u, scrapes[t].keys)) <= failures
        BY <3>1, <4>1 DEF Accounted
      <4> QED BY <1>1, <1>2, <3>1, <4>2, <4>3
    <3> QED BY <3>2, <3>3, <3>4
  <2> QED BY <2>1, <2>2
<1>13. Accounted(new)'
  BY <1>10, <1>11, <1>12 DEF Accounted
<1> QED BY <1>8, <1>13

\* A scrape that is applied makes those late that it was later than.
LEMMA AccountedSyncs ==
    ASSUME ScrapeTypes, NEW total \in [Scrapers -> Int], Accounted(total),
           NEW s \in Scrapers, ScrapeSyncs(s), ~scrapes[s].late
    PROVE  Accounted(total)'
<1>1. /\ s \in Applying /\ UNCHANGED <<tracked, failures>>
      /\ counted' = counted + Cardinality(scrapes[s].keys \ known) /\ known' = scrapes[s].keys
      /\ scrapes' = [t \in Scrapers |->
             IF t = s THEN NoScrape ELSE [scrapes[t] EXCEPT !.late = @ \/ s \in scrapes[t].later]]
  BY DEF ScrapeSyncs, Sync, Finished, Applying
<1>2. Failing' = Failing
  BY <1>1 DEF Failing
<1>3. /\ counted \in Nat /\ failures \in Nat /\ total[s] \in Int
      /\ \A X : Cardinality(Failing \ X) \in Nat
      /\ \A t, X : Cardinality(Missed(t, X)) \in Nat
      /\ \A t \in Scrapers : \A X : Cardinality(scrapes[t].keys \ X) \in Nat
  <2>1. counted \in Nat /\ failures \in Nat /\ total[s] \in Int
    BY DEF ScrapeTypes
  <2> QED BY <2>1, ScrapeSets
<1>4. scrapes'[s].step = "idle"
  BY <1>1 DEF NoScrape
<1>5. ASSUME NEW t \in Scrapers \ {s}
      PROVE  /\ scrapes'[t].step = scrapes[t].step /\ scrapes'[t].keys = scrapes[t].keys
             /\ scrapes'[t].later = scrapes[t].later
             /\ ~scrapes'[t].late => ~scrapes[t].late /\ s \notin scrapes[t].later
  <2>1. scrapes[t] \in Scrape
    BY DEF ScrapeTypes
  <2>2. scrapes'[t] = [scrapes[t] EXCEPT !.late = @ \/ s \in scrapes[t].later]
    BY <1>1
  <2> QED BY <2>1, <2>2 DEF Scrape
<1>6. /\ Scanning' \subseteq Scanning /\ Applying' \subseteq Applying
      /\ Scanning \subseteq Scrapers /\ Applying \subseteq Scrapers
      /\ \A t \in Scanning' \cup Applying' : t # s /\ s \notin scrapes[t].later
  BY <1>4, <1>5 DEF Scanning, Applying
<1>7. counted' \in Nat /\ counted' <= total[s]
  <2>1. counted + Cardinality(scrapes[s].keys \ known) <= total[s]
    BY <1>1 DEF Accounted
  <2>2. Cardinality(scrapes[s].keys \ known) \in Nat
    BY <1>3
  <2> QED BY <1>1, <1>3, <2>1, <2>2
<1>8. counted' + Cardinality(Failing' \ known') <= failures'
  <2>1. total[s] + Cardinality(Failing \ scrapes[s].keys) <= failures
    BY <1>1 DEF Accounted
  <2>2. Cardinality(Failing \ scrapes[s].keys) \in Nat
    BY <1>3
  <2>3. counted' + Cardinality(Failing \ scrapes[s].keys) <= failures
    BY <1>3, <1>7, <2>1, <2>2
  <2> QED BY <1>1, <1>2, <2>3
<1>9. ASSUME NEW t \in Scanning'
      PROVE  counted' + Cardinality(Failing' \ known') + Cardinality(Missed(t, known)') <= failures'
  <2>1. t \in Scanning /\ t \in Scrapers \ {s} /\ s \notin scrapes[t].later
    BY <1>6
  <2>2. Missed(t, known)' = Missed(t, scrapes[s].keys)
    BY <1>1, <1>2, <1>5, <2>1 DEF Missed
  <2>3. total[s] + Cardinality(Failing \ scrapes[s].keys) + Cardinality(Missed(t, scrapes[s].keys)) <= failures
    BY <1>1, <2>1 DEF Accounted
  <2>4. Cardinality(Failing \ scrapes[s].keys) \in Nat /\ Cardinality(Missed(t, scrapes[s].keys)) \in Nat
    BY <1>3
  <2>5. counted' + Cardinality(Failing \ scrapes[s].keys) + Cardinality(Missed(t, scrapes[s].keys)) <= failures
    BY <1>3, <1>7, <2>3, <2>4
  <2> QED BY <1>1, <1>2, <2>2, <2>5
<1>10. ASSUME NEW t \in Applying'
       PROVE  /\ counted' + Cardinality(scrapes'[t].keys \ known') <= total[t]
              /\ total[t] + Cardinality(Failing' \ scrapes'[t].keys) <= failures'
              /\ \A u \in Applying' \ {t} : t \notin scrapes'[u].later =>
                   total[t] + Cardinality(scrapes'[u].keys \ scrapes'[t].keys) <= total[u]
              /\ \A u \in Scanning' : t \notin scrapes'[u].later =>
                   total[t] + Cardinality(Failing' \ scrapes'[t].keys)
                            + Cardinality(Missed(u, scrapes[t].keys)') <= failures'
  <2>1. t \in Applying \ {s} /\ t \in Scrapers \ {s} /\ s \notin scrapes[t].later /\ scrapes'[t].keys = scrapes[t].keys
        /\ total[t] \in Int
    BY <1>5, <1>6
  <2>2. counted' + Cardinality(scrapes'[t].keys \ known') <= total[t]
    <3>1. total[s] + Cardinality(scrapes[t].keys \ scrapes[s].keys) <= total[t]
      BY <1>1, <2>1 DEF Accounted
    <3>2. Cardinality(scrapes[t].keys \ scrapes[s].keys) \in Nat
      BY <1>3, <2>1
    <3>3. counted' + Cardinality(scrapes[t].keys \ scrapes[s].keys) <= total[t]
      BY <1>3, <1>7, <2>1, <3>1, <3>2
    <3> QED BY <1>1, <2>1, <3>3
  <2>3. total[t] + Cardinality(Failing' \ scrapes'[t].keys) <= failures'
    BY <1>1, <1>2, <2>1 DEF Accounted
  <2>4. ASSUME NEW u \in Applying' \ {t}, t \notin scrapes'[u].later
        PROVE  total[t] + Cardinality(scrapes'[u].keys \ scrapes'[t].keys) <= total[u]
    <3>1. u \in Applying \ {t} /\ t \notin scrapes[u].later /\ scrapes'[u].keys = scrapes[u].keys
      BY <1>5, <1>6, <2>4
    <3> QED BY <2>1, <3>1 DEF Accounted
  <2>5. ASSUME NEW u \in Scanning', t \notin scrapes'[u].later
        PROVE  total[t] + Cardinality(Failing' \ scrapes'[t].keys)
                        + Cardinality(Missed(u, scrapes[t].keys)') <= failures'
    <3>1. u \in Scanning /\ u \in Scrapers \ {s} /\ t \notin scrapes[u].later
      BY <1>5, <1>6, <2>5
    <3>2. Missed(u, scrapes[t].keys)' = Missed(u, scrapes[t].keys)
      BY <1>2, <1>5, <2>1, <3>1 DEF Missed
    <3>3. total[t] + Cardinality(Failing \ scrapes[t].keys) + Cardinality(Missed(u, scrapes[t].keys)) <= failures
      BY <2>1, <3>1 DEF Accounted
    <3> QED BY <1>1, <1>2, <2>1, <3>2, <3>3
  <2> QED BY <2>2, <2>3, <2>4, <2>5
<1> QED BY <1>8, <1>9, <1>10 DEF Accounted

\* A scrape that fails, and whatever is no business of the scrapes.
LEMMA AccountedRest ==
    ASSUME ScrapeTypes, NEW total \in [Scrapers -> Int], Accounted(total),
           UNCHANGED <<tracked, failures, known, counted>>,
           NEW S \in SUBSET Scrapers,
           scrapes' = [t \in Scrapers |-> IF t \in S THEN NoScrape ELSE scrapes[t]]
    PROVE  Accounted(total)'
<1>1. Failing' = Failing /\ UNCHANGED <<known, counted, failures>>
  BY DEF Failing
<1>2. /\ Scanning' \subseteq Scanning /\ Applying' \subseteq Applying
      /\ \A t \in Scanning' \cup Applying' : scrapes'[t] = scrapes[t]
  BY DEF Scanning, Applying, NoScrape
<1>3. \A t \in Scanning' : \A X : Missed(t, X)' = Missed(t, X)
  BY <1>1, <1>2 DEF Missed
<1>4. counted' + Cardinality(Failing' \ known') <= failures'
  BY <1>1 DEF Accounted
<1>5. ASSUME NEW t \in Scanning'
      PROVE  counted' + Cardinality(Failing' \ known') + Cardinality(Missed(t, known)') <= failures'
  <2>1. t \in Scanning /\ Missed(t, known)' = Missed(t, known)
    BY <1>1, <1>2, <1>3 DEF Missed
  <2> QED BY <1>1, <2>1 DEF Accounted
<1>6. ASSUME NEW s \in Applying'
      PROVE  /\ counted' + Cardinality(scrapes'[s].keys \ known') <= total[s]
             /\ total[s] + Cardinality(Failing' \ scrapes'[s].keys) <= failures'
             /\ \A t \in Applying' \ {s} : s \notin scrapes'[t].later =>
                  total[s] + Cardinality(scrapes'[t].keys \ scrapes'[s].keys) <= total[t]
             /\ \A t \in Scanning' : s \notin scrapes'[t].later =>
                  total[s] + Cardinality(Failing' \ scrapes'[s].keys)
                           + Cardinality(Missed(t, scrapes[s].keys)') <= failures'
  <2>1. s \in Applying /\ scrapes'[s] = scrapes[s]
    BY <1>2
  <2>2. /\ counted' + Cardinality(scrapes'[s].keys \ known') <= total[s]
        /\ total[s] + Cardinality(Failing' \ scrapes'[s].keys) <= failures'
        /\ \A t \in Applying' \ {s} : s \notin scrapes'[t].later =>
             total[s] + Cardinality(scrapes'[t].keys \ scrapes'[s].keys) <= total[t]
    BY <1>1, <1>2, <2>1 DEF Accounted
  <2>3. ASSUME NEW t \in Scanning', s \notin scrapes'[t].later
        PROVE  total[s] + Cardinality(Failing' \ scrapes'[s].keys)
                        + Cardinality(Missed(t, scrapes[s].keys)') <= failures'
    <3>1. t \in Scanning /\ s \notin scrapes[t].later
      BY <1>2, <2>3
    <3>2. Missed(t, scrapes[s].keys)' = Missed(t, scrapes[s].keys)
      BY <1>1, <1>2, <2>1 DEF Missed
    <3>3. total[s] + Cardinality(Failing \ scrapes[s].keys) + Cardinality(Missed(t, scrapes[s].keys)) <= failures
      BY <2>1, <3>1 DEF Accounted
    <3> QED BY <1>1, <2>1, <3>2, <3>3
  <2> QED BY <2>2, <2>3
<1>7. \A s \in Applying' : scrapes'[s] = scrapes[s]
  BY <1>2
<1> QED BY <1>4, <1>5, <1>6, <1>7 DEF Accounted, Missed

LEMMA AccountedAtRest ==
    ASSUME ScrapeTypes, \A s \in Scrapers : scrapes[s] = NoScrape,
           known = {}, counted = 0, failures = Cardinality(Failing)
    PROVE  \E total \in [Scrapers -> Int] : Accounted(total)
<1>1. Scanning = {} /\ Applying = {}
  BY DEF Scanning, Applying, NoScrape
<1>2. counted + Cardinality(Failing \ known) <= failures
  <2>1. Failing \ known = Failing /\ Cardinality(Failing) \in Nat
    BY ScrapeSets, Sizes
  <2> QED BY <2>1
<1>3. [s \in Scrapers |-> 0] \in [Scrapers -> Int]
  OBVIOUS
<1>4. \A total : Accounted(total)
  BY <1>1, <1>2 DEF Accounted
<1> QED BY <1>3, <1>4

LEMMA FailuresInit == ReportsInit => FailuresInv
<1> SUFFICES ASSUME ReportsInit PROVE FailuresInv
  OBVIOUS
<1>1. ScrapeTypes
  BY ScrapeTypesInit
<1>2. /\ \A s \in Scrapers : scrapes[s] = NoScrape
      /\ known = {} /\ counted = 0 /\ failures = Cardinality(Failing)
  BY DEF ReportsInit, Failing
<1> QED BY <1>1, <1>2, AccountedAtRest DEF FailuresInv

LEMMA FailuresStep == FailuresInv /\ [ReportsNext]_reportsVars => FailuresInv'
<1> SUFFICES ASSUME FailuresInv, [ReportsNext]_reportsVars, ~overtaken'
             PROVE  \E total \in [Scrapers -> Int] : Accounted(total)'
  BY ScrapeTypesStep DEF FailuresInv
<1>0. ScrapeTypes /\ ScrapeTypes'
  BY ScrapeTypesStep DEF FailuresInv
<1>1. CASE ApiRestarts
  <2>1. /\ \A s \in Scrapers : scrapes'[s] = NoScrape
        /\ known' = {} /\ counted' = 0 /\ failures' = Cardinality(Failing')
    BY <1>1 DEF ApiRestarts, Failing
  <2>2. Scanning' = {} /\ Applying' = {}
    BY <2>1 DEF Scanning, Applying, NoScrape
  <2>3. counted' + Cardinality(Failing' \ known') <= failures'
    <3>1. Failing' \in SUBSET TrackedDocs
      BY DEF Failing, FailedIn
    <3>2. Failing' \ known' = Failing' /\ Cardinality(Failing') \in Nat
      BY <2>1, <3>1, Sizes
    <3> QED BY <2>1, <3>2
  <2>4. \A total : Accounted(total)'
    BY <2>2, <2>3 DEF Accounted
  <2>5. [s \in Scrapers |-> 0] \in [Scrapers -> Int]
    OBVIOUS
  <2> QED BY <2>4, <2>5
<1>2. CASE ~ApiRestarts
  <2>1. ~overtaken
    BY <1>0, <1>2 DEF ScrapeTypes, ReportsNext, RecordsNext, ScrapesNext, ListingNext, reportsVars,
        RecordChanges, ScrapeBegins, ScrapeReads, ScrapeSyncs, ScrapeFails,
        ListingBegins, ListsOne, ListingEnds, ListingFails
  <2>2. PICK total \in [Scrapers -> Int] : Accounted(total)
    BY <2>1 DEF FailuresInv
  <2>3. ASSUME NEW d \in TrackedDocs, NEW to \in Records \cup {Untracked}, RecordChanges(d, to)
        PROVE  Accounted(total)'
    BY <1>0, <2>2, <2>3, AccountedRecords
  <2>4. ASSUME NEW s \in Scrapers, ScrapeBegins(s)
        PROVE  Accounted(total)'
    BY <1>0, <2>2, <2>4, AccountedBegins
  <2>5. ASSUME NEW s \in Scrapers, ScrapeReads(s)
        PROVE  \E new \in [Scrapers -> Int] : Accounted(new)'
    BY <1>0, <2>2, <2>5, AccountedReads
  <2>6. ASSUME NEW s \in Scrapers, ScrapeSyncs(s)
        PROVE  Accounted(total)'
    <3>1. ~scrapes[s].late
      BY <2>6 DEF ScrapeSyncs
    <3> QED BY <1>0, <2>2, <2>6, <3>1, AccountedSyncs
  <2>7. ASSUME NEW s \in Scrapers, ScrapeFails(s)
        PROVE  Accounted(total)'
    <3>1. scrapes' = [t \in Scrapers |-> IF t \in {s} THEN NoScrape ELSE scrapes[t]]
      BY <1>0, <2>7 DEF ScrapeFails, ScrapeTypes
    <3>2. UNCHANGED <<tracked, failures, known, counted>> /\ {s} \in SUBSET Scrapers
      BY <2>7 DEF ScrapeFails
    <3> QED BY <1>0, <2>2, <3>1, <3>2, AccountedRest
  <2>8. ASSUME ListingNext \/ UNCHANGED reportsVars
        PROVE  Accounted(total)'
    <3>1. UNCHANGED <<tracked, failures, known, counted, scrapes>>
      BY <2>8 DEF ListingNext, ListingBegins, ListsOne, ListingEnds, ListingFails, reportsVars
    <3>2. PICK S \in SUBSET Scrapers : S = {}
      OBVIOUS
    <3>3. scrapes' = [t \in Scrapers |-> IF t \in S THEN NoScrape ELSE scrapes[t]]
      BY <1>0, <3>1, <3>2 DEF ScrapeTypes
    <3>4. UNCHANGED <<tracked, failures, known, counted>>
      BY <3>1
    <3> QED BY <1>0, <2>2, <3>3, <3>4, AccountedRest
  <2> QED BY <1>2, <2>2, <2>3, <2>4, <2>5, <2>6, <2>7, <2>8 DEF ReportsNext, RecordsNext, ScrapesNext
<1> QED BY <1>1, <1>2

\* Scrapes of the metrics that interleave, while records come and go, never count more
\* failures than there were (sync_indexing_failures), for any number of scrapers and
\* documents, unless one is applied after another that read since its own scan.
THEOREM FailuresOnce == ReportsSpec => []FailuresCountedOnce
<1>1. FailuresInv => FailuresCountedOnce
  <2> SUFFICES ASSUME FailuresInv, ~overtaken PROVE counted <= failures
    BY DEF FailuresCountedOnce
  <2>1. PICK total \in [Scrapers -> Int] : Accounted(total)
    BY DEF FailuresInv
  <2>2. ScrapeTypes
    BY DEF FailuresInv
  <2>3. counted + Cardinality(Failing \ known) <= failures
    BY <2>1 DEF Accounted
  <2>4. Cardinality(Failing \ known) \in Nat /\ counted \in Nat /\ failures \in Nat
    BY <2>2, ScrapeSets DEF ScrapeTypes
  <2> QED BY <2>3, <2>4
<1> QED BY <1>1, FailuresInit, FailuresStep, PTL DEF ReportsSpec

-----------------------------------------------------------------------------
(* Reports: a listing is complete.                                         *)

Listing == [step : {"reading", "done"}, view : {"triage", "indexing"},
            filter : Statuses \cup {"all"}, keys : SUBSET TrackedDocs, moved : SUBSET TrackedDocs,
            documents : SUBSET TrackedDocs, counts : [Statuses -> Nat]]

\* The documents whose turn has come, and whose record has stood still since the scan.
Taken == {d \in TrackedDocs \ (listing.moved \cup listing.keys) : tracked[d] # Untracked}

TakenAs(x) == {d \in Taken : StatusIn(listing.view, tracked[d]) = x}

ListingSoFar ==
    /\ listing.keys \cap listing.documents = {}
    /\ listing.step = "done" => listing.keys = {}
    /\ \A d \in Taken : d \in listing.documents <=>
                            listing.filter \in {"all", StatusIn(listing.view, tracked[d])}
    /\ \A x \in Statuses : listing.counts[x] >= Cardinality(TakenAs(x))

ListingInv ==
    /\ tracked \in [TrackedDocs -> Records \cup {Untracked}]
    /\ listing = NoListing \/ (listing \in Listing /\ ListingSoFar)

LEMMA StatusType == \A view : \A r \in Records : StatusIn(view, r) \in Statuses
BY DEF StatusIn, Records, Statuses

LEMMA TakenFinite == \A x : TakenAs(x) \in SUBSET TrackedDocs /\ Cardinality(TakenAs(x)) \in Nat
<1>1. \A x : TakenAs(x) \in SUBSET TrackedDocs
  BY DEF TakenAs, Taken
<1> QED BY <1>1, Sizes

\* A record that changes is no longer one that stands still.
LEMMA ListingMoves ==
    ASSUME ListingInv, NEW d \in TrackedDocs, NEW to \in Records \cup {Untracked},
           RecordChanges(d, to)
    PROVE  ListingInv'
<1>1. tracked' = [tracked EXCEPT ![d] = to] /\ tracked' \in [TrackedDocs -> Records \cup {Untracked}]
  BY DEF RecordChanges, ListingInv
<1>2. CASE listing.step # "reading"
  BY <1>1, <1>2 DEF RecordChanges, ListingInv
<1>3. CASE listing.step = "reading"
  <2>1. listing \in Listing /\ ListingSoFar
    BY <1>3 DEF ListingInv, NoListing
  <2>2. listing' = [listing EXCEPT !.moved = @ \cup {d}]
    BY <1>3 DEF RecordChanges
  <2>3. /\ listing' \in Listing /\ listing'.moved = listing.moved \cup {d}
        /\ listing'.step = listing.step /\ listing'.view = listing.view
        /\ listing'.filter = listing.filter /\ listing'.keys = listing.keys
        /\ listing'.documents = listing.documents /\ listing'.counts = listing.counts
    BY <2>1, <2>2 DEF Listing
  <2>4. Taken' \subseteq Taken /\ \A e \in Taken' : tracked'[e] = tracked[e]
    BY <1>1, <2>3 DEF Taken
  <2>5. \A x : TakenAs(x)' \subseteq TakenAs(x)
    BY <2>3, <2>4 DEF TakenAs
  <2>6. ASSUME NEW x \in Statuses PROVE listing'.counts[x] >= Cardinality(TakenAs(x)')
    <3>1. TakenAs(x)' \in SUBSET TrackedDocs /\ TakenAs(x) \in SUBSET TrackedDocs
      BY <2>5, TakenFinite
    <3>2. /\ Cardinality(TakenAs(x)') <= Cardinality(TakenAs(x))
          /\ Cardinality(TakenAs(x)') \in Nat /\ Cardinality(TakenAs(x)) \in Nat
      BY <2>5, <3>1, Sizes
    <3>3. listing.counts[x] >= Cardinality(TakenAs(x)) /\ listing.counts[x] \in Nat
      BY <2>1 DEF ListingSoFar, Listing
    <3> QED BY <2>3, <3>2, <3>3
  <2>7. /\ listing'.keys \cap listing'.documents = {}
        /\ listing'.step = "done" => listing'.keys = {}
        /\ \A e \in Taken' : e \in listing'.documents <=>
                                listing'.filter \in {"all", StatusIn(listing'.view, tracked'[e])}
    BY <2>1, <2>3, <2>4 DEF ListingSoFar
  <2>8. ListingSoFar'
    BY <2>6, <2>7 DEF ListingSoFar
  <2> QED BY <1>1, <2>3, <2>8 DEF ListingInv
<1> QED BY <1>2, <1>3

\* No document has had its turn when a listing begins.
LEMMA ListingStarts ==
    ASSUME ListingInv, NEW view \in {"triage", "indexing"}, NEW filter \in Statuses \cup {"all"},
           ListingBegins(view, filter)
    PROVE  ListingInv'
<1>1. /\ listing' = [step |-> "reading", view |-> view, filter |-> filter, keys |-> ScanKeys,
                     moved |-> {}, documents |-> {}, counts |-> [x \in Statuses |-> 0]]
      /\ tracked' = tracked
  BY DEF ListingBegins, NoListing
<1>2. listing' \in Listing
  <2>1. [x \in Statuses |-> 0] \in [Statuses -> Nat] /\ ScanKeys \in SUBSET TrackedDocs
    BY DEF ScanKeys
  <2> QED BY <1>1, <2>1 DEF Listing
<1>3. Taken' = {}
  BY <1>1 DEF Taken, ScanKeys
<1>4. \A x : TakenAs(x)' = {}
  BY <1>3 DEF TakenAs
<1>5. \A x \in Statuses : listing'.counts[x] >= Cardinality(TakenAs(x)')
  <2>1. \A x \in Statuses : listing'.counts[x] = 0
    BY <1>1
  <2>2. \A x : Cardinality(TakenAs(x)') = 0
    BY <1>4, Sizes
  <2> QED BY <2>1, <2>2
<1>6. ListingSoFar'
  BY <1>1, <1>3, <1>5 DEF ListingSoFar
<1> QED BY <1>1, <1>2, <1>6 DEF ListingInv

\* One document has its turn: it is listed if it matches, and counted.
LEMMA ListingTakes ==
    ASSUME ListingInv, listing.step = "reading", NEW d \in listing.keys, tracked' = tracked,
           listing' = IF tracked[d] # Untracked THEN CountIn(d) ELSE [listing EXCEPT !.keys = @ \ {d}]
    PROVE  ListingInv'
<1>1. listing \in Listing /\ ListingSoFar /\ d \in TrackedDocs
  BY DEF ListingInv, NoListing, Listing
<1>2. CASE tracked[d] = Untracked
  <2>1. listing' = [listing EXCEPT !.keys = @ \ {d}]
    BY <1>2
  <2>2. /\ listing' \in Listing /\ listing'.keys = listing.keys \ {d}
        /\ listing'.step = listing.step /\ listing'.view = listing.view
        /\ listing'.filter = listing.filter /\ listing'.moved = listing.moved
        /\ listing'.documents = listing.documents /\ listing'.counts = listing.counts
    BY <1>1, <2>1 DEF Listing
  <2>3. Taken' = Taken
    BY <1>2, <2>2 DEF Taken
  <2>4. \A x : TakenAs(x)' = TakenAs(x)
    BY <2>2, <2>3 DEF TakenAs
  <2>5. ListingSoFar'
    BY <1>1, <2>2, <2>3, <2>4 DEF ListingSoFar
  <2> QED BY <2>2, <2>5 DEF ListingInv
<1>3. CASE tracked[d] # Untracked
  <2> DEFINE status == StatusIn(listing.view, tracked[d])
  <2>1. listing' = [listing EXCEPT !.keys = @ \ {d}, !.counts[status] = @ + 1,
                       !.documents = IF listing.filter \in {"all", status} THEN @ \cup {d} ELSE @]
    BY <1>3 DEF CountIn
  <2>2. status \in Statuses
    BY <1>1, <1>3, StatusType DEF ListingInv
  <2> HIDE DEF status
  <2>3. listing.counts \in [Statuses -> Nat] /\ [listing.counts EXCEPT ![status] = @ + 1] \in [Statuses -> Nat]
    BY <1>1, <2>2 DEF Listing
  <2>4. /\ listing' \in Listing /\ listing'.keys = listing.keys \ {d}
        /\ listing'.step = listing.step /\ listing'.view = listing.view
        /\ listing'.filter = listing.filter /\ listing'.moved = listing.moved
        /\ listing'.documents = IF listing.filter \in {"all", status} THEN listing.documents \cup {d}
                                ELSE listing.documents
        /\ listing'.counts = [listing.counts EXCEPT ![status] = @ + 1]
    <3> DEFINE C == [listing.counts EXCEPT ![status] = @ + 1]
               D == IF listing.filter \in {"all", status} THEN listing.documents \cup {d} ELSE listing.documents
    <3>1. listing' = [listing EXCEPT !.keys = @ \ {d}, !.counts = C, !.documents = D]
      BY <1>1, <2>1 DEF Listing
    <3>2. C \in [Statuses -> Nat] /\ D \in SUBSET TrackedDocs
      BY <1>1, <2>3 DEF Listing
    <3> HIDE DEF C, D
    <3> DEFINE K == listing.keys \ {d}
    <3>3. K \in SUBSET TrackedDocs /\ listing \in Listing
      BY <1>1 DEF Listing
    <3>4. listing' = [listing EXCEPT !.keys = K, !.counts = C, !.documents = D]
      BY <3>1
    <3>5. K = listing.keys \ {d}
      OBVIOUS
    <3> HIDE DEF K
    <3>6. listing' \in Listing
      BY <3>2, <3>3, <3>4 DEF Listing
    <3>7. /\ listing'.keys = K /\ listing'.documents = D /\ listing'.counts = C
          /\ listing'.step = listing.step /\ listing'.view = listing.view
          /\ listing'.filter = listing.filter /\ listing'.moved = listing.moved
      BY <3>3, <3>4 DEF Listing
    <3> QED BY <3>5, <3>6, <3>7 DEF C, D
  <2>5. Taken' \subseteq Taken \cup {d}
    BY <2>4 DEF Taken
  <2>6. \A e \in Taken' : e \in listing'.documents <=>
                              listing'.filter \in {"all", StatusIn(listing'.view, tracked'[e])}
    <3>1. d \notin listing.documents
      BY <1>1 DEF ListingSoFar
    <3> QED BY <1>1, <2>4, <2>5, <3>1 DEF ListingSoFar, status
  <2>7. ASSUME NEW x \in Statuses PROVE listing'.counts[x] >= Cardinality(TakenAs(x)')
    <3>1. /\ TakenAs(x) \in SUBSET TrackedDocs /\ Cardinality(TakenAs(x)) \in Nat
          /\ TakenAs(x)' \in SUBSET TrackedDocs /\ TakenAs(x) \cup {d} \in SUBSET TrackedDocs
      BY <1>1, TakenFinite DEF TakenAs, Taken
    <3>2. listing.counts[x] >= Cardinality(TakenAs(x)) /\ listing.counts[x] \in Nat
      BY <1>1, <2>3 DEF ListingSoFar
    <3>3. CASE x = status
      <4>1. TakenAs(x)' \subseteq TakenAs(x) \cup {d}
        BY <2>4, <2>5 DEF TakenAs
      <4>2. /\ Cardinality(TakenAs(x)') <= Cardinality(TakenAs(x) \cup {d})
            /\ Cardinality(TakenAs(x) \cup {d}) <= Cardinality(TakenAs(x)) + 1
            /\ Cardinality(TakenAs(x)') \in Nat /\ Cardinality(TakenAs(x) \cup {d}) \in Nat
        BY <3>1, <4>1, Sizes
      <4>3. listing'.counts[x] = listing.counts[x] + 1
        BY <2>3, <2>4, <3>3
      <4> QED BY <3>1, <3>2, <4>2, <4>3
    <3>4. CASE x # status
      <4>1. TakenAs(x)' \subseteq TakenAs(x)
        BY <2>4, <2>5, <3>4 DEF TakenAs, status
      <4>2. Cardinality(TakenAs(x)') <= Cardinality(TakenAs(x)) /\ Cardinality(TakenAs(x)') \in Nat
        BY <3>1, <4>1, Sizes
      <4>3. listing'.counts[x] = listing.counts[x]
        BY <2>3, <2>4, <3>4
      <4> QED BY <3>1, <3>2, <4>2, <4>3
    <3> QED BY <3>3, <3>4
  <2>8. /\ listing'.keys \cap listing'.documents = {}
        /\ listing'.step = "done" => listing'.keys = {}
    BY <1>1, <2>4 DEF ListingSoFar
  <2>9. ListingSoFar'
    BY <2>6, <2>7, <2>8 DEF ListingSoFar
  <2> QED BY <2>4, <2>9 DEF ListingInv
<1> QED BY <1>2, <1>3

LEMMA ListingEndsIt == ASSUME ListingInv, ListingEnds PROVE ListingInv'
<1>1. listing \in Listing /\ ListingSoFar /\ listing.keys = {}
  BY DEF ListingEnds, ListingInv, NoListing
<1>2. listing' = [listing EXCEPT !.step = "done"] /\ tracked' = tracked
  BY DEF ListingEnds
<1>3. /\ listing' \in Listing /\ listing'.keys = listing.keys /\ listing'.view = listing.view
      /\ listing'.filter = listing.filter /\ listing'.moved = listing.moved
      /\ listing'.documents = listing.documents /\ listing'.counts = listing.counts
  BY <1>1, <1>2 DEF Listing
<1>4. Taken' = Taken
  BY <1>2, <1>3 DEF Taken
<1>5. \A x : TakenAs(x)' = TakenAs(x)
  BY <1>2, <1>3, <1>4 DEF TakenAs
<1>6. ListingSoFar'
  BY <1>1, <1>2, <1>3, <1>4, <1>5 DEF ListingSoFar
<1> QED BY <1>2, <1>3, <1>6 DEF ListingInv

LEMMA ListingStep == ListingInv /\ [ReportsNext]_reportsVars => ListingInv'
<1> SUFFICES ASSUME ListingInv, [ReportsNext]_reportsVars PROVE ListingInv'
  OBVIOUS
<1>1. ASSUME NEW d \in TrackedDocs, NEW to \in Records \cup {Untracked}, RecordChanges(d, to)
      PROVE  ListingInv'
  BY <1>1, ListingMoves
<1>2. ASSUME NEW view \in {"triage", "indexing"}, NEW filter \in Statuses \cup {"all"},
             ListingBegins(view, filter)
      PROVE  ListingInv'
  BY <1>2, ListingStarts
<1>3. CASE ListsOne
  <2>1. listing.step = "reading" /\ tracked' = tracked
    BY <1>3 DEF ListsOne
  <2>2. PICK d \in listing.keys :
            listing' = IF tracked[d] # Untracked THEN CountIn(d) ELSE [listing EXCEPT !.keys = @ \ {d}]
    BY <1>3 DEF ListsOne
  <2> QED BY <2>1, <2>2, ListingTakes
<1>4. CASE ListingEnds
  BY <1>4, ListingEndsIt
<1>5. CASE ListingFails \/ ApiRestarts
  BY <1>5 DEF ListingFails, ApiRestarts, ListingInv
<1>6. ASSUME NEW s \in Scrapers, ScrapeBegins(s) \/ ScrapeReads(s) \/ ScrapeSyncs(s) \/ ScrapeFails(s)
      PROVE  ListingInv'
  <2>1. UNCHANGED <<tracked, listing>>
    BY <1>6 DEF ScrapeBegins, ScrapeReads, ScrapeSyncs, ScrapeFails
  <2> QED BY <2>1 DEF ListingInv, ListingSoFar, Taken, TakenAs
<1>7. CASE UNCHANGED reportsVars
  BY <1>7 DEF reportsVars, ListingInv, ListingSoFar, Taken, TakenAs
<1> QED BY <1>1, <1>2, <1>3, <1>4, <1>5, <1>6, <1>7 DEF ReportsNext, RecordsNext, ScrapesNext, ListingNext

\* Whatever the lister, the indexer and administrators do to other records meanwhile, a
\* listing by status that is answered has every document whose record stood still and
\* matches, and counts at least those that stood still (the triage and the indexing
\* status of main.py), for any number of documents.
THEOREM ListingComplete == ReportsSpec => []ListingIsComplete
<1>1. ReportsInit => ListingInv
  BY DEF ReportsInit, ListingInv, Records
<1>2. ListingInv => ListingIsComplete
  <2> SUFFICES ASSUME ListingInv, listing.step = "done" PROVE ListingIsComplete
    BY DEF ListingIsComplete
  <2> DEFINE still == {d \in TrackedDocs \ listing.moved : tracked[d] # Untracked}
  <2>1. ListingSoFar /\ listing.keys = {}
    BY DEF ListingInv, ListingSoFar, NoListing
  <2>2. still = Taken
    BY <2>1 DEF Taken
  <2>3. \A x : {d \in still : StatusIn(listing.view, tracked[d]) = x} = TakenAs(x)
    BY <2>2 DEF TakenAs
  <2> HIDE DEF still
  <2>4. \A d \in still : d \in listing.documents <=>
                             listing.filter \in {"all", StatusIn(listing.view, tracked[d])}
    BY <2>1, <2>2 DEF ListingSoFar
  <2>5. \A x \in Statuses : listing.counts[x] >= Cardinality({d \in still : StatusIn(listing.view, tracked[d]) = x})
    BY <2>1, <2>3 DEF ListingSoFar
  <2> QED BY <2>4, <2>5 DEF ListingIsComplete, still
<1> QED BY <1>1, <1>2, ListingStep, PTL DEF ReportsSpec

-----------------------------------------------------------------------------
(* Uploads: what was accepted is indexed, and files stand.                 *)

Upload == [step : {"write", "publish", "answer"}, path : Seq(Nat), at : Nat, fits : BOOLEAN]

UploadTypes ==
    /\ second \in Nat /\ count \in Nat
    /\ upload = NoUpload \/ (upload \in Upload /\ count > 0)

\* The upload under way is newer than everything that was accepted.
NewerThanAccepted ==
    /\ \A u \in accepted : u.body \in Nat \ {0} /\ u.body <= count
    /\ upload # NoUpload => \A u \in accepted : u.body < count

\* The content has a message, an outcome, or was lost.
Traced(p, body) == \/ p \in sent \cup failed
                   \/ [id |-> SolrId(p), body |-> body] \in indexed
                   \/ body \in lost

\* What an upload that is written has done so far.
UploadSoFar ==
    /\ upload.step = "write" => \/ upload.path \notin DOMAIN disk
                                \/ Len(upload.path) > 1 /\ upload.path[Len(upload.path)] = upload.at
    /\ upload.step \in {"publish", "answer"} => upload.path \in DOMAIN disk /\ disk[upload.path] = count
    /\ upload.step = "answer" => Traced(upload.path, count)

UploadsInv == UploadTypes /\ NewerThanAccepted /\ UploadSoFar /\ AcceptedIsIndexed

LEMMA UploadChosen == ASSUME UploadsInv, NEW n \in FileNames, Choose(n) PROVE UploadsInv'
<1>1. UNCHANGED <<second, disk, sent, indexed, failed, lost, accepted>> /\ count' = count + 1 /\ count \in Nat /\ second \in Nat
  BY DEF Choose, UploadsInv, UploadTypes, indexerState
<1>2. /\ n \in Seq(Nat) /\ Len(n) \in Nat /\ Len(n) > 0
      /\ Append(n, second) \in Seq(Nat) /\ Len(Append(n, second)) = Len(n) + 1
      /\ Append(n, second)[Len(n) + 1] = second
  <2>1. n \in Seq(Nat) /\ n # <<>>
    BY UploadsOK
  <2>2. Len(n) \in Nat /\ Len(n) > 0
    BY <2>1
  <2> QED BY <1>1, <2>1, <2>2
<1>3. /\ upload' \in Upload /\ upload'.step = "write"
      /\ upload'.path \notin DOMAIN disk \/ (Len(upload'.path) > 1 /\ upload'.path[Len(upload'.path)] = upload'.at)
  <2>1. CASE n \in DOMAIN disk
    <3>1. upload' = [step |-> "write", path |-> Append(n, second), at |-> second, fits |-> n \notin LongNames]
      BY <2>1 DEF Choose
    <3>2. (n \notin LongNames) \in BOOLEAN
      OBVIOUS
    <3> QED BY <1>1, <1>2, <3>1, <3>2 DEF Upload
  <2>2. CASE n \notin DOMAIN disk
    <3>1. upload' = [step |-> "write", path |-> n, at |-> second, fits |-> TRUE]
      BY <2>2 DEF Choose
    <3> QED BY <1>1, <1>2, <2>2, <3>1 DEF Upload
  <2> QED BY <2>1, <2>2
<1>4. UploadTypes' /\ UploadSoFar'
  BY <1>1, <1>3 DEF UploadTypes, UploadSoFar
<1>5. NewerThanAccepted'
  BY <1>1 DEF UploadsInv, NewerThanAccepted
<1>6. AcceptedIsIndexed'
  BY <1>1 DEF UploadsInv, AcceptedIsIndexed
<1> QED BY <1>4, <1>5, <1>6 DEF UploadsInv

\* Content that nobody was told of replaces no content that somebody was.
LEMMA PutOthers ==
    ASSUME AcceptedIsIndexed, NEW body, \A u \in accepted : u.body # body, Put(body),
           UNCHANGED <<sent, indexed, failed, lost, accepted>>
    PROVE  AcceptedIsIndexed'
<1> SUFFICES ASSUME NEW u \in accepted
             PROVE  \/ Traced(u.path, u.body)
                    \/ u.path \notin DOMAIN disk' \/ disk'[u.path] # u.body
  BY DEF AcceptedIsIndexed, Traced
<1>1. CASE u.path = upload.path
  BY <1>1 DEF Put
<1>2. CASE u.path # upload.path
  BY <1>2 DEF Put, AcceptedIsIndexed, Traced
<1> QED BY <1>1, <1>2

LEMMA UploadWritten == ASSUME UploadsInv, Write PROVE UploadsInv'
<1>1. /\ upload.step = "write" /\ Put(count) /\ upload' = [upload EXCEPT !.step = "publish"]
      /\ UNCHANGED <<second, count, sent, indexed, failed, lost, accepted>>
  BY DEF Write, indexerState
<1>2. upload \in Upload /\ count \in Nat /\ count > 0 /\ upload # NoUpload
  BY <1>1 DEF UploadsInv, UploadTypes, NoUpload
<1>3. upload' \in Upload /\ upload'.step = "publish" /\ upload'.path = upload.path
  BY <1>1, <1>2 DEF Upload
<1>4. UploadTypes'
  BY <1>1, <1>2, <1>3 DEF UploadsInv, UploadTypes
<1>5. NewerThanAccepted'
  BY <1>1, <1>2 DEF UploadsInv, NewerThanAccepted
<1>6. UploadSoFar'
  BY <1>1, <1>3 DEF UploadSoFar, Put
<1>7. \A u \in accepted : u.body # count
  BY <1>2 DEF UploadsInv, NewerThanAccepted
<1>8. AcceptedIsIndexed'
  BY <1>1, <1>7, PutOthers DEF UploadsInv
<1> QED BY <1>4, <1>5, <1>6, <1>8 DEF UploadsInv

\* An upload that ends leaves what it says of itself behind.
LEMMA UploadEnds ==
    ASSUME UploadsInv, upload' = NoUpload, UNCHANGED <<second, count, accepted>>, AcceptedIsIndexed'
    PROVE  UploadsInv'
BY DEF UploadsInv, UploadTypes, NewerThanAccepted, UploadSoFar, NoUpload

LEMMA UploadsStep == UploadsInv /\ [UploadsNext]_uploadsVars => UploadsInv'
<1> SUFFICES ASSUME UploadsInv, [UploadsNext]_uploadsVars PROVE UploadsInv'
  OBVIOUS
<1>0. UploadTypes /\ NewerThanAccepted /\ UploadSoFar /\ AcceptedIsIndexed
  BY DEF UploadsInv
<1>1. ASSUME NEW n \in FileNames, Choose(n) PROVE UploadsInv'
  BY <1>1, UploadChosen
<1>2. CASE Write
  BY <1>2, UploadWritten
<1>3. CASE WriteFails
  <2>1. upload' = NoUpload /\ UNCHANGED <<second, count, sent, indexed, failed, lost, accepted>>
    BY <1>3 DEF WriteFails, indexerState
  <2>2. CASE UNCHANGED disk
    <3>1. AcceptedIsIndexed'
      BY <1>0, <2>1, <2>2 DEF AcceptedIsIndexed
    <3> QED BY <2>1, <3>1, UploadEnds
  <2>3. CASE Put(Partial)
    <3>1. \A u \in accepted : u.body # Partial
      BY <1>0 DEF NewerThanAccepted, Partial
    <3>2. AcceptedIsIndexed'
      BY <1>0, <2>1, <2>3, <3>1, PutOthers
    <3> QED BY <2>1, <3>2, UploadEnds
  <2> QED BY <1>3, <2>2, <2>3 DEF WriteFails
<1>4. CASE Publish
  <2>1. /\ upload.step = "publish" /\ upload' = [upload EXCEPT !.step = "answer"]
        /\ \/ sent' = sent \cup {upload.path} /\ UNCHANGED lost
           \/ lost' = lost \cup {count} /\ UNCHANGED sent
        /\ UNCHANGED <<second, count, disk, indexed, failed, accepted>>
    BY <1>4 DEF Publish, indexerState
  <2>2. upload \in Upload /\ upload # NoUpload
    BY <1>0, <2>1 DEF UploadTypes, NoUpload
  <2>3. upload' \in Upload /\ upload'.step = "answer" /\ upload'.path = upload.path
    BY <2>1, <2>2 DEF Upload
  <2>4. UploadTypes' /\ NewerThanAccepted'
    BY <1>0, <2>1, <2>2, <2>3 DEF UploadTypes, NewerThanAccepted
  <2>5. UploadSoFar'
    <3>1. Traced(upload.path, count)'
      BY <2>1, <2>3 DEF Traced
    <3> QED BY <1>0, <2>1, <2>3, <3>1 DEF UploadSoFar
  <2>6. AcceptedIsIndexed'
    <3>1. sent \subseteq sent' /\ lost \subseteq lost'
      BY <2>1
    <3> QED BY <1>0, <2>1, <3>1 DEF AcceptedIsIndexed
  <2> QED BY <2>4, <2>5, <2>6 DEF UploadsInv
<1>5. CASE PublishFails
  <2>1. /\ disk' \in {disk, Restrict(disk, DOMAIN disk \ {upload.path})}
        /\ sent \subseteq sent' /\ upload' = NoUpload /\ UNCHANGED <<second, count, indexed, failed, lost, accepted>>
    BY <1>5 DEF PublishFails, indexerState
  <2>2. \A p \in DOMAIN disk' : p \in DOMAIN disk /\ disk'[p] = disk[p]
    BY <2>1 DEF Restrict
  <2>3. AcceptedIsIndexed'
    BY <1>0, <2>1, <2>2 DEF AcceptedIsIndexed
  <2> QED BY <2>1, <2>3, UploadEnds
<1>6. CASE Answer
  <2> DEFINE new == [path |-> upload.path, body |-> count, id |-> UploadId(upload.path)]
  <2>1. /\ upload.step = "answer" /\ accepted' = accepted \cup {new} /\ upload' = NoUpload
        /\ UNCHANGED <<second, count, disk, sent, indexed, failed, lost>>
    BY <1>6 DEF Answer, indexerState
  <2>2. count \in Nat /\ count > 0
    BY <1>0, <2>1 DEF UploadTypes, NoUpload
  <2>3. UploadTypes' /\ UploadSoFar'
    BY <1>0, <2>1 DEF UploadTypes, UploadSoFar, NoUpload
  <2>4. NewerThanAccepted'
    BY <1>0, <2>1, <2>2 DEF NewerThanAccepted
  <2>5. Traced(new.path, new.body)
    BY <1>0, <2>1 DEF UploadSoFar
  <2> HIDE DEF new
  <2>6. AcceptedIsIndexed'
    BY <1>0, <2>1, <2>5 DEF AcceptedIsIndexed, Traced
  <2> QED BY <2>3, <2>4, <2>6 DEF UploadsInv
<1>7. CASE NoAnswer
  <2>1. upload' = NoUpload /\ UNCHANGED <<second, count, disk, sent, indexed, failed, lost, accepted>>
    BY <1>7 DEF NoAnswer, indexerState
  <2>2. AcceptedIsIndexed'
    BY <1>0, <2>1 DEF AcceptedIsIndexed
  <2> QED BY <2>1, <2>2, UploadEnds
<1>8. ASSUME NEW p \in sent, IndexUpload(p) \/ IndexFails(p) PROVE UploadsInv'
  <2>1. /\ sent' = sent \ {p} /\ UNCHANGED <<second, count, upload, disk, accepted>>
        /\ failed \ {p} \subseteq failed' /\ indexed \subseteq indexed' /\ lost \subseteq lost'
    BY <1>8 DEF IndexUpload, IndexFails
  <2>2. p \in DOMAIN disk => Traced(p, disk[p])'
    BY <1>8 DEF IndexUpload, IndexFails, Traced
  <2>3. UploadTypes' /\ NewerThanAccepted'
    BY <1>0, <2>1 DEF UploadTypes, NewerThanAccepted
  <2>4. ASSUME NEW q, NEW body, q # p, Traced(q, body) PROVE Traced(q, body)'
    BY <2>1, <2>4 DEF Traced
  <2>5. UploadSoFar'
    <3>1. upload.step = "answer" => Traced(upload.path, count)'
      <4> SUFFICES ASSUME upload.step = "answer" PROVE Traced(upload.path, count)'
        OBVIOUS
      <4>1. upload.path \in DOMAIN disk /\ disk[upload.path] = count /\ Traced(upload.path, count)
        BY <1>0 DEF UploadSoFar
      <4>2. CASE upload.path = p
        BY <2>1, <2>2, <4>1, <4>2
      <4>3. CASE upload.path # p
        BY <2>1, <2>4, <4>1, <4>3
      <4> QED BY <4>2, <4>3
    <3> QED BY <1>0, <2>1, <3>1 DEF UploadSoFar, Traced
  <2>6. AcceptedIsIndexed'
    <3> SUFFICES ASSUME NEW u \in accepted, u.path \in DOMAIN disk, disk[u.path] = u.body
                 PROVE  Traced(u.path, u.body)'
      BY <2>1 DEF AcceptedIsIndexed, Traced
    <3>1. CASE u.path = p
      BY <2>1, <2>2, <3>1
    <3>2. CASE u.path # p
      <4>1. Traced(u.path, u.body)
        BY <1>0 DEF AcceptedIsIndexed, Traced
      <4> QED BY <2>4, <3>2, <4>1
    <3> QED BY <3>1, <3>2
  <2> QED BY <2>3, <2>5, <2>6 DEF UploadsInv
<1>9. CASE NextSecond \/ UNCHANGED uploadsVars
  <2>1. UNCHANGED <<count, upload, disk, sent, indexed, failed, lost, accepted>> /\ second' \in Nat
    BY <1>0, <1>9 DEF NextSecond, uploadsVars, indexerState, UploadTypes
  <2> QED BY <1>0, <2>1 DEF UploadsInv, UploadTypes, NewerThanAccepted, UploadSoFar, Traced, AcceptedIsIndexed
<1> QED BY <1>1, <1>2, <1>3, <1>4, <1>5, <1>6, <1>7, <1>8, <1>9 DEF UploadsNext

LEMMA UploadsInvariant == UploadsSpec => []UploadsInv
<1>1. UploadsInit => UploadsInv
  BY DEF UploadsInit, UploadsInv, UploadTypes, Traced, NewerThanAccepted, UploadSoFar, AcceptedIsIndexed, NoUpload
<1> QED BY <1>1, UploadsStep, PTL DEF UploadsSpec

\* What upload_pdf answered 202 is in the queue, in Solr with its content, or recorded as
\* failed, as long as its file stands, for any names and number of uploads: unless the
\* broker dropped its message or Redis its failure.
THEOREM AcceptedIndexed == UploadsSpec => []AcceptedIsIndexed
BY UploadsInvariant, PTL DEF UploadsInv

\* A file in the upload directory is replaced or removed only by the upload that made
\* it, or by one that was stamped with the last part of its name.
THEOREM FilesAreKept == UploadsSpec => FilesStand
<1>1. UploadsInv /\ [UploadsNext]_uploadsVars =>
          [\A p \in DOMAIN disk :
              \/ p \in DOMAIN disk' /\ disk'[p] = disk[p]
              \/ disk[p] = count
              \/ Len(p) > 1 /\ p[Len(p)] = upload.at]_uploadsVars
  <2> SUFFICES ASSUME UploadsInv, UploadsNext, NEW p \in DOMAIN disk
               PROVE  \/ p \in DOMAIN disk' /\ disk'[p] = disk[p]
                      \/ disk[p] = count
                      \/ Len(p) > 1 /\ p[Len(p)] = upload.at
    OBVIOUS
  <2>1. UploadSoFar
    BY DEF UploadsInv
  <2>2. ASSUME upload.step = "write", NEW body, Put(body)
        PROVE  \/ p \in DOMAIN disk' /\ disk'[p] = disk[p]
               \/ Len(p) > 1 /\ p[Len(p)] = upload.at
    BY <2>1, <2>2 DEF UploadSoFar, Put
  <2>3. CASE Write \/ WriteFails
    BY <2>2, <2>3 DEF Write, WriteFails
  <2>4. CASE PublishFails
    <3>1. upload.step = "publish" /\ disk' \in {disk, Restrict(disk, DOMAIN disk \ {upload.path})}
      BY <2>4 DEF PublishFails
    <3>2. CASE p = upload.path
      BY <2>1, <3>1, <3>2 DEF UploadSoFar
    <3>3. CASE p # upload.path
      BY <3>1, <3>3 DEF Restrict
    <3> QED BY <3>2, <3>3
  <2>5. CASE UNCHANGED disk
    BY <2>5
  <2> QED BY <2>3, <2>4, <2>5 DEF UploadsNext, Choose, Publish, Answer, NoAnswer, IndexUpload,
           IndexFails, NextSecond, uploadsVars
<1> QED BY <1>1, UploadsInvariant, PTL DEF UploadsSpec, FilesStand

-----------------------------------------------------------------------------
(* Search: arranging sequences.                                            *)

StrictOrder(I, R) ==
    /\ \A i \in I : <<i, i>> \notin R
    /\ \A i, j, k \in I : <<i, j>> \in R /\ <<j, k>> \in R => <<i, k>> \in R
    /\ \A i, j \in I : i # j => <<i, j>> \in R \/ <<j, i>> \in R

\* o is the order in which Arranged takes the places of I: all, each once, and as R says.
Arranges(o, s, I, R) ==
    /\ o \in [1..Cardinality(I) -> I]
    /\ Arranged(s, I, R) = [n \in 1..Cardinality(I) |-> s[o[n]]]
    /\ \A m, n \in 1..Cardinality(I) : o[m] = o[n] => m = n
    /\ \A m, n \in 1..Cardinality(I) : <<o[m], o[n]>> \in R => m < n
    /\ \A i \in I : \E n \in 1..Cardinality(I) : o[n] = i

\* A finite set of places has such an order.
LEMMA Arrangement ==
    ASSUME NEW s, NEW I, IsFiniteSet(I), NEW R, StrictOrder(I, R)
    PROVE  \E o : Arranges(o, s, I, R)
<1> DEFINE N    == Cardinality(I)
           B(i) == {j \in I : <<j, i>> \in R}
           c    == [i \in I |-> Cardinality(B(i))]
           o    == [n \in 1..N |-> CHOOSE i \in I : Cardinality(B(i)) = n - 1]
<1>1. /\ N \in Nat
      /\ \A T \in SUBSET I : IsFiniteSet(T) /\ Cardinality(T) \in Nat
      /\ \A T \in SUBSET I : \A U \in SUBSET T : U # T => Cardinality(U) < Cardinality(T)
  <2>1. \A T \in SUBSET I : IsFiniteSet(T) /\ Cardinality(T) \in Nat
    BY FS_Subset, FS_CardinalityType
  <2>2. ASSUME NEW T \in SUBSET I, NEW U \in SUBSET T, U # T PROVE Cardinality(U) < Cardinality(T)
    <3>1. Cardinality(U) <= Cardinality(T) /\ (Cardinality(U) = Cardinality(T) => U = T)
      BY <2>1, FS_Subset
    <3>2. Cardinality(U) \in Nat /\ Cardinality(T) \in Nat
      BY <2>1
    <3> QED BY <2>2, <3>1, <3>2
  <2> QED BY <2>1, <2>2
<1>2. \A i \in I : c[i] \in 0..(N - 1)
  <2> SUFFICES ASSUME NEW i \in I PROVE c[i] \in 0..(N - 1)
    OBVIOUS
  <2>1. B(i) \in SUBSET I /\ B(i) # I
    BY DEF StrictOrder
  <2>2. Cardinality(B(i)) < N /\ Cardinality(B(i)) \in Nat
    BY <1>1, <2>1
  <2> QED BY <1>1, <2>2
<1>3. \A i, j \in I : <<i, j>> \in R => c[i] < c[j]
  <2> SUFFICES ASSUME NEW i \in I, NEW j \in I, <<i, j>> \in R PROVE c[i] < c[j]
    OBVIOUS
  <2>1. B(i) \in SUBSET B(j) /\ B(j) \in SUBSET I /\ i \in B(j) /\ i \notin B(i)
    BY DEF StrictOrder
  <2>2. Cardinality(B(i)) < Cardinality(B(j))
    BY <1>1, <2>1
  <2> QED BY <2>2
<1>4. \A i, j \in I : c[i] = c[j] => i = j
  <2> SUFFICES ASSUME NEW i \in I, NEW j \in I, i # j PROVE c[i] # c[j]
    OBVIOUS
  <2>1. <<i, j>> \in R \/ <<j, i>> \in R
    BY DEF StrictOrder
  <2>2. c[i] \in Int /\ c[j] \in Int
    BY <1>2
  <2>3. c[i] < c[j] \/ c[j] < c[i]
    BY <1>3, <2>1
  <2> HIDE DEF c
  <2> QED BY <2>2, <2>3
<1>5. \A n \in 1..N : \E i \in I : c[i] = n - 1
  <2> DEFINE S == 0..(N - 1)
  <2>1. IsFiniteSet(S) /\ Cardinality(S) = N
    <3>1. 0 \in Int /\ N - 1 \in Int
      BY <1>1
    <3> QED BY <1>1, <3>1, FS_Interval
  <2>2. c \in Injection(I, S)
    BY <1>2, <1>4 DEF Injection, IsInjective
  <2>3. c \in Surjection(I, S)
    <3> HIDE DEF c, S
    <3> QED BY <2>1, <2>2, FS_Injection
  <2>4. \A n \in 1..N : n - 1 \in S
    BY <1>1
  <2> HIDE DEF c, S
  <2> QED BY <2>3, <2>4 DEF Surjection
<1>6. \A n \in 1..N : o[n] \in I /\ c[o[n]] = n - 1
  BY <1>5
<1>7. Arranged(s, I, R) = [n \in 1..N |-> s[o[n]]]
  BY DEF Arranged
<1>8. \A m, n \in 1..N : /\ o[m] = o[n] => m = n
                         /\ <<o[m], o[n]>> \in R => m < n
  <2> SUFFICES ASSUME NEW m \in 1..N, NEW n \in 1..N
               PROVE  (o[m] = o[n] => m = n) /\ (<<o[m], o[n]>> \in R => m < n)
    OBVIOUS
  <2>1. o[m] \in I /\ o[n] \in I /\ c[o[m]] = m - 1 /\ c[o[n]] = n - 1
    BY <1>6
  <2> HIDE DEF o, c
  <2>2. o[m] = o[n] => m - 1 = n - 1
    BY <2>1
  <2>3. <<o[m], o[n]>> \in R => m - 1 < n - 1
    BY <1>3, <2>1
  <2> QED BY <1>1, <2>2, <2>3
<1>9. o \in [1..N -> I]
  BY <1>6
<1>10. \A i \in I : \E n \in 1..N : o[n] = i
  <2> SUFFICES ASSUME NEW i \in I PROVE \E n \in 1..N : o[n] = i
    OBVIOUS
  <2>1. PICK k \in 0..(N - 1) : k = c[i]
    BY <1>2
  <2>2. k + 1 \in 1..N /\ (k + 1) - 1 = k
    BY <1>1
  <2>3. o[k + 1] \in I /\ c[o[k + 1]] = k
    BY <1>6, <2>2
  <2> HIDE DEF o, c
  <2>4. o[k + 1] = i
    BY <1>4, <2>1, <2>3
  <2> QED BY <2>2, <2>4
<1>a. Arranges(o, s, I, R)
  <2> HIDE DEF o, c
  <2> QED BY <1>7, <1>8, <1>9, <1>10 DEF Arranges
<1> QED BY <1>a

\* How many numbers there are from 1 to N.
LEMMA UpTo == ASSUME NEW N \in Nat PROVE IsFiniteSet(1..N) /\ Cardinality(1..N) = N
<1>1. 1 \in Int /\ N \in Int /\ (1 > N => N = 0)
  OBVIOUS
<1>2. IsFiniteSet(1..N) /\ Cardinality(1..N) = IF 1 > N THEN 0 ELSE N - 1 + 1
  BY <1>1, FS_Interval
<1> QED BY <1>1, <1>2

\* The order of places in a sequence is strict.
LEMMA IncreasingIsStrict == \A I \in SUBSET Nat : StrictOrder(I, Increasing(I))
BY DEF StrictOrder, Increasing

-----------------------------------------------------------------------------
(* Search: fractions.                                                      *)

Fraction == (Nat \ {0}) \X (Nat \ {0})

\* A common factor can be left out of an inequality.
LEMMA Cancel == \A x, y \in Nat, z \in Nat \ {0} : x * z <= y * z => x <= y
OBVIOUS

\* Both sides of an inequality may be multiplied.
LEMMA Times == \A x, y, z \in Nat : x <= y => x * z <= y * z
OBVIOUS

\* The same, of a strict one.
LEMMA TimesLess == \A x, y \in Nat, z \in Nat \ {0} : x < y => x * z < y * z
OBVIOUS

\* "Not above" is transitive.
LEMMA FractionOrder ==
    ASSUME NEW x \in Fraction, NEW y \in Fraction, NEW z \in Fraction, ~Above(y, x), ~Above(z, y)
    PROVE  ~Above(z, x)
<1>1. PICK a \in Nat \ {0}, b \in Nat \ {0} : x = <<a, b>>
  BY DEF Fraction
<1>2. PICK c \in Nat \ {0}, d \in Nat \ {0} : y = <<c, d>>
  BY DEF Fraction
<1>3. PICK e \in Nat \ {0}, f \in Nat \ {0} : z = <<e, f>>
  BY DEF Fraction
<1>4. c * b <= a * d /\ e * d <= c * f
  BY <1>1, <1>2, <1>3 DEF Above
<1>5. (e * d) * b <= (c * f) * b
  BY <1>4, Times
<1>6. (c * b) * f <= (a * d) * f
  BY <1>4, Times
<1>7. (e * b) * d <= (a * f) * d
  BY <1>5, <1>6
<1>8. e * b <= a * f
  BY <1>7, Cancel
<1> QED BY <1>1, <1>3, <1>8 DEF Above

\* Who ranks better twice has the greater sum of 1 / rank.
LEMMA BetterTwice ==
    ASSUME NEW r \in Nat \ {0}, NEW R \in Nat, r < R, NEW q \in Nat \ {0}, NEW Q \in Nat, q < Q
    PROVE  (r + q) * (R * Q) > (R + Q) * (r * q)
<1>1. r * R \in Nat \ {0} /\ q * Q \in Nat \ {0}
  OBVIOUS
<1>2. q * (r * R) < Q * (r * R)
  BY <1>1, TimesLess
<1>3. r * (q * Q) < R * (q * Q)
  BY <1>1, TimesLess
<1> QED BY <1>2, <1>3

-----------------------------------------------------------------------------
(* Search: the order of a fusion.                                          *)

\* The rank of an item of a ranking without repetition is its place.
LEMMA RankOf ==
    ASSUME NEW S, NEW s \in Seq(S), IsInjective(s), NEW i \in DOMAIN s
    PROVE  Rank(s, s[i]) = i
<1>1. \A j \in DOMAIN s : s[j] = s[i] => j = i
  BY DEF IsInjective
<1> QED BY <1>1 DEF Rank

\* The rank of an item is a place where it is.
LEMMA RankPlace ==
    ASSUME NEW S, NEW s \in Seq(S), NEW d \in Range(s)
    PROVE  Rank(s, d) \in DOMAIN s /\ s[Rank(s, d)] = d /\ Rank(s, d) \in Nat \ {0}
<1>1. \E i \in DOMAIN s : s[i] = d
  BY DEF Range
<1>2. Rank(s, d) \in DOMAIN s /\ s[Rank(s, d)] = d
  BY <1>1 DEF Rank
<1> QED BY <1>2

\* The score of a document in the first ranking is a fraction; if the second has it too,
\* it is the sum of both.
LEMMA ScoreType ==
    ASSUME SearchOK, NEW S, NEW s \in Seq(S), NEW t \in Seq(S), NEW d \in Range(s)
    PROVE  /\ Score(s, t, d) \in Fraction
           /\ d \in Range(t) => Score(s, t, d) = <<(RrfK + Rank(s, d)) + (RrfK + Rank(t, d)),
                                                  (RrfK + Rank(s, d)) * (RrfK + Rank(t, d))>>
<1>1. PICK r \in Nat \ {0} : r = RrfK + Rank(s, d)
  BY RankPlace DEF SearchOK
<1>2. CASE d \in Range(t)
  <2>1. PICK q \in Nat \ {0} : q = RrfK + Rank(t, d)
    BY <1>2, RankPlace DEF SearchOK
  <2>2. Score(s, t, d) = <<r + q, r * q>>
    BY <1>1, <1>2, <2>1 DEF Score
  <2>3. r + q \in Nat \ {0} /\ r * q \in Nat \ {0}
    OBVIOUS
  <2> QED BY <1>1, <2>1, <2>2, <2>3 DEF Fraction
<1>3. CASE d \notin Range(t)
  <2>1. Score(s, t, d) = <<1, r>>
    BY <1>1, <1>3 DEF Score
  <2> QED BY <1>3, <2>1 DEF Fraction
<1> QED BY <1>2, <1>3

\* Sorting by score, and by place where the scores are equal, is a strict order.
LEMMA ScoresOrder ==
    ASSUME NEW I \in SUBSET Nat, NEW W, \A i \in I : W[i] \in Fraction
    PROVE  StrictOrder(I, {p \in I \X I : \/ Above(W[p[1]], W[p[2]])
                                          \/ ~Above(W[p[2]], W[p[1]]) /\ p[1] < p[2]})
<1> DEFINE R == {p \in I \X I : \/ Above(W[p[1]], W[p[2]])
                                \/ ~Above(W[p[2]], W[p[1]]) /\ p[1] < p[2]}
<1>1. \A i, j \in I : <<i, j>> \in R <=> Above(W[i], W[j]) \/ (~Above(W[j], W[i]) /\ i < j)
  OBVIOUS
<1>2. \A x, y \in Fraction : Above(x, y) => ~Above(y, x)
  BY DEF Fraction, Above
<1> HIDE DEF R
<1>3. \A i \in I : <<i, i>> \notin R
  BY <1>1, <1>2
<1>4. \A i, j \in I : i # j => <<i, j>> \in R \/ <<j, i>> \in R
  <2>1. \A i, j \in I : i # j => i < j \/ j < i
    OBVIOUS
  <2> QED BY <1>1, <1>2, <2>1
<1>5. ASSUME NEW i \in I, NEW j \in I, NEW k \in I, <<i, j>> \in R, <<j, k>> \in R
      PROVE  <<i, k>> \in R
  <2>1. ~Above(W[j], W[i]) /\ ~Above(W[k], W[j])
    BY <1>1, <1>2, <1>5
  <2>2. ~Above(W[k], W[i])
    BY <2>1, FractionOrder
  <2>3. CASE ~Above(W[i], W[k])
    <3>1. ~Above(W[i], W[j]) /\ ~Above(W[j], W[k])
      BY <2>1, <2>3, FractionOrder
    <3>2. i < j /\ j < k
      BY <1>1, <1>5, <3>1
    <3>3. i < k
      BY <3>2
    <3> QED BY <1>1, <2>2, <3>3
  <2>4. CASE Above(W[i], W[k])
    BY <1>1, <2>4
  <2> QED BY <2>3, <2>4
<1>6. StrictOrder(I, R)
  BY <1>3, <1>4, <1>5 DEF StrictOrder
<1> QED BY <1>6 DEF R

\* A fusion with a ranking of the same documents has every one of them once, those with
\* the better score first.
FusedBy(o, s, t) ==
    /\ o \in [DOMAIN s -> DOMAIN s] /\ IsInjective(o)
    /\ ReciprocalRankFusion(s, t) = [n \in DOMAIN s |-> s[o[n]]]
    /\ \A m, n \in DOMAIN s : Better(s, t, s[o[m]], s[o[n]]) => m < n

\* There is such an order, whatever rrf_k is.
LEMMA FusionOrder ==
    ASSUME SearchOK, NEW S, NEW s \in Seq(S), NEW t \in Seq(S), Range(t) \subseteq Range(s)
    PROVE  \E o : FusedBy(o, s, t)
<1> DEFINE I == DOMAIN s
           W == [i \in I |-> Score(s, t, s[i])]
           R == {p \in I \X I : \/ Above(W[p[1]], W[p[2]])
                                \/ ~Above(W[p[2]], W[p[1]]) /\ p[1] < p[2]}
           Q == {p \in I \X I : \/ p[1] < p[2] /\ ~Better(s, t, s[p[2]], s[p[1]])
                                \/ Better(s, t, s[p[1]], s[p[2]])}
<1>1. Len(s) \in Nat /\ I = 1..Len(s)
  OBVIOUS
<1>2. IsFiniteSet(I) /\ Cardinality(I) = Len(s) /\ I \in SUBSET Nat
  <2>1. PICK N \in Nat : N = Len(s)
    BY <1>1
  <2>2. IsFiniteSet(1..N) /\ Cardinality(1..N) = N
    BY UpTo
  <2> QED BY <1>1, <2>1, <2>2
<1>3. Merged(s, t) = s
  <2> DEFINE new == {i \in DOMAIN t : t[i] \notin Range(s)}
  <2>1. new = {}
    BY DEF Range
  <2>2. Cardinality({}) = 0
    BY FS_EmptySet
  <2>3. Kept(t, {}) = <<>>
    BY <2>2 DEF Kept, Arranged
  <2>4. Merged(s, t) = s \o Kept(t, new)
    BY DEF Merged
  <2> HIDE DEF new
  <2>5. Merged(s, t) = s \o <<>>
    BY <2>1, <2>3, <2>4
  <2> QED BY <2>5
<1>4. ReciprocalRankFusion(s, t) = Arranged(s, I, Q)
  BY <1>3 DEF ReciprocalRankFusion
<1>5. \A i \in I : W[i] \in Fraction
  <2> SUFFICES ASSUME NEW i \in I PROVE Score(s, t, s[i]) \in Fraction
    OBVIOUS
  <2>1. s[i] \in Range(s)
    BY DEF Range
  <2> QED BY <2>1, ScoreType
<1>6. \A i, j \in I : Better(s, t, s[i], s[j]) <=> Above(W[i], W[j])
  BY DEF Better
<1>7. Q = R
  <2> HIDE DEF W
  <2> QED BY <1>6
<1>8. StrictOrder(I, R)
  <2> HIDE DEF W
  <2> QED BY <1>2, <1>5, ScoresOrder
<1>9. PICK o : Arranges(o, s, I, R)
  <2> HIDE DEF I, R
  <2> QED BY <1>2, <1>8, Arrangement
<1>10. \A i, j \in I : Better(s, t, s[i], s[j]) => <<i, j>> \in R
  <2> HIDE DEF W
  <2> QED BY <1>6
<1>11. FusedBy(o, s, t)
  <2>1. /\ o \in [I -> I] /\ Arranged(s, I, R) = [n \in I |-> s[o[n]]]
        /\ \A m, n \in I : o[m] = o[n] => m = n
        /\ \A m, n \in I : <<o[m], o[n]>> \in R => m < n
    <3> HIDE DEF I, R
    <3>1. 1..Cardinality(I) = I
      BY <1>1, <1>2
    <3> QED BY <1>9, <3>1 DEF Arranges
  <2>2. ReciprocalRankFusion(s, t) = [n \in I |-> s[o[n]]]
    BY <1>4, <1>7, <2>1
  <2>3. \A m, n \in I : Better(s, t, s[o[m]], s[o[n]]) => m < n
    <3> HIDE DEF R
    <3> QED BY <1>10, <2>1
  <2> HIDE DEF R
  <2> QED BY <2>1, <2>2, <2>3 DEF FusedBy, IsInjective
<1> QED BY <1>11

-----------------------------------------------------------------------------
(* Search: pages of a ranking.                                             *)

\* What a prefix of s is.
LEMMA FirstItems ==
    ASSUME NEW S, NEW s \in Seq(S), NEW n \in Nat
    PROVE  /\ First(s, n) \in Seq(S)
           /\ Len(First(s, n)) = IF n < Len(s) THEN n ELSE Len(s)
           /\ \A i \in DOMAIN First(s, n) : i \in DOMAIN s /\ First(s, n)[i] = s[i]
           /\ \A i \in DOMAIN s : i <= n => i \in DOMAIN First(s, n)
<1> DEFINE m == IF n < Len(s) THEN n ELSE Len(s)
<1>1. m \in Nat /\ m <= Len(s) /\ m <= n
  OBVIOUS
<1>2. First(s, n) = SubSeq(s, 1, m)
  BY DEF First
<1>3. \A i \in DOMAIN s : i <= n => i <= m
  OBVIOUS
<1>4. m = IF n < Len(s) THEN n ELSE Len(s)
  OBVIOUS
<1> HIDE DEF m
<1>5. /\ First(s, n) \in Seq(S) /\ Len(First(s, n)) = m
      /\ \A i \in 1..m : First(s, n)[i] = s[i]
  BY <1>1, <1>2
<1>6. DOMAIN First(s, n) = 1..m /\ DOMAIN s = 1..Len(s)
  BY <1>5
<1>7. \A i \in 1..m : i \in 1..Len(s)
  BY <1>1
<1>8. \A i \in 1..Len(s) : i <= n => i \in 1..m
  BY <1>1, <1>3, <1>6
<1> QED BY <1>4, <1>5, <1>6, <1>7, <1>8

\* The p-th page of s, whatever is on it.
LEMMA PageItems ==
    ASSUME NEW S, NEW s \in Seq(S), page_size \in Nat \ {0}, NEW p \in Nat \ {0},
           NEW from \in Nat, from = (p - 1) * page_size
    PROVE  /\ LET rest == Len(s) - from IN
              Len(Page(s, p)) = IF rest <= 0 THEN 0 ELSE IF rest < page_size THEN rest ELSE page_size
           /\ Page(s, p) \in Seq(S)
           /\ \A i \in DOMAIN Page(s, p) :
                 /\ i \in 1..page_size /\ from + i \in DOMAIN s /\ Page(s, p)[i] = s[from + i]
<1>1. CASE from >= Len(s)
  <2>1. Page(s, p) = <<>>
    BY <1>1 DEF Page
  <2> QED BY <1>1, <2>1
<1>2. CASE from < Len(s)
  <2> DEFINE t == SubSeq(s, from + 1, Len(s))
  <2>1. Page(s, p) = First(t, page_size)
    BY <1>2 DEF Page
  <2>2. /\ t \in Seq(S) /\ Len(t) = Len(s) - from
        /\ \A i \in 1..(Len(s) - from) : t[i] = s[from + i]
    <3>1. Len(s) \in Nat /\ \A i \in (from + 1)..Len(s) : i \in 1..Len(s) /\ s[i] \in S
      OBVIOUS
    <3>2. t = [i \in 1..(Len(s) - from) |-> s[from + i]]
      BY <1>2, <3>1
    <3>3. \A i \in 1..(Len(s) - from) : s[from + i] \in S
      BY <3>1
    <3>4. Len(s) - from \in Nat
      BY <1>2, <3>1
    <3> HIDE DEF t
    <3> QED BY <3>2, <3>3, <3>4
  <2>3. Len(s) \in Nat /\ DOMAIN s = 1..Len(s)
    OBVIOUS
  <2> HIDE DEF t
  <2>4. DOMAIN t = 1..(Len(s) - from) /\ page_size \in Nat
    BY <2>2
  <2>5. /\ First(t, page_size) \in Seq(S)
        /\ Len(First(t, page_size)) = IF page_size < Len(t) THEN page_size ELSE Len(t)
        /\ \A i \in DOMAIN First(t, page_size) : i \in DOMAIN t /\ First(t, page_size)[i] = t[i]
    <3>1. PICK u \in Seq(S) : u = t
      BY <2>2
    <3>2. PICK n \in Nat : n = page_size
      BY <2>4
    <3>3. /\ First(u, n) \in Seq(S) /\ Len(First(u, n)) = IF n < Len(u) THEN n ELSE Len(u)
          /\ \A i \in DOMAIN First(u, n) : i \in DOMAIN u /\ First(u, n)[i] = u[i]
      BY FirstItems
    <3> QED BY <3>1, <3>2, <3>3
  <2>6. Len(Page(s, p)) = IF page_size < Len(s) - from THEN page_size ELSE Len(s) - from
    BY <2>1, <2>2, <2>5
  <2>7. \A i \in DOMAIN Page(s, p) : i \in 1..Len(Page(s, p)) /\ i \in 1..(Len(s) - from)
                                     /\ Page(s, p)[i] = s[from + i]
    BY <2>1, <2>2, <2>4, <2>5
  <2>8. \A i \in DOMAIN Page(s, p) : /\ i \in 1..page_size /\ from + i \in 1..Len(s)
                                     /\ Page(s, p)[i] = s[from + i]
    <3>1. Len(s) - from \in Nat /\ Len(s) \in Nat
      BY <1>2
    <3>2. \A i \in 1..Len(Page(s, p)) : i \in 1..page_size
      BY <2>6, <3>1
    <3>3. \A i \in 1..(Len(s) - from) : from + i \in 1..Len(s)
      BY <3>1
    <3> QED BY <2>7, <3>2, <3>3
  <2>9. Page(s, p) \in Seq(S)
    BY <2>1, <2>5
  <2>10. Len(Page(s, p)) = LET rest == Len(s) - from IN
                           IF rest <= 0 THEN 0 ELSE IF rest < page_size THEN rest ELSE page_size
    <3>1. PICK m \in Nat : m = Len(s)
      BY <2>3
    <3>2. PICK n \in Nat : n = page_size
      BY <2>4
    <3>3. from < m /\ Len(Page(s, p)) = IF n < m - from THEN n ELSE m - from
      BY <1>2, <2>6, <3>1, <3>2
    <3>4. Len(Page(s, p)) = IF m - from <= 0 THEN 0 ELSE IF m - from < n THEN m - from ELSE n
      BY <3>3
    <3> QED BY <3>1, <3>2, <3>4
  <2>11. \A i \in DOMAIN Page(s, p) : from + i \in DOMAIN s
    BY <2>3, <2>8
  <2> QED BY <2>8, <2>9, <2>10, <2>11
<1> QED BY <1>1, <1>2

\* Where page p starts; a page ends before the next one starts.
LEMMA PagesApart ==
    ASSUME NEW size \in Nat \ {0}, NEW p \in Nat \ {0}, NEW q \in Nat \ {0}, p < q
    PROVE  (p - 1) * size \in Nat /\ (p - 1) * size + size <= (q - 1) * size
<1>1. p - 1 \in Nat /\ q - 1 \in Nat /\ p <= q - 1
  OBVIOUS
<1>2. p * size <= (q - 1) * size
  BY <1>1, Times
<1>3. (p - 1) * size + size = p * size
  OBVIOUS
<1>4. (p - 1) * size \in Nat
  BY <1>1
<1> QED BY <1>2, <1>3, <1>4

\* Two pages of an injective sequence share nothing.
LEMMA PagesDisjoint ==
    ASSUME NEW S, NEW s \in Seq(S), IsInjective(s), page_size \in Nat \ {0},
           NEW p \in Nat \ {0}, NEW q \in Nat \ {0}, p < q
    PROVE  Range(Page(s, p)) \cap Range(Page(s, q)) = {}
<1>1. PICK a \in Nat : a = (p - 1) * page_size
  BY PagesApart
<1>2. PICK b \in Nat : b = (q - 1) * page_size
  <2>1. q - 1 \in Nat
    OBVIOUS
  <2> QED BY <2>1
<1>3. a + page_size <= b
  BY <1>1, <1>2, PagesApart
<1>4. \A i \in DOMAIN Page(s, p) : i \in 1..page_size /\ a + i \in DOMAIN s /\ Page(s, p)[i] = s[a + i]
  BY <1>1, PageItems
<1>5. \A i \in DOMAIN Page(s, q) : i \in 1..page_size /\ b + i \in DOMAIN s /\ Page(s, q)[i] = s[b + i]
  BY <1>2, PageItems
<1>6. \A i, j \in 1..page_size : a + i # b + j
  BY <1>3
<1>7. \A i \in DOMAIN Page(s, p) : \A j \in DOMAIN Page(s, q) : Page(s, p)[i] # Page(s, q)[j]
  <2> SUFFICES ASSUME NEW i \in DOMAIN Page(s, p), NEW j \in DOMAIN Page(s, q)
               PROVE  Page(s, p)[i] # Page(s, q)[j]
    OBVIOUS
  <2>1. a + i \in DOMAIN s /\ b + j \in DOMAIN s /\ a + i # b + j
    BY <1>4, <1>5, <1>6
  <2>2. s[a + i] # s[b + j]
    BY <2>1 DEF IsInjective
  <2> QED BY <1>4, <1>5, <2>2
<1> QED BY <1>7 DEF Range

-----------------------------------------------------------------------------
(* Search: what the rankings are made into.                                *)

\* o is the order in which Kept takes the places of I: all, as they stand.
KeptAt(o, s, I) ==
    /\ o \in [1..Cardinality(I) -> I] /\ Cardinality(I) \in Nat
    /\ Kept(s, I) = [n \in 1..Cardinality(I) |-> s[o[n]]]
    /\ \A m, n \in 1..Cardinality(I) : m < n => o[m] < o[n]
    /\ \A i \in I : \E n \in 1..Cardinality(I) : o[n] = i

\* There is such an order of the places of a sequence.
LEMMA KeptItems ==
    ASSUME NEW S, NEW s \in Seq(S), NEW I \in SUBSET DOMAIN s
    PROVE  Kept(s, I) \in Seq(S) /\ \E o : KeptAt(o, s, I)
<1>1. PICK L \in Nat : L = Len(s)
  OBVIOUS
<1>2. DOMAIN s = 1..L /\ \A i \in DOMAIN s : s[i] \in S
  BY <1>1
<1>3. I \in SUBSET (1..L) /\ I \in SUBSET Nat
  BY <1>2
<1>4. IsFiniteSet(1..L)
  BY UpTo
<1>5. IsFiniteSet(I) /\ Cardinality(I) \in Nat
  BY <1>3, <1>4, FS_Subset, FS_CardinalityType
<1>6. StrictOrder(I, Increasing(I))
  BY <1>3, IncreasingIsStrict
<1>7. PICK o : Arranges(o, s, I, Increasing(I))
  BY <1>5, <1>6, Arrangement
<1>8. KeptAt(o, s, I)
  <2>1. PICK M \in Nat : M = Cardinality(I)
    BY <1>5
  <2>2. /\ o \in [1..M -> I] /\ Arranged(s, I, Increasing(I)) = [n \in 1..M |-> s[o[n]]]
        /\ \A m, n \in 1..M : o[m] = o[n] => m = n
        /\ \A m, n \in 1..M : <<o[m], o[n]>> \in Increasing(I) => m < n
        /\ \A i \in I : \E n \in 1..M : o[n] = i
    BY <1>7, <2>1 DEF Arranges
  <2>3. \A m, n \in 1..M : m < n => o[m] < o[n]
    <3> SUFFICES ASSUME NEW m \in 1..M, NEW n \in 1..M, m < n PROVE o[m] < o[n]
      OBVIOUS
    <3>1. o[m] \in I /\ o[n] \in I /\ o[m] \in Nat /\ o[n] \in Nat /\ o[m] # o[n]
      BY <1>3, <2>2
    <3>2. o[n] < o[m] => <<o[n], o[m]>> \in Increasing(I)
      BY <3>1 DEF Increasing
    <3>3. ~(o[n] < o[m])
      BY <2>2, <3>2
    <3> QED BY <3>1, <3>3
  <2> QED BY <1>5, <2>1, <2>2, <2>3 DEF KeptAt, Kept
<1>9. PICK N \in Nat : N = Cardinality(I)
  BY <1>5
<1>10. Kept(s, I) = [n \in 1..N |-> s[o[n]]] /\ \A n \in 1..N : s[o[n]] \in S
  BY <1>2, <1>3, <1>8, <1>9 DEF KeptAt
<1>11. Kept(s, I) \in Seq(S)
  BY <1>10
<1> QED BY <1>8, <1>11

\* Only candidates are reranked.
LEMMA RerankedBooks ==
    ASSUME bySimilarity \in Seq(ChunkDocs), NEW docs \in Seq(BookDocs)
    PROVE  Reranked(docs) \in Seq(BookDocs) /\ Range(Reranked(docs)) \subseteq Range(docs)
<1> DEFINE I == {i \in DOMAIN bySimilarity :
                    bySimilarity[i][2] = 1 /\ <<bySimilarity[i][1], 0>> \in Range(docs)}
           first == Kept(bySimilarity, I)
<1>1. Reranked(docs) = [n \in DOMAIN first |-> <<first[n][1], 0>>]
  BY DEF Reranked
<1>2. Range(docs) \subseteq BookDocs
  BY DEF Range
<1>3. PICK o : KeptAt(o, bySimilarity, I)
  <2>1. I \in SUBSET DOMAIN bySimilarity
    OBVIOUS
  <2> HIDE DEF I
  <2> QED BY <2>1, KeptItems
<1>4. PICK N \in Nat : N = Cardinality(I)
  BY <1>3 DEF KeptAt
<1>5. o \in [1..N -> I] /\ first = [n \in 1..N |-> bySimilarity[o[n]]]
  BY <1>3, <1>4 DEF KeptAt
<1>6. \A n \in 1..N : <<bySimilarity[o[n]][1], 0>> \in Range(docs)
  BY <1>5
<1> HIDE DEF I, first
<1>7. Reranked(docs) = [n \in 1..N |-> <<first[n][1], 0>>]
  BY <1>1, <1>5
<1>8. \A n \in 1..N : Reranked(docs)[n] \in Range(docs) /\ Reranked(docs)[n] \in BookDocs
  BY <1>2, <1>5, <1>6, <1>7
<1>9. Reranked(docs) \in Seq(BookDocs)
  BY <1>7, <1>8
<1>10. DOMAIN Reranked(docs) = 1..N
  BY <1>7
<1> QED BY <1>8, <1>9, <1>10 DEF Range

\* Who is nearer to the book asked about, among other books, is nearer in the ranking.
LEMMA OthersAreKept ==
    ASSUME bySimilarity \in Seq(ChunkDocs), NEW d
    PROVE  /\ ExceptBookOf(d) \in Seq(ChunkDocs)
           /\ \A n \in DOMAIN ExceptBookOf(d) : ExceptBookOf(d)[n][1] # d[1]
           /\ \A b, c : c # d[1] /\ Nearer(ExceptBookOf(d), b, c) => Nearer(bySimilarity, b, c)
<1> DEFINE I == {i \in DOMAIN bySimilarity : bySimilarity[i][1] # d[1]}
           s == ExceptBookOf(d)
<1>1. s = Kept(bySimilarity, I)
  BY DEF ExceptBookOf
<1>2. PICK o : KeptAt(o, bySimilarity, I) /\ Kept(bySimilarity, I) \in Seq(ChunkDocs)
  <2>1. I \in SUBSET DOMAIN bySimilarity
    OBVIOUS
  <2> HIDE DEF I
  <2> QED BY <2>1, KeptItems
<1>3. PICK N \in Nat : N = Cardinality(I)
  BY <1>2 DEF KeptAt
<1>4. /\ o \in [1..N -> I] /\ s = [n \in 1..N |-> bySimilarity[o[n]]]
      /\ \A m, n \in 1..N : m < n => o[m] < o[n]
      /\ \A i \in I : \E n \in 1..N : o[n] = i
  BY <1>1, <1>2, <1>3 DEF KeptAt
<1>5. /\ \A i \in I : i \in DOMAIN bySimilarity /\ bySimilarity[i][1] # d[1]
      /\ \A i \in DOMAIN bySimilarity : bySimilarity[i][1] # d[1] => i \in I
      /\ DOMAIN bySimilarity = 1..Len(bySimilarity) /\ Len(bySimilarity) \in Nat
  OBVIOUS
<1> HIDE DEF I, s
<1>6. ASSUME NEW b, NEW c, c # d[1], Nearer(s, b, c) PROVE Nearer(bySimilarity, b, c)
  <2>1. PICK i \in 1..N : s[i][1] = b /\ \A j \in 1..i : s[j][1] # c
    BY <1>4, <1>6 DEF Nearer
  <2>2. o[i] \in DOMAIN bySimilarity /\ bySimilarity[o[i]][1] = b /\ o[i] \in Nat
    BY <1>4, <1>5, <2>1
  <2>3. ASSUME NEW k \in 1..o[i], bySimilarity[k][1] = c PROVE FALSE
    <3>1. k \in 1..Len(bySimilarity)
      BY <1>5, <2>2
    <3>2. k \in I
      BY <1>5, <1>6, <2>3, <3>1
    <3>3. PICK m \in 1..N : o[m] = k
      BY <1>4, <3>2
    <3>4. ~(i < m)
      BY <1>4, <2>2, <3>3
    <3>5. m \in 1..i
      BY <3>4
    <3>6. s[m][1] = c
      BY <1>4, <2>3, <3>3
    <3> QED BY <2>1, <3>5, <3>6
  <2> QED BY <2>2, <2>3 DEF Nearer
<1>7. \A n \in DOMAIN s : s[n][1] # d[1]
  BY <1>4, <1>5
<1>8. s \in Seq(ChunkDocs)
  BY <1>1, <1>2
<1> QED BY <1>6, <1>7, <1>8 DEF s

\* A book that a sequence of chunks has, it has at a first place.
LEMMA FirstPlace ==
    ASSUME NEW S, NEW s \in Seq(S), NEW k \in DOMAIN s
    PROVE  \E i \in DOMAIN s : i <= k /\ s[i][1] = s[k][1] /\ \A j \in 1..(i - 1) : s[j][1] # s[i][1]
<1> DEFINE I == {i \in DOMAIN s : s[i][1] = s[k][1]}
<1>1. PICK o : KeptAt(o, s, I)
  <2>1. I \in SUBSET DOMAIN s
    OBVIOUS
  <2> HIDE DEF I
  <2> QED BY <2>1, KeptItems
<1>2. PICK N \in Nat : N = Cardinality(I)
  BY <1>1 DEF KeptAt
<1>3. /\ o \in [1..N -> I] /\ \A m, n \in 1..N : m < n => o[m] < o[n]
      /\ \A i \in I : \E n \in 1..N : o[n] = i
  BY <1>1, <1>2 DEF KeptAt
<1>4. k \in I /\ (\A i \in I : i \in DOMAIN s /\ i \in Nat /\ s[i][1] = s[k][1])
      /\ (\A i \in DOMAIN s : s[i][1] = s[k][1] => i \in I)
  OBVIOUS
<1> HIDE DEF I
<1>5. 1 \in 1..N
  BY <1>3, <1>4
<1>6. o[1] \in I /\ \A i \in I : o[1] <= i
  <2>1. o[1] \in I
    BY <1>3, <1>5
  <2>2. ASSUME NEW i \in I PROVE o[1] <= i
    <3>1. PICK n \in 1..N : o[n] = i
      BY <1>3
    <3>2. n = 1 \/ 1 < n
      OBVIOUS
    <3>3. o[1] \in Nat /\ i \in Nat
      BY <1>4, <2>1
    <3> QED BY <1>3, <1>5, <3>1, <3>2, <3>3
  <2> QED BY <2>1, <2>2
<1>7. PICK f \in DOMAIN s : f = o[1] /\ f \in Nat /\ f <= k /\ s[f][1] = s[k][1]
  BY <1>4, <1>6
<1>8. ASSUME NEW j \in 1..(f - 1), s[j][1] = s[f][1] PROVE FALSE
  <2>1. j \in DOMAIN s /\ j < f /\ j \in Nat
    BY <1>7
  <2>2. j \in I
    BY <1>4, <1>7, <1>8, <2>1
  <2> QED BY <1>6, <1>7, <2>1, <2>2
<1> QED BY <1>7, <1>8

\* Of the hits' books the nearest, in their order, and no more than wanted.
LEMMA DeduplicatedBooks ==
    ASSUME NEW hits \in Seq(ChunkDocs), NEW limit \in Nat,
           NEW r, r = Deduplicated(hits, limit)
    PROVE  /\ r \in Seq({hits[i][1] : i \in DOMAIN hits}) /\ Len(r) <= limit
           /\ \A i, j \in DOMAIN r : i < j => Nearer(hits, r[i], r[j])
           /\ \A i \in DOMAIN r : \A c : c \notin Range(r) => Nearer(hits, r[i], c)
<1>f. \A k \in DOMAIN hits : \E f \in DOMAIN hits :
          f <= k /\ hits[f][1] = hits[k][1] /\ \A j \in 1..(f - 1) : hits[j][1] # hits[f][1]
  BY FirstPlace
<1> DEFINE I == {i \in DOMAIN hits : \A j \in 1..(i - 1) : hits[j][1] # hits[i][1]}
           best == Kept(hits, I)
           names == [n \in DOMAIN best |-> best[n][1]]
           S == {hits[i][1] : i \in DOMAIN hits}
<1>0. PICK o : KeptAt(o, hits, I)
  <2>1. I \in SUBSET DOMAIN hits
    OBVIOUS
  <2> HIDE DEF I
  <2> QED BY <2>1, KeptItems
<1>1. PICK N \in Nat : N = Cardinality(I)
  BY <1>0 DEF KeptAt
<1>2. /\ o \in [1..N -> I] /\ best = [n \in 1..N |-> hits[o[n]]]
      /\ \A m, n \in 1..N : m < n => o[m] < o[n]
      /\ \A i \in I : \E n \in 1..N : o[n] = i
  <2> HIDE DEF I
  <2> QED BY <1>0, <1>1 DEF KeptAt
<1>3. r = First(names, limit)
  BY DEF Deduplicated
<1>4. /\ \A i \in I : i \in DOMAIN hits /\ \A j \in 1..(i - 1) : hits[j][1] # hits[i][1]
      /\ \A i \in DOMAIN hits : (\A j \in 1..(i - 1) : hits[j][1] # hits[i][1]) => i \in I
      /\ DOMAIN hits = 1..Len(hits) /\ Len(hits) \in Nat
  OBVIOUS
<1> HIDE DEF I
<1>5. names = [n \in 1..N |-> hits[o[n]][1]] /\ \A n \in 1..N : o[n] \in I /\ o[n] \in DOMAIN hits
  BY <1>2, <1>4
<1> HIDE DEF best, names
<1>6. names \in Seq(S) /\ DOMAIN names = 1..N
  BY <1>5
<1>7. /\ r \in Seq(S) /\ Len(r) <= limit
      /\ \A i \in DOMAIN r : i \in 1..N /\ r[i] = hits[o[i]][1]
  <2>1. /\ First(names, limit) \in Seq(S)
        /\ Len(First(names, limit)) = IF limit < Len(names) THEN limit ELSE Len(names)
        /\ \A i \in DOMAIN First(names, limit) : i \in DOMAIN names /\ First(names, limit)[i] = names[i]
    BY <1>6, FirstItems
  <2> QED BY <1>3, <1>5, <1>6, <2>1
<1>8. DOMAIN r = 1..Len(r) /\ Len(r) \in Nat
  BY <1>7
<1>9. ASSUME NEW i \in DOMAIN r, NEW j \in DOMAIN r, i < j PROVE Nearer(hits, r[i], r[j])
  <2>1. i \in 1..N /\ j \in 1..N /\ o[i] \in DOMAIN hits /\ o[j] \in I /\ o[i] < o[j]
        /\ r[i] = hits[o[i]][1] /\ r[j] = hits[o[j]][1]
    BY <1>2, <1>5, <1>7, <1>9
  <2>2. \A k \in 1..(o[j] - 1) : hits[k][1] # r[j]
    BY <1>4, <2>1
  <2>3. \A k \in 1..o[i] : k \in 1..(o[j] - 1)
    BY <1>4, <2>1
  <2> QED BY <2>1, <2>2, <2>3 DEF Nearer
<1>10. ASSUME NEW i \in DOMAIN r, NEW c, c \notin Range(r) PROVE Nearer(hits, r[i], c)
  <2>1. i \in 1..N /\ o[i] \in DOMAIN hits /\ r[i] = hits[o[i]][1] /\ o[i] \in Nat
    BY <1>4, <1>5, <1>7
  <2>2. ASSUME NEW k \in 1..o[i], hits[k][1] = c PROVE FALSE
    <3>1. k \in DOMAIN hits
      BY <1>4, <2>1
    <3>2. PICK f \in DOMAIN hits : f <= k /\ hits[f][1] = c /\ \A j \in 1..(f - 1) : hits[j][1] # hits[f][1]
      <4>1. \E f \in DOMAIN hits : /\ f <= k /\ hits[f][1] = hits[k][1]
                                   /\ \A j \in 1..(f - 1) : hits[j][1] # hits[f][1]
        BY <3>1, <1>f
      <4> QED BY <2>2, <4>1
    <3>3. f \in I
      BY <1>4, <3>2
    <3>4. PICK m \in 1..N : o[m] = f
      BY <1>2, <3>3
    <3>5. ~(i < m)
      <4>1. i < m => o[i] < o[m]
        BY <1>2, <2>1
      <4>2. f \in Nat /\ k \in Nat /\ k <= o[i]
        BY <1>4, <2>1
      <4> QED BY <2>1, <3>2, <3>4, <4>1, <4>2
    <3>6. m \in DOMAIN r
      BY <1>8, <2>1, <3>5
    <3>7. r[m] = c
      BY <1>7, <3>2, <3>4, <3>6
    <3> QED BY <1>10, <3>6, <3>7 DEF Range
  <2> QED BY <2>1, <2>2 DEF Nearer
<1> QED BY <1>7, <1>9, <1>10

-----------------------------------------------------------------------------
(* Search: pages of fused results, and similar books.                      *)

\* The rankings never change: each item once, of the size that pages may have.
RankingsOK ==
    /\ page_size \in Nat \ {0}
    /\ byWords \in Seq(BookDocs) /\ IsInjective(byWords)
    /\ bySimilarity \in Seq(ChunkDocs)

\* An answer that is remembered is a page of the one fusion there is.
FusedPage(a) == a.page \in Nat \ {0} /\ a.total = RerankTotal /\ a.results = Page(Fused, a.page)

SearchInv == RankingsOK /\ (\A a \in pages : FusedPage(a)) /\ SimilarAreNearest

\* The number of candidates is a number.
LEMMA LimitType == ASSUME SearchOK, RankingsOK PROVE CandidateLimit \in Nat
<1>1. \A x, y \in Nat : x * y \in Nat
  OBVIOUS
<1>2. page_size \in Nat /\ Candidates.factor \in Nat /\ Candidates.least \in Nat /\ Candidates.most \in Nat
  BY DEF SearchOK, RankingsOK
<1>3. page_size * Candidates.factor \in Nat
  BY <1>1, <1>2
<1> QED BY <1>2, <1>3 DEF CandidateLimit

\* The candidates, and what their fusion is made of.
LEMMA DocsOfRerank ==
    ASSUME SearchOK, RankingsOK, NEW docs, docs = First(byWords, CandidateLimit)
    PROVE  /\ docs \in Seq(BookDocs) /\ IsInjective(docs) /\ Len(docs) = RerankTotal
           /\ \A i \in DOMAIN docs : i \in DOMAIN byWords /\ docs[i] = byWords[i]
           /\ Reranked(docs) \in Seq(BookDocs) /\ Range(Reranked(docs)) \subseteq Range(docs)
           /\ \E o : FusedBy(o, docs, Reranked(docs))
           /\ Fused = ReciprocalRankFusion(docs, Reranked(docs))
<1>1. CandidateLimit \in Nat /\ byWords \in Seq(BookDocs) /\ IsInjective(byWords) /\ bySimilarity \in Seq(ChunkDocs)
  BY LimitType DEF RankingsOK
<1>2. /\ docs \in Seq(BookDocs)
      /\ Len(docs) = IF CandidateLimit < Len(byWords) THEN CandidateLimit ELSE Len(byWords)
      /\ \A i \in DOMAIN docs : i \in DOMAIN byWords /\ docs[i] = byWords[i]
  <2>1. PICK n \in Nat : n = CandidateLimit
    BY <1>1
  <2>2. PICK s \in Seq(BookDocs) : s = byWords
    BY <1>1
  <2>3. /\ First(s, n) \in Seq(BookDocs)
        /\ Len(First(s, n)) = IF n < Len(s) THEN n ELSE Len(s)
        /\ \A i \in DOMAIN First(s, n) : i \in DOMAIN s /\ First(s, n)[i] = s[i]
    BY FirstItems
  <2>4. docs = First(s, n)
    BY <2>1, <2>2
  <2> QED BY <2>1, <2>2, <2>3, <2>4
<1>3. IsInjective(docs)
  BY <1>1, <1>2 DEF IsInjective
<1>4. Len(docs) = RerankTotal
  BY <1>1, <1>2 DEF RerankTotal
<1>5. Reranked(docs) \in Seq(BookDocs) /\ Range(Reranked(docs)) \subseteq Range(docs)
  BY <1>1, <1>2, RerankedBooks
<1>6. \E o : FusedBy(o, docs, Reranked(docs))
  BY <1>2, <1>5, FusionOrder
<1> QED BY <1>2, <1>3, <1>4, <1>5, <1>6 DEF Fused

\* The fusion has each candidate once.
LEMMA FusedType ==
    ASSUME SearchOK, RankingsOK
    PROVE  Fused \in Seq(BookDocs) /\ Len(Fused) = RerankTotal /\ IsInjective(Fused)
<1>1. PICK docs : docs = First(byWords, CandidateLimit)
  OBVIOUS
<1>2. /\ docs \in Seq(BookDocs) /\ IsInjective(docs) /\ Len(docs) = RerankTotal
      /\ Fused = ReciprocalRankFusion(docs, Reranked(docs))
  BY <1>1, DocsOfRerank
<1>3. PICK o : FusedBy(o, docs, Reranked(docs))
  BY <1>1, DocsOfRerank
<1>4. /\ Fused = [n \in DOMAIN docs |-> docs[o[n]]] /\ o \in [DOMAIN docs -> DOMAIN docs]
      /\ IsInjective(o)
  BY <1>2, <1>3 DEF FusedBy
<1>5. DOMAIN docs = 1..Len(docs) /\ Len(docs) \in Nat /\ \A n \in DOMAIN docs : docs[o[n]] \in BookDocs
  BY <1>2, <1>4
<1>6. Fused \in Seq(BookDocs) /\ Len(Fused) = Len(docs) /\ DOMAIN Fused = DOMAIN docs
  BY <1>4, <1>5
<1>7. IsInjective(Fused)
  BY <1>2, <1>4, <1>6 DEF IsInjective
<1> QED BY <1>2, <1>6, <1>7

\* What a function makes of a finite set is finite.
LEMMA FiniteImage ==
    ASSUME NEW S, IsFiniteSet(S), NEW T, NEW f \in [S -> T], \A t \in T : \E x \in S : f[x] = t
    PROVE  IsFiniteSet(T)
<1>1. f \in Surjection(S, T)
  BY DEF Surjection
<1> QED BY <1>1, FS_Surjection

\* The corpus is finite.
LEMMA FiniteCorpus == ASSUME SearchOK PROVE IsFiniteSet(BookDocs) /\ IsFiniteSet(ChunkDocs)
<1>1. IsFiniteSet(Books) /\ \A b \in Books : ChunksOf[b] \in Nat
  BY DEF SearchOK
<1>2. IsFiniteSet(BookDocs)
  <2> DEFINE f == [b \in Books |-> <<b, 0>>]
  <2>1. f \in [Books -> BookDocs] /\ \A d \in BookDocs : \E b \in Books : f[b] = d
    BY DEF BookDocs
  <2> HIDE DEF f
  <2> QED BY <1>1, <2>1, FiniteImage
<1>3. ASSUME NEW b \in Books PROVE IsFiniteSet({<<b, i>> : i \in 1..ChunksOf[b]})
  <2> DEFINE T == {<<b, i>> : i \in 1..ChunksOf[b]}
             f == [i \in 1..ChunksOf[b] |-> <<b, i>>]
  <2>1. f \in [1..ChunksOf[b] -> T] /\ \A d \in T : \E i \in 1..ChunksOf[b] : f[i] = d
    OBVIOUS
  <2>2. IsFiniteSet(1..ChunksOf[b])
    BY <1>1, UpTo
  <2> HIDE DEF f, T
  <2>3. IsFiniteSet(T)
    BY <2>1, <2>2, FiniteImage
  <2> QED BY <2>3 DEF T
<1>4. IsFiniteSet(ChunkDocs)
  <2> DEFINE f == [b \in Books |-> {<<b, i>> : i \in 1..ChunksOf[b]}]
             T == {{<<b, i>> : i \in 1..ChunksOf[b]} : b \in Books}
  <2>1. f \in [Books -> T] /\ (\A U \in T : \E b \in Books : f[b] = U) /\ \A U \in T : IsFiniteSet(U)
    BY <1>3
  <2>2. ChunkDocs = UNION T
    BY DEF ChunkDocs
  <2> HIDE DEF f, T
  <2>3. IsFiniteSet(T) /\ \A U \in T : IsFiniteSet(U)
    BY <1>1, <2>1, FiniteImage
  <2> QED BY <2>2, <2>3, FS_UNION
<1> QED BY <1>2, <1>4

\* The rankings of Solr have nothing twice.
LEMMA SearchStarts == ASSUME SearchOK, SearchInit PROVE SearchInv
<1>1. page_size \in Nat \ {0}
  BY DEF SearchInit, SearchOK
<1>2. ASSUME NEW S, IsFiniteSet(S), NEW s \in SetToSeqs(S) PROVE s \in Seq(S) /\ IsInjective(s)
  <2>1. PICK n \in Nat : n = Cardinality(S)
    BY <1>2, FS_CardinalityType
  <2>2. s \in [1..n -> S] /\ \A i, j \in 1..n : i # j => s[i] # s[j]
    BY <1>2, <2>1 DEF SetToSeqs
  <2> QED BY <2>2 DEF IsInjective
<1>3. bySimilarity \in Seq(ChunkDocs)
  <2>1. PICK U : bySimilarity \in SetToSeqs(ChunkDocs \ U)
    BY DEF SearchInit
  <2>2. IsFiniteSet(ChunkDocs \ U)
    BY FiniteCorpus, FS_Subset
  <2>3. bySimilarity \in Seq(ChunkDocs \ U)
    BY <1>2, <2>1, <2>2
  <2>4. Seq(ChunkDocs \ U) \subseteq Seq(ChunkDocs)
    OBVIOUS
  <2> QED BY <2>3, <2>4
<1>4. byWords \in Seq(BookDocs) /\ IsInjective(byWords)
  <2>1. PICK S \in SUBSET BookDocs : byWords \in SetToSeqs(S)
    BY DEF SearchInit, Rankings
  <2>2. IsFiniteSet(S)
    BY FiniteCorpus, FS_Subset
  <2>3. byWords \in Seq(S) /\ IsInjective(byWords)
    BY <1>2, <2>1, <2>2
  <2>4. Seq(S) \subseteq Seq(BookDocs)
    OBVIOUS
  <2> QED BY <2>3, <2>4
<1>5. pages = {} /\ SimilarAreNearest
  BY DEF SearchInit, SimilarAreNearest, Answered
<1> QED BY <1>1, <1>3, <1>4, <1>5 DEF SearchInv, RankingsOK

\* What the fusion is made of does not change, so pages seen earlier stay pages of it.
LEMMA CorpusFrame ==
    ASSUME SearchInv, UNCHANGED corpus
    PROVE  RankingsOK' /\ \A a : FusedPage(a)' <=> FusedPage(a)
<1>1. UNCHANGED <<architecture, page_size, byWords, bySimilarity>>
  BY DEF corpus
<1>2. RankingsOK'
  BY <1>1 DEF SearchInv, RankingsOK
<1>3. CandidateLimit' = CandidateLimit
  BY <1>1 DEF CandidateLimit
<1>4. RerankTotal' = RerankTotal
  BY <1>1, <1>3 DEF RerankTotal
<1>5. \A s : Reranked(s)' = Reranked(s)
  BY <1>1 DEF Reranked
<1>6. Fused' = Fused
  BY <1>1, <1>3, <1>5 DEF Fused, Reranked
<1>7. \A s, p : Page(s, p)' = Page(s, p)
  BY <1>1 DEF Page
<1>8. \A p : Page(Fused, p)' = Page(Fused, p)
  BY <1>1, <1>6 DEF Page
<1> QED BY <1>2, <1>4, <1>8 DEF FusedPage

\* An answer that is not one of similar books.
NotSimilar(a) == a = <<>> \/ a.status # 200 \/ a.mode # "similar"

\* Keyword searches do not answer with similar books.
LEMMA KeywordIsNotSimilar ==
    \A p, solr, degraded : NotSimilar(Keyword(p, solr, degraded))
BY DEF NotSimilar, Keyword, Failed, Ok

\* Nor do the other searches.
LEMMA SearchesAreNotSimilar ==
    \A p, words, solr, embedding : /\ NotSimilar(Semantic(p, solr, embedding))
                                   /\ NotSimilar(Hnsw(p, words, solr, embedding))
                                   /\ NotSimilar(Rerank(p, words, solr, embedding))
<1> SUFFICES ASSUME NEW p, NEW words, NEW solr, NEW embedding
             PROVE  /\ NotSimilar(Semantic(p, solr, embedding))
                    /\ NotSimilar(Hnsw(p, words, solr, embedding))
                    /\ NotSimilar(Rerank(p, words, solr, embedding))
  OBVIOUS
<1>1. NotSimilar(Keyword(p, solr, TRUE))
  BY KeywordIsNotSimilar
<1>2. \A status, cause : status # 200 => NotSimilar(Failed(status, cause))
  BY DEF Failed, NotSimilar
<1>3. \A mode, degraded, results, total, page :
          mode # "similar" => NotSimilar(Ok(mode, degraded, results, total, page))
  BY DEF Ok, NotSimilar
<1>4. NotSimilar(Semantic(p, solr, embedding))
  <2>1. \/ Semantic(p, solr, embedding) = Keyword(p, solr, TRUE)
        \/ \E status, cause : status # 200 /\ Semantic(p, solr, embedding) = Failed(status, cause)
        \/ \E r, n : Semantic(p, solr, embedding) = Ok("semantic", FALSE, r, n, 1)
    BY DEF Semantic
  <2> QED BY <1>1, <1>2, <1>3, <2>1
<1>5. NotSimilar(Hnsw(p, words, solr, embedding))
  <2>1. \/ Hnsw(p, words, solr, embedding) = Keyword(p, solr, TRUE)
        \/ \E status, cause : status # 200 /\ Hnsw(p, words, solr, embedding) = Failed(status, cause)
        \/ \E r, n : Hnsw(p, words, solr, embedding) = Ok("hybrid", FALSE, r, n, 1)
    BY DEF Hnsw
  <2> QED BY <1>1, <1>2, <1>3, <2>1
<1>6. NotSimilar(Rerank(p, words, solr, embedding))
  <2>1. \/ Rerank(p, words, solr, embedding) = Keyword(p, solr, TRUE)
        \/ \E status, cause : status # 200 /\ Rerank(p, words, solr, embedding) = Failed(status, cause)
        \/ \E degraded, r, n : Rerank(p, words, solr, embedding) = Ok("hybrid", degraded, r, n, p)
    BY DEF Rerank
  <2> QED BY <1>1, <1>2, <1>3, <2>1
<1> QED BY <1>4, <1>5, <1>6

\* What is remembered of a reranked search is a page of the fusion: the total and an
\* empty result agree with it as well.
LEMMA RerankAnswers ==
    ASSUME SearchOK, RankingsOK, NEW p \in Nat \ {0}, NEW words, NEW solr, NEW embedding,
           NEW a, a = Rerank(p, words, solr, embedding),
           a.status = 200, a.mode = "hybrid", ~a.degraded
    PROVE  FusedPage(a)
<1>1. PICK docs : docs = First(byWords, CandidateLimit)
  OBVIOUS
<1>2. words = 200
  <2>1. words # 200 => a.status = words
    BY DEF Rerank, Failed
  <2> QED BY <2>1
<1>3. ~ShouldDegrade(embedding)
  <2>1. ShouldDegrade(embedding) => a = Keyword(p, solr, TRUE)
    BY <1>2 DEF Rerank
  <2>2. Keyword(p, solr, TRUE).status = 200 => Keyword(p, solr, TRUE).mode = "keyword"
    BY DEF Keyword, Ok, Failed
  <2>3. "hybrid" # "keyword"
    OBVIOUS
  <2> QED BY <2>1, <2>2, <2>3, Zenon
<1>4. embedding = 200
  <2>1. embedding # 200 => a.status = embedding
    BY <1>2, <1>3 DEF Rerank, Failed
  <2> QED BY <2>1
<1>5. CASE docs = <<>>
  <2>1. a.page = p /\ a.total = 0 /\ a.results = <<>>
    BY <1>1, <1>2, <1>3, <1>4, <1>5 DEF Rerank, Ok
  <2>2. RerankTotal = 0
    BY <1>1, <1>5, DocsOfRerank
  <2>3. Fused \in Seq(BookDocs) /\ Len(Fused) = 0
    BY <2>2, FusedType
  <2>4. PICK from \in Nat : from = (p - 1) * page_size
    BY PagesApart DEF RankingsOK
  <2>5. Page(Fused, p) = <<>>
    BY <2>3, <2>4 DEF Page
  <2> QED BY <2>1, <2>2, <2>5 DEF FusedPage
<1>6. CASE docs # <<>>
  <2>1. solr = 200
    <3>1. solr # 200 => a.status = solr
      BY <1>1, <1>2, <1>3, <1>4, <1>6 DEF Rerank, Failed
    <3> QED BY <3>1
  <2>2. Reranked(docs) # <<>>
    <3>1. Reranked(docs) = <<>> => a.degraded = TRUE
      BY <1>1, <1>2, <1>3, <1>4, <1>6, <2>1 DEF Rerank, Ok
    <3> QED BY <3>1
  <2>3. a.page = p /\ a.total = RerankTotal /\ a.results = Page(Fused, p)
    BY <1>1, <1>2, <1>3, <1>4, <1>6, <2>1, <2>2 DEF Rerank, Ok
  <2> QED BY <2>3 DEF FusedPage
<1> QED BY <1>5, <1>6

\* The books r are the nearest but that of d.
NearestOthers(d, limit, r) ==
    /\ d[1] \notin Range(r) /\ Len(r) <= limit
    /\ \A i, j \in DOMAIN r : i < j => Nearer(bySimilarity, r[i], r[j])
    /\ \A x \in Range(r) : \A c : c \notin Range(r) \cup {d[1]} => Nearer(bySimilarity, x, c)

\* The books of a prefix of the hits are.
LEMMA SimilarAnswers ==
    ASSUME SearchOK, RankingsOK, NEW d, NEW limit \in PageSizes, NEW m \in Nat, NEW n \in Nat
    PROVE  NearestOthers(d, limit, Deduplicated(First(First(ExceptBookOf(d), m), n), limit))
<1>0. PICK r : r = Deduplicated(First(First(ExceptBookOf(d), m), n), limit)
  OBVIOUS
<1>1. PICK s \in Seq(ChunkDocs) : s = ExceptBookOf(d)
  BY OthersAreKept DEF RankingsOK
<1>2. /\ \A k \in DOMAIN s : s[k][1] # d[1]
      /\ \A b, c : c # d[1] /\ Nearer(s, b, c) => Nearer(bySimilarity, b, c)
  BY <1>1, OthersAreKept DEF RankingsOK
<1>3. PICK t \in Seq(ChunkDocs) : t = First(s, m)
  BY FirstItems
<1>4. PICK hits \in Seq(ChunkDocs) : hits = First(t, n)
  BY FirstItems
<1>5. \A k \in DOMAIN hits : k \in DOMAIN s /\ hits[k] = s[k]
  <2>1. \A k \in DOMAIN hits : k \in DOMAIN t /\ hits[k] = t[k]
    BY <1>4, FirstItems
  <2>2. \A k \in DOMAIN t : k \in DOMAIN s /\ t[k] = s[k]
    BY <1>3, FirstItems
  <2> QED BY <2>1, <2>2
<1>6. ASSUME NEW b, NEW c, c # d[1], Nearer(hits, b, c) PROVE Nearer(bySimilarity, b, c)
  <2>1. PICK i \in DOMAIN hits : hits[i][1] = b /\ \A j \in 1..i : hits[j][1] # c
    BY <1>6 DEF Nearer
  <2>2. \A j \in 1..i : j \in DOMAIN hits
    OBVIOUS
  <2>3. \A j \in 1..i : s[j][1] # c
    BY <1>5, <2>1, <2>2
  <2>4. Nearer(s, b, c)
    BY <1>5, <2>1, <2>3 DEF Nearer
  <2> QED BY <1>2, <1>6, <2>4
<1>7. limit \in Nat
  BY DEF SearchOK
<1>8. r = Deduplicated(hits, limit)
  BY <1>0, <1>1, <1>3, <1>4
<1>9. /\ r \in Seq({hits[i][1] : i \in DOMAIN hits}) /\ Len(r) <= limit
      /\ \A i, j \in DOMAIN r : i < j => Nearer(hits, r[i], r[j])
      /\ \A i \in DOMAIN r : \A c : c \notin Range(r) => Nearer(hits, r[i], c)
  BY <1>7, <1>8, DeduplicatedBooks
<1>10. \A i \in DOMAIN r : r[i] # d[1]
  <2>1. \A x \in {hits[i][1] : i \in DOMAIN hits} : x # d[1]
    BY <1>2, <1>5
  <2>2. \A i \in DOMAIN r : r[i] \in {hits[k][1] : k \in DOMAIN hits}
    BY <1>9
  <2> QED BY <2>1, <2>2
<1>11. d[1] \notin Range(r)
  BY <1>10 DEF Range
<1>12. ASSUME NEW i \in DOMAIN r, NEW j \in DOMAIN r, i < j PROVE Nearer(bySimilarity, r[i], r[j])
  BY <1>6, <1>9, <1>10, <1>12
<1>13. ASSUME NEW x \in Range(r), NEW c, c \notin Range(r) \cup {d[1]} PROVE Nearer(bySimilarity, x, c)
  <2>1. PICK i \in DOMAIN r : x = r[i]
    BY DEF Range
  <2>2. Nearer(hits, r[i], c)
    BY <1>9, <1>13
  <2> QED BY <1>6, <1>13, <2>1, <2>2
<1> QED BY <1>0, <1>9, <1>11, <1>12, <1>13 DEF NearestOthers

\* An answer of similar books is as it should be.
LEMMA SimilarBooksAnswer ==
    ASSUME SearchOK, RankingsOK, UNCHANGED corpus, NEW d, NEW limit \in PageSizes, SimilarBooks(d, limit)
    PROVE  SimilarAreNearest'
<1>1. bySimilarity' = bySimilarity
  BY DEF corpus
<1>2. CASE answer'.status # 200
  BY <1>2 DEF SimilarAreNearest, Answered
<1>3. CASE answer'.status = 200
  <2>1. (limit + 1) * OverFetch \in Nat
    <3>1. limit + 1 \in Nat /\ OverFetch \in Nat /\ \A x, y \in Nat : x * y \in Nat
      BY DEF SearchOK
    <3> QED BY <3>1
  <2>2. PICK m \in Nat : m = (limit + 1) * OverFetch
    BY <2>1
  <2>3. PICK hits : hits = First(ExceptBookOf(d), m)
    OBVIOUS
  <2>4. \E n \in 0..Len(hits) : answer' = Similar(d, limit, Deduplicated(First(hits, n), limit))
    BY <1>3, <2>2, <2>3 DEF SimilarBooks, Answers, Failed
  <2>5. PICK n \in Nat : answer' = Similar(d, limit, Deduplicated(First(First(ExceptBookOf(d), m), n), limit))
    <3>1. \A n \in 0..Len(hits) : n \in Nat
      OBVIOUS
    <3> QED BY <2>3, <2>4, <3>1
  <2> DEFINE r == Deduplicated(First(First(ExceptBookOf(d), m), n), limit)
  <2>6. NearestOthers(d, limit, r)
    BY <2>5, SimilarAnswers
  <2>7. answer'.of = d /\ answer'.limit = limit /\ answer'.results = r
    BY <2>5 DEF Similar
  <2> HIDE DEF r
  <2>8. \A b, c : Nearer(bySimilarity, b, c)' <=> Nearer(bySimilarity, b, c)
    BY <1>1 DEF Nearer
  <2> QED BY <2>7, <2>8, <2>6 DEF SimilarAreNearest, NearestOthers
<1> QED BY <1>2, <1>3

\* Every request keeps the invariant.
LEMMA SearchStep == ASSUME SearchOK, SearchInv, [SearchNext]_searchVars PROVE SearchInv'
<1>1. ASSUME NotSimilar(answer)' PROVE SimilarAreNearest'
  BY <1>1 DEF NotSimilar, SimilarAreNearest, Answered
<1>2. UNCHANGED corpus
  <2>1. ASSUME NEW A, Answers(A) PROVE UNCHANGED corpus
    BY <2>1 DEF Answers
  <2>2. CASE NextRequest \/ UNCHANGED searchVars
    BY <2>2 DEF NextRequest, searchVars
  <2>3. CASE SearchRefused
    BY <2>1, <2>3 DEF SearchRefused
  <2>4. ASSUME NEW p \in 1..MaxPage, SearchKeyword(p) \/ SearchSemantic(p) PROVE UNCHANGED corpus
    BY <2>1, <2>4 DEF SearchKeyword, SearchSemantic
  <2>5. ASSUME NEW p \in 1..MaxPage, SearchHnsw(p) \/ SearchRerank(p) PROVE UNCHANGED corpus
    BY <2>1, <2>5 DEF SearchHnsw, SearchRerank
  <2>6. ASSUME NEW p \in 1..MaxPage, ListBooks(p) PROVE UNCHANGED corpus
    BY <2>1, <2>6 DEF ListBooks
  <2>7. ASSUME NEW d, GetBookDetail(d) PROVE UNCHANGED corpus
    BY <2>1, <2>7 DEF GetBookDetail
  <2>8. ASSUME NEW d, NEW limit, SimilarBooks(d, limit) PROVE UNCHANGED corpus
    BY <2>1, <2>8 DEF SimilarBooks
  <2> QED BY <2>2, <2>3, <2>4, <2>5, <2>6, <2>7, <2>8 DEF SearchNext
<1>3. RankingsOK' /\ \A a : FusedPage(a)' <=> FusedPage(a)
  BY <1>2, CorpusFrame
<1>4. ASSUME pages' = pages, SimilarAreNearest' PROVE SearchInv'
  BY <1>3, <1>4 DEF SearchInv
<1>5. ASSUME pages' = pages, NotSimilar(answer') PROVE SearchInv'
  BY <1>1, <1>4, <1>5 DEF NotSimilar
<1>6. CASE SearchRefused \/ NextRequest
  BY <1>5, <1>6 DEF SearchRefused, NextRequest, Answers, NotSimilar, Failed
<1>7. ASSUME NEW p \in 1..MaxPage, SearchKeyword(p) PROVE SearchInv'
  BY <1>5, <1>7, KeywordIsNotSimilar DEF SearchKeyword, Answers
<1>8. ASSUME NEW p \in 1..MaxPage, SearchSemantic(p) PROVE SearchInv'
  BY <1>5, <1>8, SearchesAreNotSimilar DEF SearchSemantic, Answers
<1>9. ASSUME NEW p \in 1..MaxPage, SearchHnsw(p) PROVE SearchInv'
  BY <1>5, <1>9, SearchesAreNotSimilar DEF SearchHnsw, Answers
<1>10. ASSUME NEW p \in 1..MaxPage, SearchRerank(p) PROVE SearchInv'
  <2>1. PICK words \in Outcomes, solr \in Outcomes, embedding \in Outcomes :
          answer' = Rerank(p, words, solr, embedding)
    BY <1>10 DEF SearchRerank, Answers
  <2>2. pages' = IF answer'.status = 200 /\ answer'.mode = "hybrid" /\ ~answer'.degraded
                 THEN pages \cup {answer'} ELSE pages
    BY <1>10 DEF SearchRerank
  <2>3. NotSimilar(answer')
    BY <2>1, SearchesAreNotSimilar
  <2>4. p \in Nat \ {0}
    BY DEF SearchOK
  <2>5. answer'.status = 200 /\ answer'.mode = "hybrid" /\ ~answer'.degraded => FusedPage(answer')
    BY <2>1, <2>4, RerankAnswers DEF SearchInv
  <2>6. \A a \in pages' : FusedPage(a)
    BY <2>2, <2>5 DEF SearchInv
  <2> QED BY <1>1, <1>3, <2>3, <2>6 DEF SearchInv, NotSimilar
<1>11. ASSUME NEW p \in 1..MaxPage, ListBooks(p) PROVE SearchInv'
  BY <1>5, <1>11 DEF ListBooks, Answers, NotSimilar, Failed, Ok
<1>12. ASSUME NEW d, GetBookDetail(d) PROVE SearchInv'
  BY <1>5, <1>12 DEF GetBookDetail, Answers, NotSimilar, Failed, Ok
<1>13. ASSUME NEW d, NEW limit \in PageSizes, SimilarBooks(d, limit) PROVE SearchInv'
  <2>1. SimilarAreNearest'
    BY <1>2, <1>13, SimilarBooksAnswer DEF SearchInv
  <2>2. pages' = pages
    BY <1>13 DEF SimilarBooks
  <2> QED BY <1>4, <2>1, <2>2
<1>14. CASE UNCHANGED searchVars
  <2>1. UNCHANGED <<answer, pages, bySimilarity>>
    BY <1>14 DEF searchVars, corpus
  <2>2. SimilarAreNearest'
    BY <2>1 DEF SearchInv, SimilarAreNearest, Answered, Nearer
  <2> QED BY <1>4, <2>1, <2>2
<1> QED BY <1>6, <1>7, <1>8, <1>9, <1>10, <1>11, <1>12, <1>13, <1>14 DEF SearchNext

\* The pages of reranked results, over all the searches of the rankings, are the parts
\* of one sequence (search_service.py: reciprocal_rank_fusion; main.py: the slice that
\* hybrid-rerank returns).
THEOREM PagesArePartition == SearchSpec => []PagesPartition
<1>1. SearchInit => SearchInv
  BY SearchOK, SearchStarts
<1>2. SearchInv /\ [SearchNext]_searchVars => SearchInv'
  BY SearchOK, SearchStep
<1>3. SearchInv => PagesPartition
  <2> SUFFICES ASSUME SearchInv PROVE PagesPartition
    OBVIOUS
  <2>1. Fused \in Seq(BookDocs) /\ Len(Fused) = RerankTotal /\ IsInjective(Fused)
        /\ page_size \in Nat \ {0}
    BY SearchOK, FusedType DEF SearchInv, RankingsOK
  <2>2. ASSUME NEW a \in pages
        PROVE  LET rest == a.total - (a.page - 1) * page_size IN
               Len(a.results) = IF rest <= 0 THEN 0 ELSE IF rest < page_size THEN rest ELSE page_size
    <3>1. a.page \in Nat \ {0} /\ a.total = Len(Fused) /\ a.results = Page(Fused, a.page)
      BY <2>1 DEF SearchInv, FusedPage
    <3>2. PICK p \in Nat \ {0} : p = a.page
      BY <3>1
    <3>3. PICK from \in Nat : from = (p - 1) * page_size
      BY <2>1, PagesApart
    <3>4. LET rest == Len(Fused) - from IN
          Len(Page(Fused, p)) = IF rest <= 0 THEN 0 ELSE IF rest < page_size THEN rest ELSE page_size
      BY <2>1, <3>3, PageItems
    <3> QED BY <3>1, <3>2, <3>3, <3>4
  <2>3. ASSUME NEW a \in pages, NEW b \in pages, a.page # b.page
        PROVE  Range(a.results) \cap Range(b.results) = {}
    <3>1. PICK p \in Nat \ {0} : p = a.page /\ a.results = Page(Fused, p)
      BY DEF SearchInv, FusedPage
    <3>2. PICK q \in Nat \ {0} : q = b.page /\ b.results = Page(Fused, q)
      BY DEF SearchInv, FusedPage
    <3>3. p < q \/ q < p
      BY <2>3, <3>1, <3>2
    <3>4. Range(Page(Fused, p)) \cap Range(Page(Fused, q)) = {}
      BY <2>1, <3>3, PagesDisjoint
    <3> QED BY <3>1, <3>2, <3>4
  <2> QED BY <2>2, <2>3 DEF PagesPartition
<1> QED BY <1>1, <1>2, <1>3, PTL DEF SearchSpec

\* A book that both rankings put above another is never below it on a page of fused
\* results (reciprocal_rank_fusion), whatever rrf_k is.
THEOREM FusionAgrees == SearchSpec => []BothLegsAgree
<1>1. SearchInit => SearchInv
  BY SearchOK, SearchStarts
<1>2. SearchInv /\ [SearchNext]_searchVars => SearchInv'
  BY SearchOK, SearchStep
<1>3. SearchInv => BothLegsAgree
  <2> SUFFICES ASSUME SearchInv, NEW a \in pages, NEW i \in DOMAIN a.results, NEW j \in DOMAIN a.results,
                      NEW docs, docs = First(byWords, CandidateLimit),
                      NEW t, t = Reranked(docs), NEW x, x = a.results[i], NEW y, y = a.results[j],
                      {x, y} \subseteq Range(t),
                      Rank(byWords, x) < Rank(byWords, y), Rank(t, x) < Rank(t, y)
               PROVE  i < j
    BY DEF BothLegsAgree
  <2>1. RankingsOK /\ page_size \in Nat \ {0} /\ byWords \in Seq(BookDocs) /\ IsInjective(byWords)
    BY DEF SearchInv, RankingsOK
  <2>2. /\ docs \in Seq(BookDocs) /\ IsInjective(docs)
        /\ \A k \in DOMAIN docs : k \in DOMAIN byWords /\ docs[k] = byWords[k]
        /\ t \in Seq(BookDocs) /\ Range(t) \subseteq Range(docs)
        /\ Fused = ReciprocalRankFusion(docs, t)
    BY SearchOK, <2>1, DocsOfRerank
  <2>3. PICK o : FusedBy(o, docs, t)
    BY SearchOK, <2>1, DocsOfRerank
  <2>4. /\ o \in [DOMAIN docs -> DOMAIN docs] /\ Fused = [n \in DOMAIN docs |-> docs[o[n]]]
        /\ \A m, n \in DOMAIN docs : Better(docs, t, docs[o[m]], docs[o[n]]) => m < n
    BY <2>2, <2>3 DEF FusedBy
  <2>5. PICK p \in Nat \ {0} : a.results = Page(Fused, p)
    BY DEF SearchInv, FusedPage
  <2>6. PICK from \in Nat : from = (p - 1) * page_size
    BY <2>1, PagesApart
  <2>7. /\ i \in 1..page_size /\ from + i \in DOMAIN Fused /\ x = Fused[from + i]
        /\ j \in 1..page_size /\ from + j \in DOMAIN Fused /\ y = Fused[from + j]
    <3>1. Fused \in Seq(BookDocs)
      BY SearchOK, <2>1, FusedType
    <3>2. \A k \in DOMAIN Page(Fused, p) : /\ k \in 1..page_size /\ from + k \in DOMAIN Fused
                                           /\ Page(Fused, p)[k] = Fused[from + k]
      BY <2>1, <2>6, <3>1, PageItems
    <3> QED BY <2>5, <3>2
  <2>8. Better(docs, t, x, y) => from + i < from + j
    BY <2>4, <2>7
  <2>9. ASSUME NEW z \in Range(docs) PROVE Rank(docs, z) = Rank(byWords, z)
    <3>1. Rank(docs, z) \in DOMAIN docs /\ docs[Rank(docs, z)] = z
      BY <2>2, RankPlace
    <3>2. Rank(docs, z) \in DOMAIN byWords /\ byWords[Rank(docs, z)] = z
      BY <2>2, <3>1
    <3> QED BY <2>1, <3>2, RankOf
  <2>10. Better(docs, t, x, y)
    <3>1. x \in Range(docs) /\ y \in Range(docs) /\ x \in Range(t) /\ y \in Range(t)
      BY <2>2
    <3>2. PICK r \in Nat \ {0} : r = RrfK + Rank(docs, x)
      BY SearchOK, <2>2, <3>1, RankPlace DEF SearchOK
    <3>3. PICK s \in Nat \ {0} : s = RrfK + Rank(docs, y)
      BY SearchOK, <2>2, <3>1, RankPlace, SMTT(40) DEF SearchOK
    <3>4. PICK q \in Nat \ {0} : q = RrfK + Rank(t, x)
      BY SearchOK, <2>2, <3>1, RankPlace DEF SearchOK
    <3>5. PICK u \in Nat \ {0} : u = RrfK + Rank(t, y)
      BY SearchOK, <2>2, <3>1, RankPlace, SMTT(40) DEF SearchOK
    <3>6. r < s /\ q < u
      <4>1. Rank(docs, x) < Rank(docs, y)
        BY <2>9, <3>1
      <4>2. /\ Rank(docs, x) \in Nat /\ Rank(docs, y) \in Nat /\ Rank(t, x) \in Nat /\ Rank(t, y) \in Nat
            /\ RrfK \in Nat
        BY SearchOK, <2>2, <3>1, RankPlace DEF SearchOK
      <4> QED BY <3>2, <3>3, <3>4, <3>5, <4>1, <4>2
    <3>7. Score(docs, t, x) = <<r + q, r * q>> /\ Score(docs, t, y) = <<s + u, s * u>>
      BY SearchOK, <2>2, <3>1, <3>2, <3>3, <3>4, <3>5, ScoreType
    <3>8. (r + q) * (s * u) > (s + u) * (r * q)
      BY <3>6, BetterTwice
    <3> QED BY <3>7, <3>8 DEF Better, Above
  <2>11. i \in Nat /\ j \in Nat
    BY <2>7
  <2> QED BY <2>6, <2>8, <2>10, <2>11
<1> QED BY <1>1, <1>2, <1>3, PTL DEF SearchSpec

\* Books found similar to a book, or to one of its chunks, are other books, nearest
\* first and no more than asked for, and nearer than all others, wherever min_score and
\* the number of chunks asked for cut the hits off (main.py: similar_books).
THEOREM SimilarBooksAreNearest == SearchSpec => []SimilarAreNearest
<1>1. SearchInit => SearchInv
  BY SearchOK, SearchStarts
<1>2. SearchInv /\ [SearchNext]_searchVars => SearchInv'
  BY SearchOK, SearchStep
<1>3. SearchInv => SimilarAreNearest
  BY DEF SearchInv
<1> QED BY <1>1, <1>2, <1>3, PTL DEF SearchSpec
=============================================================================

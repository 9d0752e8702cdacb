-------------------------------- MODULE Backups --------------------------------
(***************************************************************************)
(* Backups and restores started by an administrator: a registry of         *)
(* operations in memory, a task per operation that waits for a script, and *)
(* the orchestrator script, which takes a lock, runs the script of every   *)
(* tier and returns the worst of their exit codes.  Cron starts the same   *)
(* orchestrator.                                                           *)
(***************************************************************************)
EXTENDS Naturals, Sequences

CONSTANTS
    MaxOperations, \* bound
    ExitCodes   \* of a tier script: 0, 1 and 2 are documented, others are signals

ASSUME BackupsOK == /\ {0, 1, 2} \subseteq ExitCodes /\ ExitCodes \subseteq Nat
                    /\ MaxOperations \in Nat

Tiers == {"critical", "high", "medium"}

VARIABLES
    entries,    \* the tiers with backups in their directories
    operations, \* the registry, with the exit codes seen as a ghost
    tasks,      \* per operation: its step, the tiers the script has yet to run, worst_rc
    lock        \* the orchestrator's: the operation whose script has it, or Cron

backupsVars == <<entries, operations, tasks, lock>>

Unlocked == 0
Cron     == MaxOperations + 1

BackupsInit ==
    /\ entries = {}
    /\ operations = <<>> /\ tasks = <<>> /\ lock = Unlocked

\* Record the operation and create its task.
Start(kind, tier, dry) ==
    /\ Len(operations) < MaxOperations
    /\ operations' = Append(operations, [operation |-> kind, tier |-> tier, dry_run |-> dry,
                                         status |-> "in_progress", codes |-> {}])
    /\ tasks' = Append(tasks, [step |-> "created", todo |-> <<>>, worst |-> 0])
    /\ UNCHANGED <<entries, lock>>

TriggerBackup(tier, dry) == Start("backup", tier, dry)

\* An id that the scan does not find is a 404.
TriggerRestore(dry) == \E tier \in entries : Start("restore", tier, dry)

\* The newest backup, of whatever tier.
TestRestore == \E tier \in entries : Start("test-restore", tier, TRUE)

Ends(i, status) ==
    /\ operations' = [operations EXCEPT ![i].status = status]
    /\ tasks' = [tasks EXCEPT ![i] = [step |-> "gone", todo |-> <<>>, worst |-> 0]]

\* Mutant: an exception ends the task and leaves the record.
SpawnFailsUnseen(i) ==
    /\ tasks[i].step = "created"
    /\ tasks' = [tasks EXCEPT ![i].step = "gone"]
    /\ UNCHANGED <<operations, entries, lock>>

\* No such script, no permission: the exception branch.
SpawnFails(i) ==
    /\ tasks[i].step = "created"
    /\ Ends(i, "failed")
    /\ UNCHANGED <<entries, lock>>

InOrder(tier) == IF tier = "all" THEN <<"critical", "high", "medium">> ELSE <<tier>>

\* The orchestrator starts, or gives up at once when another one runs.
SpawnBackup(i) ==
    /\ tasks[i].step = "created" /\ operations[i].operation = "backup"
    /\ IF lock = Unlocked
       THEN /\ tasks' = [tasks EXCEPT ![i].step = "running", ![i].todo = InOrder(operations[i].tier)]
            /\ lock' = i
       ELSE tasks' = [tasks EXCEPT ![i].step = "exited", ![i].worst = 1] /\ UNCHANGED lock
    /\ UNCHANGED <<entries, operations>>

\* The environment of a restore, and what every restore script asks of it.
RestoreEnvironment == {"BACKUP_DEST", "RESTORE_SOURCE", "DRY_RUN"}
RestoreScript == IF "RESTORE_FROM" \in RestoreEnvironment THEN ExitCodes ELSE {1}

SpawnRestore(i) ==
    /\ tasks[i].step = "created" /\ operations[i].operation # "backup"
    /\ \E rc \in RestoreScript :
           tasks' = [tasks EXCEPT ![i].step = "exited", ![i].worst = rc]
    /\ UNCHANGED <<entries, operations, lock>>

\* Mutant: the last exit code that is not 0.
WorstIsLast(worst, rc) == IF rc \in {1, 2} THEN 0 ELSE worst

\* 1 beats 2 beats 0; any other code changes nothing.
Worst(worst, rc) == IF rc = 1 THEN 1 ELSE IF rc = 2 /\ worst = 0 THEN 2 ELSE worst

\* One tier script.  With warnings, too, it leaves files; a dry run never does.
RunTier(i) ==
    /\ tasks[i].step = "running" /\ tasks[i].todo # <<>>
    /\ \E rc \in ExitCodes :
          /\ tasks' = [tasks EXCEPT ![i].todo = Tail(@), ![i].worst = Worst(@, rc)]
          /\ operations' = [operations EXCEPT ![i].codes = @ \cup {rc}]
          /\ entries' = IF rc \in {0, 2} /\ ~operations[i].dry_run
                        THEN entries \cup {Head(tasks[i].todo)}
                        ELSE entries
    /\ UNCHANGED <<lock>>

ScriptExits(i) ==
    /\ tasks[i].step = "running" /\ tasks[i].todo = <<>>
    /\ tasks' = [tasks EXCEPT ![i].step = "exited"]
    /\ lock' = Unlocked
    /\ UNCHANGED <<entries, operations>>

\* The task has the exit code and records the outcome.
RecordOutcome(i) ==
    /\ tasks[i].step = "exited"
    /\ Ends(i, IF tasks[i].worst = 0 THEN "completed" ELSE "failed")
    /\ UNCHANGED <<entries, lock>>

\* Cron's orchestrator runs meanwhile, for every tier.
CronStarts == /\ lock = Unlocked /\ lock' = Cron
              /\ UNCHANGED <<entries, operations, tasks>>

CronEnds ==
    /\ lock = Cron /\ lock' = Unlocked
    /\ entries' \in {entries, Tiers}
    /\ UNCHANGED <<operations, tasks>>

\* The container stops, with its scripts: the registry is gone, what they wrote stays.
BackupsRestart ==
    /\ operations # <<>>
    /\ operations' = <<>> /\ tasks' = <<>>
    /\ lock' = IF lock = Cron THEN Cron ELSE Unlocked
    /\ UNCHANGED <<entries>>

BackupsNext ==
    \/ \E dry \in BOOLEAN : \/ \E tier \in Tiers \cup {"all"} : TriggerBackup(tier, dry)
                            \/ TriggerRestore(dry)
    \/ TestRestore
    \/ \E i \in DOMAIN operations :
          \/ SpawnFails(i) \/ SpawnBackup(i) \/ SpawnRestore(i)
          \/ RunTier(i) \/ ScriptExits(i) \/ RecordOutcome(i)
    \/ CronStarts \/ CronEnds \/ BackupsRestart

BackupsSpec == BackupsInit /\ [][BackupsNext]_backupsVars

-----------------------------------------------------------------------------
\* An operation that reads in_progress has a task that will still end it, and an
\* operation that ended has none: whatever fails, no record is left behind.
InProgressIsAlive ==
    \A i \in DOMAIN operations :
        operations[i].status = "in_progress" <=> tasks[i].step # "gone"

\* A backup that reads completed had no tier script that reported an error or a
\* warning, at whatever place in the order of the tiers.
CompletedHadNoFailure ==
    \A i \in DOMAIN operations :
        operations[i].status = "completed" => {1, 2} \cap operations[i].codes = {}
=============================================================================

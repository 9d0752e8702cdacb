--------------------------- MODULE IndexerControl ---------------------------
(***************************************************************************)
(* Pause and resume of the document-indexer: the IndexerControl object     *)
(* shared by the HTTP control thread and the consuming main thread, its    *)
(* copy in Redis, and the main thread's loop from process start to exit.   *)
(***************************************************************************)
EXTENDS Naturals

CONSTANTS MaxBacklog,  \* messages waiting at the broker
          MaxCrashes,  \* abnormal process ends
          MaxDrops,    \* connections lost without a close from the broker
          MaxCloses,   \* connections the broker closes
          MaxFaults    \* Redis: writes and reads of the key that fail, evictions of it

ASSUME BoundsOK == /\ MaxBacklog \in Nat /\ MaxCrashes \in Nat /\ MaxDrops \in Nat
                   /\ MaxCloses \in Nat /\ MaxFaults \in Nat

VARIABLES
    state,      \* IndexerState
    requested,  \* _pause_requested
    saved,      \* "paused" as stored in Redis
    stopping,   \* _shutting_down
    mpc,        \* where the main thread is
    tag,        \* a consumer is registered (consumer_tag is not None)
    wasPaused,  \* was_paused, local to consume
    backlog,    \* messages in the queue
    astray,     \* ghost: a fault of Redis has parted it from the process
    inherited,  \* ghost: this process began paused and nothing was asked of it since
    crashes, drops, closes, faults, lostAcks

control == <<state, requested, saved, stopping>>
ghosts  == <<astray, inherited>>
counts  == <<crashes, drops, closes, faults, lostAcks>>
vars    == <<control, mpc, tag, wasPaused, backlog, ghosts, counts>>

\* The main thread: waiting for Solr, connecting, before and after the first
\* test of is_paused, at the top of the loop, in process_data_events, in
\* callback (three places), ended.
Callback == {"deliver", "work", "ack"}
Loop     == {"loop", "pump"} \cup Callback
Places   == {"boot", "connect", "start", "sample", "exited"} \cup Loop
Running  == mpc # "exited"

Init ==
    /\ state = "running" /\ requested = FALSE /\ saved = FALSE /\ stopping = FALSE
    /\ mpc = "boot" /\ tag = FALSE /\ wasPaused = FALSE
    /\ backlog = 0 /\ astray = FALSE /\ inherited = FALSE
    /\ crashes = 0 /\ drops = 0 /\ closes = 0 /\ faults = 0 /\ lostAcks = 0

-----------------------------------------------------------------------------
(* The control API.  Each method runs under the lock, Redis write included. *)

Fault == faults < MaxFaults /\ faults' = faults + 1

\* _persist, _persist_paused_state: a failing write is only logged.
Persist(paused) == \/ saved' = paused /\ astray' = FALSE /\ UNCHANGED faults
                   \/ Fault /\ astray' = TRUE /\ UNCHANGED saved

\* No Redis write.
NotPersisted == UNCHANGED <<saved, astray, faults>>

\* Mutant: a pending pause is persisted from the state, not as paused.
PausePersistsState ==
    /\ Running /\ state # "paused"
    /\ requested' = TRUE
    /\ state' = IF state = "processing" THEN state ELSE "paused"
    /\ Persist(state' = "paused")
    /\ inherited' = FALSE
    /\ UNCHANGED <<stopping, mpc, tag, wasPaused, backlog, crashes, drops, closes, lostAcks>>

\* While a document is processed the pause is pending: the state follows
\* when it ends.
Pause ==
    /\ Running /\ state # "paused"
    /\ requested' = TRUE
    /\ state' = IF state = "processing" THEN state ELSE "paused"
    /\ Persist(TRUE)
    /\ inherited' = FALSE
    /\ UNCHANGED <<stopping, mpc, tag, wasPaused, backlog, crashes, drops, closes, lostAcks>>

Resume ==
    /\ Running
    /\ state = "paused" \/ requested
    /\ requested' = FALSE
    /\ state' = IF state = "paused" THEN "running" ELSE state
    /\ Persist(state' = "paused")
    /\ inherited' = FALSE
    /\ UNCHANGED <<stopping, mpc, tag, wasPaused, backlog, crashes, drops, closes, lostAcks>>

\* SIGTERM or SIGINT.
Signal ==
    /\ Running
    /\ stopping' = TRUE
    /\ UNCHANGED <<state, requested, saved, mpc, tag, wasPaused, backlog, ghosts, counts>>

-----------------------------------------------------------------------------
(* The main thread *)

Goto(place) == mpc' = place

\* wait_for_solr_collection succeeds; consume opens the connection.
SolrReady ==
    /\ mpc = "boot"
    /\ Goto("connect")
    /\ UNCHANGED <<control, tag, wasPaused, backlog, ghosts, counts>>

Connect ==
    /\ mpc = "connect"
    /\ Goto("start")
    /\ UNCHANGED <<control, tag, wasPaused, backlog, ghosts, counts>>

\* Mutant: the consumer is registered first, and a pause left to the loop.
FirstTestConsumes ==
    /\ mpc = "start"
    /\ tag' = TRUE
    /\ Goto("sample")
    /\ UNCHANGED <<control, wasPaused, backlog, ghosts, counts>>

\* Lines 604-607: consume unless paused ...
FirstTest ==
    /\ mpc = "start"
    /\ tag' = ~requested
    /\ Goto("sample")
    /\ UNCHANGED <<control, wasPaused, backlog, ghosts, counts>>

\* ... line 609: read is_paused a second time.
Sample ==
    /\ mpc = "sample"
    /\ wasPaused' = requested
    /\ Goto("loop")
    /\ UNCHANGED <<control, tag, backlog, ghosts, counts>>

\* Mutant: the transitions are only looked at when work is waiting.
LoopWhenBusy ==
    /\ mpc = "loop"
    /\ IF stopping THEN Goto("exited") /\ tag' = FALSE /\ UNCHANGED wasPaused
       ELSE /\ Goto("pump")
            /\ IF backlog > 0
               THEN /\ tag' = IF requested = wasPaused THEN tag ELSE ~requested
                    /\ wasPaused' = requested
               ELSE UNCHANGED <<tag, wasPaused>>
    /\ UNCHANGED <<control, backlog, ghosts, counts>>

\* Mutant: shutdown is not looked at while paused.
LoopWaitsForResume ==
    /\ mpc = "loop"
    /\ IF stopping /\ ~requested THEN Goto("exited") /\ tag' = FALSE /\ UNCHANGED wasPaused
       ELSE /\ Goto("pump")
            /\ tag' = IF requested = wasPaused THEN tag ELSE ~requested
            /\ wasPaused' = requested
    /\ UNCHANGED <<control, backlog, ghosts, counts>>

\* Top of the while loop: shut down, or follow a pause or resume.
LoopTop ==
    /\ mpc = "loop"
    /\ IF stopping THEN Goto("exited") /\ tag' = FALSE /\ UNCHANGED wasPaused
       ELSE /\ Goto("pump")
            /\ tag' = IF requested = wasPaused THEN tag ELSE ~requested
            /\ wasPaused' = requested
    /\ UNCHANGED <<control, backlog, ghosts, counts>>

\* process_data_events: at most one delivery (prefetch_count = 1), or none
\* within the second it waits.
Pump ==
    /\ mpc = "pump"
    /\ \/ tag /\ backlog > 0 /\ backlog' = backlog - 1 /\ Goto("deliver")
       \/ UNCHANGED backlog /\ Goto("loop")
    /\ UNCHANGED <<control, tag, wasPaused, ghosts, counts>>

\* begin_processing: whatever the state was.
BeginProcessing ==
    /\ mpc = "deliver"
    /\ state' = "processing"
    /\ Goto("work")
    /\ UNCHANGED <<requested, saved, stopping, tag, wasPaused, backlog, ghosts, counts>>

\* index_document, or the failure callback records instead.
FinishDocument ==
    /\ mpc = "work"
    /\ Goto("ack")
    /\ UNCHANGED <<control, tag, wasPaused, backlog, ghosts, counts>>

\* Mutant: a pause that came during the document is forgotten.
EndProcessingRunning ==
    /\ mpc = "ack"
    /\ state' = "running" /\ NotPersisted
    /\ Goto("loop")
    /\ UNCHANGED <<requested, stopping, tag, wasPaused, backlog, inherited, crashes, drops,
                   closes, lostAcks>>

\* basic_ack, then end_processing.
EndProcessing ==
    /\ mpc = "ack"
    /\ IF requested THEN state' = "paused" /\ Persist(TRUE)
                    ELSE state' = "running" /\ NotPersisted
    /\ Goto("loop")
    /\ UNCHANGED <<requested, stopping, tag, wasPaused, backlog, inherited, crashes, drops,
                   closes, lostAcks>>

-----------------------------------------------------------------------------
(* The connection and the process *)

\* Mutant: the broker also returns what was acknowledged.
DisconnectedTwice ==
    /\ mpc \in {"pump", "deliver", "ack"}
    /\ tag' = FALSE
    /\ backlog' = backlog + 1
    /\ lostAcks' = IF mpc = "ack" THEN lostAcks + 1 ELSE lostAcks

\* The broker returns an unacknowledged delivery.  When the connection turns
\* out to be gone at basic_ack, end_processing is never called.
Disconnected ==
    /\ mpc \in {"pump", "deliver", "ack"}
    /\ tag' = FALSE
    /\ backlog' = IF mpc \in Callback THEN backlog + 1 ELSE backlog
    /\ lostAcks' = IF mpc = "ack" THEN lostAcks + 1 ELSE lostAcks

\* AMQPConnectionError: @retry calls consume again.
ConnectionLost ==
    /\ drops < MaxDrops /\ drops' = drops + 1
    /\ Disconnected
    /\ Goto("connect")
    /\ UNCHANGED <<control, wasPaused, ghosts, crashes, closes, faults>>

\* ConnectionClosedByBroker: the loop breaks and the process exits with
\* status 0, which "restart: on-failure" leaves alone.
ClosedByBroker ==
    /\ closes < MaxCloses /\ closes' = closes + 1
    /\ Disconnected
    /\ Goto("exited")
    /\ UNCHANGED <<control, wasPaused, ghosts, crashes, drops, faults>>

\* Mutant: the new process does not look at Redis.
RestoredRunning == /\ requested' = FALSE /\ state' = "running" /\ stopping' = FALSE
                   /\ astray' = FALSE /\ inherited' = FALSE /\ UNCHANGED faults
                   /\ Goto("boot")

\* A new process: a fresh control object, paused when Redis says so.  A read that
\* fails is logged and leaves it running, as does a key that is gone.
Restored == /\ \/ requested' = saved /\ astray' = FALSE /\ UNCHANGED faults
               \/ Fault /\ requested' = FALSE /\ astray' = TRUE
            /\ state' = IF requested' THEN "paused" ELSE "running"
            /\ inherited' = requested'
            /\ stopping' = FALSE
            /\ Goto("boot")

\* Killed or failed (Solr never became ready): the container is restarted.
Crash ==
    /\ Running
    /\ crashes < MaxCrashes /\ crashes' = crashes + 1
    /\ backlog' = IF mpc \in Callback THEN backlog + 1 ELSE backlog
    /\ tag' = FALSE /\ wasPaused' = FALSE
    /\ Restored
    /\ lostAcks' = 0
    /\ UNCHANGED <<saved, drops, closes>>

\* docker kills what has not stopped within its grace period.
Kill ==
    /\ Running /\ stopping
    /\ Goto("exited") /\ tag' = FALSE
    /\ backlog' = IF mpc \in Callback THEN backlog + 1 ELSE backlog
    /\ UNCHANGED <<control, wasPaused, ghosts, counts>>

\* An operator starts the container again.
Start ==
    /\ mpc = "exited"
    /\ Restored
    /\ wasPaused' = FALSE
    /\ lostAcks' = 0
    /\ UNCHANGED <<saved, tag, backlog, crashes, drops, closes>>

\* maxmemory-policy allkeys-lru: Redis drops the key.  One that says "running" is not
\* missed.
Evict ==
    /\ saved /\ saved' = FALSE
    /\ Fault /\ astray' = TRUE
    /\ UNCHANGED <<state, requested, stopping, mpc, tag, wasPaused, backlog, inherited,
                   crashes, drops, closes, lostAcks>>

\* A message is published.
Arrive ==
    /\ backlog < MaxBacklog
    /\ backlog' = backlog + 1
    /\ UNCHANGED <<control, mpc, tag, wasPaused, ghosts, counts>>

-----------------------------------------------------------------------------
Main == \/ SolrReady \/ Connect \/ FirstTest \/ Sample \/ LoopTop \/ Pump
        \/ BeginProcessing \/ FinishDocument \/ EndProcessing

Next == \/ Main
        \/ Pause \/ Resume \/ Signal \/ ConnectionLost \/ ClosedByBroker
        \/ Crash \/ Kill \/ Start \/ Evict \/ Arrive

Spec == Init /\ [][Next]_vars

\* The main thread keeps going; nothing else is owed.
FairSpec == Spec /\ WF_vars(Main)

-----------------------------------------------------------------------------
FlagsOK ==
    /\ state \in {"running", "paused", "processing"}
    /\ requested \in BOOLEAN /\ saved \in BOOLEAN /\ stopping \in BOOLEAN
    /\ mpc \in Places
    /\ tag \in BOOLEAN /\ wasPaused \in BOOLEAN
    /\ astray \in BOOLEAN /\ inherited \in BOOLEAN

CountsOK ==
    /\ backlog \in 0..(MaxBacklog + 1)
    /\ crashes \in 0..MaxCrashes /\ drops \in 0..MaxDrops
    /\ closes \in 0..MaxCloses /\ faults \in 0..MaxFaults
    /\ lostAcks \in 0..(MaxDrops + MaxCloses)

\* Types and bounds: the broker holds what was published, no more (a delivery
\* comes back at most once for each time it was handed out).
TypeOK == FlagsOK /\ CountsOK

\* Outside a callback the state that /control/status reports is the state of
\* affairs: "paused" exactly when a pause is in force, never "processing",
\* however pause, resume, begin_processing and end_processing interleaved.
\* The exception is a connection found dead at basic_ack.
IdleStateAgrees ==
    lostAcks = 0 /\ Running /\ mpc \notin Callback =>
        state = (IF requested THEN "paused" ELSE "running")

\* What Redis holds is the pause or resume asked for last, one still pending behind a
\* document included (control.py:8, "a container restart respects it").  The exceptions
\* are a write that failed, a key that was evicted and a start that could not read it,
\* each until the next write that succeeds or start that reads: the end of a document
\* under a pause makes good for a lost write, a restart for an unread key.
PauseIsDurable == ~astray => saved = requested

\* A pause ends by a resume: not by the end of the document, a lost connection, or a
\* crash or restart of a process that agreed with Redis and could read it.
OnlyResumeEndsPause ==
    [][requested /\ ~requested' =>
          \/ Resume
          \/ (Crash \/ Start) /\ (astray \/ astray')]_vars

\* A pause that a process inherits holds from its first moment: it has no consumer on
\* the queue, through reconnections and whatever the loop does, until it is asked
\* something.
InheritedPauseHolds == inherited => requested /\ ~tag

\* A pause that reaches the running loop takes the consumer off the queue.
PauseReachesLoop ==
    mpc \in Loop /\ tag /\ ~wasPaused /\ requested ~> ~tag \/ ~requested

\* A resume that reaches the loop puts it back.
ResumeReachesLoop ==
    mpc \in Loop /\ ~tag /\ wasPaused /\ ~requested ~> tag \/ requested \/ ~Running

\* A process asked to stop stops, paused or not, once its document is done.
ShutdownEnds == stopping ~> ~stopping \/ ~Running

-----------------------------------------------------------------------------
(* Statements of the documentation. *)

\* control.py:4-5: pause means "stop consuming after current document
\* finishes", resume means "restart consuming".  A process left paused ends up
\* without a consumer, one left unpaused with one.
ConsumerFollows == /\ <>[]requested => <>[]~tag
                   /\ <>[](~requested /\ Running) => <>[]tag
=============================================================================

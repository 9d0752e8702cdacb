----------------------- MODULE IndexerControl_proofs -----------------------
(* Proofs about pause and resume, for any number of requests, crashes and  *)
(* lost connections.                                                       *)
EXTENDS IndexerControl, TLAPS

LEMMA FlagStep == FlagsOK /\ [Next]_vars => FlagsOK'
<1> SUFFICES ASSUME FlagsOK, [Next]_vars PROVE FlagsOK'
  OBVIOUS
<1> USE DEF FlagsOK, Places, Loop, Callback, control, ghosts, counts, Goto
<1>1. CASE Pause
  BY <1>1 DEF Pause, Persist, Fault
<1>2. CASE Resume
  BY <1>2 DEF Resume, Persist, Fault
<1>3. CASE Signal
  BY <1>3 DEF Signal
<1>4. CASE SolrReady
  BY <1>4 DEF SolrReady
<1>5. CASE Connect
  BY <1>5 DEF Connect
<1>6. CASE FirstTest
  BY <1>6 DEF FirstTest
<1>7. CASE Sample
  BY <1>7 DEF Sample
<1>8. CASE LoopTop
  BY <1>8 DEF LoopTop
<1>9. CASE Pump
  BY <1>9 DEF Pump
<1>10. CASE BeginProcessing
  BY <1>10 DEF BeginProcessing
<1>11. CASE FinishDocument
  BY <1>11 DEF FinishDocument
<1>12. CASE EndProcessing
  BY <1>12 DEF EndProcessing, Persist, NotPersisted, Fault
<1>13. CASE ConnectionLost
  BY <1>13 DEF ConnectionLost, Disconnected
<1>14. CASE ClosedByBroker
  BY <1>14 DEF ClosedByBroker, Disconnected
<1>15. CASE Crash
  BY <1>15 DEF Crash, Restored, Running, Fault
<1>16. CASE Kill
  BY <1>16 DEF Kill
<1>17. CASE Start
  BY <1>17 DEF Start, Restored, Fault
<1>18. CASE Arrive
  BY <1>18 DEF Arrive
<1>19. CASE UNCHANGED vars
  BY <1>19 DEF vars
<1>20. CASE Evict
  BY <1>20 DEF Evict, Fault
<1> QED BY <1>1, <1>2, <1>3, <1>4, <1>5, <1>6, <1>7, <1>8, <1>9, <1>10, <1>11,
           <1>12, <1>13, <1>14, <1>15, <1>16, <1>17, <1>18, <1>19, <1>20 DEF Next, Main

\* While a delivery is held one place of the backlog is free for its return,
\* and every lost acknowledgement is a lost connection of this process.
Slack == /\ mpc \in Callback => backlog <= MaxBacklog
         /\ lostAcks <= drops + closes

LEMMA CountStep == CountsOK /\ Slack /\ [Next]_vars => CountsOK' /\ Slack'
<1> SUFFICES ASSUME CountsOK, Slack, [Next]_vars PROVE CountsOK' /\ Slack'
  OBVIOUS
<1> USE BoundsOK DEF CountsOK, Slack, Callback, control, ghosts, counts, Goto
<1>1. CASE Pause
  BY <1>1 DEF Pause, Persist, Fault
<1>2. CASE Resume
  BY <1>2 DEF Resume, Persist, Fault
<1>3. CASE Signal
  BY <1>3 DEF Signal
<1>4. CASE SolrReady
  BY <1>4 DEF SolrReady
<1>5. CASE Connect
  BY <1>5 DEF Connect
<1>6. CASE FirstTest
  BY <1>6 DEF FirstTest
<1>7. CASE Sample
  BY <1>7 DEF Sample
<1>8. CASE LoopTop
  BY <1>8 DEF LoopTop
<1>9. CASE Pump
  BY <1>9 DEF Pump
<1>10. CASE BeginProcessing
  BY <1>10 DEF BeginProcessing
<1>11. CASE FinishDocument
  BY <1>11 DEF FinishDocument
<1>12. CASE EndProcessing
  BY <1>12 DEF EndProcessing, Persist, NotPersisted, Fault
<1>13. CASE ConnectionLost
  BY <1>13 DEF ConnectionLost, Disconnected
<1>14. CASE ClosedByBroker
  BY <1>14 DEF ClosedByBroker, Disconnected
<1>15. CASE Crash
  BY <1>15 DEF Crash, Restored, Running, Fault
<1>16. CASE Kill
  BY <1>16 DEF Kill
<1>17. CASE Start
  BY <1>17 DEF Start, Restored, Fault
<1>18. CASE Arrive
  BY <1>18 DEF Arrive
<1>19. CASE UNCHANGED vars
  BY <1>19 DEF vars
<1>20. CASE Evict
  BY <1>20 DEF Evict, Fault
<1> QED BY <1>1, <1>2, <1>3, <1>4, <1>5, <1>6, <1>7, <1>8, <1>9, <1>10, <1>11,
           <1>12, <1>13, <1>14, <1>15, <1>16, <1>17, <1>18, <1>19, <1>20 DEF Next, Main

LEMMA TypeInvariant == Spec => [](TypeOK /\ Slack)
<1>1. Init => FlagsOK
  BY DEF Init, FlagsOK, Places
<1>2. Init => CountsOK /\ Slack
  BY BoundsOK DEF Init, CountsOK, Slack, Callback
<1>3. TypeOK /\ Slack /\ [Next]_vars => (TypeOK /\ Slack)'
  BY FlagStep, CountStep DEF TypeOK
<1> QED BY <1>1, <1>2, <1>3, PTL DEF TypeOK, Spec

\* Every variable of the control keeps its type, every counter its bound.
THEOREM TypeCorrect == Spec => []TypeOK
BY TypeInvariant, PTL

-----------------------------------------------------------------------------
(* What Redis holds. *)

LEMMA DurableStep == TypeOK /\ PauseIsDurable /\ [Next]_vars => PauseIsDurable'
<1> SUFFICES ASSUME TypeOK, PauseIsDurable, [Next]_vars PROVE PauseIsDurable'
  OBVIOUS
<1>a. FlagsOK
  BY DEF TypeOK
<1> USE <1>a DEF PauseIsDurable, FlagsOK, control, ghosts, counts
<1>1. CASE Pause
  BY <1>1 DEF Pause, Persist, Fault
<1>2. CASE Resume
  BY <1>2 DEF Resume, Persist, Fault
<1>3. CASE Signal
  BY <1>3 DEF Signal
<1>4. CASE SolrReady
  BY <1>4 DEF SolrReady
<1>5. CASE Connect
  BY <1>5 DEF Connect
<1>6. CASE FirstTest
  BY <1>6 DEF FirstTest
<1>7. CASE Sample
  BY <1>7 DEF Sample
<1>8. CASE LoopTop
  BY <1>8 DEF LoopTop
<1>9. CASE Pump
  BY <1>9 DEF Pump
<1>10. CASE BeginProcessing
  BY <1>10 DEF BeginProcessing
<1>11. CASE FinishDocument
  BY <1>11 DEF FinishDocument
<1>12. CASE EndProcessing
  <2>1. CASE requested
    BY <1>12, <2>1 DEF EndProcessing, Persist, NotPersisted, Fault
  <2>2. CASE ~requested
    BY <1>12, <2>2 DEF EndProcessing, NotPersisted
  <2> QED BY <2>1, <2>2
<1>13. CASE ConnectionLost
  BY <1>13 DEF ConnectionLost, Disconnected
<1>14. CASE ClosedByBroker
  BY <1>14 DEF ClosedByBroker, Disconnected
<1>15. CASE Crash
  BY <1>15 DEF Crash, Restored, Running, Fault
<1>16. CASE Kill
  BY <1>16 DEF Kill
<1>17. CASE Start
  BY <1>17 DEF Start, Restored, Fault
<1>18. CASE Arrive
  BY <1>18 DEF Arrive
<1>19. CASE UNCHANGED vars
  BY <1>19 DEF vars
<1>20. CASE Evict
  BY <1>20 DEF Evict, Fault
<1> QED BY <1>1, <1>2, <1>3, <1>4, <1>5, <1>6, <1>7, <1>8, <1>9, <1>10, <1>11,
           <1>12, <1>13, <1>14, <1>15, <1>16, <1>17, <1>18, <1>19, <1>20 DEF Next, Main

\* What is stored in Redis is what was asked for last, a pause pending behind a
\* document included, unless a fault of Redis parted them and nothing has repaired it.
THEOREM PauseDurable == Spec => []PauseIsDurable
<1>1. Init => PauseIsDurable
  BY DEF Init, PauseIsDurable
<1>2. TypeOK /\ PauseIsDurable /\ [Next]_vars => PauseIsDurable'
  BY DurableStep
<1> QED BY <1>1, <1>2, TypeCorrect, PTL DEF Spec

LEMMA ResumeStep ==
    TypeOK /\ PauseIsDurable /\ [Next]_vars =>
        [requested /\ ~requested' =>
            \/ Resume
            \/ (Crash \/ Start) /\ (astray \/ astray')]_vars
<1> SUFFICES ASSUME TypeOK, PauseIsDurable, [Next]_vars, requested, ~requested'
             PROVE  \/ Resume
                    \/ (Crash \/ Start) /\ (astray \/ astray')
                    \/ UNCHANGED vars
  OBVIOUS
<1>a. FlagsOK
  BY DEF TypeOK
<1> USE <1>a DEF PauseIsDurable, FlagsOK, control, ghosts, counts
<1>1. CASE Pause
  BY <1>1 DEF Pause, Persist, Fault
<1>2. CASE Resume
  BY <1>2 DEF Resume, Persist, Fault
<1>3. CASE Signal
  BY <1>3 DEF Signal
<1>4. CASE SolrReady
  BY <1>4 DEF SolrReady
<1>5. CASE Connect
  BY <1>5 DEF Connect
<1>6. CASE FirstTest
  BY <1>6 DEF FirstTest
<1>7. CASE Sample
  BY <1>7 DEF Sample
<1>8. CASE LoopTop
  BY <1>8 DEF LoopTop
<1>9. CASE Pump
  BY <1>9 DEF Pump
<1>10. CASE BeginProcessing
  BY <1>10 DEF BeginProcessing
<1>11. CASE FinishDocument
  BY <1>11 DEF FinishDocument
<1>12. CASE EndProcessing
  BY <1>12 DEF EndProcessing, Persist, NotPersisted, Fault
<1>13. CASE ConnectionLost
  BY <1>13 DEF ConnectionLost, Disconnected
<1>14. CASE ClosedByBroker
  BY <1>14 DEF ClosedByBroker, Disconnected
<1>15. CASE Crash
  <2>1. astray \/ astray'
    <3>1. CASE Fault /\ requested' = FALSE /\ astray' = TRUE
      BY <3>1
    <3>2. CASE requested' = saved
      BY <3>2
    <3> QED BY <1>15, <3>1, <3>2 DEF Crash, Restored
  <2> QED BY <1>15, <2>1
<1>16. CASE Kill
  BY <1>16 DEF Kill
<1>17. CASE Start
  <2>1. astray \/ astray'
    <3>1. CASE Fault /\ requested' = FALSE /\ astray' = TRUE
      BY <3>1
    <3>2. CASE requested' = saved
      BY <3>2
    <3> QED BY <1>17, <3>1, <3>2 DEF Start, Restored
  <2> QED BY <1>17, <2>1
<1>18. CASE Arrive
  BY <1>18 DEF Arrive
<1>19. CASE UNCHANGED vars
  BY <1>19 DEF vars
<1>20. CASE Evict
  BY <1>20 DEF Evict, Fault
<1> QED BY <1>1, <1>2, <1>3, <1>4, <1>5, <1>6, <1>7, <1>8, <1>9, <1>10, <1>11,
           <1>12, <1>13, <1>14, <1>15, <1>16, <1>17, <1>18, <1>19, <1>20 DEF Next, Main

\* A pause is ended by a resume only: no end of a document and no lost connection undoes
\* it, and no crash or restart that finds in Redis what the process before it had.
THEOREM PauseEndsByResume == Spec => OnlyResumeEndsPause
<1>1. TypeOK /\ PauseIsDurable /\ [Next]_vars =>
        [requested /\ ~requested' =>
            \/ Resume
            \/ (Crash \/ Start) /\ (astray \/ astray')]_vars
  BY ResumeStep
<1> QED BY <1>1, TypeCorrect, PauseDurable, PTL DEF Spec, OnlyResumeEndsPause

\* A process without a consumer stays without one while it goes on under the pause it
\* began with; an ended one has none either.
InheritInv == /\ InheritedPauseHolds
              /\ mpc = "exited" => ~tag

LEMMA InheritStep == TypeOK /\ InheritInv /\ [Next]_vars => InheritInv'
<1> SUFFICES ASSUME TypeOK, InheritInv, [Next]_vars PROVE InheritInv'
  OBVIOUS
<1>a. FlagsOK
  BY DEF TypeOK
<1> USE <1>a DEF InheritInv, InheritedPauseHolds, FlagsOK, Running, Callback, Goto, control, ghosts, counts
<1>1. CASE Pause
  BY <1>1 DEF Pause, Persist, Fault
<1>2. CASE Resume
  BY <1>2 DEF Resume, Persist, Fault
<1>3. CASE Signal
  BY <1>3 DEF Signal
<1>4. CASE SolrReady
  BY <1>4 DEF SolrReady
<1>5. CASE Connect
  BY <1>5 DEF Connect
<1>6. CASE FirstTest
  BY <1>6 DEF FirstTest
<1>7. CASE Sample
  BY <1>7 DEF Sample
<1>8. CASE LoopTop
  BY <1>8 DEF LoopTop
<1>9. CASE Pump
  BY <1>9 DEF Pump
<1>10. CASE BeginProcessing
  BY <1>10 DEF BeginProcessing
<1>11. CASE FinishDocument
  BY <1>11 DEF FinishDocument
<1>12. CASE EndProcessing
  BY <1>12 DEF EndProcessing, Persist, NotPersisted, Fault
<1>13. CASE ConnectionLost
  BY <1>13 DEF ConnectionLost, Disconnected
<1>14. CASE ClosedByBroker
  BY <1>14 DEF ClosedByBroker, Disconnected
<1>15. CASE Crash
  BY <1>15 DEF Crash, Restored, Running, Fault
<1>16. CASE Kill
  BY <1>16 DEF Kill
<1>17. CASE Start
  BY <1>17 DEF Start, Restored, Fault
<1>18. CASE Arrive
  BY <1>18 DEF Arrive
<1>19. CASE UNCHANGED vars
  BY <1>19 DEF vars
<1>20. CASE Evict
  BY <1>20 DEF Evict, Fault
<1> QED BY <1>1, <1>2, <1>3, <1>4, <1>5, <1>6, <1>7, <1>8, <1>9, <1>10, <1>11,
           <1>12, <1>13, <1>14, <1>15, <1>16, <1>17, <1>18, <1>19, <1>20 DEF Next, Main

\* A pause that a process inherits from the one before holds until it is resumed: the
\* process is never a consumer, whatever connections it loses and opens.
THEOREM InheritedPause == Spec => []InheritedPauseHolds
<1>1. Init => InheritInv
  BY DEF Init, InheritInv, InheritedPauseHolds
<1>2. TypeOK /\ InheritInv /\ [Next]_vars => InheritInv'
  BY InheritStep
<1>3. InheritInv => InheritedPauseHolds
  BY DEF InheritInv
<1> QED BY <1>1, <1>2, <1>3, TypeCorrect, PTL DEF Spec

-----------------------------------------------------------------------------
(* The state that is reported. *)

\* IdleStateAgrees is not inductive: it says nothing of the state while a
\* document is processed, which begin_processing sets and pause must not touch.
StateInv == lostAcks = 0 /\ Running =>
    /\ mpc \in {"work", "ack"} => state = "processing"
    /\ mpc \notin {"work", "ack"} => state = (IF requested THEN "paused" ELSE "running")

LEMMA StateStep == TypeOK /\ StateInv /\ [Next]_vars => StateInv'
<1> SUFFICES ASSUME TypeOK, StateInv, [Next]_vars PROVE StateInv'
  OBVIOUS
<1>a. lostAcks + 1 # 0
  BY BoundsOK DEF TypeOK, CountsOK
<1>b. FlagsOK
  BY DEF TypeOK
<1> USE <1>a, <1>b DEF StateInv, FlagsOK, Running, Callback, Goto, control, ghosts, counts
<1>1. CASE Pause
  BY <1>1 DEF Pause, Persist, Fault
<1>2. CASE Resume
  BY <1>2 DEF Resume, Persist, Fault
<1>3. CASE Signal
  BY <1>3 DEF Signal
<1>4. CASE SolrReady
  BY <1>4 DEF SolrReady
<1>5. CASE Connect
  BY <1>5 DEF Connect
<1>6. CASE FirstTest
  BY <1>6 DEF FirstTest
<1>7. CASE Sample
  BY <1>7 DEF Sample
<1>8. CASE LoopTop
  BY <1>8 DEF LoopTop
<1>9. CASE Pump
  BY <1>9 DEF Pump
<1>10. CASE BeginProcessing
  BY <1>10 DEF BeginProcessing
<1>11. CASE FinishDocument
  BY <1>11 DEF FinishDocument
<1>12. CASE EndProcessing
  BY <1>12 DEF EndProcessing, Persist, NotPersisted, Fault
<1>13. CASE ConnectionLost
  BY <1>13 DEF ConnectionLost, Disconnected
<1>14. CASE ClosedByBroker
  BY <1>14 DEF ClosedByBroker, Disconnected
<1>15. CASE Crash
  BY <1>15 DEF Crash, Restored, Running, Fault
<1>16. CASE Kill
  BY <1>16 DEF Kill
<1>17. CASE Start
  BY <1>17 DEF Start, Restored, Fault
<1>18. CASE Arrive
  BY <1>18 DEF Arrive
<1>19. CASE UNCHANGED vars
  BY <1>19 DEF vars
<1>20. CASE Evict
  BY <1>20 DEF Evict, Fault
<1> QED BY <1>1, <1>2, <1>3, <1>4, <1>5, <1>6, <1>7, <1>8, <1>9, <1>10, <1>11,
           <1>12, <1>13, <1>14, <1>15, <1>16, <1>17, <1>18, <1>19, <1>20 DEF Next, Main

\* Between documents the reported state is "paused" exactly when a pause is in
\* force, unless a connection died at basic_ack.
THEOREM StateAgrees == Spec => []IdleStateAgrees
<1>1. Init => StateInv
  BY DEF Init, StateInv
<1>2. TypeOK /\ StateInv /\ [Next]_vars => StateInv'
  BY StateStep
<1>3. StateInv => IdleStateAgrees
  BY DEF StateInv, IdleStateAgrees, Callback
<1> QED BY <1>1, <1>2, <1>3, TypeCorrect, PTL DEF Spec
=============================================================================

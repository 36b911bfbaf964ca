--------------------------- MODULE ShutdownProofs ---------------------------
(***************************************************************************)
(* The safety properties of Shutdown for any number of containers and      *)
(* failing calls.                                                          *)
(***************************************************************************)
EXTENDS Shutdown, TLAPS

(* Only containers that exist or existed have operations, and nobody makes *)
(* new operations once the cleanup is at work.                             *)
QueueInv ==
    /\ \A c \in queue \cup batch : cstate[c] \in Exists \cup {"gone"}
    /\ bulker # "push" => batch = {}
    /\ cleanup # "waiting" => group = "stopping" /\ HarmonizerGone

(* The cleanup's goroutines: everything started, or about to be started by *)
(* an operation of the queue, is on the signaller's list or dealt with.    *)
StopInv ==
    /\ signaller # "off" => cleanup # "waiting"
    /\ signaller \in {"stop", "done"} =>
          \A c \in Guid : cstate[c] \in Started \/ (cstate[c] = "reserved" /\ c \in queue)
                          => c \in toStop \cup told \cup missed
    /\ signaller = "done" => toStop \subseteq missed
    /\ checker \in {"check", "sleep", "done"} => signaller = "done"
    /\ cleanup = "stopped" => checker = "done"

(* The evacuation: no work is let in any more, and what the poller did not *)
(* see was let in before.                                                  *)
EvacuationInv ==
    /\ poller # "off" => mode = "evacuating"
    /\ mode = "evacuating" => \A c \in Guid : cstate[c] = "admitted" => c \in raced
    /\ poller = "done" => \A c \in Guid : cstate[c] \in Exists => c \in raced
    /\ evacuator = "complete" => poller = "done"

IInv == QueueInv /\ StopInv /\ EvacuationInv

(* Every variable of the shutdown model keeps its type. *)
THEOREM TypeCorrect == Spec => []TypeOK
<1>1. Init => TypeOK
  BY ShutdownAssumption DEF Init, TypeOK, Exists, Started
<1>2. TypeOK /\ [Next]_vars => TypeOK'
  <2> SUFFICES ASSUME TypeOK, [Next]_vars PROVE TypeOK'
    OBVIOUS
  <2> USE ShutdownAssumption DEF TypeOK, Exists, Started, Listed, Fault, ctrVars, bulkVars,
          evacVars, cleanupVars, otherVars, BulkerOnly, EvacuatorOnly, CleanupOnly, CellOnly
  <2>1. CASE GroupStops \/ ServersExit \/ PresenceExits
    BY <2>1 DEF GroupStops, ServersExit, PresenceExits
  <2>2. CASE TimerFires \/ BulkerSelects \/ BulkerSignalled
    BY <2>2 DEF TimerFires, BulkerSelects, BulkerSignalled
  <2>3. CASE BulkerSyncs \/ BulkerPushes
    BY <2>3 DEF BulkerSyncs, BulkerPushes
  <2>4. CASE ConsumerExits \/ EvacuatorNotified \/ PollingIntervalOver
    BY <2>4 DEF ConsumerExits, EvacuatorNotified, PollingIntervalOver
  <2>5. CASE AllContainersEvacuated \/ EvacuatorReturns
    BY <2>5 DEF AllContainersEvacuated, EvacuatorReturns
  <2>6. CASE CleanupSignalled \/ CleanupFetches \/ CleanupRemoves
    BY <2>6 DEF CleanupSignalled, CleanupFetches, CleanupRemoves
  <2>7. CASE CleanupReturns \/ SignalRunningContainers \/ SignallerDone
    BY <2>7 DEF CleanupReturns, SignalRunningContainers, SignallerDone
  <2>8. CASE CheckRunningContainers \/ CheckTicks
    BY <2>8 DEF CheckRunningContainers, CheckTicks
  <2>9. CASE Evacuate
    BY <2>9 DEF Evacuate
  <2>10. ASSUME NEW c \in Guid, ConsumerPushes(c) \/ SignallerStops(c) PROVE TypeOK'
    BY <2>10 DEF ConsumerPushes, SignallerStops
  <2>11. ASSUME NEW c \in Guid, PerformAdmits(c) \/ PerformAllocates(c) PROVE TypeOK'
    BY <2>11 DEF PerformAdmits, PerformAllocates
  <2>12. ASSUME NEW c \in Guid, OperationExecutes(c) \/ ContainerSteps(c) PROVE TypeOK'
    BY <2>12 DEF OperationExecutes, ContainerSteps
  <2>13. CASE UNCHANGED vars
    BY <2>13, SMTT(30) DEF vars
  <2>14. QED
    BY <2>1, <2>2, <2>3, <2>4, <2>5, <2>6, <2>7, <2>8, <2>9, <2>10, <2>11, <2>12, <2>13
       DEF Next, Bulker, Cleanup
<1>3. QED
  BY <1>1, <1>2, PTL DEF Spec

(* Every step keeps the inductive invariant. *)
LEMMA InvStep == TypeOK /\ IInv /\ [Next]_vars => IInv'
<1> SUFFICES ASSUME TypeOK, IInv, [Next]_vars PROVE IInv'
  OBVIOUS
<1> USE DEF TypeOK, IInv, QueueInv, StopInv, EvacuationInv, Exists, Started, Listed,
        HarmonizerGone, EvacuatorExited, ctrVars, bulkVars, evacVars, cleanupVars, otherVars,
        BulkerOnly, EvacuatorOnly, CleanupOnly, CellOnly
<1>1. CASE GroupStops \/ ServersExit \/ PresenceExits
  BY <1>1 DEF GroupStops, ServersExit, PresenceExits
<1>2. CASE TimerFires \/ BulkerSelects
  BY <1>2 DEF TimerFires, BulkerSelects
<1>3. CASE BulkerSignalled
  BY <1>3 DEF BulkerSignalled
<1>4. CASE BulkerSyncs
  BY <1>4 DEF BulkerSyncs
<1>5. CASE BulkerPushes
  BY <1>5 DEF BulkerPushes
<1>6. CASE ConsumerExits
  BY <1>6 DEF ConsumerExits
<1>7. CASE EvacuatorNotified \/ PollingIntervalOver
  BY <1>7 DEF EvacuatorNotified, PollingIntervalOver
<1>8. CASE AllContainersEvacuated
  BY <1>8 DEF AllContainersEvacuated
<1>9. CASE EvacuatorReturns
  BY <1>9 DEF EvacuatorReturns
<1>10. CASE CleanupSignalled
  BY <1>10 DEF CleanupSignalled, SignalCleanup
<1>11. CASE CleanupFetches \/ CleanupRemoves
  BY <1>11 DEF CleanupFetches, CleanupRemoves
<1>12. CASE CleanupReturns
  BY <1>12 DEF CleanupReturns
<1>13. CASE SignalRunningContainers
  BY <1>13 DEF SignalRunningContainers
<1>14. CASE SignallerDone
  BY <1>14 DEF SignallerDone
<1>15. CASE CheckRunningContainers \/ CheckTicks
  BY <1>15 DEF CheckRunningContainers, CheckTicks
<1>16. CASE Evacuate
  BY <1>16 DEF Evacuate
<1>17. ASSUME NEW c \in Guid, ConsumerPushes(c) PROVE IInv'
  BY <1>17 DEF ConsumerPushes
<1>18. ASSUME NEW c \in Guid, SignallerStops(c) PROVE IInv'
  BY <1>18 DEF SignallerStops
<1>19. ASSUME NEW c \in Guid, PerformAdmits(c) PROVE IInv'
  BY <1>19 DEF PerformAdmits
<1>20. ASSUME NEW c \in Guid, PerformAllocates(c) PROVE IInv'
  BY <1>20 DEF PerformAllocates
<1>21. ASSUME NEW c \in Guid, OperationExecutes(c) PROVE IInv'
  BY <1>21 DEF OperationExecutes
<1>22. ASSUME NEW c \in Guid, ContainerSteps(c) PROVE IInv'
  BY <1>22 DEF ContainerSteps
<1>23. CASE UNCHANGED vars
  BY <1>23 DEF vars
<1>24. QED
  BY <1>1, <1>2, <1>3, <1>4, <1>5, <1>6, <1>7, <1>8, <1>9, <1>10, <1>11, <1>12, <1>13,
     <1>14, <1>15, <1>16, <1>17, <1>18, <1>19, <1>20, <1>21, <1>22, <1>23, Zenon
     DEF Next, Bulker, Cleanup

(* The inductive invariant holds in every reachable state. *)
THEOREM Invariance == Spec => []IInv
<1>1. Init => IInv
  BY DEF Init, IInv, QueueInv, StopInv, EvacuationInv, Exists, Started
<1>2. QED
  BY <1>1, InvStep, TypeCorrect, PTL DEF Spec

(* However many containers there are and calls fail, no container is       *)
(* started behind the cleanup's back.                                      *)
THEOREM CleanupMissesNone == Spec => []NoneEscapesStop
<1>1. IInv => NoneEscapesStop
  BY DEF IInv, StopInv, NoneEscapesStop
<1>2. QED
  BY <1>1, Invariance, PTL

(* A completed evacuation leaves only containers of auction work that was  *)
(* let in before it.                                                       *)
THEOREM CompleteMeansEmpty == Spec => []EvacuationIsComplete
<1>1. IInv => EvacuationIsComplete
  BY DEF IInv, EvacuationInv, EvacuationIsComplete
<1>2. QED
  BY <1>1, Invariance, PTL
=============================================================================

------------------------------ MODULE Shutdown ------------------------------
(***************************************************************************)
(* How a rep goes down: the members that cmd/rep/main.go starts as one     *)
(* ordered group, with the evacuator (evacuation/evacuation.go), the       *)
(* evacuation cleanup with its two goroutines (evacuation/cleanup.go), the *)
(* loops of the bulker and of the event consumer (harmonizer/), and what   *)
(* goes on meanwhile: auction work, queued operations, containers.         *)
(* The containers are those of LRP instances: their guids are never used   *)
(* again.  What an operation does, call by call, is LRPHarmonizer's        *)
(* subject; here it is one step.  Group, queue, executor and BBS are       *)
(* external.                                                               *)
(***************************************************************************)
EXTENDS Naturals, FiniteSets

CONSTANTS
    Guid,       \* instance guids
    MaxFaults   \* bound: failing calls

ASSUME ShutdownAssumption == MaxFaults \in Nat

VARIABLES
    group,                  \* "up", or "stopping" its members one by one
    mode,                   \* evacuation context: "ordinary" or "evacuating"
    raced,                  \* history: work admitted before and not allocated at the evacuation
    cstate,                 \* the executor's containers
    told,                   \* containers told to stop
    evac,                   \* instances with an evacuating record in the BBS
    queue,                  \* guids with an operation in the queue
    bulker, timer, notify, batch,   \* Bulker.Run: place, its timer, evacuateNotify, batch
    consumer,               \* EventConsumer.Run
    evacuator, poller,      \* Evacuator.Run and its goroutine
    cleanup, stranded,      \* EvacuationCleanup.Run, records still to remove
    signaller, toStop, checker,     \* its two goroutines
    missed,                 \* history: containers the signaller was not able to stop
    servers, presence,      \* the other members
    faults                  \* spent bound

ctrVars     == <<mode, raced, cstate, told, evac>>
bulkVars    == <<bulker, timer, notify, batch>>
evacVars    == <<evacuator, poller>>
cleanupVars == <<cleanup, stranded, signaller, toStop, checker, missed>>
otherVars   == <<servers, presence>>
vars == <<group, mode, raced, cstate, told, evac, queue, bulker, timer, notify, batch,
          consumer, evacuator, poller, cleanup, stranded, signaller, toStop, checker,
          missed, servers, presence, faults>>

Started == {"starting", "running"}
Exists  == Started \cup {"reserved", "completed"}
Listed  == {c \in Guid : cstate[c] \in Exists}

Init ==
    /\ group = "up" /\ mode = "ordinary" /\ raced = {}
    /\ cstate = [c \in Guid |-> "new"] /\ told = {} /\ evac = {} /\ queue = {}
    /\ bulker = "select" /\ timer = "armed" /\ notify = "open" /\ batch = {}
    /\ consumer = "running"
    /\ evacuator = "waiting" /\ poller = "off"
    /\ cleanup = "waiting" /\ stranded = {}
    /\ signaller = "off" /\ toStop = {} /\ checker = "off" /\ missed = {}
    /\ servers = "running" /\ presence = "running"
    /\ faults = 0

Fault == faults < MaxFaults /\ faults' = faults + 1

-----------------------------------------------------------------------------
(* The ordered group: once it is stopping, the last member that still runs *)
(* is signalled; the one before it when that one has exited.               *)

EvacuatorExited == evacuator \in {"complete", "timedOut", "signalled"}
CleanupExited   == cleanup \in {"stopped", "gaveUp", "failed"}

SignalEvacuator == group = "stopping" /\ ~EvacuatorExited
SignalConsumer  == group = "stopping" /\ EvacuatorExited /\ consumer = "running"
SignalBulker    == /\ group = "stopping" /\ EvacuatorExited /\ consumer = "exited"
                   /\ bulker # "exited"
HarmonizerGone  == EvacuatorExited /\ consumer = "exited" /\ bulker = "exited"
SignalCleanup   == group = "stopping" /\ HarmonizerGone
AllExited       == HarmonizerGone /\ CleanupExited /\ servers = "exited" /\ presence = "exited"

(* The process is signalled, or some member has exited. *)
GroupStops ==
    /\ group = "up"
    /\ group' = "stopping"
    /\ UNCHANGED <<ctrVars, queue, bulkVars, consumer, evacVars, cleanupVars, otherVars, faults>>

SomeExited ==
    EvacuatorExited \/ "exited" \in {consumer, bulker, servers, presence} \/ CleanupExited

(* The HTTP servers and the presence stop last; they may also fail. *)
ServersExit ==
    /\ servers = "running"
    /\ group = "up" \/ (HarmonizerGone /\ CleanupExited)
    /\ servers' = "exited"
    /\ UNCHANGED <<group, ctrVars, queue, bulkVars, consumer, evacVars, cleanupVars, presence, faults>>

PresenceExits ==
    /\ presence = "running"
    /\ group = "up" \/ (HarmonizerGone /\ CleanupExited /\ servers = "exited")
    /\ presence' = "exited"
    /\ UNCHANGED <<group, ctrVars, queue, bulkVars, consumer, evacVars, cleanupVars, servers, faults>>

-----------------------------------------------------------------------------
(* Bulker.Run *)

BulkerOnly == UNCHANGED <<group, ctrVars, consumer, evacVars, cleanupVars, otherVars>>

TimerFires ==
    /\ timer = "armed"
    /\ timer' = "fired"
    /\ UNCHANGED <<queue, bulker, notify, batch, faults>> /\ BulkerOnly

(* The select: a tick, the first notice of an evacuation, or the signal.   *)
(* The timer is stopped on the notice but its channel is not drained.      *)
BulkerSelects ==
    /\ bulker = "select"
    /\ \/ timer = "fired" /\ timer' = "off" /\ UNCHANGED notify
       \/ /\ mode = "evacuating" /\ notify = "open"
          /\ notify' = "nil"
          /\ timer' = IF timer = "armed" THEN "off" ELSE timer
    /\ bulker' = "sync"
    /\ UNCHANGED <<queue, batch, faults>> /\ BulkerOnly

BulkerSignalled ==
    /\ bulker = "select" /\ SignalBulker
    /\ bulker' = "exited"
    /\ UNCHANGED <<queue, timer, notify, batch, faults>> /\ BulkerOnly

(* sync: the batch is made from a listing, or fails; then the timer is set. *)
(* Reset leaves a tick that is in the channel where it is.                  *)
BulkerSyncs ==
    /\ bulker = "sync"
    /\ \/ bulker' = "push" /\ batch' = Listed /\ UNCHANGED <<timer, faults>>
       \/ /\ Fault /\ bulker' = "select" /\ UNCHANGED batch
          /\ timer' = IF timer = "fired" THEN "fired" ELSE "armed"
    /\ UNCHANGED <<queue, notify>> /\ BulkerOnly

(* Faulty: the timer is not set again after a sync. *)
BulkerPushesOnce ==
    /\ bulker = "push"
    /\ queue' = queue \cup batch /\ batch' = {} /\ bulker' = "select"
    /\ UNCHANGED <<timer, notify, faults>> /\ BulkerOnly

BulkerPushes ==
    /\ bulker = "push"
    /\ queue' = queue \cup batch /\ batch' = {} /\ bulker' = "select"
    /\ timer' = IF timer = "fired" THEN "fired" ELSE "armed"
    /\ UNCHANGED <<notify, faults>> /\ BulkerOnly

Bulker == BulkerSelects \/ BulkerSignalled \/ BulkerSyncs \/ BulkerPushes

(* EventConsumer.Run: an event of a container, a closed stream, the signal. *)
ConsumerPushes(c) ==
    /\ consumer = "running"
    /\ cstate[c] \in Exists
    /\ queue' = queue \cup {c}
    /\ UNCHANGED <<group, ctrVars, bulkVars, consumer, evacVars, cleanupVars, otherVars, faults>>

ConsumerExits ==
    /\ consumer = "running"
    /\ SignalConsumer \/ group = "up"
    /\ consumer' = "exited"
    /\ UNCHANGED <<group, ctrVars, queue, bulkVars, evacVars, cleanupVars, otherVars, faults>>

-----------------------------------------------------------------------------
(* Evacuator.Run and the goroutine that polls the executor.                *)

EvacuatorOnly ==
    UNCHANGED <<group, ctrVars, queue, bulkVars, consumer, cleanupVars, otherVars>>

EvacuatorNotified ==
    /\ evacuator = "waiting" /\ mode = "evacuating"
    /\ evacuator' = "evacuating" /\ poller' = "poll"
    /\ UNCHANGED faults /\ EvacuatorOnly

(* Faulty: a failed listing counts as an empty one. *)
AllContainersEvacuatedOnError ==
    /\ poller = "poll"
    /\ \/ poller' = (IF Listed = {} THEN "done" ELSE "sleep") /\ UNCHANGED faults
       \/ poller' = "done" /\ Fault
    /\ UNCHANGED evacuator /\ EvacuatorOnly

(* allContainersEvacuated: a failed listing counts as "not yet". *)
AllContainersEvacuated ==
    /\ poller = "poll"
    /\ \/ poller' = (IF Listed = {} THEN "done" ELSE "sleep") /\ UNCHANGED faults
       \/ poller' = "sleep" /\ Fault
    /\ UNCHANGED evacuator /\ EvacuatorOnly

PollingIntervalOver ==
    /\ poller = "sleep"
    /\ poller' = "poll"
    /\ UNCHANGED <<evacuator, faults>> /\ EvacuatorOnly

(* Faulty: wait for the containers however long it takes. *)
EvacuatorReturnsNoTimeout ==
    /\ \/ evacuator = "evacuating" /\ poller = "done" /\ evacuator' = "complete"
       \/ SignalEvacuator /\ evacuator' = "signalled"
    /\ UNCHANGED <<poller, faults>> /\ EvacuatorOnly

(* The two selects of Run: done, timed out, or signalled.  The goroutine   *)
(* is not stopped.                                                         *)
EvacuatorReturns ==
    /\ \/ evacuator = "evacuating" /\ poller = "done" /\ evacuator' = "complete"
       \/ evacuator = "evacuating" /\ evacuator' = "timedOut"
       \/ SignalEvacuator /\ evacuator' = "signalled"
    /\ UNCHANGED <<poller, faults>> /\ EvacuatorOnly

-----------------------------------------------------------------------------
(* EvacuationCleanup.Run *)

CleanupOnly == UNCHANGED <<group, mode, raced, cstate, queue, bulkVars, consumer, evacVars, otherVars>>

CleanupSignalled ==
    /\ cleanup = "waiting" /\ SignalCleanup
    /\ cleanup' = "fetch"
    /\ UNCHANGED <<told, evac, stranded, signaller, toStop, checker, missed, faults>> /\ CleanupOnly

(* ActualLRPGroups: an error ends the cleanup before a container is stopped. *)
CleanupFetches ==
    /\ cleanup = "fetch"
    /\ \/ cleanup' = "remove" /\ stranded' = evac /\ UNCHANGED faults
       \/ cleanup' = "failed" /\ Fault /\ UNCHANGED stranded
    /\ UNCHANGED <<told, evac, signaller, toStop, checker, missed>> /\ CleanupOnly

(* The evacuating records that were found are removed one after the other, *)
(* whether or not a removal fails; then both goroutines start.             *)
CleanupRemoves ==
    /\ cleanup = "remove"
    /\ \/ \E c \in stranded :
             /\ stranded' = stranded \ {c}
             /\ \/ evac' = evac \ {c} /\ UNCHANGED faults
                \/ Fault /\ UNCHANGED evac
             /\ UNCHANGED <<cleanup, signaller, checker>>
       \/ /\ stranded = {}
          /\ cleanup' = "stopping" /\ signaller' = "list" /\ checker' = "wait"
          /\ UNCHANGED <<stranded, evac, faults>>
    /\ UNCHANGED <<told, toStop, missed>> /\ CleanupOnly

(* signalRunningContainers: list the containers, then stop each of them; a *)
(* failed listing ends it, a failed StopContainer is ignored.              *)
SignalRunningContainers ==
    /\ signaller = "list"
    /\ \/ toStop' = Listed /\ signaller' = "stop" /\ UNCHANGED <<missed, faults>>
       \/ signaller' = "done" /\ missed' = Guid /\ Fault /\ UNCHANGED toStop
    /\ UNCHANGED <<cleanup, stranded, told, evac, checker>> /\ CleanupOnly

SignallerStops(c) ==
    /\ signaller = "stop" /\ c \in toStop
    /\ toStop' = toStop \ {c}
    /\ \/ told' = told \cup {c} /\ UNCHANGED <<missed, faults>>
       \/ missed' = missed \cup {c} /\ Fault /\ UNCHANGED told
    /\ cstate' = IF c \in told' /\ cstate[c] = "reserved"
                 THEN [cstate EXCEPT ![c] = "completed"] ELSE cstate
    /\ UNCHANGED <<cleanup, stranded, evac, signaller, checker, group, mode, raced,
                   queue, bulkVars, consumer, evacVars, otherVars>>

SignallerDone ==
    /\ signaller = "stop" /\ toStop = {}
    /\ signaller' = "done"
    /\ UNCHANGED <<cleanup, stranded, told, evac, toStop, checker, missed, faults>> /\ CleanupOnly

(* Faulty: check without waiting for the other goroutine. *)
CheckDoesNotWait ==
    /\ checker \in {"wait", "check"}
    /\ \/ /\ checker' = IF \E c \in Guid : cstate[c] = "running" THEN "sleep" ELSE "done"
          /\ UNCHANGED faults
       \/ checker' = "done" /\ Fault
    /\ UNCHANGED <<cleanup, stranded, told, evac, signaller, toStop, missed>> /\ CleanupOnly

(* checkRunningContainers: wait for the signaller, then list until no      *)
(* container is running; a failed listing counts as none.                  *)
CheckRunningContainers ==
    /\ checker = "check" \/ (checker = "wait" /\ signaller = "done")
    /\ \/ /\ checker' = IF \E c \in Guid : cstate[c] = "running" THEN "sleep" ELSE "done"
          /\ UNCHANGED faults
       \/ checker' = "done" /\ Fault
    /\ UNCHANGED <<cleanup, stranded, told, evac, signaller, toStop, missed>> /\ CleanupOnly

CheckTicks ==
    /\ checker = "sleep"
    /\ checker' = "check"
    /\ UNCHANGED <<cleanup, stranded, told, evac, signaller, toStop, missed, faults>> /\ CleanupOnly

(* Faulty: wait for the containers however long it takes. *)
CleanupReturnsNoTimeout ==
    /\ cleanup = "stopping" /\ checker = "done"
    /\ cleanup' = "stopped"
    /\ UNCHANGED <<stranded, told, evac, signaller, toStop, checker, missed, faults>> /\ CleanupOnly

(* All stopped, or ExitTimeout has passed. *)
CleanupReturns ==
    /\ cleanup = "stopping"
    /\ (checker = "done" /\ cleanup' = "stopped") \/ cleanup' = "gaveUp"
    /\ UNCHANGED <<stranded, told, evac, signaller, toStop, checker, missed, faults>> /\ CleanupOnly

-----------------------------------------------------------------------------
(* Meanwhile: requests, operations and containers.                         *)

CellOnly ==
    UNCHANGED <<group, bulkVars, consumer, evacVars, cleanupVars, otherVars, faults>>

Evacuate ==
    /\ servers = "running" /\ mode = "ordinary"
    /\ mode' = "evacuating"
    /\ raced' = {c \in Guid : cstate[c] = "admitted"}
    /\ UNCHANGED <<cstate, told, evac, queue>> /\ CellOnly

(* AuctionCellRep.Perform looks at the mode first and allocates later. *)
PerformAdmits(c) ==
    /\ servers = "running" /\ cstate[c] = "new" /\ mode = "ordinary"
    /\ cstate' = [cstate EXCEPT ![c] = "admitted"]
    /\ UNCHANGED <<mode, raced, told, evac, queue>> /\ CellOnly

PerformAllocates(c) ==
    /\ cstate[c] = "admitted"
    /\ \E s \in {"reserved", "gone"} : cstate' = [cstate EXCEPT ![c] = s]
    /\ UNCHANGED <<mode, raced, told, evac, queue>> /\ CellOnly

(* An operation of the queue, which outlives its producers.  It runs a     *)
(* reserved container, stops a running one whose start is refused, deletes *)
(* one that is completed or may not be claimed; when evacuating it deletes *)
(* the container, or keeps a running one under an evacuating record.  Or a *)
(* call fails and the container is left for the next operation.            *)
OperationExecutes(c) ==
    /\ c \in queue
    /\ queue' = queue \ {c}
    /\ \/ /\ mode = "ordinary" /\ cstate[c] = "reserved"
          /\ cstate' = [cstate EXCEPT ![c] = "starting"] /\ UNCHANGED <<evac, told>>
       \/ /\ mode = "ordinary" /\ cstate[c] = "running"
          /\ told' = told \cup {c} /\ UNCHANGED <<cstate, evac>>
       \/ /\ mode = "evacuating" /\ cstate[c] = "running"
          /\ evac' = evac \cup {c} /\ UNCHANGED <<cstate, told>>
       \/ /\ cstate[c] \in Exists /\ (mode = "evacuating" \/ cstate[c] # "running")
          /\ cstate' = [cstate EXCEPT ![c] = "gone"] /\ evac' = evac \ {c}
          /\ UNCHANGED told
       \/ UNCHANGED <<cstate, evac, told>>
    /\ UNCHANGED <<mode, raced>> /\ CellOnly

ContainerSteps(c) ==
    /\ \/ cstate[c] = "starting" /\ cstate' = [cstate EXCEPT ![c] = "running"]
       \/ cstate[c] \in Exists \ {"completed"} /\ cstate' = [cstate EXCEPT ![c] = "completed"]
    /\ UNCHANGED <<mode, raced, told, evac, queue>> /\ CellOnly

Cleanup ==
    \/ CleanupSignalled \/ CleanupFetches \/ CleanupRemoves \/ CleanupReturns
    \/ SignalRunningContainers \/ SignallerDone \/ CheckRunningContainers \/ CheckTicks

Next ==
    \/ GroupStops \/ ServersExit \/ PresenceExits
    \/ TimerFires \/ Bulker \/ ConsumerExits
    \/ EvacuatorNotified \/ AllContainersEvacuated \/ PollingIntervalOver \/ EvacuatorReturns
    \/ Cleanup
    \/ Evacuate
    \/ \E c \in Guid : \/ ConsumerPushes(c) \/ SignallerStops(c)
                       \/ PerformAdmits(c) \/ PerformAllocates(c)
                       \/ OperationExecutes(c) \/ ContainerSteps(c)

Spec == Init /\ [][Next]_vars

(* Timers fire; a select does not ignore the signal for ever (Go chooses   *)
(* among the ready cases at random); calls return, except for              *)
(* StopContainer, which may hang; members of the group that are told to    *)
(* stop do.  Nothing is assumed of containers and operations.              *)
Fairness ==
    /\ WF_vars(SomeExited /\ GroupStops)
    /\ WF_vars(group = "stopping" /\ ServersExit) /\ WF_vars(group = "stopping" /\ PresenceExits)
    /\ WF_vars(TimerFires) /\ WF_vars(BulkerSelects \/ BulkerSyncs \/ BulkerPushes)
    /\ SF_vars(BulkerSignalled) /\ SF_vars(SignalConsumer /\ ConsumerExits)
    /\ WF_vars(EvacuatorNotified) /\ WF_vars(EvacuatorReturns)
    /\ WF_vars(CleanupSignalled) /\ WF_vars(CleanupFetches) /\ WF_vars(CleanupRemoves)
    /\ WF_vars(CleanupReturns)

FairSpec == Spec /\ Fairness

-----------------------------------------------------------------------------
(* Every variable stays in its range. *)
TypeOK ==
    /\ group \in {"up", "stopping"}
    /\ mode \in {"ordinary", "evacuating"}
    /\ raced \subseteq Guid
    /\ cstate \in [Guid -> Exists \cup {"new", "admitted", "gone"}]
    /\ told \subseteq Guid /\ evac \subseteq Guid /\ queue \subseteq Guid
    /\ bulker \in {"select", "sync", "push", "exited"}
    /\ timer \in {"armed", "fired", "off"}
    /\ notify \in {"open", "nil"}
    /\ batch \subseteq Guid
    /\ consumer \in {"running", "exited"}
    /\ evacuator \in {"waiting", "evacuating", "complete", "timedOut", "signalled"}
    /\ poller \in {"off", "poll", "sleep", "done"}
    /\ cleanup \in {"waiting", "fetch", "remove", "stopping", "stopped", "gaveUp", "failed"}
    /\ stranded \subseteq Guid
    /\ signaller \in {"off", "list", "stop", "done"}
    /\ toStop \subseteq Guid
    /\ checker \in {"off", "wait", "check", "sleep", "done"}
    /\ missed \subseteq Guid
    /\ servers \in {"running", "exited"}
    /\ presence \in {"running", "exited"}
    /\ faults \in 0..MaxFaults

(* When the cleanup reports that the containers have stopped, every        *)
(* container whose process has been started has been told to stop, unless  *)
(* the executor failed the call: no operation left in the queue starts one *)
(* behind the back of signalRunningContainers.                             *)
NoneEscapesStop ==
    cleanup = "stopped" => \A c \in Guid : cstate[c] \in Started => c \in told \cup missed

(* When the evacuator says the evacuation is complete, the only containers *)
(* on the cell are of auction work that Perform had let in before the      *)
(* evacuation began and allocated late.                                    *)
EvacuationIsComplete ==
    evacuator = "complete" => \A c \in Guid : cstate[c] \in Exists => c \in raced

(* A rep that is being stopped exits, whichever calls fail and even if     *)
(* StopContainer hangs.                                                    *)
ShutdownEnds == group = "stopping" ~> AllExited

(* A rep that has been told to evacuate exits, even if containers stay. *)
EvacuationEnds == mode = "evacuating" ~> AllExited

(* The bulker keeps syncing until it is stopped: its timer, stopped and    *)
(* set again around the evacuation notice, never stays off.                *)
BulkerKeepsSyncing == []<>(bulker \in {"sync", "exited"})

(* The cleanup leaves no evacuating record of this cell behind if no call  *)
(* fails: cleanup_test.go:132 has it remove all of them.                   *)
NoEvacuatingLeft ==
    [][cleanup # "stopped" /\ cleanup' = "stopped" /\ faults = 0 => evac = {}]_vars
=============================================================================

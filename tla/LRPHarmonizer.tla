---------------------------- MODULE LRPHarmonizer ----------------------------
(***************************************************************************)
(* How one cell's rep keeps the containers of one LRP index and the BBS's  *)
(* record of that index in step, before and during evacuation.  The queue  *)
(* and its producers work as in TaskHarmonizer; here the operations are    *)
(* those of generator/internal/ordinary_lrp_processor.go,                  *)
(* generator/internal/evacuation_lrp_processor.go and the three residual   *)
(* LRP operations of generator/operation.go, one BBS or executor call per  *)
(* step.  Each auction of the index to this cell makes a container with a  *)
(* fresh instance guid.  Executor, BBS and queue are external.             *)
(***************************************************************************)
EXTENDS Naturals

CONSTANTS
    Local,         \* instance guids generated on this cell
    Remote,        \* instance guids generated on other cells
    None,          \* no instance
    LookupFaults,  \* may the executor's GetContainer fail for a container it has?
    MaxFaults,     \* bound: failing or unanswered calls and lost presences
    MaxCrashes,    \* bound: rep crashes
    MaxEvents      \* bound: lifecycle events waiting for one guid

Inst == Local \cup Remote

ASSUME LRPAssumption ==
    /\ Local \cap Remote = {}
    /\ None \notin Inst
    /\ LookupFaults \in BOOLEAN
    /\ MaxFaults \in Nat
    /\ MaxCrashes \in Nat
    /\ MaxEvents \in Nat

VARIABLES
    lstate, holder,      \* the BBS's instance record and who holds it
    evac,                \* who holds the BBS's evacuating record
    cstate,              \* executor containers
    stopped,             \* containers asked to stop: their RunResult.Stopped
    mode,                \* evacuation context: "ordinary" or "evacuating"
    events, pending, pc, \* per guid: waiting events, queue slot, executing operation
    bulkPc, listed, found, foundEvac, todo,   \* the bulker
    stops,               \* StopLRPInstance requests on their way to the rep
    ran,                 \* history: containers that have been running
    faults, crashes      \* spent bounds

bbsVars   == <<lstate, holder, evac>>
ctrVars   == <<cstate, stopped, ran>>
bulkVars  == <<bulkPc, listed, found, foundEvac, todo>>
boundVars == <<faults, crashes>>
vars      == <<lstate, holder, evac, cstate, stopped, mode, events, pending, pc,
               bulkPc, listed, found, foundEvac, todo, stops, ran, faults, crashes>>

LRPStates == {"absent", "Unclaimed", "Claimed", "Running", "Crashed"}
Starting  == {"reserved", "initializing", "created"}
Exists    == Starting \cup {"running", "completed"}
CtrStates == Exists \cup {"new", "admitted", "gone"}
Residuals == {"instance", "evacuating", "joint"}
Ops       == {"none", "container"} \cup Residuals
PCs       == {"idle", "get",
              "claimRun", "claim", "desired", "run", "undo", "removeRun", "reject",
              "start", "stop", "remove", "crash", "delete",
              "evClaimed", "evRunning", "evStopped", "evCrashed",
              "instance", "evacuating", "joint", "resRemove", "resJoint", "resEvac"}

Init ==
    /\ lstate = "Unclaimed" /\ holder = None /\ evac = None
    /\ cstate = [i \in Local |-> "new"]
    /\ stopped = {} /\ ran = {} /\ stops = {}
    /\ mode = "ordinary"
    /\ events = [i \in Local |-> 0]
    /\ pending = [i \in Local |-> "none"]
    /\ pc = [i \in Local |-> "idle"]
    /\ bulkPc = "idle" /\ listed = {} /\ found = {} /\ foundEvac = {}
    /\ todo = [i \in Local |-> "none"]
    /\ faults = 0 /\ crashes = 0

Goto(i, l) == pc' = [pc EXCEPT ![i] = l]

(* One call fails or is never answered. *)
Fault ==
    /\ faults < MaxFaults
    /\ faults' = faults + 1
    /\ UNCHANGED crashes

NoFault == UNCHANGED boundVars

(* The executor announces a change of i's container, or does not. *)
MayEmit(i) ==
    \/ events[i] < MaxEvents /\ events' = [events EXCEPT ![i] = @ + 1]
    \/ UNCHANGED events

-----------------------------------------------------------------------------
(* The BBS's side of the calls.                                            *)

Holds(i) == lstate \in {"Claimed", "Running"} /\ holder = i

Record(s, h) == lstate' = s /\ holder' = h

DropEvacuating(i) == evac' = IF evac = i THEN None ELSE evac

ApplyClaim(i) == Record("Claimed", i) /\ UNCHANGED evac

ApplyStart(i) == Record("Running", i) /\ UNCHANGED evac

ApplyRemove(i) ==
    /\ IF Holds(i) THEN Record("absent", None) ELSE UNCHANGED <<lstate, holder>>
    /\ UNCHANGED evac

ApplyRemoveEvacuating(i) == DropEvacuating(i) /\ UNCHANGED <<lstate, holder>>

(* A crashed instance is restarted at once or after a back-off. *)
CrashRecord(i) ==
    IF Holds(i) THEN \E s \in {"Unclaimed", "Crashed"} : Record(s, None)
                ELSE UNCHANGED <<lstate, holder>>

ApplyCrash(i) == CrashRecord(i) /\ UNCHANGED evac

ApplyEvacuateClaimed(i) ==
    /\ DropEvacuating(i)
    /\ IF lstate = "Claimed" /\ holder = i THEN Record("Unclaimed", None)
                                           ELSE UNCHANGED <<lstate, holder>>

ApplyEvacuateStopped(i) ==
    /\ DropEvacuating(i)
    /\ IF Holds(i) THEN Record("absent", None) ELSE UNCHANGED <<lstate, holder>>

ApplyEvacuateCrashed(i) == DropEvacuating(i) /\ CrashRecord(i)

(* EvacuateRunning while i's record is still needed: the evacuating record *)
(* is i's and the index is up for auction, or already claimed elsewhere.   *)
KeepRunning(i) ==
    \/ /\ Holds(i)
       /\ Record("Unclaimed", None) /\ evac' = i
    \/ /\ lstate = "Unclaimed" \/ (lstate = "Claimed" /\ holder # i)
       /\ evac \in {i, None}
       /\ evac' = i /\ UNCHANGED <<lstate, holder>>

(* EvacuateRunning when i is not needed any more: replaced, crashed,       *)
(* retired, not placeable, or another instance is the evacuating one.      *)
DiscardRunning(i) ==
    /\ ~Holds(i)
    /\ \/ lstate \in {"absent", "Crashed", "Running", "Unclaimed"}
       \/ evac \notin {i, None}
    /\ DropEvacuating(i) /\ UNCHANGED <<lstate, holder>>

-----------------------------------------------------------------------------
(* The operation executing for guid i, one call per step.                  *)

(* The queue's worker takes the pending operation of an idle guid. *)
Execute(i) ==
    /\ pc[i] = "idle"
    /\ pending[i] # "none"
    /\ Goto(i, IF pending[i] = "container" THEN "get" ELSE pending[i])
    /\ pending' = [pending EXCEPT ![i] = "none"]
    /\ UNCHANGED <<bbsVars, ctrVars, mode, events, bulkVars, stops, boundVars>>

(* Faulty: start the record of a container that is only created. *)
OrdinaryProcessStartsEarly(i) ==
    CASE cstate[i] = "reserved" -> "claimRun"
      [] cstate[i] = "initializing" -> "claim"
      [] cstate[i] \in {"created", "running"} -> "start"
      [] cstate[i] = "completed" -> IF i \in stopped THEN "remove" ELSE "crash"

(* Faulty: a running container is only claimed. *)
OrdinaryProcessOnlyClaims(i) ==
    CASE cstate[i] = "reserved" -> "claimRun"
      [] cstate[i] \in {"initializing", "created", "running"} -> "claim"
      [] cstate[i] = "completed" -> IF i \in stopped THEN "remove" ELSE "crash"

(* Which call comes first for a container, by its state: the ordinary      *)
(* processor's.                                                            *)
OrdinaryProcess(i) ==
    CASE cstate[i] = "reserved" -> "claimRun"
      [] cstate[i] \in {"initializing", "created"} -> "claim"
      [] cstate[i] = "running" -> "start"
      [] cstate[i] = "completed" -> IF i \in stopped THEN "remove" ELSE "crash"

(* Faulty: a running container is given up like a starting one. *)
EvacuationProcessUnclaimsRunning(i) ==
    IF cstate[i] = "completed" THEN IF i \in stopped THEN "evStopped" ELSE "evCrashed"
                               ELSE "evClaimed"

(* Faulty: containers that are not running yet are left alone. *)
EvacuationProcessSkipsStarting(i) ==
    CASE cstate[i] \in Starting -> "idle"
      [] cstate[i] = "running" -> "evRunning"
      [] cstate[i] = "completed" -> IF i \in stopped THEN "evStopped" ELSE "evCrashed"

(* The same for the evacuation processor. *)
EvacuationProcess(i) ==
    CASE cstate[i] \in Starting -> "evClaimed"
      [] cstate[i] = "running" -> "evRunning"
      [] cstate[i] = "completed" -> IF i \in stopped THEN "evStopped" ELSE "evCrashed"

(* ContainerOperation.Execute and lrpProcessor.Process: the container is   *)
(* looked up and the mode checked once; the rest acts on these copies.     *)
GetContainer(i) ==
    /\ pc[i] = "get"
    /\ \/ /\ cstate[i] \notin Exists
          /\ Goto(i, "idle") /\ NoFault
       \/ /\ cstate[i] \in Exists
          /\ Goto(i, IF mode = "evacuating" THEN EvacuationProcess(i) ELSE OrdinaryProcess(i))
          /\ NoFault
       \/ /\ LookupFaults /\ cstate[i] \in Exists
          /\ Goto(i, "idle") /\ Fault
    /\ UNCHANGED <<bbsVars, ctrVars, mode, events, pending, bulkVars, stops>>

(* claimLRPContainer, for a reserved container and for a later one. *)
ClaimActualLRP(i) ==
    /\ pc[i] \in {"claimRun", "claim"}
    /\ \/ /\ lstate = "Unclaimed" \/ Holds(i)
          /\ ApplyClaim(i) /\ NoFault
          /\ Goto(i, IF pc[i] = "claimRun" THEN "desired" ELSE "idle")
       \/ /\ lstate # "Unclaimed" /\ ~Holds(i)
          /\ Goto(i, IF lstate = "absent" THEN "idle" ELSE "reject")
          /\ NoFault /\ UNCHANGED bbsVars
       \/ /\ Fault /\ Goto(i, "idle")
          /\ \/ (lstate = "Unclaimed" \/ Holds(i)) /\ ApplyClaim(i)
             \/ UNCHANGED bbsVars
    /\ UNCHANGED <<ctrVars, mode, events, pending, bulkVars, stops>>

(* DesiredLRPByProcessGuid and the conversion to a run request: the        *)
(* desired LRP may be gone, the call or the conversion may fail.           *)
DesiredLRPByProcessGuid(i) ==
    /\ pc[i] = "desired"
    /\ Goto(i, "run") \/ Goto(i, "idle")
    /\ UNCHANGED <<bbsVars, ctrVars, mode, events, pending, bulkVars, stops, boundVars>>

(* RunContainer: the executor accepts it for a reserved container only. *)
RunContainer(i) ==
    /\ pc[i] = "run"
    /\ \/ /\ cstate[i] = "reserved"
          /\ cstate' = [cstate EXCEPT ![i] = "initializing"]
          /\ Goto(i, "idle") /\ NoFault
       \/ /\ cstate[i] # "reserved"
          /\ Goto(i, "undo") /\ NoFault /\ UNCHANGED cstate
       \/ /\ cstate[i] = "reserved"
          /\ Goto(i, "undo") /\ Fault /\ UNCHANGED cstate
    /\ UNCHANGED <<bbsVars, stopped, ran, mode, events, pending, bulkVars, stops>>

Delete(i) ==
    /\ cstate' = [cstate EXCEPT ![i] = "gone"]
    /\ stopped' = stopped \ {i}

(* DeleteContainer: claim refused, run failed (the record is removed next), *)
(* or the processor is done with the container.                            *)
DeleteContainer(i) ==
    /\ pc[i] \in {"reject", "undo", "delete"}
    /\ Goto(i, IF pc[i] = "undo" THEN "removeRun" ELSE "idle")
    /\ \/ Delete(i) /\ NoFault
       \/ cstate[i] # "gone" /\ Fault /\ UNCHANGED <<cstate, stopped>>
    /\ UNCHANGED <<bbsVars, ran, mode, events, pending, bulkVars, stops>>

(* Faulty: ignore that the instance cannot be started. *)
StartActualLRPIgnoresRefusal(i) ==
    /\ pc[i] = "start" /\ Goto(i, "idle") /\ NoFault
    /\ IF lstate \in {"absent", "Unclaimed", "Claimed"} \/ Holds(i)
       THEN ApplyStart(i) ELSE UNCHANGED bbsVars
    /\ UNCHANGED <<ctrVars, mode, events, pending, bulkVars, stops>>

(* StartActualLRP for a running container.  Only CannotBeStarted makes the *)
(* processor act; net info that cannot be extracted counts as a lost call. *)
StartActualLRP(i) ==
    /\ pc[i] = "start"
    /\ LET startable == lstate \in {"absent", "Unclaimed", "Claimed"} \/ Holds(i) IN
       \/ /\ startable
          /\ ApplyStart(i) /\ Goto(i, "idle") /\ NoFault
       \/ /\ ~startable
          /\ Goto(i, "stop") /\ NoFault /\ UNCHANGED bbsVars
       \/ /\ Fault /\ Goto(i, "idle")
          /\ (startable /\ ApplyStart(i)) \/ UNCHANGED bbsVars
    /\ UNCHANGED <<ctrVars, mode, events, pending, bulkVars, stops>>

(* The executor's StopContainer: a reservation completes at once, anything *)
(* else is told to stop and completes later.                               *)
Stop(i) ==
    /\ stopped' = IF cstate[i] \in Starting \cup {"running"} THEN stopped \cup {i} ELSE stopped
    /\ cstate' = IF cstate[i] = "reserved" THEN [cstate EXCEPT ![i] = "completed"] ELSE cstate

StopContainer(i) ==
    /\ pc[i] = "stop"
    /\ Goto(i, "idle")
    /\ \/ Stop(i) /\ NoFault
       \/ Fault /\ UNCHANGED <<cstate, stopped>>
    /\ UNCHANGED <<bbsVars, ran, mode, events, pending, bulkVars, stops>>

(* A BBS call whose answer the operation ignores: an unanswered request    *)
(* may or may not have been applied.                                       *)
Call(i, at, next, Applied) ==
    /\ pc[i] = at
    /\ Goto(i, next)
    /\ \/ Applied /\ NoFault
       \/ Fault /\ (Applied \/ UNCHANGED bbsVars)
    /\ UNCHANGED <<ctrVars, mode, events, pending, bulkVars, stops>>

(* After a failed run, for a stopped container, and the residual ones. *)
RemoveActualLRP(i) ==
    \/ Call(i, "removeRun", "idle", ApplyRemove(i))
    \/ Call(i, "remove", "delete", ApplyRemove(i))
    \/ Call(i, "resRemove", "idle", ApplyRemove(i))
    \/ Call(i, "resJoint", "resEvac", ApplyRemove(i))

CrashActualLRP(i) == Call(i, "crash", "delete", ApplyCrash(i))

RemoveEvacuatingActualLRP(i) == Call(i, "resEvac", "idle", ApplyRemoveEvacuating(i))

EvacuateClaimedActualLRP(i) == Call(i, "evClaimed", "delete", ApplyEvacuateClaimed(i))

EvacuateStoppedActualLRP(i) == Call(i, "evStopped", "delete", ApplyEvacuateStopped(i))

EvacuateCrashedActualLRP(i) == Call(i, "evCrashed", "delete", ApplyEvacuateCrashed(i))

(* EvacuateRunningActualLRP.  A call that fails reports "keep"; it may have *)
(* been applied, or only the evacuating record may have been written.       *)
EvacuateRunningActualLRP(i) ==
    /\ pc[i] = "evRunning"
    /\ \/ KeepRunning(i) /\ Goto(i, "idle") /\ NoFault
       \/ DiscardRunning(i) /\ Goto(i, "delete") /\ NoFault
       \/ /\ Fault /\ Goto(i, "idle")
          /\ \/ KeepRunning(i)
             \/ DiscardRunning(i)
             \/ Holds(i) /\ evac' = i /\ UNCHANGED <<lstate, holder>>
             \/ UNCHANGED bbsVars
    /\ UNCHANGED <<ctrVars, mode, events, pending, bulkVars, stops>>

(* Which record a residual operation removes first. *)
ResidualProcess(op) ==
    CASE op = "instance" -> "resRemove"
      [] op = "evacuating" -> "resEvac"
      [] op = "joint" -> "resJoint"

(* Faulty: believe the batch and do not look the container up again. *)
ResidualTrustsBatch(i) ==
    /\ pc[i] \in Residuals
    /\ Goto(i, ResidualProcess(pc[i])) /\ NoFault
    /\ UNCHANGED <<bbsVars, ctrVars, mode, events, pending, bulkVars, stops>>

(* The residual operations look the container up again before they act;    *)
(* any lookup error counts as "no container".                              *)
ResidualGetContainer(i) ==
    /\ pc[i] \in Residuals
    /\ \/ /\ Goto(i, IF cstate[i] \in Exists THEN "idle" ELSE ResidualProcess(pc[i]))
          /\ NoFault
       \/ /\ LookupFaults /\ cstate[i] \in Exists
          /\ Goto(i, ResidualProcess(pc[i])) /\ Fault
    /\ UNCHANGED <<bbsVars, ctrVars, mode, events, pending, bulkVars, stops>>

OperationStep(i) ==
    \/ GetContainer(i)
    \/ ClaimActualLRP(i)
    \/ DesiredLRPByProcessGuid(i)
    \/ RunContainer(i)
    \/ DeleteContainer(i)
    \/ StartActualLRP(i)
    \/ StopContainer(i)
    \/ RemoveActualLRP(i)
    \/ CrashActualLRP(i)
    \/ RemoveEvacuatingActualLRP(i)
    \/ EvacuateClaimedActualLRP(i)
    \/ EvacuateStoppedActualLRP(i)
    \/ EvacuateCrashedActualLRP(i)
    \/ EvacuateRunningActualLRP(i)
    \/ ResidualGetContainer(i)

-----------------------------------------------------------------------------
(* The two producers.  A push replaces whatever the guid's slot holds.     *)

Push(i, op) == pending' = [pending EXCEPT ![i] = op]

(* EventConsumer.Run: a lifecycle event becomes a container operation. *)
ConsumeEvent(i) ==
    /\ events[i] > 0
    /\ events' = [events EXCEPT ![i] = @ - 1]
    /\ Push(i, "container")
    /\ UNCHANGED <<bbsVars, ctrVars, mode, pc, bulkVars, stops, boundVars>>

(* Faulty: no operation for a record that is only evacuating. *)
BatchSkipsEvacuating(cs, inst, ev) ==
    [i \in Local |-> CASE i \in cs -> "container"
                       [] i \in (inst \cap ev) \ cs -> "joint"
                       [] i \in inst \ (ev \cup cs) -> "instance"
                       [] OTHER -> "none"]

(* BatchOperations: what to do about guid i, from the snapshots. *)
BatchOperations(cs, inst, ev) ==
    [i \in Local |-> CASE i \in cs -> "container"
                       [] i \in (inst \cap ev) \ cs -> "joint"
                       [] i \in inst \ (ev \cup cs) -> "instance"
                       [] i \in ev \ (inst \cup cs) -> "evacuating"
                       [] OTHER -> "none"]

(* Containers and records are fetched concurrently: either may be older. *)
ListContainers ==
    /\ LET now == {i \in Local : cstate[i] \in Exists} IN
       \/ /\ bulkPc = "idle"
          /\ bulkPc' = "listed" /\ listed' = now
          /\ UNCHANGED <<found, foundEvac, todo>>
       \/ /\ bulkPc = "found"
          /\ bulkPc' = "push" /\ todo' = BatchOperations(now, found, foundEvac)
          /\ found' = {} /\ foundEvac' = {} /\ UNCHANGED listed
    /\ UNCHANGED <<bbsVars, ctrVars, mode, events, pending, pc, stops, boundVars>>

ActualLRPGroups ==
    /\ LET inst == {i \in Local : holder = i}
           ev == {i \in Local : evac = i} IN
       \/ /\ bulkPc = "idle"
          /\ bulkPc' = "found" /\ found' = inst /\ foundEvac' = ev
          /\ UNCHANGED <<listed, todo>>
       \/ /\ bulkPc = "listed"
          /\ bulkPc' = "push" /\ todo' = BatchOperations(listed, inst, ev)
          /\ listed' = {} /\ UNCHANGED <<found, foundEvac>>
    /\ UNCHANGED <<bbsVars, ctrVars, mode, events, pending, pc, stops, boundVars>>

(* Any of the fetches fails (the fetch of the tasks too): no batch. *)
BatchFails ==
    /\ bulkPc \in {"listed", "found"}
    /\ Fault
    /\ bulkPc' = "idle" /\ listed' = {} /\ found' = {} /\ foundEvac' = {}
    /\ UNCHANGED <<bbsVars, ctrVars, mode, events, pending, pc, todo, stops>>

(* Bulker.sync pushes the batch one operation at a time, in no fixed order. *)
BulkPush(i) ==
    /\ bulkPc = "push"
    /\ todo[i] # "none"
    /\ Push(i, todo[i])
    /\ todo' = [todo EXCEPT ![i] = "none"]
    /\ UNCHANGED <<bbsVars, ctrVars, mode, events, pc, bulkPc, listed, found,
                   foundEvac, stops, boundVars>>

BulkDone ==
    /\ bulkPc = "push"
    /\ \A i \in Local : todo[i] = "none"
    /\ bulkPc' = "idle"
    /\ UNCHANGED <<bbsVars, ctrVars, mode, events, pending, pc, listed, found,
                   foundEvac, todo, stops, boundVars>>

-----------------------------------------------------------------------------
(* The cell's HTTP handlers.                                               *)

(* AuctionCellRep.Perform, first half: work is refused while evacuating. *)
PerformAdmits(i) ==
    /\ cstate[i] = "new"
    /\ mode = "ordinary"
    /\ cstate' = [cstate EXCEPT ![i] = "admitted"]
    /\ UNCHANGED <<bbsVars, stopped, ran, mode, events, pending, pc, bulkVars,
                   stops, boundVars>>

(* Second half: the container is allocated, or the work reported failed.   *)
(* The mode is not looked at again.                                        *)
PerformAllocates(i) ==
    /\ cstate[i] = "admitted"
    /\ \/ cstate' = [cstate EXCEPT ![i] = "reserved"] /\ MayEmit(i)
       \/ cstate' = [cstate EXCEPT ![i] = "gone"] /\ UNCHANGED events
    /\ UNCHANGED <<bbsVars, stopped, ran, mode, pending, pc, bulkVars, stops, boundVars>>

(* EvacuationHandler: the mode switches once, for good. *)
Evacuate ==
    /\ mode = "ordinary"
    /\ mode' = "evacuating"
    /\ UNCHANGED <<bbsVars, ctrVars, events, pending, pc, bulkVars, stops, boundVars>>

(* StopLRPInstanceHandler stops the container outside the queue. *)
StopLRPInstance(i) ==
    /\ i \in stops
    /\ stops' = stops \ {i}
    /\ \/ Stop(i) /\ NoFault
       \/ Fault /\ UNCHANGED <<cstate, stopped>>
    /\ UNCHANGED <<bbsVars, ran, mode, events, pending, pc, bulkVars>>

-----------------------------------------------------------------------------
(* The executor moves containers on; it may announce a change or not.      *)

ContainerStep(i, from, to) ==
    /\ cstate[i] \in from
    /\ cstate' = [cstate EXCEPT ![i] = to]
    /\ ran' = IF to = "running" THEN ran \cup {i} ELSE ran
    /\ MayEmit(i)
    /\ UNCHANGED <<bbsVars, stopped, mode, pending, pc, bulkVars, stops, boundVars>>

ContainerAdvances(i) ==
    \/ ContainerStep(i, {"initializing"}, "created")
    \/ ContainerStep(i, {"created"}, "running")

ContainerFinishes(i) == ContainerStep(i, Exists \ {"reserved", "completed"}, "completed")

(* A reservation nobody runs expires (reserved_expiration_time). *)
ReservationExpires(i) == ContainerStep(i, {"reserved"}, "completed")

(* The rep dies and comes back: its containers are destroyed on start-up, *)
(* its queue, batch, events and mode are lost, the BBS keeps its records.  *)
CrashAndRestart ==
    /\ crashes < MaxCrashes
    /\ crashes' = crashes + 1
    /\ cstate' = [i \in Local |-> IF cstate[i] = "new" THEN "new" ELSE "gone"]
    /\ stopped' = {}
    /\ mode' = "ordinary"
    /\ events' = [i \in Local |-> 0]
    /\ pending' = [i \in Local |-> "none"]
    /\ pc' = [i \in Local |-> "idle"]
    /\ bulkPc' = "idle" /\ listed' = {} /\ found' = {} /\ foundEvac' = {}
    /\ todo' = [i \in Local |-> "none"]
    /\ UNCHANGED <<bbsVars, stops, ran, faults>>

-----------------------------------------------------------------------------
(* The rest of the cluster, acting on the BBS's records.                   *)

clusterUnchanged == <<ctrVars, mode, events, pending, pc, bulkVars>>

(* Another cell claims the index, or starts an instance of it. *)
RemoteClaims(j) ==
    /\ lstate = "Unclaimed"
    /\ ApplyClaim(j)
    /\ UNCHANGED <<clusterUnchanged, stops, boundVars>>

RemoteStarts(j) ==
    /\ lstate = "Claimed" /\ holder = j
    /\ ApplyStart(j)
    /\ UNCHANGED <<clusterUnchanged, stops, boundVars>>

(* An instance elsewhere crashes, or the BBS believes this cell is gone    *)
(* and puts its instance up for auction again.                             *)
InstanceLost ==
    /\ holder # None
    /\ CrashRecord(holder) /\ UNCHANGED evac
    /\ Fault
    /\ UNCHANGED <<clusterUnchanged, stops>>

(* The back-off of a crashed instance is over. *)
CrashRestarts ==
    /\ lstate = "Crashed"
    /\ Record("Unclaimed", None) /\ UNCHANGED evac
    /\ UNCHANGED <<clusterUnchanged, stops, boundVars>>

(* The index is retired: a record nobody holds is removed, and the cell    *)
(* that holds it is asked to stop the instance, a request that may be lost. *)
Retire ==
    /\ \/ /\ lstate \in {"Unclaimed", "Crashed"}
          /\ Record("absent", None) /\ UNCHANGED <<evac, stops>>
       \/ /\ holder \in Local
          /\ stops' = stops \cup {holder} /\ UNCHANGED bbsVars
    /\ UNCHANGED <<clusterUnchanged, boundVars>>

(* The evacuating record outlives its time to live. *)
EvacuatingExpires ==
    /\ evac # None
    /\ evac' = None
    /\ UNCHANGED <<lstate, holder, clusterUnchanged, stops, boundVars>>

InstanceStep(i) ==
    \/ Execute(i)
    \/ OperationStep(i)
    \/ ConsumeEvent(i)
    \/ BulkPush(i)
    \/ PerformAdmits(i)
    \/ PerformAllocates(i)
    \/ StopLRPInstance(i)
    \/ ContainerAdvances(i)
    \/ ContainerFinishes(i)
    \/ ReservationExpires(i)

Next ==
    \/ \E i \in Local : InstanceStep(i)
    \/ \E j \in Remote : RemoteClaims(j) \/ RemoteStarts(j)
    \/ ListContainers
    \/ ActualLRPGroups
    \/ BatchFails
    \/ BulkDone
    \/ Evacuate
    \/ CrashAndRestart
    \/ InstanceLost
    \/ CrashRestarts
    \/ Retire
    \/ EvacuatingExpires

Spec == Init /\ [][Next]_vars

(* The rep's goroutines run and every call they make returns; the bulker's *)
(* timer keeps firing; the executor expires reservations and completes     *)
(* containers it was told to stop; some other cell has room for the index. *)
(* Nothing is assumed of lifecycle events, requests or running containers. *)
Fairness ==
    /\ \A i \in Local : /\ WF_vars(Execute(i))
                        /\ WF_vars(OperationStep(i))
                        /\ WF_vars(BulkPush(i))
                        /\ WF_vars(ReservationExpires(i))
                        /\ WF_vars(i \in stopped /\ ContainerFinishes(i))
    /\ WF_vars(ListContainers \/ ActualLRPGroups)
    /\ WF_vars(BulkDone)
    /\ WF_vars(\E j \in Remote : RemoteClaims(j) \/ RemoteStarts(j))

FairSpec == Spec /\ Fairness

-----------------------------------------------------------------------------
(* Every variable stays in its range. *)
TypeOK ==
    /\ lstate \in LRPStates
    /\ holder \in Inst \cup {None}
    /\ evac \in Inst \cup {None}
    /\ cstate \in [Local -> CtrStates]
    /\ stopped \subseteq Local
    /\ ran \subseteq Local
    /\ stops \subseteq Local
    /\ mode \in {"ordinary", "evacuating"}
    /\ events \in [Local -> 0..MaxEvents]
    /\ pending \in [Local -> Ops]
    /\ pc \in [Local -> PCs]
    /\ bulkPc \in {"idle", "listed", "found", "push"}
    /\ listed \subseteq Local
    /\ found \subseteq Local
    /\ foundEvac \subseteq Local
    /\ todo \in [Local -> Ops]
    /\ faults \in 0..MaxFaults
    /\ crashes \in 0..MaxCrashes

(* The BBS shows an instance of this cell as Running, or as evacuating,    *)
(* only if its container has really been running: StartActualLRP and       *)
(* EvacuateRunningActualLRP act on a copy of the container's state.        *)
RunningIsReal ==
    /\ lstate = "Running" /\ holder \in Local => holder \in ran
    /\ evac \in Local => evac \in ran

(* Does the BBS send traffic to instance i? *)
Routable(i) == (lstate = "Running" /\ holder = i) \/ evac = i

(* The rep never deletes a running container the BBS still routes to, in   *)
(* either mode: not on a refused claim, not when it evacuates a starting   *)
(* container that came up meanwhile, not when EvacuateRunning is lost.     *)
RoutableKept ==
    [][\A i \in Local :
          (cstate[i] = "running" /\ cstate'[i] = "gone" /\ crashes' = crashes)
          => ~Routable(i)]_vars

(* A residual operation changes the BBS's records only for an instance     *)
(* whose container is gone, however stale the batch it comes from.         *)
ResidualOnlyIfGone ==
    [][\A i \in Local :
          (/\ pc[i] \in {"resRemove", "resJoint", "resEvac"} /\ pc'[i] # pc[i]
           /\ bbsVars' # bbsVars)
          => cstate[i] = "gone"]_vars

(* The cell as the routers see it: the containers' states folded into five *)
(* phases and the BBS's two records into the set of routed instances.      *)
PhaseOf(i) ==
    CASE cstate[i] \in {"new", "admitted"} \cup Starting -> "waiting"
      [] cstate[i] = "running" -> "up"
      [] cstate[i] = "completed" /\ i \in ran -> "ended"
      [] cstate[i] = "gone" /\ i \in ran -> "removed"
      [] OTHER -> "never"

Contract == INSTANCE LRPContract WITH
                phase  <- [i \in Local |-> PhaseOf(i)],
                routed <- {i \in Local : Routable(i)}

(* Seen that way the cell implements its contract: it is routed to real    *)
(* instances only, no instance comes up twice, and the rep takes none away *)
(* that is up and routed to, in either mode and whatever call is lost.     *)
KeepsLRPContract == Contract!Spec

(* No record keeps naming an instance whose container is gone (a crash, a  *)
(* lost call, a deleted container): the residual operations reap it.       *)
RecordsReaped ==
    \A i \in Local : /\ (holder = i /\ cstate[i] = "gone") ~> holder # i
                     /\ (evac = i /\ cstate[i] = "gone") ~> evac # i

(* An evacuating cell gets rid of all its containers, also of one that was *)
(* admitted or run by an operation that began before the evacuation.       *)
EvacuationDrains ==
    mode = "evacuating" ~> (mode = "ordinary" \/ \A i \in Local : cstate[i] \notin Exists)

(* A container that keeps running although the index runs elsewhere is     *)
(* stopped or deleted.                                                     *)
DuplicateGoes ==
    \A i \in Local :
        (cstate[i] = "running" /\ lstate = "Running" /\ holder # i)
        ~> (cstate[i] # "running" \/ lstate # "Running" \/ holder = i)

(* An instance that came up is routed to or does not stay: although the    *)
(* event that announced it may be lost, its start unanswered, its          *)
(* container looked up in vain (container_delegate.go:41) and its record   *)
(* removed by a residual operation for that reason, it is recorded again.  *)
RunningRecorded ==
    \A i \in Local : cstate[i] = "running" ~> (Routable(i) \/ cstate[i] # "running")
=============================================================================

--------------------------- MODULE TaskHarmonizer ---------------------------
(***************************************************************************)
(* How one cell's rep keeps its task containers and the BBS's task records *)
(* in step.  Two producers feed a queue with one slot per guid: the event  *)
(* consumer (harmonizer/event_consumer.go) and the bulker                  *)
(* (harmonizer/bulker.go), which diffs snapshots taken at different times  *)
(* (generator/generator.go).  The queue runs at most one operation per     *)
(* guid, and each call an operation makes to the executor or to the BBS is *)
(* a step of its own, so everything else in the system may move between    *)
(* two calls of one operation (generator/operation.go,                     *)
(* generator/internal/task_processor.go).                                  *)
(*                                                                         *)
(* The executor, the BBS and the queue are libraries outside this          *)
(* repository: they are modelled from the answers the rep distinguishes.   *)
(***************************************************************************)
EXTENDS Naturals

CONSTANTS
    Task,          \* task guids; a task's container has the task's guid
    ResultTasks,   \* tasks whose definition names a result file
    LookupFaults,  \* may the executor's GetContainer fail for a container it has?
    MaxFaults,     \* bound: failing or unanswered calls in one behaviour
    MaxCrashes,    \* bound: rep crashes in one behaviour
    MaxPerforms,   \* bound: auction deliveries of one task to this cell
    MaxEvents      \* bound: lifecycle events waiting for one guid

ASSUME TaskAssumption ==
    /\ ResultTasks \subseteq Task
    /\ LookupFaults \in BOOLEAN
    /\ MaxFaults \in Nat
    /\ MaxCrashes \in Nat
    /\ MaxPerforms \in Nat
    /\ MaxEvents \in Nat

VARIABLES
    tstate, tcell, outcome,     \* BBS task records
    cstate, cresult,            \* executor containers: state and RunResult
    events,                     \* lifecycle events not yet consumed, per guid
    pending,                    \* the queue's slot per guid
    pc, snap,                   \* the operation executing per guid, its copy of the RunResult
    bulkPc, listed, found, todo,\* the bulker: snapshots, operations still to push
    cancels,                    \* CancelTask requests on their way to the rep
    runs, succeeded,            \* history: RunContainer successes, actions that succeeded
    faults, crashes, performs   \* spent bounds

bbsVars    == <<tstate, tcell, outcome>>
ctrVars    == <<cstate, cresult>>
execVars   == <<pc, snap>>
bulkVars   == <<bulkPc, listed, found, todo>>
histVars   == <<runs, succeeded>>
boundVars  == <<faults, crashes, performs>>
vars       == <<tstate, tcell, outcome, cstate, cresult, events, pending, pc,
                snap, bulkPc, listed, found, todo, cancels, runs,
                succeeded, faults, crashes, performs>>

TaskStates == {"Pending", "Running", "Completed", "Resolved"}
Cells      == {"none", "self", "other"}
Outcomes   == {"none", "success", "failure"}
Ended      == {"Completed", "Resolved"}
Executing  == {"initializing", "created", "running"}
CtrStates  == {"absent", "reserved", "completed"} \cup Executing
Ops        == {"none", "container", "residual"}
PCs        == {"idle", "get", "start", "reject", "fetch", "run", "undo",
               "failRun", "result", "complete", "failDone", "delete",
               "resGet", "resFail"}

(* A task is desired before anything else happens to it; the cell is empty. *)
Init ==
    /\ tstate = [t \in Task |-> "Pending"]
    /\ tcell = [t \in Task |-> "none"]
    /\ outcome = [t \in Task |-> "none"]
    /\ cstate = [t \in Task |-> "absent"]
    /\ cresult = [t \in Task |-> "none"]
    /\ events = [t \in Task |-> 0]
    /\ pending = [t \in Task |-> "none"]
    /\ pc = [t \in Task |-> "idle"]
    /\ snap = [t \in Task |-> "none"]
    /\ bulkPc = "idle"
    /\ listed = {}
    /\ found = {}
    /\ todo = [t \in Task |-> "none"]
    /\ cancels = {}
    /\ runs = [t \in Task |-> 0]
    /\ succeeded = {}
    /\ faults = 0
    /\ crashes = 0
    /\ performs = [t \in Task |-> 0]

Goto(t, l) == pc' = [pc EXCEPT ![t] = l]

(* One call fails or is never answered. *)
Fault ==
    /\ faults < MaxFaults
    /\ faults' = faults + 1
    /\ UNCHANGED <<crashes, performs>>

NoFault == UNCHANGED boundVars

(* The executor announces a change of t's container, or does not. *)
MayEmit(t) ==
    \/ events[t] < MaxEvents /\ events' = [events EXCEPT ![t] = @ + 1]
    \/ UNCHANGED events

-----------------------------------------------------------------------------
(* The BBS's side of a call: what the record becomes.                      *)

(* A task's record becomes Completed with outcome o. *)
EndTask(t, o) ==
    /\ tstate' = [tstate EXCEPT ![t] = "Completed"]
    /\ outcome' = [outcome EXCEPT ![t] = o]
    /\ UNCHANGED tcell

(* StartTask grants a pending task to the calling cell c. *)
GrantTask(t, c) ==
    /\ tstate' = [tstate EXCEPT ![t] = "Running"]
    /\ tcell' = [tcell EXCEPT ![t] = c]
    /\ UNCHANGED outcome

OwnTask(t) == tstate[t] = "Running" /\ tcell[t] = "self"

(* CompleteTask is accepted for a task running on the calling cell only. *)
ApplyComplete(t, result) ==
    IF OwnTask(t) THEN EndTask(t, result) ELSE UNCHANGED bbsVars

(* FailTask carries no cell id: it ends any task that has not ended. *)
ApplyFail(t) ==
    IF tstate[t] \in Ended THEN UNCHANGED bbsVars ELSE EndTask(t, "failure")

-----------------------------------------------------------------------------
(* The operation executing for guid t, one call per step.                  *)

(* The queue's worker takes the pending operation of an idle guid. *)
Execute(t) ==
    /\ pc[t] = "idle"
    /\ pending[t] # "none"
    /\ Goto(t, IF pending[t] = "container" THEN "get" ELSE "resGet")
    /\ pending' = [pending EXCEPT ![t] = "none"]
    /\ UNCHANGED <<bbsVars, ctrVars, events, snap, bulkVars, cancels,
                   histVars, boundVars>>

(* ContainerOperation.Execute: look the container up, dispatch on its state. *)
GetContainer(t) ==
    /\ pc[t] = "get"
    /\ \/ /\ cstate[t] = "absent"
          /\ Goto(t, "idle") /\ NoFault /\ UNCHANGED snap
       \/ /\ cstate[t] \in {"reserved"} \cup Executing
          /\ Goto(t, "start") /\ NoFault /\ UNCHANGED snap
       \/ /\ cstate[t] = "completed"
          /\ snap' = [snap EXCEPT ![t] = cresult[t]]
          /\ Goto(t, IF cresult[t] = "success" /\ t \in ResultTasks THEN "result" ELSE "complete")
          /\ NoFault
       \/ /\ LookupFaults /\ cstate[t] # "absent"
          /\ Fault /\ Goto(t, "idle") /\ UNCHANGED snap
    /\ UNCHANGED <<bbsVars, ctrVars, events, pending, bulkVars, cancels, histVars>>

(* Faulty: go on to run the task although StartTask changed nothing. *)
StartTaskIgnoresChanged(t) ==
    /\ pc[t] = "start"
    /\ \/ tstate[t] = "Pending" /\ GrantTask(t, "self")
       \/ OwnTask(t) /\ UNCHANGED bbsVars
    /\ Goto(t, "fetch") /\ NoFault
    /\ UNCHANGED <<ctrVars, events, pending, snap, bulkVars, cancels, histVars>>

(* Faulty: treat a task that is already ours like a refused one. *)
StartTaskRejectsOwn(t) ==
    /\ pc[t] = "start"
    /\ \/ tstate[t] = "Pending" /\ GrantTask(t, "self") /\ Goto(t, "fetch")
       \/ tstate[t] # "Pending" /\ UNCHANGED bbsVars /\ Goto(t, "reject")
    /\ NoFault
    /\ UNCHANGED <<ctrVars, events, pending, snap, bulkVars, cancels, histVars>>

(* Faulty: go on to run the task although StartTask was refused. *)
StartTaskIgnoresError(t) ==
    /\ pc[t] = "start"
    /\ \/ tstate[t] = "Pending" /\ GrantTask(t, "self") /\ Goto(t, "fetch")
       \/ OwnTask(t) /\ UNCHANGED bbsVars /\ Goto(t, "idle")
       \/ tstate[t] # "Pending" /\ ~OwnTask(t) /\ UNCHANGED bbsVars /\ Goto(t, "fetch")
    /\ NoFault
    /\ UNCHANGED <<ctrVars, events, pending, snap, bulkVars, cancels, histVars>>

(* startTask.  Granted, already ours, refused, or no usable answer: an     *)
(* unanswered request may or may not have been applied.                    *)
StartTask(t) ==
    /\ pc[t] = "start"
    /\ \/ /\ tstate[t] = "Pending"
          /\ GrantTask(t, "self") /\ Goto(t, "fetch") /\ NoFault
       \/ /\ OwnTask(t)
          /\ Goto(t, "idle") /\ NoFault /\ UNCHANGED bbsVars
       \/ /\ tstate[t] # "Pending" /\ ~OwnTask(t)
          /\ Goto(t, "reject") /\ NoFault /\ UNCHANGED bbsVars
       \/ /\ Fault /\ Goto(t, "idle")
          /\ \/ tstate[t] = "Pending" /\ GrantTask(t, "self")
             \/ UNCHANGED bbsVars
    /\ UNCHANGED <<ctrVars, events, pending, snap, bulkVars, cancels, histVars>>

(* processActiveContainer after a granted start: TaskByGuid, then the      *)
(* conversion to a run request.  Either may fail (no record, no answer, a  *)
(* definition NewRunRequestFromTask rejects), which just ends the          *)
(* operation: the record stays Running with nothing executing.             *)
TaskByGuid(t) ==
    /\ pc[t] = "fetch"
    /\ \/ tstate[t] # "Resolved" /\ Goto(t, "run")
       \/ Goto(t, "idle")
    /\ UNCHANGED <<bbsVars, ctrVars, events, pending, snap, bulkVars,
                   cancels, histVars, boundVars>>

(* RunContainer: the executor accepts it for a reserved container only. *)
RunContainer(t) ==
    /\ pc[t] = "run"
    /\ \/ /\ cstate[t] = "reserved"
          /\ cstate' = [cstate EXCEPT ![t] = "initializing"]
          /\ runs' = [runs EXCEPT ![t] = @ + 1]
          /\ Goto(t, "idle") /\ NoFault
       \/ /\ cstate[t] # "reserved"
          /\ Goto(t, "undo") /\ NoFault /\ UNCHANGED <<cstate, runs>>
       \/ /\ cstate[t] = "reserved"
          /\ Goto(t, "undo") /\ Fault /\ UNCHANGED <<cstate, runs>>
    /\ UNCHANGED <<bbsVars, cresult, events, pending, snap, bulkVars,
                   cancels, succeeded>>

(* The three places an operation deletes its container: the start was      *)
(* refused, the run failed (then the task is failed), the work is done.    *)
DeleteContainer(t) ==
    /\ pc[t] \in {"reject", "undo", "delete"}
    /\ Goto(t, IF pc[t] = "undo" THEN "failRun" ELSE "idle")
    /\ snap' = [snap EXCEPT ![t] = "none"]
    /\ \/ /\ cstate' = [cstate EXCEPT ![t] = "absent"]
          /\ cresult' = [cresult EXCEPT ![t] = "none"]
          /\ NoFault
       \/ /\ cstate[t] # "absent" /\ Fault /\ UNCHANGED ctrVars
    /\ UNCHANGED <<bbsVars, events, pending, bulkVars, cancels, histVars>>

(* FetchContainerResultFile: no stream, an empty archive or an oversized   *)
(* file is an error, and so is a container that is gone.                   *)
FetchContainerResultFile(t) ==
    /\ pc[t] = "result"
    /\ \/ cstate[t] = "completed" /\ Goto(t, "complete")
       \/ Goto(t, "failDone")
    /\ UNCHANGED <<bbsVars, ctrVars, events, pending, snap, bulkVars,
                   cancels, histVars, boundVars>>

(* Faulty: forget to pass on that the action failed. *)
CompleteTaskDropsFailed(t) ==
    /\ pc[t] = "complete"
    /\ ApplyComplete(t, "success") /\ Goto(t, "delete") /\ NoFault
    /\ UNCHANGED <<ctrVars, events, pending, snap, bulkVars, cancels, histVars>>

(* completeTask's CompleteTask call.  InvalidStateTransition leads to      *)
(* failTask; every other answer, errors included, to the delete.           *)
CompleteTask(t) ==
    /\ pc[t] = "complete"
    /\ \/ /\ NoFault /\ ApplyComplete(t, snap[t])
          /\ Goto(t, IF tstate[t] \in {"Pending", "Completed"} THEN "failDone" ELSE "delete")
       \/ /\ Fault /\ Goto(t, "delete")
          /\ ApplyComplete(t, snap[t]) \/ UNCHANGED bbsVars
    /\ UNCHANGED <<ctrVars, events, pending, snap, bulkVars, cancels, histVars>>

(* The three FailTask calls: after a failed run, after a completion that   *)
(* could not be recorded, and for a task without a container.              *)
FailTask(t) ==
    /\ pc[t] \in {"failRun", "failDone", "resFail"}
    /\ Goto(t, IF pc[t] = "failDone" THEN "delete" ELSE "idle")
    /\ \/ NoFault /\ ApplyFail(t)
       \/ Fault /\ (ApplyFail(t) \/ UNCHANGED bbsVars)
    /\ UNCHANGED <<ctrVars, events, pending, snap, bulkVars, cancels, histVars>>

(* Faulty: believe the batch and do not look the container up again. *)
ResidualTrustsBatch(t) ==
    /\ pc[t] = "resGet"
    /\ Goto(t, "resFail") /\ NoFault
    /\ UNCHANGED <<bbsVars, ctrVars, events, pending, snap, bulkVars,
                   cancels, histVars>>

(* ResidualTaskOperation.Execute: the container is looked up again, and    *)
(* any lookup error counts as "no container".                              *)
ResidualGetContainer(t) ==
    /\ pc[t] = "resGet"
    /\ \/ /\ Goto(t, IF cstate[t] = "absent" THEN "resFail" ELSE "idle")
          /\ NoFault
       \/ /\ LookupFaults /\ cstate[t] # "absent"
          /\ Goto(t, "resFail") /\ Fault
    /\ UNCHANGED <<bbsVars, ctrVars, events, pending, snap, bulkVars,
                   cancels, histVars>>

OperationStep(t) ==
    \/ GetContainer(t)
    \/ StartTask(t)
    \/ TaskByGuid(t)
    \/ RunContainer(t)
    \/ DeleteContainer(t)
    \/ FetchContainerResultFile(t)
    \/ CompleteTask(t)
    \/ FailTask(t)
    \/ ResidualGetContainer(t)

-----------------------------------------------------------------------------
(* The two producers.  A push replaces whatever the guid's slot holds.     *)

Push(t, op) == pending' = [pending EXCEPT ![t] = op]

(* EventConsumer.Run: a lifecycle event becomes a container operation. *)
ConsumeEvent(t) ==
    /\ events[t] > 0
    /\ events' = [events EXCEPT ![t] = @ - 1]
    /\ Push(t, "container")
    /\ UNCHANGED <<bbsVars, ctrVars, execVars, bulkVars, cancels, histVars, boundVars>>

(* Faulty: no residual operations. *)
BatchContainersOnly(cs, ts) == [t \in Task |-> IF t \in cs THEN "container" ELSE "none"]

(* Faulty: a residual operation for every task of the cell. *)
BatchTasksFirst(cs, ts) ==
    [t \in Task |-> IF t \in ts THEN "residual"
                    ELSE IF t \in cs THEN "container" ELSE "none"]

(* BatchOperations: what to do about guid t, from the two snapshots. *)
BatchOperations(cs, ts) ==
    [t \in Task |-> IF t \in cs THEN "container"
                    ELSE IF t \in ts THEN "residual" ELSE "none"]

(* The snapshots are fetched concurrently, so either may be the older one. *)
(* A batch starts when the bulker's timer has fired.                       *)
ListContainers ==
    /\ LET now == {t \in Task : cstate[t] # "absent"} IN
       \/ /\ bulkPc = "idle"
          /\ bulkPc' = "listed" /\ listed' = now
          /\ UNCHANGED <<found, todo>>
       \/ /\ bulkPc = "found"
          /\ bulkPc' = "push" /\ todo' = BatchOperations(now, found)
          /\ found' = {} /\ UNCHANGED listed
    /\ UNCHANGED <<bbsVars, ctrVars, events, pending, execVars, cancels, histVars, boundVars>>

(* Faulty: ask for every task instead of this cell's. *)
AllTasks ==
    /\ LET now == {t \in Task : tstate[t] # "Resolved"} IN
       \/ /\ bulkPc = "idle"
          /\ bulkPc' = "found" /\ found' = now
          /\ UNCHANGED <<listed, todo>>
       \/ /\ bulkPc = "listed"
          /\ bulkPc' = "push" /\ todo' = BatchOperations(listed, now)
          /\ listed' = {} /\ UNCHANGED found
    /\ UNCHANGED <<bbsVars, ctrVars, events, pending, execVars, cancels, histVars, boundVars>>

TasksByCellID ==
    /\ LET now == {t \in Task : tcell[t] = "self" /\ tstate[t] # "Resolved"} IN
       \/ /\ bulkPc = "idle"
          /\ bulkPc' = "found" /\ found' = now
          /\ UNCHANGED <<listed, todo>>
       \/ /\ bulkPc = "listed"
          /\ bulkPc' = "push" /\ todo' = BatchOperations(listed, now)
          /\ listed' = {} /\ UNCHANGED found
    /\ UNCHANGED <<bbsVars, ctrVars, events, pending, execVars, cancels, histVars, boundVars>>

(* Any of the fetches fails (the fetch of the LRPs too): no batch. *)
BatchFails ==
    /\ bulkPc \in {"listed", "found"}
    /\ Fault
    /\ bulkPc' = "idle" /\ listed' = {} /\ found' = {}
    /\ UNCHANGED <<bbsVars, ctrVars, events, pending, execVars, todo, cancels, histVars>>

(* Bulker.sync pushes the batch one operation at a time, in no fixed order. *)
BulkPush(t) ==
    /\ bulkPc = "push"
    /\ todo[t] # "none"
    /\ Push(t, todo[t])
    /\ todo' = [todo EXCEPT ![t] = "none"]
    /\ UNCHANGED <<bbsVars, ctrVars, events, execVars, bulkPc, listed, found,
                   cancels, histVars, boundVars>>

BulkDone ==
    /\ bulkPc = "push"
    /\ \A t \in Task : todo[t] = "none"
    /\ bulkPc' = "idle"
    /\ UNCHANGED <<bbsVars, ctrVars, events, pending, execVars, listed, found,
                   todo, cancels, histVars, boundVars>>

-----------------------------------------------------------------------------
(* The cell's HTTP handlers.                                               *)

(* AuctionCellRep.Perform: allocates a container for the task, or reports  *)
(* the task back as failed work (guid taken, no room, no stack, evacuating). *)
Perform(t) ==
    /\ performs[t] < MaxPerforms
    /\ performs' = [performs EXCEPT ![t] = @ + 1]
    /\ \/ /\ cstate[t] = "absent"
          /\ cstate' = [cstate EXCEPT ![t] = "reserved"]
          /\ MayEmit(t)
       \/ UNCHANGED <<cstate, events>>
    /\ UNCHANGED <<bbsVars, cresult, pending, execVars, bulkVars, cancels,
                   histVars, faults, crashes>>

(* CancelTaskHandler: the goroutine that deletes the container, outside    *)
(* the queue and so concurrently with the guid's operation.                *)
CancelTask(t) ==
    /\ t \in cancels
    /\ cancels' = cancels \ {t}
    /\ \/ /\ cstate' = [cstate EXCEPT ![t] = "absent"]
          /\ cresult' = [cresult EXCEPT ![t] = "none"]
          /\ NoFault
       \/ /\ cstate[t] # "absent" /\ Fault /\ UNCHANGED ctrVars
    /\ UNCHANGED <<bbsVars, events, pending, execVars, bulkVars, histVars>>

-----------------------------------------------------------------------------
(* The executor moves containers on; it may announce a change or not.      *)

ContainerStep(t, from, to, result) ==
    /\ cstate[t] \in from
    /\ cstate' = [cstate EXCEPT ![t] = to]
    /\ cresult' = [cresult EXCEPT ![t] = result]
    /\ succeeded' = IF result = "success" THEN succeeded \cup {t} ELSE succeeded
    /\ MayEmit(t)
    /\ UNCHANGED <<bbsVars, pending, execVars, bulkVars, cancels, runs, boundVars>>

ContainerAdvances(t) ==
    \/ ContainerStep(t, {"initializing"}, "created", "none")
    \/ ContainerStep(t, {"created"}, "running", "none")

ContainerFinishes(t) ==
    \/ ContainerStep(t, {"running"}, "completed", "success")
    \/ ContainerStep(t, Executing, "completed", "failure")

(* A reservation nobody runs expires (reserved_expiration_time). *)
ReservationExpires(t) == ContainerStep(t, {"reserved"}, "completed", "failure")

(* The rep dies and comes back: its containers are destroyed on start-up, *)
(* its queue, batch and events are lost, and the BBS keeps its records.    *)
CrashAndRestart ==
    /\ crashes < MaxCrashes
    /\ crashes' = crashes + 1
    /\ cstate' = [t \in Task |-> "absent"]
    /\ cresult' = [t \in Task |-> "none"]
    /\ events' = [t \in Task |-> 0]
    /\ pending' = [t \in Task |-> "none"]
    /\ pc' = [t \in Task |-> "idle"]
    /\ snap' = [t \in Task |-> "none"]
    /\ bulkPc' = "idle" /\ listed' = {} /\ found' = {}
    /\ todo' = [t \in Task |-> "none"]
    /\ UNCHANGED <<bbsVars, cancels, histVars, faults, performs>>

-----------------------------------------------------------------------------
(* The rest of the cluster, acting on the BBS's records.                   *)

(* Another cell got the task too (a repeated auction) and starts it first, *)
(* or ends a task it runs.                                                 *)
OtherCell(t) ==
    /\ \/ tstate[t] = "Pending" /\ GrantTask(t, "other")
       \/ /\ tstate[t] = "Running" /\ tcell[t] = "other"
          /\ \E o \in {"success", "failure"} : EndTask(t, o)
    /\ UNCHANGED <<ctrVars, events, pending, execVars, bulkVars, cancels, histVars, boundVars>>

(* A user cancels the task, or convergence gives up on it.  For a task of  *)
(* this cell a CancelTask request may be sent, which may never arrive.     *)
TaskCancelled(t) ==
    /\ tstate[t] \notin Ended
    /\ EndTask(t, "failure")
    /\ cancels' \in {cancels, IF OwnTask(t) THEN cancels \cup {t} ELSE cancels}
    /\ UNCHANGED <<ctrVars, events, pending, execVars, bulkVars, histVars, boundVars>>

(* A completed task is resolved and its record deleted. *)
TaskResolved(t) ==
    /\ tstate[t] = "Completed"
    /\ tstate' = [tstate EXCEPT ![t] = "Resolved"]
    /\ UNCHANGED <<tcell, outcome, ctrVars, events, pending, execVars, bulkVars,
                   cancels, histVars, boundVars>>

TaskStep(t) ==
    \/ Execute(t)
    \/ OperationStep(t)
    \/ ConsumeEvent(t)
    \/ BulkPush(t)
    \/ Perform(t)
    \/ CancelTask(t)
    \/ ContainerAdvances(t)
    \/ ContainerFinishes(t)
    \/ ReservationExpires(t)
    \/ OtherCell(t)
    \/ TaskCancelled(t)
    \/ TaskResolved(t)

Next ==
    \/ \E t \in Task : TaskStep(t)
    \/ ListContainers
    \/ TasksByCellID
    \/ BatchFails
    \/ BulkDone
    \/ CrashAndRestart

Spec == Init /\ [][Next]_vars

(* The rep's goroutines run and every call they make returns; the bulker's *)
(* timer keeps firing; the executor expires reservations.  Nothing is      *)
(* assumed of the auctioneer, the other cells, the users, the event stream *)
(* or the actions the tasks run.                                           *)
Fairness ==
    /\ \A t \in Task : /\ WF_vars(Execute(t))
                       /\ WF_vars(OperationStep(t))
                       /\ WF_vars(BulkPush(t))
                       /\ WF_vars(ReservationExpires(t))
    /\ WF_vars(ListContainers \/ TasksByCellID)
    /\ WF_vars(BulkDone)

FairSpec == Spec /\ Fairness

-----------------------------------------------------------------------------
(* Every variable stays in its range. *)
TypeOK ==
    /\ tstate \in [Task -> TaskStates]
    /\ tcell \in [Task -> Cells]
    /\ outcome \in [Task -> Outcomes]
    /\ cstate \in [Task -> CtrStates]
    /\ cresult \in [Task -> Outcomes]
    /\ events \in [Task -> 0..MaxEvents]
    /\ pending \in [Task -> Ops]
    /\ pc \in [Task -> PCs]
    /\ snap \in [Task -> Outcomes]
    /\ bulkPc \in {"idle", "listed", "found", "push"}
    /\ listed \subseteq Task
    /\ found \subseteq Task
    /\ todo \in [Task -> Ops]
    /\ cancels \subseteq Task
    /\ runs \in [Task -> Nat]
    /\ succeeded \subseteq Task
    /\ faults \in 0..MaxFaults
    /\ crashes \in 0..MaxCrashes
    /\ performs \in [Task -> 0..MaxPerforms]

(* A task's container is run at most once on this cell, and only if the    *)
(* BBS gave the task to this cell: startTask lets processActiveContainer   *)
(* go on only when StartTask changed the record, whatever is repeated,     *)
(* lost or restarted in between.                                           *)
AtMostOneRun ==
    \A t \in Task : /\ runs[t] <= 1
                    /\ runs[t] = 1 => tcell[t] = "self"

(* The BBS records a task of this cell as successful only if its action    *)
(* really succeeded here: completeTask reports the RunResult of a          *)
(* completed container, and nothing else ends a task successfully.         *)
SuccessIsReal ==
    \A t \in Task : outcome[t] = "success" /\ tcell[t] = "self" => t \in succeeded

(* A container whose action is executing is deleted only once the BBS has  *)
(* ended the task: a refused StartTask (task_processor.go:102), a stale    *)
(* batch or a CancelTask request never kills a task that is still live.    *)
ExecutingDeletedOnlyIfEnded ==
    [][\A t \in Task :
          (cstate[t] \in Executing /\ cstate'[t] = "absent" /\ crashes' = crashes)
          => tstate[t] \in Ended]_vars

(* ResidualTaskOperation never fails a task whose action is executing on   *)
(* this cell, although the batch that asked for it may be stale            *)
(* (operation.go:187) and Perform may reserve the guid again meanwhile.    *)
ResidualSparesExecuting ==
    [][\A t \in Task :
          (pc[t] = "resFail" /\ tstate[t] = "Running" /\ tstate'[t] = "Completed"
                             /\ pc'[t] # "resFail")
          => cstate[t] \notin Executing]_vars

(* FailTask names no cell (task_processor.go:149), yet it ends a task that *)
(* runs on another cell in one case only: a reservation nothing was ever   *)
(* run in, whose completion the BBS refused while the task was Pending,    *)
(* and which the other cell started before FailTask arrived.  A failed run *)
(* and a residual operation, however old, never do.                        *)
FailTaskSparesOthers ==
    [][\A t \in Task :
          (/\ pc[t] \in {"failRun", "failDone", "resFail"} /\ pc'[t] # pc[t]
           /\ tstate[t] = "Running" /\ tcell[t] = "other" /\ tstate'[t] = "Completed")
          => pc[t] = "failDone" /\ runs[t] = 0]_vars

(* A task of this cell whose action is not executing (never run, container *)
(* lost in a crash, start unanswered, result not recorded) is ended in the *)
(* BBS sooner or later.                                                    *)
LostTaskEnds ==
    \A t \in Task : (OwnTask(t) /\ cstate[t] \notin Executing)
                    ~> (tstate[t] \in Ended \/ cstate[t] \in Executing)

(* The container of an ended task goes away, even if the CancelTask        *)
(* request and every lifecycle event are lost, and so does a completed     *)
(* one, whatever the BBS answers.                                          *)
ContainersReaped ==
    \A t \in Task : (cstate[t] = "completed" \/ (tstate[t] \in Ended /\ cstate[t] # "absent"))
                    ~> cstate[t] = "absent"

Contract == INSTANCE TaskContract

(* The rep, with everything that goes on inside it, keeps the contract a   *)
(* cell offers about a task: one owner, at most one execution, no success  *)
(* recorded without one.                                                   *)
KeepsContract == Contract!Spec
=============================================================================

------------------------ MODULE TaskHarmonizerProofs ------------------------
(* Proofs about TaskHarmonizer, for any set of tasks and any bounds. *)
EXTENDS TaskHarmonizer, TLAPS

(* A grant is used at most once: it is held between StartTask's answer and *)
(* RunContainer, and only a run makes a container execute.                 *)
GrantInv(t) ==
    /\ tstate[t] = "Pending" => tcell[t] = "none"
    /\ tstate[t] = "Running" => tcell[t] # "none"
    /\ pc[t] \in {"fetch", "run", "undo", "failRun"} => tcell[t] = "self" /\ runs[t] = 0
    /\ runs[t] \in {0, 1}
    /\ runs[t] = 1 => tcell[t] = "self"
    /\ cstate[t] \in Executing => runs[t] = 1

(* A report of success always stems from a container that succeeded. *)
SuccessInv(t) ==
    /\ tstate[t] \notin Ended => outcome[t] = "none"
    /\ cstate[t] = "completed" => cresult[t] # "none"
    /\ pc[t] \in {"result", "complete"} => snap[t] # "none"
    /\ cstate[t] = "completed" /\ cresult[t] = "success" => t \in succeeded
    /\ pc[t] \in {"result", "complete"} /\ snap[t] = "success" => t \in succeeded
    /\ outcome[t] = "success" /\ tcell[t] = "self" => t \in succeeded

(* Why an operation about to delete its container may do so. *)
DeleteInv(t) ==
    /\ pc[t] = "reject" => tstate[t] \in Ended \/ tcell[t] = "other"
    /\ pc[t] \in {"result", "complete", "failDone", "delete"}
          => cstate[t] = "completed" \/ tstate[t] \in Ended
    /\ t \in cancels => tstate[t] \in Ended

(* The residual operation holds the guid, so no run can happen beside it,  *)
(* and it is only ever asked for a task of this cell, which stays its own. *)
ResidualInv(t) ==
    /\ ~LookupFaults /\ pc[t] = "resFail" => cstate[t] \notin Executing
    /\ \/ t \in found \/ todo[t] = "residual" \/ pending[t] = "residual"
       \/ pc[t] \in {"resGet", "resFail"}
       => tcell[t] = "self"
    /\ tcell[t] # "none" => tstate[t] # "Pending"

IInv == \A t \in Task : GrantInv(t) /\ SuccessInv(t) /\ DeleteInv(t) /\ ResidualInv(t)

-----------------------------------------------------------------------------
(* Every step keeps every variable in its range. *)
LEMMA TypeStep == TypeOK /\ [Next]_vars => TypeOK'
<1> SUFFICES ASSUME TypeOK, [Next]_vars PROVE TypeOK'
  OBVIOUS
<1> USE TaskAssumption DEF TypeOK, TaskStates, Cells, Outcomes, Ended, Executing,
        CtrStates, Ops, PCs, Goto, Fault, NoFault, bbsVars, ctrVars, execVars,
        bulkVars, histVars, boundVars
<1>1. ASSUME NEW t \in Task, GetContainer(t) PROVE TypeOK'
  BY <1>1 DEF GetContainer
<1>2. ASSUME NEW t \in Task, StartTask(t) PROVE TypeOK'
  BY <1>2, SMTT(30) DEF StartTask, GrantTask, OwnTask
<1>3. ASSUME NEW t \in Task, TaskByGuid(t) PROVE TypeOK'
  BY <1>3 DEF TaskByGuid
<1>4. ASSUME NEW t \in Task, RunContainer(t) PROVE TypeOK'
  BY <1>4 DEF RunContainer
<1>5. ASSUME NEW t \in Task, DeleteContainer(t) PROVE TypeOK'
  BY <1>5 DEF DeleteContainer
<1>6. ASSUME NEW t \in Task, FetchContainerResultFile(t) PROVE TypeOK'
  BY <1>6 DEF FetchContainerResultFile
<1>7. ASSUME NEW t \in Task, CompleteTask(t) PROVE TypeOK'
  BY <1>7 DEF CompleteTask, ApplyComplete, EndTask, OwnTask
<1>8. ASSUME NEW t \in Task, FailTask(t) PROVE TypeOK'
  BY <1>8 DEF FailTask, ApplyFail, EndTask
<1>9. ASSUME NEW t \in Task, ResidualGetContainer(t) PROVE TypeOK'
  BY <1>9 DEF ResidualGetContainer
<1>10. ASSUME NEW t \in Task, Execute(t) PROVE TypeOK'
  BY <1>10 DEF Execute
<1>11. ASSUME NEW t \in Task, ConsumeEvent(t) PROVE TypeOK'
  BY <1>11 DEF ConsumeEvent, Push
<1>12. ASSUME NEW t \in Task, BulkPush(t) PROVE TypeOK'
  BY <1>12 DEF BulkPush, Push
<1>13. ASSUME NEW t \in Task, Perform(t) PROVE TypeOK'
  BY <1>13 DEF Perform, MayEmit
<1>14. ASSUME NEW t \in Task, CancelTask(t) PROVE TypeOK'
  BY <1>14 DEF CancelTask
<1>15. ASSUME NEW t \in Task, ContainerAdvances(t) PROVE TypeOK'
  BY <1>15 DEF ContainerAdvances, ContainerStep, MayEmit
<1>16. ASSUME NEW t \in Task, ContainerFinishes(t) PROVE TypeOK'
  BY <1>16 DEF ContainerFinishes, ContainerStep, MayEmit
<1>17. ASSUME NEW t \in Task, ReservationExpires(t) PROVE TypeOK'
  BY <1>17 DEF ReservationExpires, ContainerStep, MayEmit
<1>18. ASSUME NEW t \in Task, OtherCell(t) PROVE TypeOK'
  BY <1>18 DEF OtherCell, GrantTask, EndTask
<1>19. ASSUME NEW t \in Task, TaskCancelled(t) PROVE TypeOK'
  BY <1>19 DEF TaskCancelled, EndTask, OwnTask
<1>20. ASSUME NEW t \in Task, TaskResolved(t) PROVE TypeOK'
  BY <1>20 DEF TaskResolved
<1>21. CASE ListContainers
  BY <1>21 DEF ListContainers, BatchOperations
<1>22. CASE TasksByCellID
  BY <1>22 DEF TasksByCellID, BatchOperations
<1>23. CASE BatchFails
  BY <1>23 DEF BatchFails
<1>24. CASE BulkDone
  BY <1>24 DEF BulkDone
<1>25. CASE CrashAndRestart
  BY <1>25 DEF CrashAndRestart
<1>26. CASE UNCHANGED vars
  BY <1>26 DEF vars
<1>27. QED
  BY <1>1, <1>2, <1>3, <1>4, <1>5, <1>6, <1>7, <1>8, <1>9, <1>10, <1>11, <1>12, <1>13, <1>14, <1>15, <1>16, <1>17, <1>18, <1>19, <1>20, <1>21, <1>22, <1>23, <1>24, <1>25, <1>26, Zenon
     DEF Next, TaskStep, OperationStep

(* TypeOK holds in every reachable state. *)
THEOREM TypeCorrect == Spec => []TypeOK
<1>1. Init => TypeOK
  BY TaskAssumption, SMTT(30) DEF Init, TypeOK, TaskStates, Cells, Outcomes, CtrStates, Ops, PCs
<1>2. QED
  BY <1>1, TypeStep, PTL DEF Spec

(* The inductive invariant is preserved: one case per operation, handler   *)
(* and environment step.                                                   *)
LEMMA InvStep == TypeOK /\ IInv /\ [Next]_vars => IInv'
<1> SUFFICES ASSUME TypeOK, IInv, [Next]_vars, NEW u \in Task
             PROVE  (GrantInv(u) /\ SuccessInv(u) /\ DeleteInv(u) /\ ResidualInv(u))'
  BY DEF IInv
<1>0. GrantInv(u) /\ SuccessInv(u) /\ DeleteInv(u) /\ ResidualInv(u)
  BY DEF IInv
<1> DEFINE Inv(t) == GrantInv(t) /\ SuccessInv(t) /\ DeleteInv(t) /\ ResidualInv(t)
<1> USE <1>0, TaskAssumption DEF TypeOK, TaskStates, Cells, Outcomes, Ended, Executing,
        CtrStates, Ops, PCs, Goto, Fault, NoFault, bbsVars, ctrVars, execVars,
        bulkVars, histVars, boundVars, GrantInv, SuccessInv, DeleteInv, ResidualInv
<1>1. ASSUME NEW t \in Task, GetContainer(t) PROVE Inv(u)'
  BY <1>1 DEF GetContainer
<1>2. ASSUME NEW t \in Task, StartTask(t) PROVE Inv(u)'
  BY <1>2 DEF StartTask, GrantTask, OwnTask
<1>3. ASSUME NEW t \in Task, TaskByGuid(t) PROVE Inv(u)'
  BY <1>3 DEF TaskByGuid
<1>4. ASSUME NEW t \in Task, RunContainer(t) PROVE Inv(u)'
  BY <1>4 DEF RunContainer
<1>5. ASSUME NEW t \in Task, DeleteContainer(t) PROVE Inv(u)'
  BY <1>5 DEF DeleteContainer
<1>6. ASSUME NEW t \in Task, FetchContainerResultFile(t) PROVE Inv(u)'
  BY <1>6 DEF FetchContainerResultFile
<1>7. ASSUME NEW t \in Task, CompleteTask(t) PROVE Inv(u)'
  BY <1>7 DEF CompleteTask, ApplyComplete, EndTask, OwnTask
<1>8. ASSUME NEW t \in Task, FailTask(t) PROVE Inv(u)'
  BY <1>8 DEF FailTask, ApplyFail, EndTask
<1>9. ASSUME NEW t \in Task, ResidualGetContainer(t) PROVE Inv(u)'
  BY <1>9 DEF ResidualGetContainer
<1>10. ASSUME NEW t \in Task, Execute(t) PROVE Inv(u)'
  BY <1>10 DEF Execute
<1>11. ASSUME NEW t \in Task, ConsumeEvent(t) PROVE Inv(u)'
  BY <1>11 DEF ConsumeEvent, Push
<1>12. ASSUME NEW t \in Task, BulkPush(t) PROVE Inv(u)'
  BY <1>12 DEF BulkPush, Push
<1>13. ASSUME NEW t \in Task, Perform(t) PROVE Inv(u)'
  BY <1>13 DEF Perform, MayEmit
<1>14. ASSUME NEW t \in Task, CancelTask(t) PROVE Inv(u)'
  BY <1>14 DEF CancelTask
<1>15. ASSUME NEW t \in Task, ContainerAdvances(t) PROVE Inv(u)'
  BY <1>15 DEF ContainerAdvances, ContainerStep, MayEmit
<1>16. ASSUME NEW t \in Task, ContainerFinishes(t) PROVE Inv(u)'
  BY <1>16 DEF ContainerFinishes, ContainerStep, MayEmit
<1>17. ASSUME NEW t \in Task, ReservationExpires(t) PROVE Inv(u)'
  BY <1>17 DEF ReservationExpires, ContainerStep, MayEmit
<1>18. ASSUME NEW t \in Task, OtherCell(t) PROVE Inv(u)'
  BY <1>18 DEF OtherCell, GrantTask, EndTask
<1>19. ASSUME NEW t \in Task, TaskCancelled(t) PROVE Inv(u)'
  BY <1>19 DEF TaskCancelled, EndTask, OwnTask
<1>20. ASSUME NEW t \in Task, TaskResolved(t) PROVE Inv(u)'
  BY <1>20 DEF TaskResolved
<1>21. CASE ListContainers
  BY <1>21 DEF ListContainers, BatchOperations
<1>22. CASE TasksByCellID
  BY <1>22 DEF TasksByCellID, BatchOperations
<1>23. CASE BatchFails
  BY <1>23 DEF BatchFails
<1>24. CASE BulkDone
  BY <1>24 DEF BulkDone
<1>25. CASE CrashAndRestart
  BY <1>25 DEF CrashAndRestart
<1>26. CASE UNCHANGED vars
  BY <1>26 DEF vars
<1>27. QED
  BY <1>1, <1>2, <1>3, <1>4, <1>5, <1>6, <1>7, <1>8, <1>9, <1>10, <1>11, <1>12, <1>13, <1>14, <1>15, <1>16, <1>17, <1>18, <1>19, <1>20, <1>21, <1>22, <1>23, <1>24, <1>25, <1>26, ZenonT(30)
     DEF Next, TaskStep, OperationStep

(* The inductive invariant holds in every reachable state. *)
THEOREM Invariance == Spec => []IInv
<1>1. Init => IInv
  <2> SUFFICES ASSUME Init, NEW t \in Task
               PROVE  GrantInv(t) /\ SuccessInv(t) /\ DeleteInv(t) /\ ResidualInv(t)
    BY Zenon DEF IInv
  <2>1. GrantInv(t)
    BY DEF Init, GrantInv, Executing
  <2>2. SuccessInv(t) /\ DeleteInv(t)
    BY DEF Init, SuccessInv, DeleteInv
  <2>3. ResidualInv(t)
    BY DEF Init, ResidualInv
  <2>4. QED
    BY <2>1, <2>2, <2>3
<1>2. QED
  BY <1>1, InvStep, TypeCorrect, PTL DEF Spec

(* On any cell, with any number of tasks, faults, crashes and repeated     *)
(* auctions, RunContainer succeeds at most once per task, and only for a   *)
(* task the BBS granted to this cell.                                      *)
THEOREM RunsAtMostOnce == Spec => []AtMostOneRun
<1>1. IInv => AtMostOneRun
  <2> SUFFICES ASSUME IInv, NEW t \in Task
               PROVE  runs[t] <= 1 /\ (runs[t] = 1 => tcell[t] = "self")
    BY Zenon DEF AtMostOneRun
  <2>1. GrantInv(t)
    BY DEF IInv
  <2>2. QED
    BY <2>1 DEF GrantInv
<1>2. QED
  BY <1>1, Invariance, PTL

(* Whatever completeTask is answered, the BBS never records a success of   *)
(* this cell that did not happen.                                          *)
THEOREM RecordedSuccessIsReal == Spec => []SuccessIsReal
<1>1. IInv => SuccessIsReal
  BY DEF IInv, SuccessInv, SuccessIsReal
<1>2. QED
  BY <1>1, Invariance, PTL

(* Neither a refused StartTask, nor a finished operation, nor a CancelTask *)
(* request ever deletes a container whose task is live and executing.      *)
THEOREM DeletesOnlyEnded == Spec => ExecutingDeletedOnlyIfEnded
<1> DEFINE Safe == \A t \in Task :
          (cstate[t] \in Executing /\ cstate'[t] = "absent" /\ crashes' = crashes)
          => tstate[t] \in Ended
<1>1. TypeOK /\ IInv /\ [Next]_vars => [Safe]_vars
  <2> SUFFICES ASSUME TypeOK, IInv, Next, NEW u \in Task,
                      cstate[u] \in Executing, cstate'[u] = "absent", crashes' = crashes
               PROVE  tstate[u] \in Ended
    BY DEF vars
  <2>0. GrantInv(u) /\ DeleteInv(u)
    BY DEF IInv
  <2> USE DEF TypeOK, Executing
  <2>1. cstate' # cstate
    OBVIOUS
  <2>2. ~CrashAndRestart
    BY DEF CrashAndRestart
  <2>3. ASSUME NEW t \in Task, DeleteContainer(t) PROVE tstate[u] \in Ended
    BY <2>0, <2>1, <2>3 DEF DeleteContainer, GrantInv, DeleteInv, ctrVars
  <2>4. ASSUME NEW t \in Task, CancelTask(t) PROVE tstate[u] \in Ended
    BY <2>0, <2>1, <2>4 DEF CancelTask, DeleteInv, ctrVars
  <2>5. ASSUME NEW t \in Task, RunContainer(t) \/ Perform(t) PROVE FALSE
    BY <2>5 DEF RunContainer, Perform
  <2>6. ASSUME NEW t \in Task,
               ContainerAdvances(t) \/ ContainerFinishes(t) \/ ReservationExpires(t)
        PROVE  FALSE
    BY <2>6, SMTT(30) DEF ContainerAdvances, ContainerFinishes, ReservationExpires, ContainerStep
  <2>7. \E t \in Task : \/ DeleteContainer(t) \/ CancelTask(t)
                        \/ RunContainer(t) \/ Perform(t)
                        \/ ContainerAdvances(t) \/ ContainerFinishes(t) \/ ReservationExpires(t)
    BY <2>1, <2>2 DEF Next, TaskStep, OperationStep, ctrVars, Execute, GetContainer,
       StartTask, TaskByGuid, FetchContainerResultFile, CompleteTask, FailTask,
       ResidualGetContainer, ConsumeEvent, BulkPush, OtherCell, TaskCancelled,
       TaskResolved, ListContainers, TasksByCellID, BatchFails, BulkDone
  <2>8. QED
    BY <2>3, <2>4, <2>5, <2>6, <2>7
<1>2. QED
  BY <1>1, TypeCorrect, Invariance, PTL DEF Spec, ExecutingDeletedOnlyIfEnded

(* When the executor's lookups do not fail, a residual operation never     *)
(* fails a task that is executing on this cell, however stale its batch.   *)
THEOREM ResidualIsSafe == ~LookupFaults => (Spec => ResidualSparesExecuting)
<1> SUFFICES ASSUME ~LookupFaults PROVE Spec => ResidualSparesExecuting
  OBVIOUS
<1> DEFINE Safe == \A t \in Task :
          (pc[t] = "resFail" /\ tstate[t] = "Running" /\ tstate'[t] = "Completed"
                             /\ pc'[t] # "resFail")
          => cstate[t] \notin Executing
<1>1. IInv => Safe
  BY DEF IInv, ResidualInv
<1>2. QED
  BY <1>1, Invariance, PTL DEF ResidualSparesExecuting

(* FailTask ends another cell's task only on behalf of a reservation that  *)
(* was never run, for any number of tasks, faults and crashes.             *)
THEOREM FailTaskIsSafe == Spec => FailTaskSparesOthers
<1> DEFINE Safe == \A t \in Task :
          (/\ pc[t] \in {"failRun", "failDone", "resFail"} /\ pc'[t] # pc[t]
           /\ tstate[t] = "Running" /\ tcell[t] = "other" /\ tstate'[t] = "Completed")
          => pc[t] = "failDone" /\ runs[t] = 0
<1>1. IInv => Safe
  <2> SUFFICES ASSUME IInv, NEW t \in Task, tcell[t] = "other",
                      pc[t] \in {"failRun", "failDone", "resFail"}
               PROVE  pc[t] = "failDone" /\ runs[t] = 0
    BY SMTT(30)
  <2>1. GrantInv(t) /\ ResidualInv(t)
    BY Zenon DEF IInv
  <2>2. QED
    BY <2>1 DEF GrantInv, ResidualInv
<1>2. QED
  BY <1>1, Invariance, PTL DEF FailTaskSparesOthers

(* Every step of the rep, the executor and the cluster is a step of the    *)
(* contract or leaves the contract's variables alone.                      *)
LEMMA ContractStep == TypeOK /\ IInv /\ [Next]_vars => [Contract!Next]_(Contract!vars)
<1> SUFFICES ASSUME TypeOK, IInv, [Next]_vars
             PROVE  Contract!Next \/ UNCHANGED <<tstate, tcell, outcome, runs, succeeded>>
  BY DEF Contract!vars
<1> USE DEF bbsVars, histVars
<1>1. ASSUME NEW t \in Task, StartTask(t) PROVE Contract!Next \/ UNCHANGED <<bbsVars, histVars>>
  BY <1>1 DEF StartTask, GrantTask, Contract!Next, Contract!Grant
<1>2. ASSUME NEW t \in Task, RunContainer(t) PROVE Contract!Next \/ UNCHANGED <<bbsVars, histVars>>
  <2>1. CASE cstate[t] = "reserved" /\ runs' = [runs EXCEPT ![t] = @ + 1]
    <3>1. tcell[t] = "self" /\ runs[t] = 0
      BY <1>2 DEF IInv, GrantInv, RunContainer
    <3>2. runs' = [runs EXCEPT ![t] = 1]
      BY <2>1, <3>1 DEF TypeOK
    <3>3. Contract!Run(t)
      BY <1>2, <3>1, <3>2 DEF RunContainer, Contract!Run
    <3>4. QED
      BY <3>3 DEF Contract!Next
  <2>2. CASE UNCHANGED runs
    BY <1>2, <2>2 DEF RunContainer
  <2>3. QED
    BY <1>2, <2>1, <2>2 DEF RunContainer
<1>3. ASSUME NEW t \in Task, CompleteTask(t) PROVE Contract!Next \/ UNCHANGED <<bbsVars, histVars>>
  <2>1. CASE UNCHANGED bbsVars
    BY <1>3, <2>1 DEF CompleteTask
  <2>2. CASE OwnTask(t) /\ EndTask(t, snap[t])
    <3>1. snap[t] \in {"success", "failure"} /\ (snap[t] = "success" => t \in succeeded)
      BY <1>3, SMTT(30) DEF IInv, SuccessInv, CompleteTask, TypeOK, Outcomes
    <3>2. Contract!End(t, snap[t])
      BY <1>3, <2>2, <3>1 DEF CompleteTask, EndTask, OwnTask, Contract!End
    <3>3. QED
      BY <3>1, <3>2 DEF Contract!Next
  <2>3. QED
    BY <1>3, <2>1, <2>2 DEF CompleteTask, ApplyComplete
<1>4. ASSUME NEW t \in Task, tstate[t] \notin Ended, EndTask(t, "failure"), UNCHANGED histVars
      PROVE  Contract!Next
  <2>1. Contract!End(t, "failure")
    BY <1>4, SMTT(30) DEF EndTask, Contract!End, Ended, TypeOK, TaskStates
  <2>2. QED
    BY <2>1 DEF Contract!Next
<1>5. ASSUME NEW t \in Task, FailTask(t) PROVE Contract!Next \/ UNCHANGED <<bbsVars, histVars>>
  BY <1>4, <1>5, Zenon DEF FailTask, ApplyFail
<1>6. ASSUME NEW t \in Task, TaskCancelled(t) PROVE Contract!Next
  BY <1>4, <1>6 DEF TaskCancelled
<1>7. ASSUME NEW t \in Task, OtherCell(t) PROVE Contract!Next
  BY <1>7 DEF OtherCell, GrantTask, EndTask, Contract!Next, Contract!Grant, Contract!End
<1>8. ASSUME NEW t \in Task, TaskResolved(t) PROVE Contract!Next
  BY <1>8, Zenon DEF TaskResolved, Contract!Next, Contract!Resolve
<1>9. ASSUME NEW t \in Task,
             ContainerAdvances(t) \/ ContainerFinishes(t) \/ ReservationExpires(t)
      PROVE  Contract!Next \/ UNCHANGED <<bbsVars, histVars>>
  <2>1. CASE UNCHANGED succeeded
    BY <1>9, <2>1 DEF ContainerAdvances, ContainerFinishes, ReservationExpires, ContainerStep
  <2>2. CASE ContainerStep(t, {"running"}, "completed", "success")
    <3>1. runs[t] = 1
      BY <2>2 DEF ContainerStep, IInv, GrantInv, Executing
    <3>2. Contract!Succeed(t)
      BY <2>2, <3>1, SMTT(30) DEF ContainerStep, Contract!Succeed
    <3>3. QED
      BY <3>2 DEF Contract!Next
  <2>3. QED
    BY <1>9, <2>1, <2>2 DEF ContainerAdvances, ContainerFinishes, ReservationExpires, ContainerStep
<1>10. ASSUME NEW t \in Task,
              \/ Execute(t) \/ GetContainer(t) \/ TaskByGuid(t) \/ DeleteContainer(t)
              \/ FetchContainerResultFile(t) \/ ResidualGetContainer(t)
       PROVE  UNCHANGED <<bbsVars, histVars>>
  BY <1>10, Zenon DEF Execute, GetContainer, TaskByGuid, DeleteContainer,
               FetchContainerResultFile, ResidualGetContainer
<1>11. ASSUME NEW t \in Task, ConsumeEvent(t) \/ BulkPush(t) \/ Perform(t) \/ CancelTask(t)
       PROVE  UNCHANGED <<bbsVars, histVars>>
  BY <1>11 DEF ConsumeEvent, BulkPush, Perform, CancelTask
<1>12. CASE \/ ListContainers \/ TasksByCellID \/ BatchFails \/ BulkDone
            \/ CrashAndRestart \/ UNCHANGED vars
  BY <1>12 DEF ListContainers, TasksByCellID, BatchFails, BulkDone, CrashAndRestart, vars
<1>13. QED
  BY <1>1, <1>2, <1>3, <1>5, <1>6, <1>7, <1>8, <1>9, <1>10, <1>11, <1>12
     DEF Next, TaskStep, OperationStep

(* The rep implements the contract a cell offers about its tasks. *)
THEOREM ImplementsContract == Spec => KeepsContract
<1>1. Init => Contract!Init
  BY DEF Init, Contract!Init
<1>2. QED
  BY <1>1, ContractStep, TypeCorrect, Invariance, PTL DEF Spec, KeepsContract, Contract!Spec
=============================================================================

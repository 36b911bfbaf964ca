------------------------ MODULE LRPHarmonizerProofs ------------------------
(* Proofs about LRPHarmonizer, for any sets of instances and any bounds. *)
EXTENDS LRPHarmonizer, TLAPS

(* An instance nobody has allocated a container for is unknown to the BBS, *)
(* to the bulker and to the queue's residual operations.                   *)
FreshInv(i) ==
    cstate[i] \in {"new", "admitted"} =>
        /\ holder # i /\ evac # i
        /\ pc[i] \in {"idle", "get"}
        /\ pending[i] \in {"none", "container"} /\ todo[i] \in {"none", "container"}
        /\ i \notin found /\ i \notin foundEvac

(* What the records and the operations' copies say of running containers. *)
RanInv(i) ==
    /\ cstate[i] = "running" => i \in ran
    /\ i \in ran => cstate[i] \in {"running", "completed", "gone"}
    /\ pc[i] \in {"start", "evRunning"} => i \in ran
    /\ Routable(i) => i \in ran

(* An operation that may yet delete a container that is up is working on   *)
(* one the BBS does not route to.                                          *)
DeleteInv(i) ==
    /\ pc[i] \in {"claimRun", "claim", "desired", "run", "undo", "removeRun", "reject", "evClaimed"}
          => ~Routable(i)
    /\ pc[i] \in {"remove", "crash", "evStopped", "evCrashed"} => cstate[i] \in {"completed", "gone"}
    /\ pc[i] = "delete" => cstate[i] \in {"completed", "gone"} \/ ~Routable(i)

(* A residual operation about to act works for a container that is gone. *)
ResidualInv(i) ==
    ~LookupFaults /\ pc[i] \in {"resRemove", "resJoint", "resEvac"} => cstate[i] = "gone"

IInv == \A i \in Local : FreshInv(i) /\ RanInv(i) /\ DeleteInv(i) /\ ResidualInv(i)

-----------------------------------------------------------------------------
(* Every step keeps every variable in its range. *)
LEMMA TypeStep == TypeOK /\ [Next]_vars => TypeOK'
<1> SUFFICES ASSUME TypeOK, [Next]_vars PROVE TypeOK'
  OBVIOUS
<1> USE LRPAssumption DEF TypeOK, Inst, LRPStates, Starting, Exists, CtrStates, Residuals,
        Ops, PCs, Goto, Fault, NoFault, bbsVars, ctrVars, bulkVars, boundVars
<1>1. ASSUME NEW i \in Local, GetContainer(i) PROVE TypeOK'
  BY <1>1 DEF GetContainer, OrdinaryProcess, EvacuationProcess
<1>2. ASSUME NEW i \in Local, ClaimActualLRP(i) PROVE TypeOK'
  BY <1>2 DEF ClaimActualLRP, ApplyClaim, Record, Holds
<1>3. ASSUME NEW i \in Local, DesiredLRPByProcessGuid(i) PROVE TypeOK'
  BY <1>3 DEF DesiredLRPByProcessGuid
<1>4. ASSUME NEW i \in Local, RunContainer(i) PROVE TypeOK'
  BY <1>4 DEF RunContainer
<1>5. ASSUME NEW i \in Local, DeleteContainer(i) PROVE TypeOK'
  BY <1>5 DEF DeleteContainer, Delete
<1>6. ASSUME NEW i \in Local, StartActualLRP(i) PROVE TypeOK'
  BY <1>6 DEF StartActualLRP, ApplyStart, Record, Holds
<1>7. ASSUME NEW i \in Local, StopContainer(i) PROVE TypeOK'
  BY <1>7 DEF StopContainer, Stop
<1>8. ASSUME NEW i \in Local, RemoveActualLRP(i) PROVE TypeOK'
  BY <1>8 DEF RemoveActualLRP, Call, ApplyRemove, Record, Holds
<1>9. ASSUME NEW i \in Local, CrashActualLRP(i) PROVE TypeOK'
  BY <1>9 DEF CrashActualLRP, Call, ApplyCrash, CrashRecord, Record, Holds
<1>10. ASSUME NEW i \in Local, RemoveEvacuatingActualLRP(i) PROVE TypeOK'
  BY <1>10 DEF RemoveEvacuatingActualLRP, Call, ApplyRemoveEvacuating, DropEvacuating
<1>11. ASSUME NEW i \in Local, EvacuateClaimedActualLRP(i) PROVE TypeOK'
  BY <1>11 DEF EvacuateClaimedActualLRP, Call, ApplyEvacuateClaimed, DropEvacuating, Record
<1>12. ASSUME NEW i \in Local, EvacuateStoppedActualLRP(i) PROVE TypeOK'
  BY <1>12 DEF EvacuateStoppedActualLRP, Call, ApplyEvacuateStopped, DropEvacuating, Record, Holds
<1>13. ASSUME NEW i \in Local, EvacuateCrashedActualLRP(i) PROVE TypeOK'
  BY <1>13 DEF EvacuateCrashedActualLRP, Call, ApplyEvacuateCrashed, DropEvacuating, CrashRecord, Record, Holds
<1>14. ASSUME NEW i \in Local, EvacuateRunningActualLRP(i) PROVE TypeOK'
  BY <1>14 DEF EvacuateRunningActualLRP, KeepRunning, DiscardRunning, DropEvacuating, Record, Holds
<1>15. ASSUME NEW i \in Local, ResidualGetContainer(i) PROVE TypeOK'
  BY <1>15 DEF ResidualGetContainer, ResidualProcess
<1>16. ASSUME NEW i \in Local, Execute(i) PROVE TypeOK'
  BY <1>16 DEF Execute
<1>17. ASSUME NEW i \in Local, ConsumeEvent(i) PROVE TypeOK'
  BY <1>17 DEF ConsumeEvent, Push
<1>18. ASSUME NEW i \in Local, BulkPush(i) PROVE TypeOK'
  BY <1>18 DEF BulkPush, Push
<1>19. ASSUME NEW i \in Local, PerformAdmits(i) PROVE TypeOK'
  BY <1>19 DEF PerformAdmits
<1>20. ASSUME NEW i \in Local, PerformAllocates(i) PROVE TypeOK'
  BY <1>20 DEF PerformAllocates, MayEmit
<1>21. ASSUME NEW i \in Local, StopLRPInstance(i) PROVE TypeOK'
  BY <1>21 DEF StopLRPInstance, Stop
<1>22. ASSUME NEW i \in Local, ContainerAdvances(i) PROVE TypeOK'
  BY <1>22 DEF ContainerAdvances, ContainerStep, MayEmit
<1>23. ASSUME NEW i \in Local, ContainerFinishes(i) PROVE TypeOK'
  BY <1>23 DEF ContainerFinishes, ContainerStep, MayEmit
<1>24. ASSUME NEW i \in Local, ReservationExpires(i) PROVE TypeOK'
  BY <1>24 DEF ReservationExpires, ContainerStep, MayEmit
<1>25. ASSUME NEW j \in Remote, RemoteClaims(j) PROVE TypeOK'
  BY <1>25 DEF RemoteClaims, clusterUnchanged, ApplyClaim, Record
<1>26. ASSUME NEW j \in Remote, RemoteStarts(j) PROVE TypeOK'
  BY <1>26 DEF RemoteStarts, clusterUnchanged, ApplyStart, Record
<1>27. CASE ListContainers
  BY <1>27 DEF ListContainers, BatchOperations
<1>28. CASE ActualLRPGroups
  BY <1>28 DEF ActualLRPGroups, BatchOperations
<1>29. CASE BatchFails
  BY <1>29 DEF BatchFails
<1>30. CASE BulkDone
  BY <1>30 DEF BulkDone
<1>31. CASE Evacuate
  BY <1>31 DEF Evacuate
<1>32. CASE CrashAndRestart
  BY <1>32 DEF CrashAndRestart
<1>33. CASE InstanceLost
  BY <1>33 DEF InstanceLost, clusterUnchanged, CrashRecord, Record, Holds
<1>34. CASE CrashRestarts
  BY <1>34 DEF CrashRestarts, clusterUnchanged, Record
<1>35. CASE Retire
  BY <1>35 DEF Retire, clusterUnchanged, Record
<1>36. CASE EvacuatingExpires
  BY <1>36 DEF EvacuatingExpires, clusterUnchanged
<1>37. CASE UNCHANGED vars
  BY <1>37 DEF vars
<1>38. QED
  BY <1>1, <1>2, <1>3, <1>4, <1>5, <1>6, <1>7, <1>8, <1>9, <1>10, <1>11,
     <1>12, <1>13, <1>14, <1>15, <1>16, <1>17, <1>18, <1>19, <1>20, <1>21,
     <1>22, <1>23, <1>24, <1>25, <1>26, <1>27, <1>28, <1>29, <1>30, <1>31,
     <1>32, <1>33, <1>34, <1>35, <1>36, <1>37, ZenonT(30)
     DEF Next, InstanceStep, OperationStep

(* TypeOK holds in every reachable state. *)
THEOREM TypeCorrect == Spec => []TypeOK
<1>1. Init => TypeOK
  BY LRPAssumption, SMTT(30) DEF Init, TypeOK, LRPStates, CtrStates, Ops, PCs
<1>2. QED
  BY <1>1, TypeStep, PTL DEF Spec

(* The inductive invariant is preserved: one case per operation, handler   *)
(* and environment step.                                                   *)
LEMMA InvStep == TypeOK /\ IInv /\ [Next]_vars => IInv'
<1> SUFFICES ASSUME TypeOK, IInv, [Next]_vars, NEW u \in Local
             PROVE  (FreshInv(u) /\ RanInv(u) /\ DeleteInv(u) /\ ResidualInv(u))'
  BY DEF IInv
<1> DEFINE Inv(i) == FreshInv(i) /\ RanInv(i) /\ DeleteInv(i) /\ ResidualInv(i)
<1>0. Inv(u)
  BY DEF IInv
<1> USE <1>0, LRPAssumption DEF TypeOK, Inst, LRPStates, Starting, Exists, CtrStates,
        Residuals, Ops, PCs, Goto, Fault, NoFault, bbsVars, ctrVars, bulkVars, boundVars,
        FreshInv, RanInv, DeleteInv, ResidualInv, Routable
<1>1. ASSUME NEW i \in Local, GetContainer(i) PROVE Inv(u)'
  BY <1>1 DEF GetContainer, OrdinaryProcess, EvacuationProcess
<1>2. ASSUME NEW i \in Local, ClaimActualLRP(i) PROVE Inv(u)'
  BY <1>2 DEF ClaimActualLRP, ApplyClaim, Record, Holds
<1>3. ASSUME NEW i \in Local, DesiredLRPByProcessGuid(i) PROVE Inv(u)'
  BY <1>3 DEF DesiredLRPByProcessGuid
<1>4. ASSUME NEW i \in Local, RunContainer(i) PROVE Inv(u)'
  BY <1>4 DEF RunContainer
<1>5. ASSUME NEW i \in Local, DeleteContainer(i) PROVE Inv(u)'
  BY <1>5 DEF DeleteContainer, Delete
<1>6. ASSUME NEW i \in Local, StartActualLRP(i) PROVE Inv(u)'
  BY <1>6 DEF StartActualLRP, ApplyStart, Record, Holds
<1>7. ASSUME NEW i \in Local, StopContainer(i) PROVE Inv(u)'
  BY <1>7 DEF StopContainer, Stop
<1>8. ASSUME NEW i \in Local, RemoveActualLRP(i) PROVE Inv(u)'
  BY <1>8 DEF RemoveActualLRP, Call, ApplyRemove, Record, Holds
<1>9. ASSUME NEW i \in Local, CrashActualLRP(i) PROVE Inv(u)'
  BY <1>9 DEF CrashActualLRP, Call, ApplyCrash, CrashRecord, Record, Holds
<1>10. ASSUME NEW i \in Local, RemoveEvacuatingActualLRP(i) PROVE Inv(u)'
  BY <1>10 DEF RemoveEvacuatingActualLRP, Call, ApplyRemoveEvacuating, DropEvacuating
<1>11. ASSUME NEW i \in Local, EvacuateClaimedActualLRP(i) PROVE Inv(u)'
  BY <1>11 DEF EvacuateClaimedActualLRP, Call, ApplyEvacuateClaimed, DropEvacuating, Record
<1>12. ASSUME NEW i \in Local, EvacuateStoppedActualLRP(i) PROVE Inv(u)'
  BY <1>12 DEF EvacuateStoppedActualLRP, Call, ApplyEvacuateStopped, DropEvacuating, Record, Holds
<1>13. ASSUME NEW i \in Local, EvacuateCrashedActualLRP(i) PROVE Inv(u)'
  BY <1>13 DEF EvacuateCrashedActualLRP, Call, ApplyEvacuateCrashed, DropEvacuating, CrashRecord, Record, Holds
<1>14. ASSUME NEW i \in Local, EvacuateRunningActualLRP(i) PROVE Inv(u)'
  BY <1>14 DEF EvacuateRunningActualLRP, KeepRunning, DiscardRunning, DropEvacuating, Record, Holds
<1>15. ASSUME NEW i \in Local, ResidualGetContainer(i) PROVE Inv(u)'
  BY <1>15 DEF ResidualGetContainer, ResidualProcess
<1>16. ASSUME NEW i \in Local, Execute(i) PROVE Inv(u)'
  BY <1>16 DEF Execute
<1>17. ASSUME NEW i \in Local, ConsumeEvent(i) PROVE Inv(u)'
  BY <1>17 DEF ConsumeEvent, Push
<1>18. ASSUME NEW i \in Local, BulkPush(i) PROVE Inv(u)'
  BY <1>18 DEF BulkPush, Push
<1>19. ASSUME NEW i \in Local, PerformAdmits(i) PROVE Inv(u)'
  BY <1>19 DEF PerformAdmits
<1>20. ASSUME NEW i \in Local, PerformAllocates(i) PROVE Inv(u)'
  BY <1>20 DEF PerformAllocates, MayEmit
<1>21. ASSUME NEW i \in Local, StopLRPInstance(i) PROVE Inv(u)'
  BY <1>21 DEF StopLRPInstance, Stop
<1>22. ASSUME NEW i \in Local, ContainerAdvances(i) PROVE Inv(u)'
  BY <1>22 DEF ContainerAdvances, ContainerStep, MayEmit
<1>23. ASSUME NEW i \in Local, ContainerFinishes(i) PROVE Inv(u)'
  BY <1>23 DEF ContainerFinishes, ContainerStep, MayEmit
<1>24. ASSUME NEW i \in Local, ReservationExpires(i) PROVE Inv(u)'
  BY <1>24 DEF ReservationExpires, ContainerStep, MayEmit
<1>25. ASSUME NEW j \in Remote, RemoteClaims(j) PROVE Inv(u)'
  BY <1>25 DEF RemoteClaims, clusterUnchanged, ApplyClaim, Record
<1>26. ASSUME NEW j \in Remote, RemoteStarts(j) PROVE Inv(u)'
  BY <1>26 DEF RemoteStarts, clusterUnchanged, ApplyStart, Record
<1>27. CASE ListContainers
  BY <1>27 DEF ListContainers, BatchOperations
<1>28. CASE ActualLRPGroups
  BY <1>28 DEF ActualLRPGroups, BatchOperations
<1>29. CASE BatchFails
  BY <1>29 DEF BatchFails
<1>30. CASE BulkDone
  BY <1>30 DEF BulkDone
<1>31. CASE Evacuate
  BY <1>31 DEF Evacuate
<1>32. CASE CrashAndRestart
  BY <1>32 DEF CrashAndRestart
<1>33. CASE InstanceLost
  BY <1>33 DEF InstanceLost, clusterUnchanged, CrashRecord, Record, Holds
<1>34. CASE CrashRestarts
  BY <1>34 DEF CrashRestarts, clusterUnchanged, Record
<1>35. CASE Retire
  BY <1>35 DEF Retire, clusterUnchanged, Record
<1>36. CASE EvacuatingExpires
  BY <1>36 DEF EvacuatingExpires, clusterUnchanged
<1>37. CASE UNCHANGED vars
  BY <1>37 DEF vars
<1>38. QED
  BY <1>1, <1>2, <1>3, <1>4, <1>5, <1>6, <1>7, <1>8, <1>9, <1>10, <1>11,
     <1>12, <1>13, <1>14, <1>15, <1>16, <1>17, <1>18, <1>19, <1>20, <1>21,
     <1>22, <1>23, <1>24, <1>25, <1>26, <1>27, <1>28, <1>29, <1>30, <1>31,
     <1>32, <1>33, <1>34, <1>35, <1>36, <1>37, ZenonT(30)
     DEF Next, InstanceStep, OperationStep

(* The inductive invariant holds in every reachable state. *)
THEOREM Invariance == Spec => []IInv
<1>1. Init => IInv
  <2> SUFFICES ASSUME Init, NEW i \in Local
               PROVE  FreshInv(i) /\ RanInv(i) /\ DeleteInv(i) /\ ResidualInv(i)
    BY Zenon DEF IInv
  <2>1. FreshInv(i)
    BY LRPAssumption DEF Init, FreshInv, Inst
  <2>2. RanInv(i) /\ DeleteInv(i)
    BY LRPAssumption DEF Init, RanInv, DeleteInv, Routable, Inst
  <2>3. ResidualInv(i)
    BY DEF Init, ResidualInv
  <2>4. QED
    BY <2>1, <2>2, <2>3
<1>2. QED
  BY <1>1, InvStep, TypeCorrect, PTL DEF Spec

(* With any number of instances, faults and crashes, before and during     *)
(* evacuation, what the BBS shows as Running or evacuating on this cell    *)
(* has been running on this cell.                                          *)
THEOREM RoutedToRealContainers == Spec => []RunningIsReal
<1>1. IInv => RunningIsReal
  BY DEF IInv, RanInv, Routable, RunningIsReal
<1>2. QED
  BY <1>1, Invariance, PTL

(* No operation of either processor deletes a running container to which   *)
(* the BBS routes.                                                         *)
THEOREM KeepsRoutable == Spec => RoutableKept
<1> DEFINE Safe == \A i \in Local :
          (cstate[i] = "running" /\ cstate'[i] = "gone" /\ crashes' = crashes) => ~Routable(i)
<1>1. TypeOK /\ IInv /\ [Next]_vars => [Safe]_vars
  <2> SUFFICES ASSUME TypeOK, IInv, Next, NEW u \in Local,
                      cstate[u] = "running", cstate'[u] = "gone", crashes' = crashes
               PROVE  ~Routable(u)
    BY DEF vars
  <2> USE DEF TypeOK
  <2>1. cstate' # cstate
    OBVIOUS
  <2>2. ~CrashAndRestart
    BY DEF CrashAndRestart
  <2>3. ASSUME NEW i \in Local, DeleteContainer(i) PROVE ~Routable(u)
    <3>1. i = u
      BY <2>3 DEF DeleteContainer, Delete
    <3>2. QED
      BY <2>3, <3>1 DEF DeleteContainer, IInv, DeleteInv
  <2>4. ASSUME NEW i \in Local, RunContainer(i) \/ PerformAdmits(i) \/ PerformAllocates(i)
        PROVE  FALSE
    BY <2>4 DEF RunContainer, PerformAdmits, PerformAllocates
  <2>5. ASSUME NEW i \in Local, StopContainer(i) \/ StopLRPInstance(i) PROVE FALSE
    BY <2>5 DEF StopContainer, StopLRPInstance, Stop
  <2>6. ASSUME NEW i \in Local,
               ContainerAdvances(i) \/ ContainerFinishes(i) \/ ReservationExpires(i)
        PROVE  FALSE
    BY <2>6 DEF ContainerAdvances, ContainerFinishes, ReservationExpires, ContainerStep
  <2>7. ASSUME NEW i \in Local, OperationStep(i)
        PROVE  RunContainer(i) \/ DeleteContainer(i) \/ StopContainer(i)
    BY <2>1, <2>7 DEF OperationStep, ctrVars, Call, GetContainer, ClaimActualLRP,
       DesiredLRPByProcessGuid, StartActualLRP, RemoveActualLRP, CrashActualLRP,
       RemoveEvacuatingActualLRP, EvacuateClaimedActualLRP, EvacuateStoppedActualLRP,
       EvacuateCrashedActualLRP, EvacuateRunningActualLRP, ResidualGetContainer
  <2>8. \E i \in Local : InstanceStep(i)
    BY <2>1, <2>2 DEF Next, ctrVars, clusterUnchanged, RemoteClaims, RemoteStarts,
       ListContainers, ActualLRPGroups, BatchFails, BulkDone, Evacuate, InstanceLost,
       CrashRestarts, Retire, EvacuatingExpires
  <2>9. QED
    BY <2>1, <2>3, <2>4, <2>5, <2>6, <2>7, <2>8
       DEF InstanceStep, ctrVars, Execute, ConsumeEvent, BulkPush
<1>2. QED
  BY <1>1, TypeCorrect, Invariance, PTL DEF Spec, RoutableKept

(* When the executor's lookups do not fail, residual operations remove     *)
(* records of gone containers only.                                        *)
THEOREM ResidualIsSafe == ~LookupFaults => (Spec => ResidualOnlyIfGone)
<1> SUFFICES ASSUME ~LookupFaults PROVE Spec => ResidualOnlyIfGone
  OBVIOUS
<1> DEFINE Safe == \A i \in Local :
          (/\ pc[i] \in {"resRemove", "resJoint", "resEvac"} /\ pc'[i] # pc[i]
           /\ bbsVars' # bbsVars)
          => cstate[i] = "gone"
<1>1. IInv => Safe
  BY DEF IInv, ResidualInv
<1>2. QED
  BY <1>1, Invariance, PTL DEF ResidualOnlyIfGone
-----------------------------------------------------------------------------
(* A step that leaves containers and crashes alone and routes to nobody    *)
(* new is an Unroute of the contract.                                      *)
LEMMA UnrouteStep ==
    ASSUME UNCHANGED <<cstate, ran, crashes>>, \A u \in Local : Routable(u)' => Routable(u)
    PROVE  Contract!Unroute
<1>1. [u \in Local |-> PhaseOf(u)]' = [u \in Local |-> PhaseOf(u)]
  BY DEF PhaseOf
<1>2. QED
  BY <1>1 DEF Contract!Unroute

(* One that routes to i, whose container has been running, is a Route. *)
LEMMA RouteStep ==
    ASSUME TypeOK, IInv, NEW i \in Local, i \in ran, UNCHANGED <<cstate, ran, crashes>>,
           Routable(i)', \A u \in Local \ {i} : Routable(u)' => Routable(u)
    PROVE  Contract!Route(i)
<1>1. [u \in Local |-> PhaseOf(u)]' = [u \in Local |-> PhaseOf(u)]
  BY DEF PhaseOf
<1>2. PhaseOf(i) \in {"up", "ended", "removed"}
  BY DEF PhaseOf, IInv, RanInv, Starting, TypeOK, CtrStates
<1>3. QED
  BY <1>1, <1>2 DEF Contract!Route

(* A step that leaves the records and crashes alone and moves only i's     *)
(* container is a step of i's phase.                                       *)
LEMMA PhaseStep ==
    ASSUME UNCHANGED bbsVars, UNCHANGED crashes, NEW i \in Local, NEW from, NEW to,
           PhaseOf(i) \in from, PhaseOf(i)' = to,
           \A u \in Local \ {i} : PhaseOf(u)' = PhaseOf(u)
    PROVE  Contract!Become(i, from, to)
<1>1. {u \in Local : Routable(u)}' = {u \in Local : Routable(u)}
  BY DEF Routable, bbsVars
<1>2. [u \in Local |-> PhaseOf(u)]' = [[u \in Local |-> PhaseOf(u)] EXCEPT ![i] = to]
  BY Zenon
<1>3. QED
  BY <1>1, <1>2 DEF Contract!Become

(* Every step of the cell is a step of its contract or invisible to it. *)
LEMMA ContractStep == TypeOK /\ IInv /\ [Next]_vars => [Contract!Next]_(Contract!vars)
<1> SUFFICES ASSUME TypeOK, IInv, [Next]_vars PROVE Contract!Next \/ UNCHANGED Contract!vars
  OBVIOUS
<1> USE LRPAssumption DEF TypeOK, Inst, NoFault, Fault, Goto, bbsVars, ctrVars, boundVars
<1>1. ASSUME UNCHANGED <<bbsVars, cstate, ran, crashes>>
      PROVE  Contract!Unroute
  BY <1>1, UnrouteStep DEF Routable
<1>2. ASSUME NEW i \in Local, ClaimActualLRP(i) PROVE Contract!Next
  <2>1. \A u \in Local : Routable(u)' => Routable(u)
    BY <1>2 DEF ClaimActualLRP, ApplyClaim, Record, Routable
  <2>2. QED
    BY <1>2, <2>1, UnrouteStep DEF ClaimActualLRP, Contract!Next
<1>3. ASSUME NEW i \in Local, StartActualLRP(i) PROVE Contract!Next
  <2>1. i \in ran /\ \A u \in Local \ {i} : Routable(u)' => Routable(u)
    BY <1>3 DEF StartActualLRP, ApplyStart, Record, Routable, IInv, RanInv
  <2>2. CASE Routable(i)' /\ ~Routable(i)
    BY <1>3, <2>1, <2>2, RouteStep DEF StartActualLRP, Contract!Next
  <2>3. CASE Routable(i)' => Routable(i)
    BY <1>3, <2>1, <2>3, UnrouteStep DEF StartActualLRP, Contract!Next
  <2>4. QED
    BY <2>2, <2>3
<1>4. ASSUME NEW i \in Local, EvacuateRunningActualLRP(i) PROVE Contract!Next
  <2>1. i \in ran /\ \A u \in Local \ {i} : Routable(u)' => Routable(u)
    BY <1>4 DEF EvacuateRunningActualLRP, KeepRunning, DiscardRunning, DropEvacuating, Record,
                Routable, IInv, RanInv
  <2>2. CASE Routable(i)' /\ ~Routable(i)
    BY <1>4, <2>1, <2>2, RouteStep DEF EvacuateRunningActualLRP, Contract!Next
  <2>3. CASE Routable(i)' => Routable(i)
    BY <1>4, <2>1, <2>3, UnrouteStep DEF EvacuateRunningActualLRP, Contract!Next
  <2>4. QED
    BY <2>2, <2>3
<1>5. ASSUME NEW i \in Local,
             \/ RemoveActualLRP(i) \/ CrashActualLRP(i) \/ RemoveEvacuatingActualLRP(i)
             \/ EvacuateClaimedActualLRP(i) \/ EvacuateStoppedActualLRP(i)
             \/ EvacuateCrashedActualLRP(i)
      PROVE  Contract!Next
  <2>1. \A u \in Local : Routable(u)' => Routable(u)
    BY <1>5, ZenonT(30) DEF RemoveActualLRP, CrashActualLRP, RemoveEvacuatingActualLRP,
       EvacuateClaimedActualLRP, EvacuateStoppedActualLRP, EvacuateCrashedActualLRP, Call,
       ApplyRemove, ApplyCrash, ApplyRemoveEvacuating, ApplyEvacuateClaimed,
       ApplyEvacuateStopped, ApplyEvacuateCrashed, CrashRecord, DropEvacuating, Record, Holds,
       Routable
  <2>2. UNCHANGED <<cstate, ran, crashes>>
    BY <1>5 DEF RemoveActualLRP, CrashActualLRP, RemoveEvacuatingActualLRP,
       EvacuateClaimedActualLRP, EvacuateStoppedActualLRP, EvacuateCrashedActualLRP, Call
  <2>3. QED
    BY <2>1, <2>2, UnrouteStep, SMTT(30) DEF Contract!Next
<1>6. ASSUME NEW i \in Local, RunContainer(i) \/ PerformAdmits(i) PROVE Contract!Next
  <2>1. \A u \in Local : PhaseOf(u)' = PhaseOf(u)
    BY <1>6 DEF RunContainer, PerformAdmits, PhaseOf, Starting
  <2>2. {u \in Local : Routable(u)}' = {u \in Local : Routable(u)}
    BY <1>6 DEF RunContainer, PerformAdmits, Routable
  <2>3. QED
    BY <1>6, <2>1, <2>2 DEF Contract!Next, Contract!Unroute, RunContainer, PerformAdmits
<1>7. ASSUME NEW i \in Local,
             DeleteContainer(i) \/ StopContainer(i) \/ StopLRPInstance(i) \/ PerformAllocates(i)
             \/ ContainerAdvances(i) \/ ContainerFinishes(i) \/ ReservationExpires(i)
      PROVE  Contract!Next
  <2>1. UNCHANGED bbsVars /\ UNCHANGED crashes /\ \A u \in Local \ {i} : PhaseOf(u)' = PhaseOf(u)
    BY <1>7 DEF DeleteContainer, Delete, StopContainer, StopLRPInstance, Stop, PerformAllocates,
       ContainerAdvances, ContainerFinishes, ReservationExpires, ContainerStep, PhaseOf
  <2>2. \/ PhaseOf(i)' = PhaseOf(i)
        \/ PhaseOf(i) = "waiting" /\ PhaseOf(i)' \in {"up", "never"}
        \/ PhaseOf(i) = "up" /\ PhaseOf(i)' = "ended"
        \/ PhaseOf(i) = "ended" /\ PhaseOf(i)' = "removed"
        \/ PhaseOf(i) = "up" /\ PhaseOf(i)' = "removed" /\ ~Routable(i)
    <3>1. CASE DeleteContainer(i)
      BY <3>1 DEF DeleteContainer, Delete, PhaseOf, Starting, IInv, RanInv, DeleteInv, CtrStates, Exists
    <3>2. CASE StopContainer(i) \/ StopLRPInstance(i)
      BY <3>2 DEF StopContainer, StopLRPInstance, Stop, PhaseOf, Starting, IInv, RanInv, CtrStates, Exists
    <3>3. CASE PerformAllocates(i)
      BY <3>3 DEF PerformAllocates, PhaseOf, Starting, IInv, RanInv, CtrStates, Exists
    <3>4. CASE ContainerAdvances(i) \/ ContainerFinishes(i) \/ ReservationExpires(i)
      BY <3>4 DEF ContainerAdvances, ContainerFinishes, ReservationExpires, ContainerStep,
         PhaseOf, Starting, IInv, RanInv, CtrStates, Exists
    <3>5. QED
      BY <1>7, <3>1, <3>2, <3>3, <3>4
  <2>3. CASE PhaseOf(i)' = PhaseOf(i)
    <3>1. {u \in Local : Routable(u)}' = {u \in Local : Routable(u)}
      BY <2>1 DEF Routable
    <3>2. QED
      BY <2>1, <2>3, <3>1 DEF Contract!Next, Contract!Unroute
  <2>4. CASE PhaseOf(i) = "waiting" /\ PhaseOf(i)' \in {"up", "never"}
    BY <2>1, <2>4, PhaseStep DEF Contract!Next, Contract!ComesUp, Contract!GivenUp
  <2>5. CASE PhaseOf(i) = "up" /\ PhaseOf(i)' = "ended"
    BY <2>1, <2>5, PhaseStep DEF Contract!Next, Contract!Ends
  <2>6. CASE PhaseOf(i) \in {"up", "ended"} /\ PhaseOf(i)' = "removed"
             /\ (PhaseOf(i) = "up" => ~Routable(i))
    BY <2>1, <2>6, PhaseStep DEF Contract!Next, Contract!Removed
  <2>7. QED
    BY <2>2, <2>3, <2>4, <2>5, <2>6
<1>8. CASE CrashAndRestart
  <2>1. /\ \A u \in Local : PhaseOf(u) \in Contract!Phases /\ PhaseOf(u)' \in Contract!Phases
        /\ \A u \in Local :
              /\ PhaseOf(u) \in {"up", "ended", "removed"} => PhaseOf(u)' = "removed"
              /\ PhaseOf(u) = "waiting" => PhaseOf(u)' \in {"waiting", "never"}
              /\ PhaseOf(u) = "never" => PhaseOf(u)' = "never"
    BY <1>8 DEF CrashAndRestart, PhaseOf, Contract!Phases, Starting, IInv, RanInv, CtrStates, Exists
  <2>2. crashes' = crashes + 1 /\ {u \in Local : Routable(u)}' = {u \in Local : Routable(u)}
    BY <1>8 DEF CrashAndRestart, Routable
  <2>3. QED
    BY <2>1, <2>2 DEF Contract!Next, Contract!Crash
<1>9. CASE \/ \E j \in Remote : RemoteClaims(j) \/ RemoteStarts(j)
           \/ InstanceLost \/ CrashRestarts \/ Retire \/ EvacuatingExpires
  <2>1. \A u \in Local : Routable(u)' => Routable(u)
    BY <1>9 DEF RemoteClaims, RemoteStarts, InstanceLost, CrashRestarts, Retire,
       EvacuatingExpires, ApplyClaim, ApplyStart, CrashRecord, Record, Holds, Routable
  <2>2. UNCHANGED <<cstate, ran, crashes>>
    BY <1>9 DEF RemoteClaims, RemoteStarts, InstanceLost, CrashRestarts, Retire,
       EvacuatingExpires, clusterUnchanged
  <2>3. QED
    BY <2>1, <2>2, UnrouteStep DEF Contract!Next
<1>10. CASE ListContainers \/ ActualLRPGroups \/ BatchFails \/ BulkDone \/ Evacuate
  BY <1>1, <1>10 DEF ListContainers, ActualLRPGroups, BatchFails, BulkDone, Evacuate, Contract!Next
<1>11. ASSUME NEW i \in Local,
              \/ Execute(i) \/ ConsumeEvent(i) \/ BulkPush(i) \/ GetContainer(i)
              \/ DesiredLRPByProcessGuid(i) \/ ResidualGetContainer(i)
       PROVE  Contract!Next
  BY <1>1, <1>11 DEF Execute, ConsumeEvent, BulkPush, GetContainer, DesiredLRPByProcessGuid,
     ResidualGetContainer, Contract!Next
<1>12. CASE UNCHANGED vars
  BY <1>1, <1>12 DEF vars, Contract!Next
<1>13. QED
  BY <1>2, <1>3, <1>4, <1>5, <1>6, <1>7, <1>8, <1>9, <1>10, <1>11, <1>12
     DEF Next, InstanceStep, OperationStep

(* For any instances, faults and crashes the cell keeps its contract with  *)
(* the routers.                                                            *)
THEOREM ImplementsLRPContract == Spec => KeepsLRPContract
<1>1. Init => Contract!Init
  BY LRPAssumption DEF Init, Contract!Init, PhaseOf, Routable, Inst
<1>2. QED
  BY <1>1, ContractStep, TypeCorrect, Invariance, PTL DEF Spec, KeepsLRPContract, Contract!Spec
=============================================================================

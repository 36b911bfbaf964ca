------------------------------- MODULE Auction -------------------------------
(***************************************************************************)
(* One cell in the auctions that place work on it.  An auctioneer          *)
(* (external) asks the rep for its state (AuctionCellRep.State), places    *)
(* work on its copy of the answer with the operators this repository gives *)
(* it (the Match functions, AddLRP and AddTask of resources.go, the scores *)
(* of scoring.go), and sends the placed work back (AuctionCellRep.Perform).*)
(* Between those steps containers move on, an evacuation may begin and the *)
(* rep may restart with other root file systems.                           *)
(* The copy keeps resources and the number of starting containers; the     *)
(* list of instances that State also returns is left out.                  *)
(***************************************************************************)
EXTENDS Integers, FiniteSets, Functions

CONSTANTS
    Item,                   \* LRP instances and tasks to place
    Task,                   \* those that are tasks
    Memory, Disk,           \* [Item -> Nat]: the Resource of an item
    RootFS,                 \* [Item -> [scheme, opaque]]: its parsed RootFs
    Tags, Drivers,          \* [Item -> set]: placement tags and volume drivers it asks for
    TotalMemory, TotalDisk, TotalContainers,    \* the cell
    StackSets,              \* the stack path maps the cell may be configured with
    ArbitraryRootFSes,      \* schemes of which every root file system is supported
    RequiredTags, OptionalTags, CellDrivers,
    Half,                   \* 2^31 in the code: int32 is -Half .. Half-1
    Weight,                 \* startingContainerWeight
    MaxAuctions, MaxFaults, MaxRestarts     \* bounds

Preloaded == {"preloaded", "preloaded+layer"}

ASSUME AuctionAssumption ==
    /\ Task \subseteq Item /\ IsFiniteSet(Item)
    /\ Memory \in [Item -> Nat] /\ Disk \in [Item -> Nat]
    /\ TotalMemory \in Nat /\ TotalDisk \in Nat /\ TotalContainers \in Nat
    /\ Half \in Nat \ {0} /\ Weight \in Nat
    /\ ArbitraryRootFSes \cap Preloaded = {}
    /\ MaxAuctions \in Nat /\ MaxFaults \in Nat /\ MaxRestarts \in Nat

VARIABLES
    phase,          \* how far the auction is
    view,           \* the auctioneer's CellState
    work,           \* what the auctioneer placed on the cell
    failed,         \* Perform: failedWork
    allocated,      \* history: what this Perform has allocated
    excuse,         \* history: what happened since State that may make Perform fail
    inUse,          \* history: placed tasks whose guid the cell had already
    containers,     \* the executor's containers: [guid, item, state]
    stacks, mode,   \* the rep's stack path map and evacuation context
    auctions, faults, restarts      \* spent bounds

auctionVars == <<phase, view, work, failed, allocated, excuse, inUse, auctions>>
cellVars    == <<containers, stacks, mode, restarts>>
vars == <<phase, view, work, failed, allocated, excuse, inUse, containers, stacks, mode,
          auctions, faults, restarts>>

Fault == faults < MaxFaults /\ faults' = faults + 1

-----------------------------------------------------------------------------
(* The executor's bookkeeping: a container takes its resources until it is *)
(* deleted.                                                                *)

MemoryOf(S) == SumFunctionOnSet(Memory, S)
DiskOf(S)   == SumFunctionOnSet(Disk, S)

Used(resource, C) == SumFunction([c \in C |-> resource[c.item]])

RemainingMemory     == TotalMemory - Used(Memory, containers)
RemainingDisk       == TotalDisk - Used(Disk, containers)
RemainingContainers == TotalContainers - Cardinality(containers)

Fits(S) ==
    /\ MemoryOf(S) <= RemainingMemory
    /\ DiskOf(S) <= RemainingDisk
    /\ Cardinality(S) <= RemainingContainers

(* A task's container has the guid of the task; an instance gets a new one *)
(* each time it is placed.                                                 *)
ContainerGuid(w) == IF w \in Task THEN <<w, 0>> ELSE <<w, auctions>>
Guids            == {c.guid : c \in containers}

Starting == {"reserved", "created"}

-----------------------------------------------------------------------------
(* What the auctioneer does with a CellState.                              *)

(* The conversion int32(n). *)
ToInt32(n) == ((n + Half) % (2 * Half)) - Half

(* rootFSProviders and Match: preloaded schemes match the stacks the cell  *)
(* had when State was called, arbitrary schemes match anything.            *)
MatchRootFS(v, r) ==
    \/ r.scheme \in ArbitraryRootFSes
    \/ r.scheme \in Preloaded /\ r.opaque \in v.stacks

MatchVolumeDrivers(ds) == ds \subseteq CellDrivers

MatchPlacementTags(ts) == RequiredTags \subseteq ts /\ ts \subseteq RequiredTags \cup OptionalTags

(* Faulty: a cell without a free container is not noticed. *)
ResourceMatchIgnoresContainers(v, w) == v.memory >= Memory[w] /\ v.disk >= Disk[w]

ResourceMatch(v, w) ==
    /\ v.memory >= Memory[w]
    /\ v.disk >= Disk[w]
    /\ v.containers >= 1

(* Faulty: the container an item takes is not subtracted. *)
SubtractKeepsContainers(v, w) ==
    [v EXCEPT !.memory = @ - Memory[w], !.disk = @ - Disk[w]]

Subtract(v, w) ==
    [v EXCEPT !.memory = @ - Memory[w], !.disk = @ - Disk[w], !.containers = @ - 1]

(* AddLRP and AddTask *)
Add(v, w) == [Subtract(v, w) EXCEPT !.starting = @ + 1]

(* The totals of the answer, converted like the remaining resources. *)
Total == [memory |-> ToInt32(TotalMemory), disk |-> ToInt32(TotalDisk),
          containers |-> TotalContainers]

(* The scores, times the product of the three totals and of the divisor of *)
(* the average, so that they are integers.                                 *)
Scale == Total.memory * Total.disk * Total.containers

(* computeScore (worst fit): mean of the used fractions, plus a weight for *)
(* each starting container.                                                *)
ComputeScore(v, w) ==
    LET r == Subtract(v, w)
    IN  (3 * Scale - (  r.memory * Total.disk * Total.containers
                      + r.disk * Total.memory * Total.containers
                      + r.containers * Total.memory * Total.disk))
        + v.starting * Weight * 3 * Scale

(* bestFit: mean of the fractions that are left, containers counting three *)
(* times.                                                                  *)
BestFit(v, w) ==
    LET r == Subtract(v, w)
    IN  r.memory * Total.disk * Total.containers
        + r.disk * Total.memory * Total.containers
        + 3 * r.containers * Total.memory * Total.disk

-----------------------------------------------------------------------------
NoView == [memory |-> 0, disk |-> 0, containers |-> 0, starting |-> 0, stacks |-> {}]

Init ==
    /\ phase = "idle" /\ view = NoView
    /\ work = {} /\ failed = {} /\ allocated = {} /\ excuse = {} /\ inUse = {}
    /\ containers = {} /\ stacks \in StackSets /\ mode = "ordinary"
    /\ auctions = 0 /\ faults = 0 /\ restarts = 0

(* State: the containers are listed first, *)
ListContainers ==
    /\ phase = "idle" /\ auctions < MaxAuctions
    /\ phase' = "listed" /\ auctions' = auctions + 1
    /\ view' = [NoView EXCEPT !.starting = Cardinality({c \in containers : c.state \in Starting})]
    /\ work' = {} /\ failed' = {} /\ allocated' = {} /\ excuse' = {} /\ inUse' = {}
    /\ UNCHANGED <<cellVars, faults>>

(* then the remaining resources are asked for and converted, *)
RemainingResources ==
    /\ phase = "listed"
    /\ phase' = "counted"
    /\ view' = [view EXCEPT !.memory = ToInt32(RemainingMemory),
                            !.disk = ToInt32(RemainingDisk),
                            !.containers = RemainingContainers,
                            !.stacks = stacks]
    /\ UNCHANGED <<work, failed, allocated, excuse, inUse, auctions, cellVars, faults>>

(* then the answer is sent.  The auctioneer places nothing on a cell that  *)
(* says it is evacuating.                                                  *)
StateReplies ==
    /\ phase = "counted"
    /\ phase' = IF mode = "evacuating" THEN "idle" ELSE "placing"
    /\ UNCHANGED <<view, work, failed, allocated, excuse, inUse, auctions, cellVars, faults>>

(* A call of State fails, or the cell is unhealthy: there is no answer. *)
StateFails ==
    /\ phase \in {"listed", "counted"} /\ Fault
    /\ phase' = "idle"
    /\ UNCHANGED <<view, work, failed, allocated, excuse, inUse, auctions, cellVars>>

Place(w) ==
    /\ phase = "placing" /\ w \notin work
    /\ MatchRootFS(view, RootFS[w])
    /\ MatchVolumeDrivers(Drivers[w]) /\ MatchPlacementTags(Tags[w])
    /\ ResourceMatch(view, w)
    /\ view' = Add(view, w) /\ work' = work \cup {w}
    /\ UNCHANGED <<phase, failed, allocated, excuse, inUse, auctions, cellVars, faults>>

SendWork ==
    /\ phase = "placing" /\ work # {}
    /\ phase' = "sent"
    /\ UNCHANGED <<view, work, failed, allocated, excuse, inUse, auctions, cellVars, faults>>

-----------------------------------------------------------------------------
(* PathForRootFS: only a preloaded root file system may be unknown. *)
PathForRootFS(r) == r.scheme \in Preloaded => r.opaque \in stacks

(* Perform returns all the work when the cell is evacuating. *)
PerformBegins ==
    /\ phase = "sent"
    /\ IF mode = "evacuating"
       THEN /\ phase' = "replied" /\ failed' = work /\ excuse' = excuse \cup {"evacuating"}
       ELSE /\ phase' = "lrps" /\ UNCHANGED <<failed, excuse>>
    /\ UNCHANGED <<view, work, allocated, inUse, auctions, cellVars, faults>>

(* AllocateContainers (external): reserves what fits, in some order.       *)
(* Requests for guids it has are refused.                                  *)
Reservable(requests, A) ==
    LET new == {w \in requests : ContainerGuid(w) \notin Guids}
    IN  /\ A \subseteq new /\ Fits(A)
        /\ \A w \in new \ A : ~Fits(A \cup {w})

Reserved(A) == {[guid |-> ContainerGuid(w), item |-> w, state |-> "reserved"] : w \in A}

(* Faulty: items whose allocation failed are not handed back. *)
AllocateLosesFailures(asked, requests) ==
    \/ \E A \in SUBSET requests :
          /\ Reservable(requests, A)
          /\ containers' = containers \cup Reserved(A)
          /\ allocated' = allocated \cup A
          /\ failed' = failed \cup (asked \ requests)
          /\ inUse' = inUse \cup {w \in requests : ContainerGuid(w) \in Guids}
          /\ UNCHANGED faults
    \/ /\ Fault
       /\ failed' = failed \cup asked
       /\ UNCHANGED <<containers, allocated, inUse>>

(* Half of Perform: the items asked for that could be translated are       *)
(* requested together.  Untranslated and refused items fail, and all of    *)
(* them do if the call itself fails.                                       *)
Allocate(asked, requests) ==
    \/ \E A \in SUBSET requests :
          /\ Reservable(requests, A)
          /\ containers' = containers \cup Reserved(A)
          /\ allocated' = allocated \cup A
          /\ failed' = failed \cup (asked \ requests) \cup (requests \ A)
          /\ inUse' = inUse \cup {w \in requests : ContainerGuid(w) \in Guids}
          /\ UNCHANGED faults
    \/ /\ Fault
       /\ failed' = failed \cup asked
       /\ UNCHANGED <<containers, allocated, inUse>>

Translated(S) == {w \in S : PathForRootFS(RootFS[w])}

(* The LRPs.  An instance guid may fail to be generated (no fault spent). *)
PerformLRPs ==
    /\ phase = "lrps"
    /\ phase' = "tasks"
    /\ LET lrps == work \ Task
       IN  \/ lrps = {} /\ UNCHANGED <<containers, allocated, failed, inUse, faults, excuse>>
           \/ /\ lrps # {}
              /\ \E noGuid \in SUBSET lrps :
                    /\ Allocate(lrps, Translated(lrps \ noGuid))
                    /\ excuse' = IF noGuid # {} \/ faults' # faults
                                 THEN excuse \cup {"fault"} ELSE excuse
    /\ UNCHANGED <<view, work, auctions, stacks, mode, restarts>>

(* The tasks. *)
PerformTasks ==
    /\ phase = "tasks"
    /\ phase' = "replied"
    /\ LET tasks == work \cap Task
       IN  \/ tasks = {} /\ UNCHANGED <<containers, allocated, failed, inUse, faults, excuse>>
           \/ /\ tasks # {}
              /\ Allocate(tasks, Translated(tasks))
              /\ excuse' = IF faults' # faults THEN excuse \cup {"fault"} ELSE excuse
    /\ UNCHANGED <<view, work, auctions, stacks, mode, restarts>>

AuctionEnds ==
    /\ phase \in {"placing", "replied"}
    /\ phase' = "idle"
    /\ UNCHANGED <<view, work, failed, allocated, excuse, inUse, auctions, cellVars, faults>>

-----------------------------------------------------------------------------
(* Meanwhile on the cell.                                                  *)

(* A container moves on, or is deleted. *)
ContainerSteps(c) ==
    /\ \E s \in {"created", "running", "completed"} :
          /\ <<c.state, s>> \in {<<"reserved", "created">>, <<"created", "running">>}
                                \cup {"reserved", "created", "running"} \X {"completed"}
          /\ containers' = (containers \ {c}) \cup {[c EXCEPT !.state = s]}
    /\ UNCHANGED <<auctionVars, stacks, mode, restarts, faults>>

ContainerDeleted(c) ==
    /\ containers' = containers \ {c}
    /\ UNCHANGED <<auctionVars, stacks, mode, restarts, faults>>

Evacuate ==
    /\ mode = "ordinary"
    /\ mode' = "evacuating"
    /\ UNCHANGED <<auctionVars, containers, stacks, restarts, faults>>

(* Faulty: the stack path map is not read again. *)
RestartWithoutStacks ==
    /\ restarts < MaxRestarts
    /\ restarts' = restarts + 1
    /\ containers' = {} /\ mode' = "ordinary" /\ stacks' = {}
    /\ phase' = IF phase \in {"placing", "sent"} THEN phase ELSE "idle"
    /\ excuse' = excuse \cup {"restart"}
    /\ UNCHANGED <<view, work, failed, allocated, inUse, auctions, faults>>

(* The rep comes back without containers, perhaps with other stacks.  A    *)
(* request it was serving is lost, with its answer.                        *)
Restart ==
    /\ restarts < MaxRestarts
    /\ restarts' = restarts + 1
    /\ containers' = {} /\ mode' = "ordinary" /\ stacks' \in StackSets
    /\ phase' = IF phase \in {"placing", "sent"} THEN phase ELSE "idle"
    /\ excuse' = excuse \cup {"restart"}
    /\ UNCHANGED <<view, work, failed, allocated, inUse, auctions, faults>>

Next ==
    \/ ListContainers \/ RemainingResources \/ StateReplies \/ StateFails
    \/ \E w \in Item : Place(w)
    \/ SendWork \/ PerformBegins \/ PerformLRPs \/ PerformTasks \/ AuctionEnds
    \/ \E c \in containers : ContainerSteps(c) \/ ContainerDeleted(c)
    \/ Evacuate \/ Restart

Spec == Init /\ [][Next]_vars

-----------------------------------------------------------------------------
View == [memory : Int, disk : Int, containers : Int, starting : Nat,
         stacks : StackSets \cup {{}}]

(* Every variable stays in its range. *)
TypeOK ==
    /\ phase \in {"idle", "listed", "counted", "placing", "sent", "lrps", "tasks", "replied"}
    /\ view \in View
    /\ work \subseteq Item /\ failed \subseteq Item
    /\ allocated \subseteq Item /\ inUse \subseteq Item
    /\ excuse \subseteq {"evacuating", "fault", "restart"}
    /\ \A c \in containers : c.item \in Item
    /\ stacks \in StackSets
    /\ mode \in {"ordinary", "evacuating"}
    /\ auctions \in 0..MaxAuctions /\ faults \in 0..MaxFaults /\ restarts \in 0..MaxRestarts

(* Perform accounts for all its work: when it answers, every item has      *)
(* either been given a container by this call or is handed back, and none  *)
(* is both, whichever of translation, the two calls and single             *)
(* allocations fail.                                                       *)
WorkAccounted ==
    phase = "replied" => /\ failed \cup allocated = work
                         /\ failed \cap allocated = {}

(* A State answer is a promise: what Match and ResourceMatch accept on the *)
(* auctioneer's copy is not refused by the cell, unless a task is already  *)
(* there, a call fails, the cell began to evacuate or the rep restarted in *)
(* between; not even if a resource is too large for the int32 of State.    *)
PromiseKept == phase = "replied" /\ excuse = {} => failed \subseteq inUse

(* Placing an item makes the cell strictly less attractive for whatever    *)
(* comes next when the worst fit is wanted, and strictly more when the     *)
(* best fit is (the auctioneer takes the lowest score), even for items     *)
(* that need neither memory nor disk (scoring.go; for totals that fit in   *)
(* the int32 of State).                                                    *)
PlacingMovesScores ==
    [][phase = "placing" /\ work' # work =>
          \A w \in Item : /\ ComputeScore(view', w) > ComputeScore(view, w)
                         /\ BestFit(view', w) < BestFit(view, w)]_vars
=============================================================================

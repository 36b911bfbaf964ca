---------------------------- MODULE AuctionProofs ----------------------------
(***************************************************************************)
(* For any cell, any work and any number of auctions, failures and         *)
(* restarts: Perform accounts for all its work, and keeps the promise that *)
(* State made; placing moves the scores the way the auctioneer relies on.  *)
(***************************************************************************)
EXTENDS Auction, DataLemmas

(* Before the first call of Perform nothing has failed or been allocated;  *)
(* between its two calls the LRPs are accounted for and the tasks are not  *)
(* touched; at the end everything is.                                      *)
AccountInv ==
    /\ phase \in {"idle", "listed", "counted", "placing", "sent", "lrps", "tasks", "replied"}
    /\ phase \in {"listed", "counted", "placing", "sent", "lrps"}
          => failed = {} /\ allocated = {}
    /\ phase = "tasks" => /\ failed \cup allocated = work \ Task
                          /\ failed \cap allocated = {}
    /\ WorkAccounted

(* One half of Perform splits what it is asked for into what it hands back *)
(* and what it allocates.                                                  *)
LEMMA AllocateSplits ==
    ASSUME NEW asked, NEW requests \in SUBSET asked, Allocate(asked, requests),
           asked \cap (failed \cup allocated) = {}, failed \cap allocated = {}
    PROVE  /\ failed' \cup allocated' = failed \cup allocated \cup asked
           /\ failed' \cap allocated' = {}
<1>1. CASE \E A \in SUBSET requests :
              /\ allocated' = allocated \cup A
              /\ failed' = failed \cup (asked \ requests) \cup (requests \ A)
  BY <1>1
<1>2. CASE failed' = failed \cup asked /\ UNCHANGED allocated
  BY <1>2
<1>3. QED
  BY <1>1, <1>2 DEF Allocate

(* Every step keeps the account. *)
LEMMA AccountStep == AccountInv /\ [Next]_vars => AccountInv'
<1> SUFFICES ASSUME AccountInv, [Next]_vars PROVE AccountInv'
  OBVIOUS
<1> USE DEF AccountInv, WorkAccounted
<1>1. CASE ListContainers
  BY <1>1 DEF ListContainers
<1>2. CASE RemainingResources \/ StateReplies \/ StateFails
  BY <1>2 DEF RemainingResources, StateReplies, StateFails
<1>3. ASSUME NEW w \in Item, Place(w) PROVE AccountInv'
  BY <1>3 DEF Place
<1>4. CASE SendWork \/ AuctionEnds
  BY <1>4 DEF SendWork, AuctionEnds
<1>5. CASE PerformBegins
  BY <1>5 DEF PerformBegins
<1>6. CASE PerformLRPs
  <2>1. phase = "lrps" /\ phase' = "tasks" /\ work' = work /\ failed = {} /\ allocated = {}
    BY <1>6 DEF PerformLRPs
  <2>2. CASE work \ Task = {} /\ UNCHANGED <<allocated, failed>>
    BY <2>1, <2>2
  <2>3. ASSUME NEW noGuid \in SUBSET (work \ Task),
               Allocate(work \ Task, Translated((work \ Task) \ noGuid))
        PROVE  AccountInv'
    <3>1. Translated((work \ Task) \ noGuid) \in SUBSET (work \ Task)
      BY DEF Translated
    <3>2. failed' \cup allocated' = work \ Task /\ failed' \cap allocated' = {}
      BY <2>1, <2>3, <3>1, AllocateSplits
    <3>3. QED
      BY <2>1, <3>2
  <2>4. QED
    BY <1>6, <2>2, <2>3, Zenon DEF PerformLRPs
<1>7. CASE PerformTasks
  <2>1. phase = "tasks" /\ phase' = "replied" /\ work' = work
    BY <1>7 DEF PerformTasks
  <2>2. CASE work \cap Task = {} /\ UNCHANGED <<allocated, failed>>
    BY <2>1, <2>2
  <2>3. CASE Allocate(work \cap Task, Translated(work \cap Task))
    <3>1. Translated(work \cap Task) \in SUBSET (work \cap Task)
      BY DEF Translated
    <3>2. /\ failed' \cup allocated' = failed \cup allocated \cup (work \cap Task)
          /\ failed' \cap allocated' = {}
      BY <2>1, <2>3, <3>1, AllocateSplits
    <3>3. QED
      BY <2>1, <3>2
  <2>4. QED
    BY <1>7, <2>2, <2>3 DEF PerformTasks
<1>8. ASSUME NEW c \in containers, ContainerSteps(c) \/ ContainerDeleted(c) PROVE AccountInv'
  BY <1>8 DEF ContainerSteps, ContainerDeleted, auctionVars
<1>9. CASE Evacuate
  BY <1>9 DEF Evacuate, auctionVars
<1>10. CASE Restart
  BY <1>10 DEF Restart
<1>11. CASE UNCHANGED vars
  BY <1>11 DEF vars
<1>12. QED
  BY <1>1, <1>2, <1>3, <1>4, <1>5, <1>6, <1>7, <1>8, <1>9, <1>10, <1>11 DEF Next

(* Whatever fails, an answer of Perform (auction_cell_rep.go) splits the   *)
(* work into what got a container and what is handed back to the           *)
(* auctioneer.                                                             *)
THEOREM AccountsForAllWork == Spec => []WorkAccounted
<1>1. Init => AccountInv
  BY DEF Init, AccountInv, WorkAccounted
<1>2. AccountInv => WorkAccounted
  BY DEF AccountInv
<1>3. QED
  BY <1>1, <1>2, AccountStep, PTL DEF Spec

-----------------------------------------------------------------------------
(* What containers use.                                                    *)

(* Faithful bookkeeping: each container refers to an item of the auction. *)
Holds(C) == IsFiniteSet(C) /\ \A c \in C : c.item \in Item

(* The use of some containers is a sum over any set that has them. *)
LEMMA UsedIsSum ==
    ASSUME NEW F \in [Item -> Nat], NEW D, Holds(D), NEW C \in SUBSET D
    PROVE  /\ Holds(C)
           /\ Used(F, C) = SumFunctionOnSet([c \in D |-> F[c.item]], C)
           /\ Used(F, C) \in Nat
<1> DEFINE f == [c \in D |-> F[c.item]]
           g == [c \in C |-> F[c.item]]
<1>1. Holds(C)
  BY FS_Subset DEF Holds
<1>2. Used(F, C) = SumFunctionOnSet(g, C)
  BY DEF Used, SumFunction
<1>3. \A x \in C : g[x] \in Nat /\ f[x] = g[x]
  BY DEF Holds
<1>4. IsFiniteSet(C)
  BY <1>1 DEF Holds
<1>5. SumFunctionOnSet(f, C) = SumFunctionOnSet(g, C)
  <2> HIDE DEF f, g
  <2>1. QED
    BY <1>3, <1>4, SumOfSame
<1>6. SumFunctionOnSet(g, C) \in Nat
  <2> HIDE DEF f, g
  <2>1. QED
    BY <1>3, <1>4, SumIsNat
<1>7. QED
  BY <1>1, <1>2, <1>5, <1>6 DEF f

(* Fewer containers use no more. *)
LEMMA UsedBySubset ==
    ASSUME NEW F \in [Item -> Nat], NEW D, Holds(D), NEW C \in SUBSET D
    PROVE  Used(F, C) <= Used(F, D)
<1> DEFINE f == [c \in D |-> F[c.item]]
<1>1. Used(F, C) = SumFunctionOnSet(f, C) /\ Used(F, D) = SumFunctionOnSet(f, D)
  BY UsedIsSum
<1>2. IsFiniteSet(D) /\ \A x \in D : f[x] \in Nat
  BY DEF Holds
<1> HIDE DEF f
<1>3. QED
  BY <1>1, <1>2, SumOfSubset

(* New containers add what they use. *)
LEMMA UsedByUnion ==
    ASSUME NEW F \in [Item -> Nat], NEW C, Holds(C), NEW D, Holds(D), C \cap D = {}
    PROVE  /\ Holds(C \cup D)
           /\ Used(F, C \cup D) = Used(F, C) + Used(F, D)
<1> DEFINE f == [c \in C \cup D |-> F[c.item]]
<1>1. Holds(C \cup D)
  BY FS_Union, Zenon DEF Holds
<1>2. /\ Used(F, C \cup D) = SumFunctionOnSet(f, C \cup D)
      /\ Used(F, C) = SumFunctionOnSet(f, C)
      /\ Used(F, D) = SumFunctionOnSet(f, D)
  BY <1>1, UsedIsSum, SMTT(30)
<1>3. \A x \in C \cup D : f[x] \in Nat
  BY <1>1 DEF Holds
<1> HIDE DEF f
<1>4. QED
  BY <1>1, <1>2, <1>3, SumOfUnion DEF Holds

(* A container that takes the place of one for the same item uses no more. *)
LEMMA UsedByMoved ==
    ASSUME NEW F \in [Item -> Nat], NEW C, Holds(C), NEW c \in C, NEW d, d.item = c.item
    PROVE  /\ Holds((C \ {c}) \cup {d})
           /\ Used(F, (C \ {c}) \cup {d}) <= Used(F, C)
<1> DEFINE R == C \ {c}
<1>1. Holds(R) /\ Holds({c}) /\ Holds({d}) /\ R \cup {c} = C /\ R \cap {c} = {}
  <2>1. IsFiniteSet(R) /\ IsFiniteSet({c}) /\ IsFiniteSet({d})
    BY FS_RemoveElement, FS_Singleton, Zenon DEF Holds
  <2>2. QED
    BY <2>1 DEF Holds
<1>2. Used(F, C) = Used(F, R) + Used(F, {c}) /\ Used(F, R) \in Nat /\ Used(F, {c}) \in Nat
  <2> HIDE DEF R
  <2>1. Used(F, R \cup {c}) = Used(F, R) + Used(F, {c})
    BY <1>1, UsedByUnion
  <2>2. QED
    BY <1>1, <2>1, UsedIsSum, Zenon
<1>3. Used(F, {c}) = F[c.item] /\ Used(F, {d}) = F[d.item]
  <2>1. ASSUME NEW x, x.item \in Item PROVE Used(F, {x}) = F[x.item]
    <3> DEFINE f == [y \in {x} |-> F[y.item]]
    <3>1. f[x] = F[x.item] /\ F[x.item] \in Nat /\ \A y \in {} \cup {x} : f[y] \in Nat
      BY <2>1
    <3>2. Used(F, {x}) = SumFunctionOnSet(f, {x})
      BY DEF Used, SumFunction
    <3> HIDE DEF f
    <3>3. SumFunctionOnSet(f, {} \cup {x}) = f[x] + SumFunctionOnSet(f, {})
      BY <3>1, SumOfOneMore, FS_EmptySet
    <3>4. {} \cup {x} = {x} /\ SumFunctionOnSet(f, {}) = 0
      BY SumOfNone
    <3>5. QED
      BY <3>1, <3>2, <3>3, <3>4
  <2>2. QED
    BY <2>1 DEF Holds
<1>4. CASE d \in R
  <2>1. R \cup {d} = R
    BY <1>4
  <2>2. Holds(R \cup {d}) /\ Used(F, R \cup {d}) = Used(F, R)
    BY <1>1, <2>1, Zenon
  <2>3. QED
    BY <1>2, <2>2
<1>5. CASE d \notin R
  <2>1. Holds(R \cup {d}) /\ Used(F, R \cup {d}) = Used(F, R) + Used(F, {d})
    <3>1. R \cap {d} = {}
      BY <1>5
    <3> HIDE DEF R
    <3>2. QED
      BY <1>1, <3>1, UsedByUnion
  <2>2. QED
    BY <1>2, <1>3, <2>1
<1>6. QED
  BY <1>4, <1>5

(* The containers reserved for some items use what the items need. *)
LEMMA UsedByReserved ==
    ASSUME NEW F \in [Item -> Nat], NEW A \in SUBSET Item
    PROVE  /\ Holds(Reserved(A))
           /\ Used(F, Reserved(A)) = SumFunctionOnSet(F, A)
           /\ Cardinality(Reserved(A)) = Cardinality(A)
<1> DEFINE f == [c \in Reserved(A) |-> F[c.item]]
           h == [w \in A |-> [guid |-> ContainerGuid(w), item |-> w, state |-> "reserved"]]
           R == Reserved(A)
<1>1. IsFiniteSet(A)
  BY AuctionAssumption, FS_Subset
<1>2. \A w \in A : h[w] \in R
  BY DEF Reserved
<1>3. \A c \in R : \E w \in A : c = h[w]
  BY DEF Reserved
<1>4. \A v, w \in A : h[v] = h[w] => v = w
  OBVIOUS
<1>5. \A w \in A : F[w] \in Nat /\ f[h[w]] = F[w]
  BY DEF Reserved
<1>6. \A c \in R : c.item \in Item
  BY DEF Reserved
<1>7. Used(F, R) = SumFunctionOnSet(f, R)
  BY DEF Used, SumFunction
<1>8. h \in [A -> R]
  BY <1>2
<1> HIDE DEF f, h, R
<1>9. IsFiniteSet(R) /\ SumFunctionOnSet(f, R) = SumFunctionOnSet(F, A)
  BY <1>1, <1>2, <1>3, <1>4, <1>5, SumOfImage
<1>10. Cardinality(R) = Cardinality(A)
  <2>1. h \in Bijection(A, R)
    BY <1>3, <1>4, <1>8 DEF Bijection, Injection, Surjection, IsInjective
  <2>2. ExistsBijection(A, R)
    BY <2>1 DEF ExistsBijection
  <2>3. QED
    BY <1>1, <2>2, FS_Bijection
<1>11. QED
  BY <1>6, <1>7, <1>9, <1>10 DEF R, Holds

-----------------------------------------------------------------------------
(* The promise of a State answer.                                          *)

(* The cell has what it promised: what is placed and what the copy still   *)
(* offers together fit, and nothing was placed on a copy that offered too  *)
(* little.                                                                 *)
Promised ==
    /\ view.memory + MemoryOf(work) <= RemainingMemory
    /\ view.disk + DiskOf(work) <= RemainingDisk
    /\ view.containers + Cardinality(work) <= RemainingContainers
    /\ work # {} => view.memory >= 0 /\ view.disk >= 0 /\ view.containers >= 0

(* The cell can still make the containers for what is placed. *)
Known == view.stacks = stacks /\ \A w \in work : MatchRootFS(view, RootFS[w])

(* The cell never gives away more than it has.  As long as nothing excuses *)
(* a failure the promise holds from the answer of State until the LRPs are *)
(* allocated; the tasks still fit after that.                              *)
RoomInv ==
    /\ Fits({})
    /\ phase \in {"listed", "counted"} => work = {}
    /\ excuse = {} =>
          /\ phase \in {"counted", "placing", "sent", "lrps", "tasks"} => Known
          /\ phase \in {"counted", "placing", "sent", "lrps"} => Promised
          /\ phase = "tasks" => Fits(work \cap Task)
          /\ phase \in {"tasks", "replied"} => failed \subseteq inUse

PromiseInv == TypeOK /\ AccountInv /\ Holds(containers) /\ RoomInv

(* The conversion to int32 never offers more than there is. *)
LEMMA ToInt32Below ==
    ASSUME NEW n \in Int PROVE ToInt32(n) \in Int /\ (n >= 0 => ToInt32(n) <= n)
<1>1. Half \in Nat /\ Half > 0
  BY AuctionAssumption
<1>2. ASSUME NEW a \in Int, NEW b \in Nat, b > 0
      PROVE  a % b \in Int /\ (a >= 0 => a % b <= a)
  BY <1>2
<1>3. n + Half \in Int /\ 2 * Half \in Nat /\ 2 * Half > 0
  BY <1>1
<1>4. (n + Half) % (2 * Half) \in Int /\ (n + Half >= 0 => (n + Half) % (2 * Half) <= n + Half)
  BY <1>2, <1>3
<1>5. QED
  BY <1>1, <1>4 DEF ToInt32

(* What items need and what the cell has left are numbers. *)
LEMMA NeedsAreNumbers ==
    ASSUME NEW A \in SUBSET Item
    PROVE  IsFiniteSet(A) /\ MemoryOf(A) \in Nat /\ DiskOf(A) \in Nat /\ Cardinality(A) \in Nat
<1>1. IsFiniteSet(A) /\ \A w \in A : Memory[w] \in Nat /\ Disk[w] \in Nat
  BY AuctionAssumption, FS_Subset
<1>2. QED
  BY <1>1, SumIsNat, FS_CardinalityType DEF MemoryOf, DiskOf

(* What the executor's containers use and leave are numbers. *)
LEMMA RemainsAreNumbers ==
    ASSUME Holds(containers)
    PROVE  /\ RemainingMemory \in Int /\ RemainingDisk \in Int /\ RemainingContainers \in Int
           /\ Used(Memory, containers) \in Nat /\ Used(Disk, containers) \in Nat
           /\ Cardinality(containers) \in Nat
<1>1. Used(Memory, containers) \in Nat /\ Used(Disk, containers) \in Nat
  BY AuctionAssumption, UsedIsSum, Zenon
<1>2. Cardinality(containers) \in Nat
  BY FS_CardinalityType DEF Holds
<1>3. QED
  BY <1>1, <1>2, AuctionAssumption DEF RemainingMemory, RemainingDisk, RemainingContainers

(* Part of what fits fits. *)
LEMMA FitsLess ==
    ASSUME Holds(containers), NEW S \in SUBSET Item, Fits(S), NEW T \in SUBSET S
    PROVE  Fits(T)
<1>1. IsFiniteSet(S) /\ \A w \in S : Memory[w] \in Nat /\ Disk[w] \in Nat
  BY AuctionAssumption, FS_Subset
<1>2. MemoryOf(T) <= MemoryOf(S) /\ DiskOf(T) <= DiskOf(S) /\ Cardinality(T) <= Cardinality(S)
  BY <1>1, SumOfSubset, FS_Subset DEF MemoryOf, DiskOf
<1>3. QED
  BY <1>2, NeedsAreNumbers, RemainsAreNumbers DEF Fits

(* The empty set needs nothing. *)
LEMMA NoNeeds == MemoryOf({}) = 0 /\ DiskOf({}) = 0 /\ Cardinality({}) = 0
BY SumOfNone, FS_EmptySet DEF MemoryOf, DiskOf

(* One more placed item needs its own resources. *)
LEMMA OneMoreNeeded ==
    ASSUME NEW A \in SUBSET Item, NEW w \in Item \ A
    PROVE  /\ MemoryOf(A \cup {w}) = Memory[w] + MemoryOf(A)
           /\ DiskOf(A \cup {w}) = Disk[w] + DiskOf(A)
           /\ Cardinality(A \cup {w}) = Cardinality(A) + 1
<1>1. IsFiniteSet(A) /\ \A v \in A \cup {w} : Memory[v] \in Nat /\ Disk[v] \in Nat
  BY AuctionAssumption, FS_Subset
<1>2. QED
  BY <1>1, SumOfOneMore, FS_AddElement, Zenon DEF MemoryOf, DiskOf

(* Disjoint items need the sum. *)
LEMMA NeedsAdd ==
    ASSUME NEW A \in SUBSET Item, NEW B \in SUBSET Item, A \cap B = {}
    PROVE  /\ MemoryOf(A \cup B) = MemoryOf(A) + MemoryOf(B)
           /\ DiskOf(A \cup B) = DiskOf(A) + DiskOf(B)
           /\ Cardinality(A \cup B) = Cardinality(A) + Cardinality(B)
<1>1. /\ IsFiniteSet(A) /\ IsFiniteSet(B)
      /\ \A v \in A \cup B : Memory[v] \in Nat /\ Disk[v] \in Nat
  BY AuctionAssumption, FS_Subset
<1>2. Cardinality(A \cup B) = Cardinality(A) + Cardinality(B)
  <2>1. Cardinality(A \cup B) = Cardinality(A) + Cardinality(B) - Cardinality(A \cap B)
    BY <1>1, FS_Union
  <2>2. Cardinality(A \cap B) = 0
    BY FS_EmptySet, Zenon
  <2>3. QED
    BY <1>1, <2>1, <2>2, FS_CardinalityType
<1>3. QED
  BY <1>1, <1>2, SumOfUnion DEF MemoryOf, DiskOf

-----------------------------------------------------------------------------
(* The steps.                                                              *)

(* The containers use no more than before. *)
Lighter ==
    /\ Holds(containers')
    /\ Used(Memory, containers') <= Used(Memory, containers)
    /\ Used(Disk, containers') <= Used(Disk, containers)
    /\ Cardinality(containers') <= Cardinality(containers)

(* A container that moves on or is deleted makes none heavier. *)
LEMMA ContainersGetLighter ==
    ASSUME Holds(containers), NEW c \in containers, ContainerSteps(c) \/ ContainerDeleted(c)
    PROVE  Lighter
<1>1. Memory \in [Item -> Nat] /\ Disk \in [Item -> Nat] /\ IsFiniteSet(containers)
  BY AuctionAssumption DEF Holds
<1>2. CASE ContainerDeleted(c)
  <2>1. containers' \in SUBSET containers
    BY <1>2 DEF ContainerDeleted
  <2>2. Cardinality(containers') <= Cardinality(containers)
    BY <1>1, <2>1, FS_Subset
  <2>3. QED
    BY <1>1, <2>1, <2>2, UsedIsSum, UsedBySubset, Zenon DEF Lighter
<1>3. CASE ContainerSteps(c)
  <2>1. PICK s : containers' = (containers \ {c}) \cup {[c EXCEPT !.state = s]}
    BY <1>3 DEF ContainerSteps
  <2> DEFINE d == [c EXCEPT !.state = s]
  <2>2. d.item = c.item
    OBVIOUS
  <2> HIDE DEF d
  <2>3. IsFiniteSet(containers \ {c}) /\ Cardinality(containers \ {c}) = Cardinality(containers) - 1
    BY <1>1, FS_RemoveElement
  <2>4. Cardinality((containers \ {c}) \cup {d}) <= Cardinality(containers)
    <3> DEFINE R == containers \ {c}
    <3>1. /\ IsFiniteSet(R) /\ Cardinality(R) = Cardinality(containers) - 1
          /\ Cardinality(containers) \in Nat
      BY <1>1, <2>3, FS_CardinalityType
    <3> HIDE DEF R
    <3>2. Cardinality(R \cup {d}) = IF d \in R THEN Cardinality(R) ELSE Cardinality(R) + 1
      BY <3>1, FS_AddElement, Zenon
    <3>3. Cardinality(R \cup {d}) <= Cardinality(containers)
      BY <3>1, <3>2
    <3>4. QED
      BY <3>3 DEF R
  <2>5. containers' = (containers \ {c}) \cup {d}
    BY <2>1 DEF d
  <2>6. QED
    BY <1>1, <2>2, <2>4, <2>5, UsedByMoved, Zenon DEF Lighter
<1>4. QED
  BY <1>2, <1>3

(* What fitted still fits. *)
LEMMA LighterFits ==
    ASSUME Holds(containers), Lighter
    PROVE  /\ RemainingMemory' >= RemainingMemory /\ RemainingDisk' >= RemainingDisk
           /\ RemainingContainers' >= RemainingContainers
           /\ RemainingMemory' \in Int /\ RemainingDisk' \in Int /\ RemainingContainers' \in Int
           /\ \A A \in SUBSET Item : Fits(A) => Fits(A)'
<1>1. /\ Used(Memory, containers) \in Nat /\ Used(Memory, containers') \in Nat
      /\ Used(Disk, containers) \in Nat /\ Used(Disk, containers') \in Nat
      /\ Cardinality(containers) \in Nat /\ Cardinality(containers') \in Nat
  BY AuctionAssumption, UsedIsSum, FS_CardinalityType, Zenon DEF Lighter, Holds
<1>2. /\ RemainingMemory' >= RemainingMemory /\ RemainingDisk' >= RemainingDisk
      /\ RemainingContainers' >= RemainingContainers
      /\ RemainingMemory' \in Int /\ RemainingDisk' \in Int /\ RemainingContainers' \in Int
      /\ RemainingMemory \in Int /\ RemainingDisk \in Int /\ RemainingContainers \in Int
  BY <1>1, AuctionAssumption DEF Lighter, RemainingMemory, RemainingDisk, RemainingContainers
<1>3. QED
  BY <1>2, NeedsAreNumbers DEF Fits, MemoryOf, DiskOf

(* The containers reserved for A take what A needs. *)
LEMMA ReservedTakes ==
    ASSUME Holds(containers), NEW A \in SUBSET Item, \A w \in A : ContainerGuid(w) \notin Guids,
           containers' = containers \cup Reserved(A)
    PROVE  /\ Holds(containers')
           /\ RemainingMemory' = RemainingMemory - MemoryOf(A)
           /\ RemainingDisk' = RemainingDisk - DiskOf(A)
           /\ RemainingContainers' = RemainingContainers - Cardinality(A)
<1> DEFINE R == Reserved(A)
<1>1. /\ Memory \in [Item -> Nat] /\ Disk \in [Item -> Nat]
      /\ TotalMemory \in Nat /\ TotalDisk \in Nat /\ TotalContainers \in Nat
  BY AuctionAssumption
<1>2. /\ Holds(R) /\ Used(Memory, R) = MemoryOf(A) /\ Used(Disk, R) = DiskOf(A)
      /\ Cardinality(R) = Cardinality(A)
  BY <1>1, UsedByReserved DEF MemoryOf, DiskOf
<1>3. containers \cap R = {}
  BY DEF Reserved, Guids
<1>4. containers' = containers \cup R
  OBVIOUS
<1> HIDE DEF R
<1>5. /\ Holds(containers \cup R)
      /\ Used(Memory, containers \cup R) = Used(Memory, containers) + Used(Memory, R)
      /\ Used(Disk, containers \cup R) = Used(Disk, containers) + Used(Disk, R)
  BY <1>1, <1>2, <1>3, UsedByUnion
<1>6. Cardinality(containers \cup R) = Cardinality(containers) + Cardinality(R)
  <2>1. /\ IsFiniteSet(containers) /\ IsFiniteSet(R)
        /\ Cardinality(containers) \in Nat /\ Cardinality(R) \in Nat
    BY <1>2, FS_CardinalityType DEF Holds
  <2>2. Cardinality(containers \cup R)
           = Cardinality(containers) + Cardinality(R) - Cardinality(containers \cap R)
    BY <2>1, FS_Union
  <2>3. Cardinality(containers \cap R) = 0
    BY <1>3, FS_EmptySet, Zenon
  <2>4. QED
    BY <2>1, <2>2, <2>3
<1>7. /\ Used(Memory, containers') = Used(Memory, containers) + MemoryOf(A)
      /\ Used(Disk, containers') = Used(Disk, containers) + DiskOf(A)
      /\ Cardinality(containers') = Cardinality(containers) + Cardinality(A)
      /\ Holds(containers')
  BY <1>2, <1>4, <1>5, <1>6, Zenon
<1>8. QED
  BY <1>1, <1>7, RemainsAreNumbers, NeedsAreNumbers
     DEF RemainingMemory, RemainingDisk, RemainingContainers

(* What Add leaves of a copy. *)
LEMMA AddToView ==
    ASSUME NEW v \in View, NEW w \in Item
    PROVE  /\ Add(v, w) \in View
           /\ Add(v, w).memory = v.memory - Memory[w] /\ Add(v, w).disk = v.disk - Disk[w]
           /\ Add(v, w).containers = v.containers - 1 /\ Add(v, w).starting = v.starting + 1
           /\ Add(v, w).stacks = v.stacks
<1>1. Memory[w] \in Nat /\ Disk[w] \in Nat
  BY AuctionAssumption
<1> DEFINE r == Subtract(v, w)
<1>2. /\ r \in View /\ r.memory = v.memory - Memory[w] /\ r.disk = v.disk - Disk[w]
      /\ r.containers = v.containers - 1 /\ r.starting = v.starting /\ r.stacks = v.stacks
  <2>1. ASSUME NEW u \in View, NEW a \in Int PROVE [u EXCEPT !.memory = a] \in View
    BY DEF View
  <2>2. ASSUME NEW u \in View, NEW a \in Int PROVE [u EXCEPT !.disk = a] \in View
    BY DEF View
  <2>3. ASSUME NEW u \in View, NEW a \in Int PROVE [u EXCEPT !.containers = a] \in View
    BY DEF View
  <2>4. v.memory - Memory[w] \in Int /\ v.disk - Disk[w] \in Int /\ v.containers - 1 \in Int
    BY <1>1 DEF View
  <2>5. r = [[[v EXCEPT !.memory = v.memory - Memory[w]] EXCEPT !.disk = v.disk - Disk[w]]
                EXCEPT !.containers = v.containers - 1]
    BY Zenon DEF Subtract
  <2>6. r \in View
    <3> DEFINE a == [v EXCEPT !.memory = v.memory - Memory[w]]
               b == [a EXCEPT !.disk = v.disk - Disk[w]]
    <3>1. a \in View
      BY <2>1, <2>4
    <3> HIDE DEF a
    <3>2. b \in View
      BY <2>2, <2>4, <3>1
    <3> HIDE DEF b
    <3>3. [b EXCEPT !.containers = v.containers - 1] \in View
      BY <2>3, <2>4, <3>2
    <3>4. QED
      BY <2>5, <3>3 DEF a, b
  <2>7. /\ r.memory = v.memory - Memory[w] /\ r.disk = v.disk - Disk[w]
        /\ r.containers = v.containers - 1 /\ r.starting = v.starting /\ r.stacks = v.stacks
    BY DEF Subtract, View
  <2>8. QED
    BY <2>6, <2>7
<1>3. Add(v, w) = [r EXCEPT !.starting = @ + 1]
  BY SMTT(30) DEF Add
<1> HIDE DEF r
<1>4. QED
  BY <1>2, <1>3 DEF View

(* Every step keeps the types, and allocations only for known items. *)
LEMMA TypeStep ==
    ASSUME TypeOK, Holds(containers), [Next]_vars
    PROVE  TypeOK' /\ Holds(containers')
<1> USE DEF TypeOK
<1>1. CASE ListContainers
  <2>1. Cardinality({c \in containers : c.state \in Starting}) \in Nat
    BY FS_Subset, FS_CardinalityType DEF Holds
  <2>2. view' \in View
    BY <1>1, <2>1 DEF ListContainers, NoView, View
  <2>3. QED
    BY <1>1, <2>2, AuctionAssumption DEF ListContainers, cellVars
<1>2. CASE RemainingResources
  <2>1. ToInt32(RemainingMemory) \in Int /\ ToInt32(RemainingDisk) \in Int
    BY RemainsAreNumbers, ToInt32Below
  <2>2. view' \in View
    BY <1>2, <2>1, RemainsAreNumbers, Zenon DEF RemainingResources, View
  <2>3. QED
    BY <1>2, <2>2 DEF RemainingResources, cellVars
<1>3. CASE StateReplies \/ SendWork \/ AuctionEnds
  BY <1>3, ZenonT(30) DEF StateReplies, SendWork, AuctionEnds, cellVars
<1>4. CASE StateFails
  BY <1>4, AuctionAssumption DEF StateFails, Fault, cellVars
<1>5. ASSUME NEW w \in Item, Place(w) PROVE TypeOK' /\ Holds(containers')
  <2>1. view' \in View
    BY <1>5, AddToView, Zenon DEF Place
  <2>2. QED
    BY <1>5, <2>1, SMTT(30) DEF Place, cellVars
<1>6. CASE PerformBegins
  BY <1>6, Zenon DEF PerformBegins, cellVars
<1>7. ASSUME NEW asked \in SUBSET Item, NEW requests \in SUBSET asked, Allocate(asked, requests)
      PROVE  /\ failed' \subseteq Item /\ allocated' \subseteq Item /\ inUse' \subseteq Item
             /\ Holds(containers') /\ faults' \in 0..MaxFaults
  <2>1. ASSUME NEW A \in SUBSET requests, Reservable(requests, A),
               containers' = containers \cup Reserved(A)
        PROVE  Holds(containers')
    BY <2>1, ReservedTakes, ZenonT(30) DEF Reservable
  <2>2. faults' \in 0..MaxFaults
    BY <1>7, AuctionAssumption DEF Allocate, Fault
  <2>3. Holds(containers')
    BY <1>7, <2>1 DEF Allocate
  <2>4. QED
    BY <1>7, <2>2, <2>3 DEF Allocate
<1>8. CASE PerformLRPs
  <2>1. CASE UNCHANGED <<containers, allocated, failed, inUse, faults, excuse>>
    BY <1>8, <2>1 DEF PerformLRPs
  <2>2. ASSUME NEW noGuid \in SUBSET (work \ Task),
               Allocate(work \ Task, Translated((work \ Task) \ noGuid)),
               excuse' = IF noGuid # {} \/ faults' # faults THEN excuse \cup {"fault"} ELSE excuse
        PROVE  TypeOK' /\ Holds(containers')
    <3>1. /\ work \ Task \in SUBSET Item
          /\ Translated((work \ Task) \ noGuid) \in SUBSET (work \ Task)
      BY DEF Translated
    <3>2. /\ failed' \subseteq Item /\ allocated' \subseteq Item /\ inUse' \subseteq Item
          /\ Holds(containers') /\ faults' \in 0..MaxFaults
      BY <1>7, <2>2, <3>1, Zenon
    <3>3. excuse' \subseteq {"evacuating", "fault", "restart"}
      BY <2>2
    <3>4. QED
      BY <1>8, <3>2, <3>3 DEF PerformLRPs, Holds
  <2>3. QED
    BY <1>8, <2>1, <2>2, Zenon DEF PerformLRPs
<1>9. CASE PerformTasks
  <2>1. CASE UNCHANGED <<containers, allocated, failed, inUse, faults, excuse>>
    BY <1>9, <2>1 DEF PerformTasks
  <2>2. CASE /\ Allocate(work \cap Task, Translated(work \cap Task))
             /\ excuse' = IF faults' # faults THEN excuse \cup {"fault"} ELSE excuse
    <3>1. /\ work \cap Task \in SUBSET Item
          /\ Translated(work \cap Task) \in SUBSET (work \cap Task)
      BY DEF Translated
    <3>2. /\ failed' \subseteq Item /\ allocated' \subseteq Item /\ inUse' \subseteq Item
          /\ Holds(containers') /\ faults' \in 0..MaxFaults
      BY <1>7, <2>2, <3>1, SMTT(30)
    <3>3. excuse' \subseteq {"evacuating", "fault", "restart"}
      BY <2>2
    <3>4. QED
      BY <1>9, <3>2, <3>3 DEF PerformTasks, Holds
  <2>3. QED
    BY <1>9, <2>1, <2>2 DEF PerformTasks
<1>10. ASSUME NEW c \in containers, ContainerSteps(c) \/ ContainerDeleted(c)
       PROVE  TypeOK' /\ Holds(containers')
  <2>1. Holds(containers')
    BY <1>10, ContainersGetLighter DEF Lighter
  <2>2. UNCHANGED <<auctionVars, stacks, mode, restarts, faults>>
    BY <1>10 DEF ContainerSteps, ContainerDeleted
  <2>3. QED
    BY <2>1, <2>2 DEF auctionVars, Holds
<1>11. CASE Evacuate
  BY <1>11 DEF Evacuate, auctionVars
<1>12. CASE Restart
  BY <1>12, AuctionAssumption, FS_EmptySet DEF Restart, Holds
<1>13. CASE UNCHANGED vars
  BY <1>13 DEF vars
<1>14. QED
  BY <1>1, <1>2, <1>3, <1>4, <1>5, <1>6, <1>8, <1>9, <1>10, <1>11, <1>12, <1>13, SMTT(30) DEF Next

(* What was promised fits. *)
LEMMA PromisedFits == ASSUME TypeOK, Holds(containers), Fits({}), Promised PROVE Fits(work)
<1>1. CASE work = {}
  BY <1>1
<1>2. CASE work # {}
  <2>1. view.memory \in Int /\ view.disk \in Int /\ view.containers \in Int /\ work \in SUBSET Item
    BY DEF TypeOK, View
  <2>2. QED
    BY <1>2, <2>1, NeedsAreNumbers, RemainsAreNumbers DEF Promised, Fits
<1>3. QED
  BY <1>1, <1>2

(* An allocation of new items that all fit together refuses none of them. *)
LEMMA ReservesAllThatFit ==
    ASSUME Holds(containers), NEW requests \in SUBSET Item, Fits(requests), NEW A,
           Reservable(requests, A)
    PROVE  A = {w \in requests : ContainerGuid(w) \notin Guids}
<1> DEFINE new == {w \in requests : ContainerGuid(w) \notin Guids}
<1>1. A \subseteq new /\ \A w \in new \ A : ~Fits(A \cup {w})
  BY DEF Reservable
<1>2. ASSUME NEW w \in new \ A PROVE FALSE
  <2>1. A \cup {w} \in SUBSET requests
    BY <1>1
  <2>2. QED
    BY <1>1, <2>1, FitsLess, Zenon
<1>3. QED
  BY <1>1, <1>2

(* Without a fault, half of Perform hands back only what is already there, *)
(* and what fitted beside it still fits.                                   *)
LEMMA AllocateKeepsPromise ==
    ASSUME TypeOK, Holds(containers), NEW asked \in SUBSET Item, NEW rest \in SUBSET Item,
           asked \cap rest = {}, Fits(asked \cup rest), Allocate(asked, asked),
           UNCHANGED faults
    PROVE  /\ failed' \subseteq failed \cup inUse' /\ inUse \subseteq inUse'
           /\ Fits(rest)'
<1>1. ~Fault
  BY DEF Fault, TypeOK
<1>2. PICK A \in SUBSET asked :
         /\ Reservable(asked, A)
         /\ containers' = containers \cup Reserved(A)
         /\ failed' = failed \cup (asked \ asked) \cup (asked \ A)
         /\ inUse' = inUse \cup {w \in asked : ContainerGuid(w) \in Guids}
  BY <1>1 DEF Allocate
<1>3. A = {w \in asked : ContainerGuid(w) \notin Guids}
  <2>1. Fits(asked)
    BY FitsLess
  <2>2. QED
    BY <1>2, <2>1, ReservesAllThatFit
<1>4. failed' \subseteq failed \cup inUse' /\ inUse \subseteq inUse'
  BY <1>2, <1>3
<1>5. Fits(rest)'
  <2>1. /\ A \in SUBSET Item /\ A \cap rest = {} /\ A \cup rest \in SUBSET (asked \cup rest)
        /\ asked \cup rest \in SUBSET Item
    OBVIOUS
  <2>2. Fits(A \cup rest)
    BY <2>1, FitsLess
  <2>3. /\ RemainingMemory' = RemainingMemory - MemoryOf(A)
        /\ RemainingDisk' = RemainingDisk - DiskOf(A)
        /\ RemainingContainers' = RemainingContainers - Cardinality(A)
    BY <1>2, <1>3, <2>1, ReservedTakes, Zenon
  <2>4. /\ MemoryOf(A) + MemoryOf(rest) <= RemainingMemory
        /\ DiskOf(A) + DiskOf(rest) <= RemainingDisk
        /\ Cardinality(A) + Cardinality(rest) <= RemainingContainers
    BY <2>1, <2>2, NeedsAdd DEF Fits
  <2>5. /\ MemoryOf(rest) <= RemainingMemory' /\ DiskOf(rest) <= RemainingDisk'
        /\ Cardinality(rest) <= RemainingContainers'
    BY <2>1, <2>3, <2>4, NeedsAreNumbers, RemainsAreNumbers
  <2>6. QED
    BY <2>5 DEF Fits, MemoryOf, DiskOf
<1>6. QED
  BY <1>4, <1>5

(* Whatever is asked for, an allocation takes no more than there is. *)
LEMMA AllocateStaysInside ==
    ASSUME Holds(containers), Fits({}), NEW asked \in SUBSET Item, NEW requests \in SUBSET asked,
           Allocate(asked, requests)
    PROVE  Fits({})'
<1>1. CASE UNCHANGED containers
  BY <1>1 DEF Fits, MemoryOf, DiskOf, RemainingMemory, RemainingDisk, RemainingContainers
<1>2. ASSUME NEW A \in SUBSET requests, Reservable(requests, A),
             containers' = containers \cup Reserved(A)
      PROVE  Fits({})'
  <2>1. A \in SUBSET Item /\ Fits(A) /\ \A w \in A : ContainerGuid(w) \notin Guids
    BY <1>2 DEF Reservable
  <2>2. /\ RemainingMemory' = RemainingMemory - MemoryOf(A)
        /\ RemainingDisk' = RemainingDisk - DiskOf(A)
        /\ RemainingContainers' = RemainingContainers - Cardinality(A)
    BY <1>2, <2>1, ReservedTakes
  <2>3. RemainingMemory' >= 0 /\ RemainingDisk' >= 0 /\ RemainingContainers' >= 0
    BY <2>1, <2>2, NeedsAreNumbers, RemainsAreNumbers DEF Fits
  <2>4. QED
    BY <2>3, NoNeeds DEF Fits, MemoryOf, DiskOf
<1>3. QED
  BY <1>1, <1>2 DEF Allocate

(* At the start nothing is promised and nothing is used. *)
LEMMA InitPromise == Init => PromiseInv
<1> SUFFICES ASSUME Init PROVE PromiseInv
  OBVIOUS
<1>1. TypeOK
  BY AuctionAssumption DEF Init, TypeOK, View, NoView
<1>2. AccountInv
  BY DEF Init, AccountInv, WorkAccounted
<1>3. Holds(containers)
  BY FS_EmptySet DEF Init, Holds
<1>4. Fits({})
  <2> DEFINE f == [c \in {} |-> Memory[c.item]]
             g == [c \in {} |-> Disk[c.item]]
  <2>1. Used(Memory, {}) = SumFunctionOnSet(f, {}) /\ Used(Disk, {}) = SumFunctionOnSet(g, {})
    BY DEF Used, SumFunction
  <2>2. Used(Memory, {}) = 0 /\ Used(Disk, {}) = 0 /\ Cardinality({}) = 0
    BY <2>1, SumOfNone, FS_EmptySet
  <2>3. QED
    BY <2>2, NoNeeds, AuctionAssumption
       DEF Init, Fits, RemainingMemory, RemainingDisk, RemainingContainers
<1>5. RoomInv
  BY <1>4, SMTT(30) DEF Init, RoomInv
<1>6. QED
  BY <1>1, <1>2, <1>3, <1>5 DEF PromiseInv

(* Placing an item moves what it needs from the offer to the work. *)
LEMMA PlaceKeepsPromise ==
    ASSUME TypeOK, Holds(containers), NEW w \in Item, Place(w), Known, Promised
    PROVE  Known' /\ Promised'
<1> DEFINE v == Add(view, w)
<1>1. /\ view' = v /\ work' = work \cup {w} /\ w \notin work
      /\ UNCHANGED <<containers, stacks>>
      /\ MatchRootFS(view, RootFS[w]) /\ ResourceMatch(view, w)
  BY SMTT(30) DEF Place, cellVars
<1>2. /\ v.memory = view.memory - Memory[w] /\ v.disk = view.disk - Disk[w]
      /\ v.containers = view.containers - 1 /\ v.stacks = view.stacks
  BY AddToView DEF TypeOK
<1>3. /\ view.memory \in Int /\ view.disk \in Int /\ view.containers \in Int
      /\ Memory[w] \in Nat /\ Disk[w] \in Nat /\ work \in SUBSET Item
  BY AuctionAssumption, SMTT(30) DEF TypeOK, View
<1> HIDE DEF v
<1>4. Known'
  BY <1>1, <1>2, SMTT(30) DEF Known, MatchRootFS
<1>5. v.memory >= 0 /\ v.disk >= 0 /\ v.containers >= 0
  BY <1>1, <1>2, <1>3 DEF ResourceMatch
<1>6. /\ RemainingMemory' = RemainingMemory /\ RemainingDisk' = RemainingDisk
      /\ RemainingContainers' = RemainingContainers
  BY <1>1, SMTT(30) DEF RemainingMemory, RemainingDisk, RemainingContainers
<1>7. /\ MemoryOf(work)' = Memory[w] + MemoryOf(work)
      /\ DiskOf(work)' = Disk[w] + DiskOf(work)
      /\ Cardinality(work)' = Cardinality(work) + 1
  BY <1>1, <1>3, OneMoreNeeded, ZenonT(30) DEF MemoryOf, DiskOf
<1>8. /\ v.memory + MemoryOf(work)' <= RemainingMemory'
      /\ v.disk + DiskOf(work)' <= RemainingDisk'
      /\ v.containers + Cardinality(work)' <= RemainingContainers'
  <2>1. MemoryOf(work) \in Nat /\ DiskOf(work) \in Nat /\ Cardinality(work) \in Nat
    BY <1>3, NeedsAreNumbers
  <2>2. RemainingMemory \in Int /\ RemainingDisk \in Int /\ RemainingContainers \in Int
    BY RemainsAreNumbers
  <2>3. /\ view.memory + MemoryOf(work) <= RemainingMemory
        /\ view.disk + DiskOf(work) <= RemainingDisk
        /\ view.containers + Cardinality(work) <= RemainingContainers
    BY DEF Promised
  <2>4. \A a, b, c, r \in Int : a + b <= r => (a - c) + (c + b) <= r /\ (a - 1) + (b + 1) <= r
    OBVIOUS
  <2>5. v.memory + MemoryOf(work)' <= RemainingMemory'
    BY <1>2, <1>3, <1>6, <1>7, <2>1, <2>2, <2>3, <2>4
  <2>6. v.disk + DiskOf(work)' <= RemainingDisk'
    BY <1>2, <1>3, <1>6, <1>7, <2>1, <2>2, <2>3, <2>4
  <2>7. v.containers + Cardinality(work)' <= RemainingContainers'
    BY <1>2, <1>3, <1>6, <1>7, <2>1, <2>2, <2>3, <2>4
  <2>8. QED
    BY <2>5, <2>6, <2>7
<1>9. QED
  BY <1>1, <1>4, <1>5, <1>8, SMTT(30) DEF Promised

(* Every step keeps the promise. *)
LEMMA PromiseStep == PromiseInv /\ [Next]_vars => PromiseInv'
<1> SUFFICES ASSUME PromiseInv, [Next]_vars PROVE PromiseInv'
  OBVIOUS
<1> USE DEF PromiseInv
<1>1. TypeOK' /\ Holds(containers') /\ AccountInv'
  BY TypeStep, AccountStep
<1> SUFFICES RoomInv'
  BY <1>1, SMTT(30)
<1>2. ASSUME UNCHANGED containers
      PROVE  /\ \A A : Fits(A)' <=> Fits(A)
             /\ UNCHANGED <<view, work>> => (Promised' <=> Promised)
             /\ UNCHANGED <<view, work, stacks>> => (Known' <=> Known)
  BY <1>2 DEF Fits, Promised, Known, MatchRootFS, MemoryOf, DiskOf,
              RemainingMemory, RemainingDisk, RemainingContainers
<1>3. CASE ListContainers
  BY <1>2, <1>3 DEF ListContainers, cellVars, RoomInv, Fits, MemoryOf, DiskOf,
                    RemainingMemory, RemainingDisk, RemainingContainers
<1>4. CASE RemainingResources
  <2>1. /\ phase' = "counted" /\ work = {} /\ work' = {} /\ UNCHANGED <<containers, stacks>>
        /\ view' = [view EXCEPT !.memory = ToInt32(RemainingMemory),
                                !.disk = ToInt32(RemainingDisk),
                                !.containers = RemainingContainers,
                                !.stacks = stacks]
    BY <1>4 DEF RemainingResources, RoomInv, cellVars
  <2>2. /\ view'.memory = ToInt32(RemainingMemory) /\ view'.disk = ToInt32(RemainingDisk)
        /\ view'.containers = RemainingContainers /\ view'.stacks = stacks
    BY <2>1 DEF TypeOK, View
  <2>3. RemainingMemory >= 0 /\ RemainingDisk >= 0 /\ RemainingContainers >= 0
    BY NoNeeds DEF RoomInv, Fits
  <2>4. /\ ToInt32(RemainingMemory) \in Int /\ ToInt32(RemainingMemory) <= RemainingMemory
        /\ ToInt32(RemainingDisk) \in Int /\ ToInt32(RemainingDisk) <= RemainingDisk
    BY <2>3, RemainsAreNumbers, ToInt32Below
  <2>5. /\ RemainingMemory' = RemainingMemory /\ RemainingDisk' = RemainingDisk
        /\ RemainingContainers' = RemainingContainers
    BY <2>1 DEF RemainingMemory, RemainingDisk, RemainingContainers
  <2>6. MemoryOf(work)' = 0 /\ DiskOf(work)' = 0 /\ Cardinality(work)' = 0
    BY <2>1, NoNeeds DEF MemoryOf, DiskOf
  <2>7. Promised'
    BY <2>1, <2>2, <2>4, <2>5, <2>6, RemainsAreNumbers DEF Promised
  <2>8. Known'
    BY <2>1, <2>2 DEF Known
  <2>9. QED
    BY <1>2, <2>1, <2>7, <2>8 DEF RoomInv
<1>5. CASE StateReplies \/ StateFails \/ SendWork \/ AuctionEnds
  <2>1. UNCHANGED <<view, work, excuse, failed, inUse, containers, stacks>>
    BY <1>5 DEF StateReplies, StateFails, SendWork, AuctionEnds, cellVars
  <2>2. \/ phase' = "idle"
        \/ phase = "counted" /\ phase' = "placing"
        \/ phase = "placing" /\ phase' = "sent"
    BY <1>5 DEF StateReplies, StateFails, SendWork, AuctionEnds
  <2>3. QED
    BY <1>2, <2>1, <2>2 DEF RoomInv
<1>6. ASSUME NEW w \in Item, Place(w) PROVE RoomInv'
  <2>1. phase = "placing" /\ UNCHANGED <<phase, excuse, containers>>
    BY <1>6 DEF Place, cellVars
  <2>2. excuse = {} => Known' /\ Promised'
    BY <1>6, <2>1, PlaceKeepsPromise DEF RoomInv
  <2>3. QED
    BY <1>2, <2>1, <2>2, SMTT(30) DEF RoomInv
<1>7. CASE PerformBegins
  <2>1. /\ UNCHANGED <<view, work, containers, stacks>> /\ phase = "sent"
        /\ (phase' = "replied" /\ excuse' # {}) \/ (phase' = "lrps" /\ UNCHANGED excuse)
    BY <1>7 DEF PerformBegins, cellVars
  <2>2. QED
    BY <1>2, <2>1 DEF RoomInv
<1>8. ASSUME excuse = {}, phase \in {"lrps", "tasks"}
      PROVE  \A S \in SUBSET work : Translated(S) = S
  <2>1. ArbitraryRootFSes \cap Preloaded = {}
    BY AuctionAssumption
  <2>2. QED
    BY <1>8, <2>1 DEF RoomInv, Known, Translated, PathForRootFS, MatchRootFS
<1>9. CASE PerformLRPs
  <2>1. /\ phase = "lrps" /\ phase' = "tasks" /\ UNCHANGED <<view, work, stacks>>
        /\ failed = {} /\ work \in SUBSET Item
    BY <1>9 DEF PerformLRPs, AccountInv, TypeOK
  <2>2. CASE work \ Task = {} /\ UNCHANGED <<containers, failed, excuse>>
    <3>1. excuse = {} => Fits(work \cap Task)
      BY <2>1, PromisedFits, FitsLess DEF RoomInv
    <3>2. QED
      BY <1>2, <2>1, <2>2, <3>1 DEF RoomInv
  <2>3. ASSUME NEW noGuid \in SUBSET (work \ Task),
               Allocate(work \ Task, Translated((work \ Task) \ noGuid)),
               excuse' = IF noGuid # {} \/ faults' # faults THEN excuse \cup {"fault"} ELSE excuse
        PROVE  RoomInv'
    <3>1. Fits({})'
      BY <2>1, <2>3, AllocateStaysInside DEF RoomInv, Translated
    <3>2. ASSUME excuse' = {}
          PROVE  Known' /\ Fits(work \cap Task)' /\ failed' \subseteq inUse'
      <4>1. excuse = {} /\ noGuid = {} /\ UNCHANGED faults
        BY <2>3, <3>2
      <4>2. Translated((work \ Task) \ noGuid) = work \ Task
        BY <1>8, <2>1, <4>1
      <4>3. Fits((work \ Task) \cup (work \cap Task))
        <5>1. Fits(work) /\ (work \ Task) \cup (work \cap Task) = work
          BY <2>1, <4>1, PromisedFits DEF RoomInv
        <5>2. QED
          BY <5>1, Zenon
      <4>4. failed' \subseteq failed \cup inUse' /\ Fits(work \cap Task)'
        <5>1. Allocate(work \ Task, work \ Task)
          BY <2>3, <4>2, Zenon
        <5>2. work \ Task \in SUBSET Item /\ work \cap Task \in SUBSET Item
              /\ (work \ Task) \cap (work \cap Task) = {}
          BY <2>1
        <5> DEFINE L == work \ Task
                   K == work \cap Task
        <5>3. Allocate(L, L) /\ L \in SUBSET Item /\ K \in SUBSET Item /\ L \cap K = {} /\ Fits(L \cup K)
          BY <4>3, <5>1, <5>2
        <5>4. K' = K
          BY <2>1
        <5> HIDE DEF L, K
        <5>5. failed' \subseteq failed \cup inUse' /\ Fits(K)'
          BY <4>1, <5>3, <5>4, AllocateKeepsPromise, Zenon
        <5>6. QED
          BY <5>5 DEF K
      <4>5. Known'
        BY <2>1, <4>1 DEF RoomInv, Known, MatchRootFS
      <4>6. QED
        BY <2>1, <4>4, <4>5
    <3>3. QED
      BY <2>1, <3>1, <3>2 DEF RoomInv
  <2>4. QED
    BY <1>9, <2>2, <2>3, Zenon DEF PerformLRPs
<1>10. CASE PerformTasks
  <2>1. /\ phase = "tasks" /\ phase' = "replied" /\ work \in SUBSET Item
    BY <1>10 DEF PerformTasks, TypeOK
  <2>2. CASE UNCHANGED <<containers, failed, inUse, excuse>>
    BY <1>2, <2>1, <2>2 DEF RoomInv
  <2>3. CASE /\ Allocate(work \cap Task, Translated(work \cap Task))
             /\ excuse' = IF faults' # faults THEN excuse \cup {"fault"} ELSE excuse
    <3>1. Fits({})'
      BY <2>1, <2>3, AllocateStaysInside DEF RoomInv, Translated
    <3>2. ASSUME excuse' = {} PROVE failed' \subseteq inUse'
      <4>1. excuse = {} /\ UNCHANGED faults
        BY <2>3, <3>2
      <4> DEFINE K == work \cap Task
      <4>2. Translated(K) = K /\ K \in SUBSET Item /\ Fits(K) /\ K \cup {} = K /\ K \cap {} = {}
        BY <1>8, <2>1, <4>1 DEF RoomInv
      <4>3. Allocate(K, K) /\ Fits(K \cup {})
        BY <2>3, <4>2, Zenon
      <4> HIDE DEF K
      <4>4. failed' \subseteq failed \cup inUse' /\ inUse \subseteq inUse'
        BY <4>1, <4>2, <4>3, AllocateKeepsPromise
      <4>5. failed \subseteq inUse
        BY <2>1, <4>1 DEF RoomInv
      <4>6. QED
        BY <4>4, <4>5
    <3>3. QED
      BY <2>1, <3>1, <3>2 DEF RoomInv
  <2>4. QED
    BY <1>10, <2>2, <2>3 DEF PerformTasks
<1>11. ASSUME NEW c \in containers, ContainerSteps(c) \/ ContainerDeleted(c) PROVE RoomInv'
  <2>1. Lighter
    BY <1>11, ContainersGetLighter
  <2>2. UNCHANGED <<phase, view, work, failed, excuse, inUse, stacks>>
    BY <1>11 DEF ContainerSteps, ContainerDeleted, auctionVars
  <2>3. /\ RemainingMemory' >= RemainingMemory /\ RemainingDisk' >= RemainingDisk
        /\ RemainingContainers' >= RemainingContainers
        /\ \A A \in SUBSET Item : Fits(A) => Fits(A)'
    BY <2>1, LighterFits
  <2>4. Promised => Promised'
    <3>1. /\ work \in SUBSET Item
          /\ view.memory \in Int /\ view.disk \in Int /\ view.containers \in Int
      BY DEF TypeOK, View
    <3>2. RemainingMemory' \in Int /\ RemainingDisk' \in Int /\ RemainingContainers' \in Int
      BY <2>1, LighterFits, SMTT(30)
    <3>3. QED
      BY <2>2, <2>3, <3>1, <3>2, RemainsAreNumbers, NeedsAreNumbers DEF Promised, MemoryOf, DiskOf
  <2>5. Known => Known'
    BY <2>2 DEF Known, MatchRootFS
  <2>6. Fits({})' /\ (Fits(work \cap Task) => Fits(work \cap Task)')
    BY <2>2, <2>3 DEF RoomInv, TypeOK
  <2>7. QED
    BY <2>2, <2>4, <2>5, <2>6 DEF RoomInv
<1>12. CASE Evacuate
  <2>1. UNCHANGED <<phase, view, work, failed, excuse, inUse, containers, stacks>>
    BY <1>12 DEF Evacuate, auctionVars
  <2>2. QED
    BY <1>2, <2>1 DEF RoomInv
<1>13. CASE Restart
  <2>1. containers' = {} /\ excuse' # {} /\ (phase' \in {"listed", "counted"} => FALSE)
    BY <1>13 DEF Restart
  <2>2. Lighter
    <3>1. Cardinality(containers') <= Cardinality(containers)
      BY <2>1, FS_EmptySet, FS_CardinalityType DEF Holds
    <3>2. QED
      BY <1>1, <2>1, <3>1, AuctionAssumption, UsedBySubset DEF Lighter
  <2>3. Fits({})'
    BY <2>2, LighterFits, SMTT(30) DEF RoomInv
  <2>4. QED
    BY <2>1, <2>3 DEF RoomInv
<1>14. CASE UNCHANGED vars
  BY <1>2, <1>14 DEF vars, RoomInv
<1>15. QED
  BY <1>3, <1>4, <1>5, <1>6, <1>7, <1>9, <1>10, <1>11, <1>12, <1>13, <1>14, SMTT(30) DEF Next

(* The cell answers the auctioneer in good faith: work that Match and      *)
(* ResourceMatch accepted on the copy is refused only if it is already     *)
(* there, for any resources, any width of the integers of State and any    *)
(* work in between, unless a call fails, the cell evacuates or the rep     *)
(* restarts.                                                               *)
THEOREM KeepsPromise == Spec => []PromiseKept
<1>1. Init => PromiseInv
  BY InitPromise
<1>2. PromiseInv => PromiseKept
  BY DEF PromiseInv, RoomInv, PromiseKept
<1>3. QED
  BY <1>1, <1>2, PromiseStep, PTL DEF Spec

(* The variables of the auction stay in their ranges; the copy that the    *)
(* auctioneer got from State (auction_cell_rep.go) and subtracts from      *)
(* holds integers.                                                         *)
THEOREM TypeCorrect == Spec => []TypeOK
<1>1. Init => PromiseInv
  BY InitPromise
<1>2. PromiseInv => TypeOK
  BY DEF PromiseInv
<1>3. QED
  BY <1>1, <1>2, PromiseStep, PTL DEF Spec

-----------------------------------------------------------------------------
(* The scores.                                                             *)

(* The totals are positive after their conversion to the integers of       *)
(* State: the scores divide by them, and a total that convertResources     *)
(* cuts to zero or below turns the scores round.                           *)
PositiveTotals == Total.memory > 0 /\ Total.disk > 0 /\ Total.containers > 0

(* Less of a resource weighs less. *)
LEMMA WeighsLess ==
    ASSUME NEW a \in Int, NEW x \in Nat, NEW d \in Nat, NEW c \in Nat
    PROVE  (a - x) * d * c \in Int /\ a * d * c \in Int /\ (a - x) * d * c <= a * d * c
<1>1. (a - x) * d = a * d - x * d /\ x * d \in Nat /\ a * d \in Int
  OBVIOUS
<1>2. ASSUME NEW u \in Int, NEW v \in Nat PROVE (u - v) * c = u * c - v * c /\ v * c \in Nat /\ u * c \in Int
  OBVIOUS
<1>3. QED
  BY <1>1, <1>2

(* What remains of a copy after an item, before and after another one is   *)
(* placed.                                                                 *)
LEMMA SubtractFromView ==
    ASSUME NEW v \in View, NEW w \in Item
    PROVE  /\ Subtract(v, w).memory = v.memory - Memory[w]
           /\ Subtract(v, w).disk = v.disk - Disk[w]
           /\ Subtract(v, w).containers = v.containers - 1
BY DEF Subtract, View

(* Placing p makes the scores of w on the cell move. *)
LEMMA AddMovesScores ==
    ASSUME PositiveTotals, NEW v \in View, NEW p \in Item, NEW w \in Item
    PROVE  /\ ComputeScore(Add(v, p), w) > ComputeScore(v, w)
           /\ BestFit(Add(v, p), w) < BestFit(v, w)
<1> DEFINE M == Total.memory
           D == Total.disk
           C == Total.containers
           a == v.memory - Memory[w]
           b == v.disk - Disk[w]
           c == v.containers - 1
           x == Memory[p]
           y == Disk[p]
           S == Scale
           n == v.starting
<1>1. M \in Nat /\ D \in Nat /\ C \in Nat /\ M > 0 /\ D > 0 /\ C > 0
  BY AuctionAssumption, ToInt32Below DEF Total, PositiveTotals
<1>2. a \in Int /\ b \in Int /\ c \in Int /\ x \in Nat /\ y \in Nat /\ n \in Nat
  BY AuctionAssumption, SMTT(30) DEF View
<1>3. /\ ComputeScore(v, w) = (3 * S - (a * D * C + b * M * C + c * M * D)) + n * Weight * 3 * S
      /\ BestFit(v, w) = a * D * C + b * M * C + 3 * c * M * D
  BY SubtractFromView, SMTT(30) DEF ComputeScore, BestFit
<1>4. /\ Subtract(Add(v, p), w).memory = a - x
      /\ Subtract(Add(v, p), w).disk = b - y
      /\ Subtract(Add(v, p), w).containers = c - 1
      /\ Add(v, p).starting = n + 1
  <2>1. /\ v.memory \in Int /\ v.disk \in Int /\ v.containers \in Int
        /\ Memory[w] \in Nat /\ Disk[w] \in Nat /\ Memory[p] \in Nat /\ Disk[p] \in Nat
    BY AuctionAssumption, SMTT(30) DEF View
  <2>2. /\ Subtract(Add(v, p), w).memory = (v.memory - Memory[p]) - Memory[w]
        /\ Subtract(Add(v, p), w).disk = (v.disk - Disk[p]) - Disk[w]
        /\ Subtract(Add(v, p), w).containers = (v.containers - 1) - 1
        /\ Add(v, p).starting = n + 1
    BY AddToView, SubtractFromView, SMTT(30)
  <2>3. QED
    BY <2>1, <2>2
<1>5. /\ ComputeScore(Add(v, p), w)
            = (3 * S - ((a - x) * D * C + (b - y) * M * C + (c - 1) * M * D))
              + (n + 1) * Weight * 3 * S
      /\ BestFit(Add(v, p), w) = (a - x) * D * C + (b - y) * M * C + 3 * (c - 1) * M * D
  BY <1>4, Zenon DEF ComputeScore, BestFit
<1>6. S \in Nat
  BY <1>1 DEF Scale
<1>7. Weight \in Nat
  BY AuctionAssumption
<1> HIDE DEF M, D, C, a, b, c, x, y, S, n
<1>8. (a - x) * D * C \in Int /\ a * D * C \in Int /\ (a - x) * D * C <= a * D * C
  BY <1>1, <1>2, WeighsLess
<1>9. (b - y) * M * C \in Int /\ b * M * C \in Int /\ (b - y) * M * C <= b * M * C
  BY <1>1, <1>2, WeighsLess
<1>10. M * D \in Nat /\ M * D > 0
  BY <1>1
<1>11. /\ (c - 1) * M * D = c * M * D - M * D /\ c * M * D \in Int
       /\ 3 * (c - 1) * M * D = 3 * c * M * D - 3 * (M * D) /\ 3 * c * M * D \in Int
  BY <1>1, <1>2
<1>12. (n + 1) * Weight * 3 * S >= n * Weight * 3 * S
       /\ (n + 1) * Weight * 3 * S \in Int /\ n * Weight * 3 * S \in Int
  <2>1. (n + 1) * Weight = n * Weight + Weight /\ n * Weight \in Nat
    BY <1>2, <1>7
  <2>2. ASSUME NEW k \in Nat PROVE (k + Weight) * 3 * S >= k * 3 * S /\ k * 3 * S \in Int /\ (k + Weight) * 3 * S \in Int
    <3>1. (k + Weight) * 3 = k * 3 + Weight * 3
      BY <1>7
    <3>2. (k * 3 + Weight * 3) * S = k * 3 * S + Weight * 3 * S
      BY <1>6, <1>7
    <3>3. Weight * 3 * S >= 0 /\ k * 3 * S \in Int /\ Weight * 3 * S \in Int
      BY <1>6, <1>7, SMTT(30)
    <3>4. QED
      BY <3>1, <3>2, <3>3
  <2>3. QED
    BY <2>1, <2>2
<1>13. BestFit(Add(v, p), w) < BestFit(v, w)
  BY <1>3, <1>5, <1>8, <1>9, <1>10, <1>11, SMTT(30)
<1>14. ComputeScore(Add(v, p), w) > ComputeScore(v, w)
  BY <1>3, <1>5, <1>6, <1>8, <1>9, <1>10, <1>11, <1>12
<1>15. QED
  BY <1>13, <1>14, SMTT(30)

(* Placing anything (AddLRP, AddTask of resources.go) on a cell with       *)
(* positive totals makes it strictly worse for the worst fit and strictly  *)
(* better for the best fit (scoring.go), whatever the item placed and the  *)
(* next one need.                                                          *)
THEOREM PlacingMovesScoresAlways == PositiveTotals => (Spec => PlacingMovesScores)
<1> SUFFICES ASSUME PositiveTotals PROVE Spec => PlacingMovesScores
  OBVIOUS
<1>1. ASSUME PromiseInv, [Next]_vars
      PROVE  [phase = "placing" /\ work' # work =>
                 \A w \in Item : /\ ComputeScore(view', w) > ComputeScore(view, w)
                                /\ BestFit(view', w) < BestFit(view, w)]_vars
  <2> SUFFICES ASSUME phase = "placing", work' # work, NEW w \in Item
               PROVE  /\ ComputeScore(view', w) > ComputeScore(view, w)
                      /\ BestFit(view', w) < BestFit(view, w)
    OBVIOUS
  <2>1. PICK p \in Item : Place(p)
    BY <1>1, Zenon DEF Next, ListContainers, RemainingResources, StateReplies, StateFails, SendWork,
                PerformBegins, PerformLRPs, PerformTasks, AuctionEnds, ContainerSteps,
                ContainerDeleted, Evacuate, Restart, vars, auctionVars
  <2>2. view' = Add(view, p) /\ view \in View
    BY <1>1, <2>1 DEF Place, PromiseInv, TypeOK
  <2>3. QED
    BY <2>2, AddMovesScores
<1>2. QED
  BY <1>1, InitPromise, PromiseStep, PTL DEF Spec, PlacingMovesScores
=============================================================================

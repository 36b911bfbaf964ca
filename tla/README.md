# A TLA+ model of the rep

The rep represents one Diego cell. It tells auctioneers what room the cell has,
accepts the work they place on it, keeps the executor's containers and the
records of the BBS (the cluster's database service) in step, announces the
cell's presence, and drains the cell when it is told to evacuate. This directory
models that behaviour in TLA+, checks it with TLC on small instances and proves
its main safety properties with TLAPS for every instance. `PROJECT.json` lists
components, runs, mutants, the map from definitions to source lines, findings,
hazards and theorems.

## The system

| Part | Source | State | Operations | Talks to |
|---|---|---|---|---|
| task processing | `generator/internal/task_processor.go`, `container_delegate.go` | none of its own | start, run, complete or fail a task | BBS, executor |
| LRP processing | `ordinary_lrp_processor.go`, `evacuation_lrp_processor.go`, `lrp_processor.go` | none of its own | claim, run, start, crash, remove, evacuate | BBS, executor, evacuation context |
| operations, generator | `generator/operation.go`, `generator.go` | batch under construction | container and residual operations, batches, event stream | executor, BBS |
| operation queue | external (`operationq`) | per guid one executing and one waiting operation | push, execute | harmonizer |
| harmonizer | `harmonizer/` | timer, evacuation notice | bulk pass, event loop | generator, queue |
| evacuation | `evacuation/`, `evacuation_context/` | flag set once; two goroutines of the cleanup | evacuate, poll, remove records, stop containers | executor, BBS |
| presence | `maintain/maintain.go` | heartbeater, ready channel | ping, heartbeat, restart | executor, presence store |
| auction | `auctioncellrep/`, `resources.go`, `scoring.go`, `rootfs_providers.go` | stack path map; the auctioneer's copy of the cell | State, matching, scoring, Perform | auctioneer, executor |
| process | `cmd/rep/main.go` | ordered group of members | start, stop in reverse order | all |
| HTTP interface | `handlers/`, `routes.go`, `client.go` | calls under way, goroutines of cancellations | the client's calls, two servers, one handler per route | all of the above |
| conversions | `conversion_helpers.go`, `config/config.go`, part of `auctioncellrep/` | none | work to requests, tags to keys, configuration to providers | |
| presence client | `maintain/cell_presence_client.go` | the cell's key in Consul | `Cells`, `CellById` | Consul |

What is hard about it: three producers (events, bulk passes, auctions) race for
the same container; a bulk pass compares listings taken at different times and
acts on them later; each BBS call may fail, or be applied and not answered; the
rep may crash between any two calls; the evacuation flag is read at different
moments by different parts; on shutdown the queue goes on after its producers
have stopped; an HTTP caller may give up on a request that is served later; and the
presence, which waits for the executor, is a member of a group that starts its
members one after the other.

## Modules

| Module | Models |
|---|---|
| `TaskHarmonizer` | tasks: queue, operations call by call, events, bulk passes, auctions, cancellation, crash and restart |
| `TaskContract` | abstract specification: what the BBS and the user may rely on for a task |
| `LRPHarmonizer` | one LRP index, with instances on this cell and elsewhere, in ordinary and evacuation mode |
| `LRPContract` | abstract specification: what the routers may rely on for the instances of an index |
| `ResultFile` | reading a task's result file from a stream |
| `Maintainer` | presence: ping, heartbeat, ready channel, signal |
| `Startup` | the process from `main` to exit: ordered group, members that fail, the `Maintainer` as one of them, the cluster's view of the presence |
| `Shutdown` | the member group while it stops, with bulker, event consumer, evacuator and cleanup, over abstract containers and operations |
| `Auction` | State, placement on the copy, scores, Perform |
| `Conversions` | the pure conversions, as operators |
| `CellApi` | client, servers, routes and handlers, and what the handlers do to the containers |
| `MC*` | values of the constants for TLC |
| `DataLemmas` | induction over numbers and finite sets, sums, greatest elements: lemmas for the proofs |
| `*Proofs` | theorems and inductive invariants (`StartupProofs` also has those of `Maintainer`, `CellApiProofs` rests on those of `ConversionsProofs`) |

Correspondence with the code:

* **`TaskHarmonizer`.** `pending[t]` and `pc[t]` are the waiting and the
  executing operation of the sliding queue. `GetContainer` opens an operation and
  chooses the branch of `Process`; `StartTask`, `TaskByGuid`, `RunContainer`,
  `FetchContainerResultFile`, `CompleteTask`, `FailTask` and `DeleteContainer` are
  one call each, with the outcomes the code tells apart, *failed* and *applied
  but unanswered* among them. `ListContainers`, `TasksByCellID`, `BatchOperations`
  and `BulkPush` are the bulk pass. Residual operations have the key of the
  container operation, so they may replace it in the queue.
* **`LRPHarmonizer`** has the same frame. `OrdinaryProcess` and
  `EvacuationProcess` choose the branch when the operation reads the evacuation
  context. The three residual operations differ in which records they remove.
  Every auction of the index to this cell makes a new instance guid.
* **`Maintainer`**: `pc` is the place in `Run`, `hb` the heartbeat process,
  `closes` how often `ready` has been closed. After a signal has been taken in
  the middle of waiting for a killed heartbeater, `Run` returns without waiting
  for it, as in `maintain.go:166`.
* **`Shutdown`**: one variable per member and goroutine. An operation is one step
  here (`OperationExecutes`, all its outcomes); its calls are in
  `LRPHarmonizer`.
* **`Auction`**: one auction after the other. `view` is the auctioneer's
  `CellState`. A `Perform` has a step for the evacuation check and one for each of
  its two `AllocateContainers` calls. The scores are scaled to integers.
* **`TaskContract`, `LRPContract`** are implemented by the two harmonizers
  (`KeepsContract`, `KeepsLRPContract`). The mapping of an instance's `phase` reads
  the container's state and whether it ever ran; `routed` is read off the records
  that are running or evacuating and held by this cell.
* **`ResultFile`** has one step for each of `GetFiles`, `Next` and `Read`; bytes
  arrive between them. `TaskHarmonizer` takes the whole fetch as one call that
  succeeds or fails.
* **`Startup`** extends `Maintainer`: `PresenceStep` runs it inside the process,
  `Status` is what the group sees of a member (for the presence, the ready channel
  and the return of `Run`), `at` is how far the group has come in its list. `key`
  is held by a session, released or gone; `Cells` counts only a held one.
* **`Conversions`**: a text is a sequence of tokens and an operator that may fail
  returns an empty sequence. The index goes through its decimal digits and the
  conversion to `int32` (`Half` is 2^31 in the code), a port through `% 65536`, providers
  through their JSON objects.
* **`CellApi`**: each element of `calls` is one call with its place in the handler,
  its answer and what the caller got. A handler has a step for each call it makes to
  the executor. `Reaches` compares what the client chose (`PickURL`) with the server
  behind that port. `did` and `before` are history: whether the call had its effect,
  and what held when it was sent.

External parts are modelled from how the code uses them. **BBS**: `StartTask`
changes a pending task, answers "unchanged" to its own cell and refuses others;
`CompleteTask` works only for the task's cell; `FailTask` takes no cell.
Claim, start, remove and crash of an LRP apply to the record's holder;
`EvacuateRunning` moves the record to the evacuating slot and says whether to keep
the container; an error keeps it. **Executor**: a container is run only when
reserved, reservations expire, a restarted rep has no containers, a container
takes resources until it is deleted. **Group**: members stop in reverse order, one
at a time. `LookupFaults` says whether the executor may fail a lookup of a
container it has; `GetContainer` (`container_delegate.go:41`) takes that for a
missing container. **Consul**: a session holds the key until it expires or its
heartbeater stops; then the key is released or deleted. **HTTP**: a request or an
answer is lost, or comes after the caller has given up.

## Runs

| Run | Instance | Shows |
|---|---|---|
| `TaskSafety1` | 1 task, 2 faults, 1 crash, 2 auctions, 2 events | `AtMostOneRun`, `SuccessIsReal`, `ExecutingDeletedOnlyIfEnded`, `ResidualSparesExecuting`, `FailTaskSparesOthers`, refinement of `TaskContract` (`KeepsContract`) |
| `TaskLive` | 1 task, failing lookups, 1 fault, 1 crash | `LostTaskEnds`, `ContainersReaped` |
| `LRPSafety1` | 1 local, 1 remote instance, 2 faults, 1 crash, events | `RoutableKept`, `ResidualOnlyIfGone`, refinement of `LRPContract` (`KeepsLRPContract`) |
| `LRPLive` | 1 local, 1 remote, failing lookups, 1 fault, 1 crash | `RecordsReaped`, `EvacuationDrains`, `DuplicateGoes`, `RunningRecorded` |
| `Startup` | 1 member before and 1 after the presence, 1 heartbeater exit, 1 failing member | `SignalledRepExits`, `StoppedRepUnlisted`, `DownCellUnlisted`, `UpCellListed`, `StartupCompletes`, `CleanupIsLast`, and the maintainer's `NoPresenceLeft` and `ReadyClosedOnce` |
| `ShutdownSafety` | 2 containers, 1 fault, symmetry | `NoneEscapesStop`, `EvacuationIsComplete` |
| `ShutdownLive` | 1 container, 1 fault | `ShutdownEnds`, `EvacuationEnds`, `BulkerKeepsSyncing` |
| `Auction` | 4 items, 2 auctions, 1 fault, 1 restart; memory is short, disk exceeds the integers of State | `WorkAccounted`, `PromiseKept` (also under truncation), `PlacingMovesScores` |
| `CellApi` | 3 calls, 1 fault, 1 LRP, 1 task, 2 accepted and 3 refused configurations | `ClientReachesCell`, `AnswersAreTrue`, `StateNamesPlacedWork`, `ProvidersAreProvided`, `RunsAsPlaced`, `EvacuatingTakesNoWork`, `AcceptedCancelDeletes` |
| `MaintainerReady` | violated | `BeatingIsReady`, see Findings |
| `ShutdownStranded` | violated | `NoEvacuatingLeft`, see Findings |
| `ResultFile` | violated | `ResultIsWholeFile`, see Findings |

`Auction` and `CellApi` also check a type invariant. The type invariants of the
other modules, and `RunningIsReal` and `OneHeartbeater`, are proved for
every instance and have no run of their own.

The bounds. One task or index is enough for the races of its own operations, since
guids share only the batch; that several of them do not spoil each other there is
covered by the proofs, which hold for any set of tasks and instances. One fault
separates "applied, unanswered" from "failed", two allow a retry that fails as well;
one crash reaches every point between two calls. Events are bounded per guid because
further ones fall into the same queue slot. The liveness runs leave out what would
only enlarge them (events in `LRPLive`): the properties are about the bulk pass,
which must do without events. In `Startup` one member on each side of the presence
has a predecessor and a successor to wait for; one exit and one failure let the
heartbeater, the session and a member fail at any point. In `CellApi` three calls are
two that race and one that observes them; the two accepted configurations differ in
everything, since TLS concerns one server and legacy endpoints the other. The index
has two digits and is the largest that the model's `int32` holds (`Half` is 16: TLC has no
integers above 2^31 - 1), and one port is 65535, the largest that `uint16` holds. That no larger
port is desired is an assumption: the code does not check it and would truncate the
port (`conversion_helpers.go:272`). Files of `ResultFile` go two bytes past a limit of three.
Auction, shutdown, start-up, interface and result-file runs end, by their bounds or
because the process exits, so these do not check for deadlock.

Fairness. Operations in the queue are executed, calls return, bulk passes follow
each other and reservations expire (weak fairness). A container that was told to
stop finishes. In `LRPLive` other cells claim and start what is up for auction.
Where a Go `select` has several ready cases, the one in question is chosen in the
end (strong fairness for signals). Timers fire. In `Startup`, `main` and the group's
goroutine run, members get ready and stop when told to, a heartbeater gets ready,
stops when told to and notices a lost session, and the cluster keeps calling `Cells`.
In `CellApi` only the goroutine of a cancellation is fair: no request need be served.
Nothing is assumed of lifecycle events, of containers that are not stopped, of
`StopContainer` returning, of operations during shutdown, or of members not failing.

`PROJECT.json` names, for each property of a passing run, a faulty variant of one
definition (marked "Faulty:" in the modules) that violates it.

## Proofs

For all sets of tasks, instances and containers and all bounds:

* `TaskHarmonizerProofs`: type correctness, `AtMostOneRun`, `SuccessIsReal`,
  `ExecutingDeletedOnlyIfEnded`, `ResidualSparesExecuting` (assuming
  `~LookupFaults`), `FailTaskSparesOthers`, and that the model implements
  `TaskContract`. The invariant says what each place of an operation implies about
  record and container: a place after a successful `StartTask` belongs to a task of
  this cell that has never run, and a place after the lookup of a completed container
  to one whose outcome is fixed. It is needed because the properties speak of records
  while the danger is in the operation's stale copy.
* `LRPHarmonizerProofs`: type correctness, `RunningIsReal`, `RoutableKept`,
  `ResidualOnlyIfGone` (assuming `~LookupFaults`), and that the model implements
  `LRPContract`. The invariant ties places that follow a look at a running container
  to `ran`, and those that delete one to a record that has moved on. For the
  refinement every action is shown to change phases, or routes, or neither.
* `StartupProofs`, of `Maintainer`: type correctness, `ReadyClosedOnce`,
  `NoPresenceLeft`, `OneHeartbeater`; the invariant ties `pc` to the heartbeater and to
  whether `ready` is still held. Of `Startup`: `PresenceIsMaintainer` (the presence
  inside the process implements the specification of `Maintainer`, so the theorems
  above hold of the composed rep, `NoPresenceLeft` and `ReadyClosedOnce` among them), `StartupTypeOK` and
  `CleanupIsLast`. `GroupInv` says that members past the group's place do not run, and
  that once the place is before the presence `Run` has returned or never begun.
* `ShutdownProofs`: type correctness, `NoneEscapesStop`, `EvacuationIsComplete`.
  `StopInv` is the point: once the signaller has listed the containers, everything
  started, or reserved with an operation still in the queue, is on its list or
  dealt with, because no producer is left to push another operation.
* `AuctionProofs`: type correctness, `WorkAccounted` (from a lemma that one half of
  `Perform` splits what it is asked for), `PromiseKept` and `PlacingMovesScores`.
  `PromiseInv` carries the argument for `PromiseKept`: from the answer of State until
  the LRPs are allocated, what the copy still offers and what is placed on it together
  fit into what the executor has left (`Promised`), because truncation to int32 never
  makes a number larger (`ToInt32Below`), containers that go only make room, and one
  placement takes from the copy what it adds to the work; after the LRPs are
  allocated the tasks still fit. The copy may offer a negative number, so `Promised`
  also says that nothing was placed on such a copy. The sums over containers are those
  of `DataLemmas`. `PlacingMovesScores` is proved under the hypothesis
  `PositiveTotals`: the scores divide by the totals, and the code does not rule out one
  that is zero, or negative after its truncation.
* `ConversionsProofs`: the tags of an LRP lead back to its key and instance, for every
  index that an `int32` holds (a lemma says that `Atoi` undoes `Itoa`); a stack map has the path of the last entry of each
  stack; the providers a cell offers survive their JSON.
* `CellApiProofs`: all invariants of the `CellApi` run, for any work, number of calls,
  configurations and faults, in two layers. `CallInv` says of each call what its
  handler has decided by the point it has reached; it is preserved because a step
  touches one call, and because the evacuation context is set before an Evacuate is
  answered and never reset. It gives
  `ClientReachesCell`, `AnswersAreTrue` and `EvacuatingTakesNoWork`. `CellInv` says of
  each container that guid, tags, root file system and run request are those of the
  item it was placed for, that the Perform which placed it has been answered (so that
  no later one is taken for it), and that each State that listed the containers after
  it was placed names it. It gives `StateNamesPlacedWork`, `RunsAsPlaced` and, with
  `CallInv` and `ConversionsProofs`, `ProvidersAreProvided` and the type invariant.
  `RunsAsPlaced` has the hypothesis `PortsFit`, since a port of more than 16 bits would be
  truncated.

Induction. The library's induction theorems take a predicate, which the provers cannot
instantiate; `DataLemmas` states induction for *sets* of numbers and of subsets, and
derives it from the least element of a well-founded order. A recursive function
(`Itoa`, the folds behind `Atoi` and the sums) is a `CHOOSE` among the solutions of its
equation, so each proof first shows by induction that there is a solution.

The constants' assumptions are the named `ASSUME`s of the modules: finiteness and
types; in `CellApi` also that LRPs and tasks are different things, that an index is an
`int32` that is not negative, and that no supported provider has a preloaded scheme or one that is no URL.
Only model-checked is liveness, which is outside the prover's reach (fairness and
`ENABLED`): `LostTaskEnds`, `ContainersReaped`, `RecordsReaped`, `EvacuationDrains`,
`DuplicateGoes`, `RunningRecorded`, `ShutdownEnds`, `EvacuationEnds`,
`BulkerKeepsSyncing`, `AcceptedCancelDeletes`, and of `Startup` `SignalledRepExits`,
`StoppedRepUnlisted`, `DownCellUnlisted`, `UpCellListed` and `StartupCompletes`. Every
invariant, action property and refinement that a passing run checks is also proved, under
the hypotheses named above.

## Findings

* `MaintainerReady`: `maintain.go:69` forgets the ready channel after a heartbeater
  that failed before it was ready; the retry works but never reports ready, and
  since the presence comes before the servers, the bulker and the others in the ordered
  group, none of these starts. `StartupCompletes` shows that nothing else can hold up the start for ever while
  the executor answers.
* `ShutdownStranded`: an operation still in the queue can write an evacuating record
  after `cleanup.go:62` has fetched the ones to remove, although
  `cleanup_test.go:132` has it remove all of them.
* `ResultFile`: `container_delegate.go:101` reads the result with one `Read` and drops
  its error. A file that arrives in pieces is cut short, one whose stream breaks off is
  taken for whole, and one over the limit may pass, although
  `container_delegate_test.go:214` has it return the file and `:240` an error for one
  that is too large.

Remarks, on behaviour that nothing in the repository rules out:

* The comment at `cleanup.go:132` calls the wait for `containersSignalled` unnecessary
  for the cleanup. The variant `CheckDoesNotWait` shows what it is good for: without it
  the cleanup reports success while a container is still being created that nobody has
  told to stop.
* `FailTask` can end a task that runs on another cell, in one case:
  a reservation that was never run completes, the BBS refuses `CompleteTask` while the
  task is Pending, and the other cell starts it before `FailTask` arrives.
  `FailTaskSparesOthers` says that this is the only one.
* A client that requires TLS and was given no certificates is created without an error
  and reaches nothing (`client.go:78`); `ClientReachesCell` excepts it.
* A provider of a type the code does not know decodes to nil without an error
  (`rootfs_providers.go:79`); no rep of this repository sends one.
* If the evacuating records cannot be fetched the cleanup returns before it has told any
  container to stop (`cleanup.go:65`).
* A State does not name a task that was deleted before its listing and placed again
  after it, although the cell has a container of that guid when the call is sent and
  when it returns. It takes four calls to get there; the proof of `StateNamesPlacedWork` failed
  on it, and the property speaks of containers, each with the call that placed it.
* A `Perform` that is delivered after a cancellation brings the task's container again;
  the harmonizer then finds the task ended and removes it (`ContainersReaped`).

## Not modelled

* **Copied data**: cached dependencies, networks, egress rules and certificate
  properties are carried over field by field in `conversion_helpers.go`.
* **Other settings** of `config.go` and `StackMap.MarshalJSON`: read once, or unused by
  the rep.
* **Construction of clients** (BBS, Consul, metron, locket), service registration, and
  the locket presence, whose runner is a library; `Startup` has the Consul presence.
* **`CellEvents`**: only the BBS uses it.
* **`Ping`** changes nothing. `SetStateClient` replaces the client's transport.
* **Numbers**: floating point rounding of scores and a total of zero (`Auction` scales
  the scores to integers).
* **Several cells in one auction**: choosing among cells is the auctioneer's work, which
  is in another repository; what a cell promises it is in `Auction`.
* **Logging and metrics**, the test runner, the generated fakes.

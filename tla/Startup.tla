------------------------------ MODULE Startup ------------------------------
(***************************************************************************)
(* The rep process from main to exit (cmd/rep/main.go) around the cell's   *)
(* presence, and the cluster's view of that presence                       *)
(* (maintain/cell_presence_client.go).  main wires the rep together and    *)
(* runs its members as an ordered group: each is started when the one      *)
(* before it is ready, and when one exits or the process is signalled all  *)
(* are stopped in reverse order.  The presence is the Maintainer; the      *)
(* other members, the group (ifrit) and Consul are external.               *)
(***************************************************************************)
EXTENDS Maintainer

CONSTANTS
    Before,       \* members started before the presence: the executor's
    After,        \* and after it: servers, cleanup, bulker, consumer, evacuator, registration
    MaxFailures   \* bound: members that exit by themselves

ASSUME StartupAssumption == Before \in Nat /\ After \in Nat /\ MaxFailures \in Nat

VARIABLES
    main,       \* "init", "group" or "exited"
    cleaned,    \* has main's deferred executorClient.Cleanup run?
    group,      \* the ordered group: "starting", "running", "stopping"
    at,         \* how many of its members have been started and not yet stopped
    signalled,  \* has the process been signalled?
    status,     \* the other members: "idle", "starting", "ready", "exited"
    stopping,   \* those told to stop
    failures,   \* spent bound
    key,        \* the cell's key in Consul: "none", "held" (by a session), "released"
    listed      \* is the cell in the set Cells last returned?

groupVars == <<main, cleaned, group, at, signalled, status, stopping, failures>>
allVars   == <<vars, groupVars, key, listed>>

(* The members, by their place in main's list. *)
Number   == Before + 1 + After
Presence == Before + 1
Others   == (1..Number) \ {Presence}

(* What the group sees of a member: for the presence, Run's ready channel  *)
(* and its return.                                                         *)
Status(m) ==
    IF m # Presence THEN status[m]
    ELSE IF pc = "done" THEN "exited"
    ELSE IF closes > 0 THEN "ready" ELSE "starting"

StartupInit ==
    /\ Init
    /\ main = "init" /\ cleaned = FALSE
    /\ group = "starting" /\ at = 0 /\ signalled = FALSE
    /\ status = [m \in Others |-> "idle"] /\ stopping = {} /\ failures = 0
    /\ key = "none" /\ listed = FALSE

-----------------------------------------------------------------------------
(* main: read the configuration, set up the executor, then the clients,    *)
(* servers and members.  A failure before the executor is there exits at   *)
(* once, a later one panics, which runs the deferred Cleanup.              *)
Initialize ==
    /\ main = "init"
    /\ \/ main' = "group" /\ UNCHANGED cleaned
       \/ main' = "exited" /\ cleaned' \in BOOLEAN
    /\ UNCHANGED <<vars, group, at, signalled, status, stopping, failures, key, listed>>

(* Faulty: do not wait for the group to have stopped. *)
ExitAtOnce ==
    /\ main = "group" /\ group = "stopping"
    /\ main' = "exited" /\ cleaned' \in BOOLEAN
    /\ UNCHANGED <<vars, group, at, signalled, status, stopping, failures, key, listed>>

(* The group has stopped: with a member's error main exits at once, and    *)
(* without one the deferred Cleanup runs.                                  *)
Exit ==
    /\ main = "group" /\ group = "stopping" /\ at = 0
    /\ main' = "exited" /\ cleaned' \in BOOLEAN
    /\ UNCHANGED <<vars, group, at, signalled, status, stopping, failures, key, listed>>

-----------------------------------------------------------------------------
(* The ordered group.                                                      *)
StartMember ==
    /\ main = "group" /\ group = "starting" /\ at < Number
    /\ at > 0 => Status(at) = "ready"
    /\ at' = at + 1
    /\ status' = [m \in Others |-> IF m = at' THEN "starting" ELSE status[m]]
    /\ UNCHANGED <<vars, main, cleaned, group, signalled, stopping, failures, key, listed>>

GroupReady ==
    /\ group = "starting" /\ at = Number /\ Status(at) = "ready"
    /\ group' = "running"
    /\ UNCHANGED <<vars, main, cleaned, at, signalled, status, stopping, failures, key, listed>>

(* A signal or the exit of a member, during the start or later. *)
GroupStops ==
    /\ main = "group" /\ group # "stopping"
    /\ signalled \/ \E m \in 1..at : Status(m) = "exited"
    /\ group' = "stopping"
    /\ UNCHANGED <<vars, main, cleaned, at, signalled, status, stopping, failures, key, listed>>

(* The last member still there is told to stop; when it has exited it is   *)
(* the turn of the one before it.                                          *)
StopMember ==
    /\ group = "stopping" /\ at > 0
    /\ \/ /\ Status(at) = "exited"
          /\ at' = at - 1 /\ UNCHANGED <<vars, stopping>>
       \/ /\ at = Presence /\ Signal
          /\ UNCHANGED <<at, stopping>>
       \/ /\ at # Presence /\ Status(at) # "exited" /\ at \notin stopping
          /\ stopping' = stopping \cup {at} /\ UNCHANGED <<vars, at>>
    /\ UNCHANGED <<main, cleaned, group, signalled, status, failures, key, listed>>

(* SIGTERM or SIGINT to the process. *)
ProcessSignalled ==
    /\ main = "group" /\ ~signalled
    /\ signalled' = TRUE
    /\ UNCHANGED <<vars, main, cleaned, group, at, status, stopping, failures, key, listed>>

(* A member other than the presence gets ready, fails, or stops as told. *)
MemberReady(m) ==
    /\ status[m] = "starting" /\ status' = [status EXCEPT ![m] = "ready"]
    /\ UNCHANGED failures

MemberFails(m) ==
    /\ status[m] \in {"starting", "ready"} /\ failures < MaxFailures
    /\ status' = [status EXCEPT ![m] = "exited"] /\ failures' = failures + 1

MemberStops(m) ==
    /\ m \in stopping /\ status[m] # "exited"
    /\ status' = [status EXCEPT ![m] = "exited"]
    /\ UNCHANGED failures

MemberStep(m) ==
    /\ main = "group"
    /\ MemberReady(m) \/ MemberFails(m) \/ MemberStops(m)
    /\ UNCHANGED <<vars, main, cleaned, group, at, signalled, stopping, key, listed>>

-----------------------------------------------------------------------------
(* The presence.  Its heartbeater holds the key while it is up; when it    *)
(* has stopped the key is gone or belongs to nobody.                       *)
PresenceStep(Step) ==
    /\ main = "group" /\ (at >= Presence \/ pc = "done")
    /\ Step
    /\ key' \in IF hb' = hb THEN {key}
                ELSE IF hb' = "up" THEN {"held"}
                ELSE IF hb = "up" THEN {"none", "released"} ELSE {key}
    /\ UNCHANGED <<groupVars, listed>>

(* The executor answers or not, whatever the presence does. *)
ExecutorStep == ExecutorChanges /\ UNCHANGED <<groupVars, key, listed>>

(* The session expires; the heartbeater notices later and exits. *)
SessionExpires ==
    /\ main = "group" /\ hb = "up" /\ key = "held" /\ exits < MaxExits
    /\ key' = "released"
    /\ UNCHANGED <<vars, groupVars, listed>>

BeatNotices ==
    /\ main = "group" /\ key = "released"
    /\ BeatExits /\ failed'
    /\ UNCHANGED <<groupVars, key, listed>>

(* The process is gone, and with it a heartbeater that had not stopped     *)
(* yet: nobody renews its session any more.                                *)
ProcessGone ==
    /\ main = "exited"
    /\ BeatStops
    /\ key' = IF key = "held" THEN "released" ELSE key
    /\ UNCHANGED <<groupVars, listed>>

-----------------------------------------------------------------------------
(* The presence client, as the rest of the cluster uses it.                *)

(* Faulty: take a key for a presence although no session holds it. *)
CellsIgnoresSession ==
    /\ listed' \in {key # "none", listed}
    /\ UNCHANGED <<vars, groupVars, key>>

(* Cells, and CellById likewise: a key without a session is no presence; a *)
(* call that fails leaves its caller with what it knew.                    *)
Cells ==
    /\ listed' \in {key = "held", listed}
    /\ UNCHANGED <<vars, groupVars, key>>

-----------------------------------------------------------------------------
GroupStep == StartMember \/ GroupReady \/ GroupStops \/ StopMember

StartupNext ==
    \/ Initialize \/ Exit \/ GroupStep \/ ProcessSignalled
    \/ \E m \in Others : MemberStep(m)
    \/ PresenceStep(Run \/ TakeSignal)
    \/ PresenceStep(BeatStarts \/ BeatExits \/ BeatStops)
    \/ ExecutorStep \/ SessionExpires \/ BeatNotices \/ ProcessGone \/ Cells

StartupSpec == StartupInit /\ [][StartupNext]_allVars

(* main and the group's goroutine run, and members get ready and stop when *)
(* told to.  A select does not ignore a ready signal or exit for ever (Go  *)
(* chooses among the ready cases at random).  The heartbeater gets ready,  *)
(* stops when told to and notices a lost session.  The cluster keeps       *)
(* calling Cells.                                                          *)
Fairness ==
    /\ WF_allVars(Initialize) /\ WF_allVars(Exit) /\ WF_allVars(GroupStep)
    /\ WF_allVars(GroupStops)
    /\ \A m \in Others : WF_allVars(main = "group" /\ (MemberReady(m) \/ MemberStops(m))
                                     /\ MemberStep(m))
    /\ WF_allVars(PresenceStep(Run))
    /\ SF_allVars(PresenceStep(TakeSignal)) /\ SF_allVars(PresenceStep(HeartbeatExited))
    /\ WF_allVars(PresenceStep(BeatStarts)) /\ WF_allVars(PresenceStep(BeatStops))
    /\ WF_allVars(BeatNotices) /\ WF_allVars(ProcessGone)
    /\ WF_allVars(Cells)

FairSpec == StartupSpec /\ Fairness

-----------------------------------------------------------------------------
(* Every variable stays in its range. *)
StartupTypeOK ==
    /\ TypeOK
    /\ main \in {"init", "group", "exited"} /\ cleaned \in BOOLEAN
    /\ group \in {"starting", "running", "stopping"} /\ at \in 0..Number
    /\ signalled \in BOOLEAN
    /\ status \in [Others -> {"idle", "starting", "ready", "exited"}]
    /\ stopping \subseteq Others /\ failures \in 0..MaxFailures
    /\ key \in {"none", "held", "released"}
    /\ listed \in BOOLEAN

(* executorClient.Cleanup, which main defers, runs only when no member     *)
(* uses the executor any more and nothing goes on announcing the cell: a   *)
(* heartbeater has exited or been told to.                                 *)
CleanupIsLast ==
    cleaned => /\ \A m \in Others : status[m] \in {"idle", "exited"}
               /\ hb \in Live => told

(* A signalled rep exits, at whatever point of the start, of a wait for    *)
(* the executor or of a running heartbeat the signal arrives.              *)
SignalledRepExits == signalled ~> main = "exited"

(* When a member has failed, or the rep is told to stop, the cell leaves   *)
(* the set Cells returns, for good: the failure reaches the presence       *)
(* through the group, and a released key is not taken for a presence.      *)
StoppedRepUnlisted == group = "stopping" ~> [](~listed)

(* If the executor stays down the cell is unlisted, although its rep runs. *)
DownCellUnlisted == <>[]~up => <>[](~listed)

(* If the executor stays up the cell is listed for good, unless the rep    *)
(* exits: every lost session or exited heartbeater is replaced.            *)
UpCellListed == <>[]up => <>(main = "exited") \/ <>[]listed

(* With an executor that answers the start is completed, unless the        *)
(* presence has lost its ready channel (maintain.go:69): nothing else can  *)
(* make the group wait for ever.                                           *)
StartupCompletes ==
    <>[]up => <>(main = "exited" \/ group = "running" \/ (~ready /\ closes = 0))
=============================================================================

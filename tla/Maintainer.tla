----------------------------- MODULE Maintainer -----------------------------
(***************************************************************************)
(* The cell's presence: maintain/maintain.go.  Maintainer.Run waits for    *)
(* the executor to answer a ping, runs a heartbeater that keeps the cell's *)
(* presence in the locket service, pings the executor as long as it beats, *)
(* stops the heartbeater when a ping fails, and starts over.  Each select  *)
(* of the code is a choice among the cases that are ready.                 *)
(* The executor and the heartbeater (an ifrit process) are external.       *)
(***************************************************************************)
EXTENDS Naturals

CONSTANT MaxExits   \* bound: times a heartbeater exits by itself

ASSUME MaintainerAssumption == MaxExits \in Nat

VARIABLES
    pc,        \* where Run is
    ready,     \* is Run's ready channel still non-nil?
    closes,    \* how often the channel was closed
    sig,       \* the signal to stop: "none", "sent" or "taken"
    up,        \* does the executor answer pings?
    hb,        \* the latest heartbeater: "none", "starting", "up" or "exited"
    wasReady,  \* has it reported ready?
    told,      \* has it been told to stop?
    failed,    \* did it exit with an error?
    exits      \* spent bound

hbVars == <<hb, wasReady, told, failed>>
vars   == <<pc, ready, closes, sig, up, hb, wasReady, told, failed, exits>>

PCs  == {"ping", "sleep", "starting", "beating", "check", "stopping", "killing", "done"}
Live == {"starting", "up"}

Init ==
    /\ pc = "ping" /\ ready = TRUE /\ closes = 0 /\ sig = "none" /\ up \in BOOLEAN
    /\ hb = "none" /\ wasReady = FALSE /\ told = FALSE /\ failed = FALSE /\ exits = 0

-----------------------------------------------------------------------------
(* waitForExecutor: ping; on success create and start the heartbeater,     *)
(* unless the executor cannot say what resources it has.                   *)
Ping ==
    /\ pc = "ping"
    /\ \/ ~up /\ pc' = "sleep" /\ UNCHANGED hbVars
       \/ up /\ pc' = "done" /\ UNCHANGED hbVars
       \/ /\ up /\ pc' = "starting"
          /\ hb' = "starting" /\ wasReady' = FALSE /\ told' = FALSE /\ failed' = FALSE
    /\ UNCHANGED <<ready, closes, sig, up, exits>>

Sleep ==
    /\ pc = "sleep"
    /\ pc' = "ping"
    /\ UNCHANGED <<ready, closes, sig, up, hbVars, exits>>

(* Faulty: go on without telling the process group. *)
HeartbeatReadySilently ==
    /\ pc = "starting" /\ wasReady
    /\ pc' = "beating"
    /\ UNCHANGED <<ready, closes, sig, up, hbVars, exits>>

(* The heartbeater is ready before it exits, or the exit is not seen yet. *)
HeartbeatReady ==
    /\ pc = "starting" /\ wasReady
    /\ pc' = "beating"
    /\ closes' = IF ready THEN closes + 1 ELSE closes
    /\ UNCHANGED <<ready, sig, up, hbVars, exits>>

(* Faulty: do not notice that the heartbeater is gone. *)
HeartbeatExitMissed ==
    /\ pc \in {"starting", "beating"} /\ hb = "exited"
    /\ pc' = "beating"
    /\ UNCHANGED <<ready, closes, sig, up, hbVars, exits>>

(* Faulty: the ready channel is kept for the next heartbeater. *)
HeartbeatExitKeepsReady ==
    /\ pc \in {"starting", "beating"} /\ hb = "exited"
    /\ pc' = IF failed THEN "ping" ELSE "done"
    /\ UNCHANGED <<ready, closes, sig, up, hbVars, exits>>

(* heartbeat returns the heartbeater's error: none ends Run, any other     *)
(* starts over, and ready is forgotten either way.                         *)
HeartbeatExited ==
    /\ pc \in {"starting", "beating"} /\ hb = "exited"
    /\ pc' = IF failed THEN "ping" ELSE "done"
    /\ ready' = FALSE
    /\ UNCHANGED <<closes, sig, up, hbVars, exits>>

Tick ==
    /\ pc = "beating"
    /\ pc' = "check"
    /\ UNCHANGED <<ready, closes, sig, up, hbVars, exits>>

(* Faulty: ignore the ping's error. *)
CheckPingIgnoresError ==
    /\ pc = "check" /\ pc' = "beating"
    /\ UNCHANGED <<ready, closes, sig, up, hbVars, exits>>

(* The ping on a tick; if it fails the heartbeater is told to stop. *)
CheckPing ==
    /\ pc = "check"
    /\ pc' = IF up THEN "beating" ELSE "stopping"
    /\ told' = (told \/ ~up)
    /\ UNCHANGED <<ready, closes, sig, up, hb, wasReady, failed, exits>>

(* The heartbeater has stopped: after a failed ping start over, after a    *)
(* signal end.                                                             *)
HeartbeatStopped ==
    /\ pc \in {"stopping", "killing"} /\ hb = "exited"
    /\ pc' = IF pc = "stopping" THEN "ping" ELSE "done"
    /\ ready' = FALSE
    /\ UNCHANGED <<closes, sig, up, hbVars, exits>>

(* Faulty: return without stopping the heartbeater. *)
TakeSignalLeavesHeartbeat ==
    /\ sig = "sent"
    /\ pc \in {"sleep", "starting", "beating", "stopping"}
    /\ sig' = "taken" /\ pc' = "done"
    /\ UNCHANGED <<ready, closes, up, hbVars, exits>>

(* Faulty: no case for the signal while waiting for the executor. *)
TakeSignalNotAsleep ==
    /\ sig = "sent"
    /\ pc \in {"starting", "beating", "stopping"}
    /\ sig' = "taken"
    /\ pc' = IF pc = "stopping" THEN "done" ELSE "killing"
    /\ told' = TRUE
    /\ UNCHANGED <<ready, closes, up, hb, wasReady, failed, exits>>

(* The signal is received: while sleeping or already stopping Run ends at  *)
(* once, otherwise after the heartbeater has been told to stop.            *)
TakeSignal ==
    /\ sig = "sent"
    /\ pc \in {"sleep", "starting", "beating", "stopping"}
    /\ sig' = "taken"
    /\ pc' = IF pc \in {"sleep", "stopping"} THEN "done" ELSE "killing"
    /\ told' = (told \/ pc \in {"starting", "beating"})
    /\ UNCHANGED <<ready, closes, up, hb, wasReady, failed, exits>>

Run == Ping \/ Sleep \/ HeartbeatReady \/ HeartbeatExited \/ Tick \/ CheckPing \/ HeartbeatStopped

-----------------------------------------------------------------------------
(* The environment: the heartbeater, the executor, the process group.      *)
BeatStarts ==
    /\ hb = "starting" /\ ~told
    /\ hb' = "up" /\ wasReady' = TRUE
    /\ UNCHANGED <<pc, ready, closes, sig, up, told, failed, exits>>

BeatExits ==
    /\ hb \in Live /\ exits < MaxExits
    /\ hb' = "exited" /\ failed' \in BOOLEAN /\ exits' = exits + 1
    /\ UNCHANGED <<pc, ready, closes, sig, up, wasReady, told>>

BeatStops ==
    /\ hb \in Live /\ told
    /\ hb' = "exited"
    /\ UNCHANGED <<pc, ready, closes, sig, up, wasReady, told, failed, exits>>

ExecutorChanges ==
    /\ up' = ~up
    /\ UNCHANGED <<pc, ready, closes, sig, hbVars, exits>>

Signal ==
    /\ sig = "none"
    /\ sig' = "sent"
    /\ UNCHANGED <<pc, ready, closes, up, hbVars, exits>>

Next ==
    \/ Run \/ TakeSignal
    \/ BeatStarts \/ BeatExits \/ BeatStops \/ ExecutorChanges \/ Signal

Spec == Init /\ [][Next]_vars

-----------------------------------------------------------------------------
(* Every variable stays in its range. *)
TypeOK ==
    /\ pc \in PCs /\ ready \in BOOLEAN /\ closes \in Nat
    /\ sig \in {"none", "sent", "taken"} /\ up \in BOOLEAN
    /\ hb \in Live \cup {"none", "exited"}
    /\ wasReady \in BOOLEAN /\ told \in BOOLEAN /\ failed \in BOOLEAN
    /\ exits \in 0..MaxExits

(* The ready channel is closed at most once (closing it again would panic  *)
(* and take the rep down), however often heartbeaters exit, the executor   *)
(* stops answering and Run starts over.                                    *)
ReadyClosedOnce == closes <= 1

(* When Run has returned no heartbeater goes on announcing the cell: it    *)
(* has exited or has been told to.                                         *)
NoPresenceLeft == pc = "done" => hb \notin Live \/ told

(* A heartbeater is started only after the one before it has exited. *)
OneHeartbeater == [][pc' = "starting" /\ pc # "starting" => hb \notin Live]_vars

(* A maintainer that heartbeats has told its process group that it is      *)
(* ready: maintain_test.go:103 has it ping until that succeeds, then start *)
(* heartbeating, and expects ready to be closed (:118).                    *)
BeatingIsReady == pc = "beating" => closes > 0
=============================================================================

---------------------------- MODULE LRPContract ----------------------------
(***************************************************************************)
(* What a cell promises the cluster's routers about the instances of an    *)
(* index that are placed on it: traffic goes only to instances that have   *)
(* been up, an instance comes up at most once, and while the rep lives it  *)
(* never takes away one that is up and routed to.  LRPHarmonizer           *)
(* implements this.                                                        *)
(***************************************************************************)
EXTENDS Naturals

CONSTANT Local     \* the instances placed on this cell

VARIABLES
    phase,         \* how far each instance's container has come
    routed,        \* the instances of this cell that receive traffic
    crashes        \* how often the rep has died

vars == <<phase, routed, crashes>>

Phases == {"waiting", "up", "ended", "removed", "never"}

Init ==
    /\ phase = [i \in Local |-> "waiting"]
    /\ routed = {}
    /\ crashes = 0

Become(i, from, to) ==
    /\ phase[i] \in from
    /\ phase' = [phase EXCEPT ![i] = to]
    /\ UNCHANGED <<routed, crashes>>

ComesUp(i) == Become(i, {"waiting"}, "up")

(* The container ends by itself, or because it was asked to stop. *)
Ends(i) == Become(i, {"up"}, "ended")

(* It is refused, stopped, expired or deleted before it ever runs. *)
GivenUp(i) == Become(i, {"waiting"}, "never")

(* The rep deletes the container: one that has ended, or that is up but    *)
(* no longer routed to.                                                    *)
Removed(i) ==
    /\ phase[i] = "up" => i \notin routed
    /\ Become(i, {"up", "ended"}, "removed")

(* The cluster begins to route to i, perhaps instead of another instance. *)
Route(i) ==
    /\ phase[i] \in {"up", "ended", "removed"}
    /\ i \in routed'
    /\ routed' \subseteq routed \cup {i}
    /\ UNCHANGED <<phase, crashes>>

Unroute ==
    /\ routed' \subseteq routed
    /\ UNCHANGED <<phase, crashes>>

(* The rep dies and takes its containers with it. *)
Crash ==
    /\ crashes' = crashes + 1
    /\ phase' \in [Local -> Phases]
    /\ \A i \in Local :
          /\ phase[i] \in {"up", "ended", "removed"} => phase'[i] = "removed"
          /\ phase[i] = "waiting" => phase'[i] \in {"waiting", "never"}
          /\ phase[i] = "never" => phase'[i] = "never"
    /\ UNCHANGED routed

Next ==
    \/ \E i \in Local : ComesUp(i) \/ Ends(i) \/ GivenUp(i) \/ Removed(i) \/ Route(i)
    \/ Unroute
    \/ Crash

Spec == Init /\ [][Next]_vars
=============================================================================

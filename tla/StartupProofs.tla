---------------------------- MODULE StartupProofs ----------------------------
(***************************************************************************)
(* Proofs about Maintainer, for any number of heartbeater exits, and about *)
(* Startup, for any number of members and any bounds: inside the process   *)
(* group the presence is still the Maintainer, so what is shown of the one *)
(* carries over to the other, and main cleans up last.                     *)
(***************************************************************************)
EXTENDS Startup, TLAPS

-----------------------------------------------------------------------------
(* The Maintainer alone.                                                   *)

(* Run holds its ready channel unclosed until the first heartbeater is     *)
(* ready, and a heartbeater is alive only while Run attends to it or has   *)
(* told it to stop.                                                        *)
IInv ==
    /\ closes <= 1
    /\ ready /\ pc \in {"ping", "sleep", "starting"} => closes = 0
    /\ pc \in {"ping", "sleep"} => hb \notin Live
    /\ pc = "done" => hb \notin Live \/ told
    /\ pc \in {"stopping", "killing"} => told

(* Every variable of the maintainer keeps its type. *)
THEOREM TypeCorrect == Spec => []TypeOK
<1> DEFINE Flags == /\ ready \in BOOLEAN /\ up \in BOOLEAN /\ wasReady \in BOOLEAN
                    /\ told \in BOOLEAN /\ failed \in BOOLEAN
           Rest  == /\ pc \in PCs /\ closes \in Nat /\ sig \in {"none", "sent", "taken"}
                    /\ hb \in Live \cup {"none", "exited"} /\ exits \in 0..MaxExits
<1>1. TypeOK <=> Flags /\ Rest
  BY DEF TypeOK
<1>2. Init => Flags
  BY Zenon DEF Init
<1>3. Init => Rest
  BY MaintainerAssumption DEF Init, PCs, Live
<1>4. Flags /\ [Next]_vars => Flags'
  <2> SUFFICES ASSUME Flags, [Next]_vars PROVE Flags'
    OBVIOUS
  <2> USE DEF hbVars
  <2>1. CASE Ping
    BY <2>1, Zenon DEF Ping
  <2>2. CASE Sleep \/ HeartbeatReady \/ Tick
    BY <2>2, Zenon DEF Sleep, HeartbeatReady, Tick
  <2>3. CASE HeartbeatExited \/ HeartbeatStopped
    BY <2>3, Zenon DEF HeartbeatExited, HeartbeatStopped
  <2>4. CASE CheckPing
    BY <2>4, Zenon DEF CheckPing
  <2>5. CASE TakeSignal
    BY <2>5, Zenon DEF TakeSignal
  <2>6. CASE BeatStarts \/ BeatStops
    BY <2>6, Zenon DEF BeatStarts, BeatStops
  <2>7. CASE BeatExits
    BY <2>7, Zenon DEF BeatExits
  <2>8. CASE ExecutorChanges \/ Signal
    BY <2>8, Zenon DEF ExecutorChanges, Signal
  <2>9. CASE UNCHANGED vars
    BY <2>9, Zenon DEF vars
  <2>10. QED
    BY <2>1, <2>2, <2>3, <2>4, <2>5, <2>6, <2>7, <2>8, <2>9 DEF Next, Run
<1>5. Rest /\ [Next]_vars => Rest'
  <2> SUFFICES ASSUME Rest, [Next]_vars PROVE Rest'
    OBVIOUS
  <2> USE MaintainerAssumption DEF PCs, Live, hbVars
  <2>1. CASE Ping \/ Sleep
    BY <2>1 DEF Ping, Sleep
  <2>2. CASE HeartbeatReady \/ HeartbeatExited \/ HeartbeatStopped
    BY <2>2 DEF HeartbeatReady, HeartbeatExited, HeartbeatStopped
  <2>3. CASE Tick \/ CheckPing
    BY <2>3 DEF Tick, CheckPing
  <2>4. CASE TakeSignal \/ Signal
    BY <2>4 DEF TakeSignal, Signal
  <2>5. CASE BeatStarts \/ BeatExits \/ BeatStops
    BY <2>5 DEF BeatStarts, BeatExits, BeatStops
  <2>6. CASE ExecutorChanges \/ UNCHANGED vars
    BY <2>6 DEF ExecutorChanges, vars
  <2>7. QED
    BY <2>1, <2>2, <2>3, <2>4, <2>5, <2>6 DEF Next, Run
<1>6. QED
  <2>1. Init => TypeOK
    BY <1>1, <1>2, <1>3
  <2>2. TypeOK /\ [Next]_vars => TypeOK'
    <3>1. TypeOK' <=> Flags' /\ Rest'
      BY DEF TypeOK
    <3>2. QED
      BY <1>1, <1>4, <1>5, <3>1
  <2>3. QED
    BY <2>1, <2>2, PTL DEF Spec

(* The inductive invariant holds in every reachable state. *)
THEOREM Invariance == Spec => []IInv
<1>1. Init => IInv
  BY DEF Init, IInv, Live
<1>2. TypeOK /\ IInv /\ [Next]_vars => IInv'
  <2> SUFFICES ASSUME TypeOK, IInv, [Next]_vars PROVE IInv'
    OBVIOUS
  <2> USE DEF TypeOK, IInv, PCs, Live, hbVars
  <2>1. CASE Ping
    BY <2>1 DEF Ping
  <2>2. CASE Sleep \/ Tick
    BY <2>2 DEF Sleep, Tick
  <2>3. CASE HeartbeatReady
    BY <2>3 DEF HeartbeatReady
  <2>4. CASE HeartbeatExited
    BY <2>4 DEF HeartbeatExited
  <2>5. CASE CheckPing
    BY <2>5, Zenon DEF CheckPing
  <2>6. CASE HeartbeatStopped
    BY <2>6 DEF HeartbeatStopped
  <2>7. CASE TakeSignal
    BY <2>7, Zenon DEF TakeSignal
  <2>8. CASE BeatStarts \/ BeatExits \/ BeatStops
    BY <2>8 DEF BeatStarts, BeatExits, BeatStops
  <2>9. CASE ExecutorChanges \/ Signal
    BY <2>9 DEF ExecutorChanges, Signal
  <2>10. CASE UNCHANGED vars
    BY <2>10 DEF vars
  <2>11. QED
    BY <2>1, <2>2, <2>3, <2>4, <2>5, <2>6, <2>7, <2>8, <2>9, <2>10 DEF Next, Run
<1>3. QED
  BY <1>1, <1>2, TypeCorrect, PTL DEF Spec

(* However often the heartbeater is restarted, the ready channel is closed *)
(* at most once.                                                           *)
THEOREM ReadyIsClosedOnce == Spec => []ReadyClosedOnce
<1>1. IInv => ReadyClosedOnce
  BY DEF IInv, ReadyClosedOnce
<1>2. QED
  BY <1>1, Invariance, PTL

(* Run never returns leaving behind a heartbeater that was not told to     *)
(* stop.                                                                   *)
THEOREM LeavesNoPresence == Spec => []NoPresenceLeft
<1>1. IInv => NoPresenceLeft
  BY DEF IInv, NoPresenceLeft
<1>2. QED
  BY <1>1, Invariance, PTL

(* No heartbeater is started while another one is alive. *)
THEOREM StartsOneHeartbeater == Spec => OneHeartbeater
<1> DEFINE Alone == pc' = "starting" /\ pc # "starting" => hb \notin Live
<1>1. IInv /\ [Next]_vars => [Alone]_vars
  <2> SUFFICES ASSUME IInv, Next, pc' = "starting", pc # "starting" PROVE hb \notin Live
    BY DEF vars
  <2>1. Ping
    BY DEF Next, Run, Ping, Sleep, HeartbeatReady, HeartbeatExited, Tick, CheckPing,
       HeartbeatStopped, TakeSignal, BeatStarts, BeatExits, BeatStops, ExecutorChanges, Signal
  <2>2. QED
    BY <2>1 DEF Ping, IInv
<1>2. QED
  BY <1>1, Invariance, PTL DEF Spec, OneHeartbeater

-----------------------------------------------------------------------------
(* The Maintainer in the process group.                                    *)

(* Every step of the process leaves the presence alone or is one of its    *)
(* own steps.                                                              *)
LEMMA PresenceSteps == [StartupNext]_allVars => [Next]_vars
<1> SUFFICES ASSUME [StartupNext]_allVars PROVE [Next]_vars
  OBVIOUS
<1> USE DEF Next
<1>1. CASE Initialize \/ Exit \/ ProcessSignalled \/ Cells \/ SessionExpires
  BY <1>1 DEF Initialize, Exit, ProcessSignalled, Cells, SessionExpires
<1>2. CASE GroupStep
  BY <1>2 DEF GroupStep, StartMember, GroupReady, GroupStops, StopMember
<1>3. ASSUME NEW m \in Others, MemberStep(m) PROVE UNCHANGED vars
  BY <1>3 DEF MemberStep
<1>4. CASE PresenceStep(Run \/ TakeSignal)
  BY <1>4 DEF PresenceStep
<1>5. CASE PresenceStep(BeatStarts \/ BeatExits \/ BeatStops)
  BY <1>5 DEF PresenceStep
<1>6. CASE ExecutorStep \/ BeatNotices \/ ProcessGone
  BY <1>6 DEF ExecutorStep, BeatNotices, ProcessGone
<1>7. CASE UNCHANGED allVars
  BY <1>7 DEF allVars
<1>8. QED
  BY <1>1, <1>2, <1>3, <1>4, <1>5, <1>6, <1>7 DEF StartupNext

(* The rep's process, with its group and Consul around the presence,       *)
(* implements the Maintainer's specification.                              *)
THEOREM PresenceIsMaintainer == StartupSpec => Spec
<1>1. StartupInit => Init
  BY DEF StartupInit
<1>2. QED
  BY <1>1, PresenceSteps, PTL DEF StartupSpec, Spec

(* Members are stopped from the last to the first: those past the group's  *)
(* place do not run, and once the place is before the presence, Run has    *)
(* returned or has not begun.                                              *)
GroupInv ==
    /\ main \in {"init", "group", "exited"}
    /\ at \in 0..Number
    /\ status \in [Others -> {"idle", "starting", "ready", "exited"}]
    /\ \A m \in Others : m > at => status[m] \in {"idle", "exited"}
    /\ at < Presence => pc = "done" \/ hb = "none"
    /\ main # "group" => at = 0
    /\ cleaned => main = "exited"

(* The group's invariant is preserved by every step. *)
LEMMA GroupStepInv == TypeOK /\ GroupInv /\ [StartupNext]_allVars => GroupInv'
<1> SUFFICES ASSUME TypeOK, GroupInv, [StartupNext]_allVars PROVE GroupInv'
  OBVIOUS
<1> USE StartupAssumption DEF GroupInv, Number, Presence, Others, groupVars
<1>1. CASE Initialize
  BY <1>1 DEF Initialize, vars
<1>2. CASE Exit
  BY <1>2 DEF Exit, vars
<1>3. CASE StartMember
  BY <1>3 DEF StartMember, vars
<1>4. CASE StopMember
  BY <1>4 DEF StopMember, Status, Signal, hbVars, vars
<1>5. CASE GroupReady \/ GroupStops \/ ProcessSignalled \/ Cells \/ SessionExpires
  BY <1>5 DEF GroupReady, GroupStops, ProcessSignalled, Cells, SessionExpires, vars
<1>6. ASSUME NEW m \in Others, MemberStep(m) PROVE GroupInv'
  BY <1>6 DEF MemberStep, MemberReady, MemberFails, MemberStops, vars
<1>7. CASE PresenceStep(Run \/ TakeSignal)
  BY <1>7 DEF PresenceStep, Run, Ping, Sleep, HeartbeatReady, HeartbeatExited, Tick,
              CheckPing, HeartbeatStopped, TakeSignal
<1>8. CASE PresenceStep(BeatStarts \/ BeatExits \/ BeatStops)
  BY <1>8 DEF PresenceStep, BeatStarts, BeatExits, BeatStops, Live
<1>9. CASE ExecutorStep \/ BeatNotices \/ ProcessGone
  BY <1>9 DEF ExecutorStep, ExecutorChanges, BeatNotices, ProcessGone, BeatExits,
              BeatStops, Live, hbVars
<1>10. CASE UNCHANGED allVars
  BY <1>10 DEF allVars, vars
<1>11. QED
  BY <1>1, <1>2, <1>3, <1>4, <1>5, <1>6, <1>7, <1>8, <1>9, <1>10 DEF StartupNext, GroupStep

(* main's deferred Cleanup runs after every member, the presence included, *)
(* has exited, whatever failed and whenever the rep was signalled.         *)
THEOREM CleansUpLast == StartupSpec => []CleanupIsLast
<1>1. StartupInit => GroupInv
  BY StartupAssumption DEF StartupInit, Init, GroupInv, Number, Presence, Others
<1>2. GroupInv /\ IInv => CleanupIsLast
  <2> SUFFICES ASSUME GroupInv, IInv, cleaned
               PROVE  /\ \A m \in Others : status[m] \in {"idle", "exited"}
                      /\ hb \in Live => told
    BY DEF CleanupIsLast
  <2>1. at = 0
    BY DEF GroupInv
  <2>2. \A m \in Others : status[m] \in {"idle", "exited"}
    BY <2>1, StartupAssumption DEF GroupInv, Others, Number
  <2>3. pc = "done" \/ hb = "none"
    BY <2>1, StartupAssumption DEF GroupInv, Presence
  <2>4. hb \in Live => told
    BY <2>3 DEF IInv, Live
  <2>5. QED
    BY <2>2, <2>4
<1>3. StartupSpec => []IInv /\ []TypeOK
  BY PresenceIsMaintainer, Invariance, TypeCorrect, PTL
<1>4. QED
  BY <1>1, <1>2, <1>3, GroupStepInv, PTL DEF StartupSpec

(* The process, its group and the cell's key stay in their ranges. *)
THEOREM StartupTypeCorrect == StartupSpec => []StartupTypeOK
<1> DEFINE Flags == cleaned \in BOOLEAN /\ signalled \in BOOLEAN /\ listed \in BOOLEAN
           Rest  == /\ group \in {"starting", "running", "stopping"}
                    /\ stopping \subseteq Others /\ failures \in 0..MaxFailures
                    /\ key \in {"none", "held", "released"}
<1>1. TypeOK /\ GroupInv /\ Flags /\ Rest => StartupTypeOK
  BY DEF GroupInv, StartupTypeOK
<1>2. StartupInit => GroupInv /\ Flags /\ Rest
  <2>1. StartupInit => GroupInv
    BY StartupAssumption DEF StartupInit, Init, GroupInv, Number, Presence, Others
  <2>2. StartupInit => Flags
    BY Zenon DEF StartupInit
  <2>3. StartupInit => Rest
    BY StartupAssumption DEF StartupInit
  <2>4. QED
    BY <2>1, <2>2, <2>3
<1>3. Flags /\ [StartupNext]_allVars => Flags'
  BY Zenon DEF StartupNext, Initialize, Exit, GroupStep, StartMember, GroupReady, GroupStops,
       StopMember, ProcessSignalled, MemberStep, PresenceStep, ExecutorStep, SessionExpires,
       BeatNotices, ProcessGone, Cells, groupVars, allVars
<1>4. GroupInv /\ Rest /\ [StartupNext]_allVars => Rest'
  <2> SUFFICES ASSUME GroupInv, Rest, [StartupNext]_allVars PROVE Rest'
    OBVIOUS
  <2>1. CASE Initialize \/ Exit \/ ProcessSignalled \/ Cells \/ SessionExpires
    BY <2>1 DEF Initialize, Exit, ProcessSignalled, Cells, SessionExpires, groupVars
  <2>2. CASE StopMember
    <3>1. stopping' = stopping \/ (at # Presence /\ at > 0 /\ stopping' = stopping \cup {at})
      BY <2>2 DEF StopMember, Signal
    <3>2. at > 0 /\ at # Presence => at \in Others
      BY StartupAssumption DEF Others, Number, Presence, GroupInv
    <3>3. group' = group /\ failures' = failures /\ key' = key
      BY <2>2 DEF StopMember
    <3>4. QED
      BY <3>1, <3>2, <3>3
  <2>3. CASE StartMember \/ GroupReady \/ GroupStops
    BY <2>3 DEF StartMember, GroupReady, GroupStops
  <2>4. ASSUME NEW m \in Others, MemberStep(m) PROVE Rest'
    BY <2>4, StartupAssumption DEF MemberStep, MemberReady, MemberFails, MemberStops
  <2>5. CASE PresenceStep(Run \/ TakeSignal)
    BY <2>5 DEF PresenceStep, groupVars
  <2>6. CASE PresenceStep(BeatStarts \/ BeatExits \/ BeatStops)
    BY <2>6 DEF PresenceStep, groupVars
  <2>7. CASE ExecutorStep \/ BeatNotices \/ ProcessGone
    BY <2>7 DEF ExecutorStep, BeatNotices, ProcessGone, groupVars
  <2>8. CASE UNCHANGED allVars
    BY <2>8 DEF allVars, groupVars
  <2>9. QED
    BY <2>1, <2>2, <2>3, <2>4, <2>5, <2>6, <2>7, <2>8 DEF StartupNext, GroupStep
<1>5. StartupSpec => []TypeOK
  BY PresenceIsMaintainer, TypeCorrect, PTL
<1> HIDE DEF Flags, Rest
<1>6. QED
  BY <1>1, <1>2, <1>3, <1>4, <1>5, GroupStepInv, PTL DEF StartupSpec

(* Also inside the process group, the ready channel is closed at most      *)
(* once.                                                                   *)
THEOREM RepClosesReadyOnce == StartupSpec => []ReadyClosedOnce
BY PresenceIsMaintainer, ReadyIsClosedOnce, PTL

(* Also inside the process group, Run never returns leaving behind a       *)
(* heartbeater that was not told to stop.                                  *)
THEOREM RepLeavesNoPresence == StartupSpec => []NoPresenceLeft
BY PresenceIsMaintainer, LeavesNoPresence, PTL
=============================================================================

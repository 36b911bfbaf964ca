---------------------------- MODULE TaskContract ----------------------------
(***************************************************************************)
(* What a cell promises about a task, whatever its rep does inside: a task *)
(* is given to one cell, this cell executes it at most once and only if it *)
(* is the one, and a success is recorded only after the execution really   *)
(* succeeded.  TaskHarmonizer implements this.                             *)
(***************************************************************************)
EXTENDS Naturals

CONSTANT Task

VARIABLES
    tstate, tcell, outcome,   \* the cluster's record of the task
    runs,                     \* executions of the task on this cell
    succeeded                 \* tasks whose execution on this cell succeeded

vars == <<tstate, tcell, outcome, runs, succeeded>>

Init ==
    /\ tstate = [t \in Task |-> "Pending"]
    /\ tcell = [t \in Task |-> "none"]
    /\ outcome = [t \in Task |-> "none"]
    /\ runs = [t \in Task |-> 0]
    /\ succeeded = {}

Grant(t, c) ==
    /\ tstate[t] = "Pending"
    /\ tstate' = [tstate EXCEPT ![t] = "Running"]
    /\ tcell' = [tcell EXCEPT ![t] = c]
    /\ UNCHANGED <<outcome, runs, succeeded>>

Run(t) ==
    /\ tcell[t] = "self"
    /\ runs[t] = 0
    /\ runs' = [runs EXCEPT ![t] = 1]
    /\ UNCHANGED <<tstate, tcell, outcome, succeeded>>

Succeed(t) ==
    /\ runs[t] = 1
    /\ succeeded' = succeeded \cup {t}
    /\ UNCHANGED <<tstate, tcell, outcome, runs>>

End(t, o) ==
    /\ tstate[t] \in {"Pending", "Running"}
    /\ o = "success" => /\ tstate[t] = "Running"
                        /\ tcell[t] = "self" => t \in succeeded
    /\ tstate' = [tstate EXCEPT ![t] = "Completed"]
    /\ outcome' = [outcome EXCEPT ![t] = o]
    /\ UNCHANGED <<tcell, runs, succeeded>>

Resolve(t) ==
    /\ tstate[t] = "Completed"
    /\ tstate' = [tstate EXCEPT ![t] = "Resolved"]
    /\ UNCHANGED <<tcell, outcome, runs, succeeded>>

Next ==
    \E t \in Task :
        \/ \E c \in {"self", "other"} : Grant(t, c)
        \/ Run(t)
        \/ Succeed(t)
        \/ \E o \in {"success", "failure"} : End(t, o)
        \/ Resolve(t)

Spec == Init /\ [][Next]_vars
=============================================================================

----------------------------- MODULE ResultFile -----------------------------
(***************************************************************************)
(* How the rep takes a finished task's result file out of its container    *)
(* (FetchContainerResultFile in generator/internal/container_delegate.go). *)
(* The executor answers GetFiles with a stream of an archive, whose bytes  *)
(* arrive while the rep reads; the container may be deleted meanwhile      *)
(* (CancelTaskHandler), which breaks the stream.  The executor and the tar *)
(* reader are external: a Read blocks for the first byte and then returns  *)
(* what has arrived.                                                       *)
(***************************************************************************)
EXTENDS Naturals

CONSTANTS
    MAX_RESULT_SIZE,  \* the largest result accepted
    MaxSize           \* bound: the largest file

VARIABLES
    size,      \* the file's length
    arrived,   \* bytes of it that reached the rep
    broken,    \* has the stream ended early?
    pc, n      \* where the fetch is, and the length of its result

vars == <<size, arrived, broken, pc, n>>

Init ==
    /\ size \in 0..MaxSize
    /\ arrived = 0 /\ broken = FALSE
    /\ pc = "get" /\ n = 0

(* The stream brings more of the file, or ends early. *)
Arrive ==
    /\ pc \in {"next", "read"} /\ ~broken
    /\ \/ arrived' \in (arrived + 1)..size /\ UNCHANGED broken
       \/ broken' = TRUE /\ UNCHANGED arrived
    /\ UNCHANGED <<size, pc, n>>

(* GetFiles fails, or the archive's bytes begin to flow. *)
GetFiles ==
    /\ pc = "get"
    /\ pc' \in {"next", "error"}
    /\ UNCHANGED <<size, arrived, broken, n>>

(* tarReader.Next fails for an empty archive and for one that breaks off. *)
NextFile ==
    /\ pc = "next"
    /\ pc' \in {"read", "error"}
    /\ UNCHANGED <<size, arrived, broken, n>>

(* The one Read, into a buffer one byte longer than the limit.  Its error  *)
(* is not looked at: only the number of bytes decides.                     *)
ReadFile ==
    /\ pc = "read"
    /\ arrived > 0 \/ size = 0 \/ broken
    /\ n' \in IF arrived = 0 THEN {0}
              ELSE 1..(IF arrived > MAX_RESULT_SIZE THEN MAX_RESULT_SIZE + 1 ELSE arrived)
    /\ pc' = IF n' > MAX_RESULT_SIZE THEN "error" ELSE "result"
    /\ UNCHANGED <<size, arrived, broken>>

Next == Arrive \/ GetFiles \/ NextFile \/ ReadFile

Spec == Init /\ [][Next]_vars

-----------------------------------------------------------------------------
(* A result handed to CompleteTask is the whole file, and so a file over   *)
(* the limit is always an error: container_delegate_test.go says that the  *)
(* fetch "returns the result of the first file in the stream", and an      *)
(* error when "the payload is too large".                                  *)
ResultIsWholeFile == pc = "result" => n = size
=============================================================================

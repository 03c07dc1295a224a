----------------------------- MODULE WordCount -----------------------------
(***************************************************************************)
(* What the user of mapreduce/ is promised: the output of each bucket is   *)
(* written at once and complete, no output is written twice, and the       *)
(* worker does not exit before all are written.                            *)
(***************************************************************************)
CONSTANTS
    Bucket,        \* the parts of the output
    Complete       \* an output that counts every word once

VARIABLES
    output,        \* what was written of each bucket
    exited         \* the worker has exited

vars == <<output, exited>>

Init == output = [b \in Bucket |-> <<>>] /\ exited = FALSE

Write(b) ==
    /\ ~exited /\ output[b] = <<>>
    /\ output' = [output EXCEPT ![b] = <<Complete>>]
    /\ UNCHANGED exited

Exit ==
    /\ ~exited /\ \A b \in Bucket : output[b] = <<Complete>>
    /\ exited' = TRUE
    /\ UNCHANGED output

Next == Exit \/ \E b \in Bucket : Write(b)

Spec == Init /\ [][Next]_vars
=============================================================================

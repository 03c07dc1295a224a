---------------------------- MODULE RemoteCalls ----------------------------
(***************************************************************************)
(* What the RPC library promises its clients, without messages, sockets    *)
(* and error codes.  A client makes one call after the other.  The server  *)
(* serves a call once at most, and one made right after a call was given   *)
(* up never; it executes what it serves or refuses it.  A call returns the *)
(* answer to one that was served, which may be an earlier one; no answer   *)
(* is returned twice or overtaken by that to an earlier call.  That calls  *)
(* are served or answered in the end is not part of it.                    *)
(***************************************************************************)
EXTENDS Integers, Sequences

CONSTANTS Client, Patient   \* the clients, and those that never give up

VARIABLES
    made,          \* the number of calls a client has made
    served,        \* those of them the server has served
    ran,           \* and those it has executed
    returned       \* the call each has returned the answer of, 0 for none

vars == <<made, served, ran, returned>>

Init ==
    /\ made = [c \in Client |-> 0]
    /\ served = [c \in Client |-> {}]
    /\ ran = [c \in Client |-> {}]
    /\ returned = [c \in Client |-> <<>>]

Waits(c) == made[c] > Len(returned[c])

Sent(c, i) == i = 1 \/ returned[c][i - 1] # 0

Make(c) ==
    /\ ~Waits(c)
    /\ made' = [made EXCEPT ![c] = @ + 1]
    /\ UNCHANGED <<served, ran, returned>>

Serve(c, i) ==
    /\ i \notin served[c] /\ Sent(c, i)
    /\ served' = [served EXCEPT ![c] = @ \cup {i}]
    /\ ran' \in {ran, [ran EXCEPT ![c] = @ \cup {i}]}
    /\ UNCHANGED <<made, returned>>

Answer(c, i) ==
    /\ Waits(c)
    /\ i \in served[c] /\ \A k \in 1..Len(returned[c]) : returned[c][k] < i
    /\ returned' = [returned EXCEPT ![c] = Append(@, i)]
    /\ UNCHANGED <<made, served, ran>>

GiveUp(c) ==
    /\ Waits(c) /\ c \notin Patient
    /\ returned' = [returned EXCEPT ![c] = Append(@, 0)]
    /\ UNCHANGED <<made, served, ran>>

Next ==
    \E c \in Client :
        \/ Make(c) \/ GiveUp(c)
        \/ \E i \in 1..made[c] : Serve(c, i) \/ Answer(c, i)

Spec == Init /\ [][Next]_vars
=============================================================================

---------------------------- MODULE ReplicatedLog ----------------------------
(***************************************************************************)
(* What the log of a Raft cluster promises whoever calls start(): there is *)
(* one log, it only grows, a part of it that only grows is committed, and  *)
(* what a node has applied is always the start of what is committed, in    *)
(* that order and without gaps.                                            *)
(***************************************************************************)
EXTENDS Naturals, Sequences, SequencesExt

CONSTANT Node

VARIABLES
    log,         \* every entry a leader has taken, in order
    committed,   \* how many of them are committed
    applied      \* the sequence of entries each node has applied

logVars == <<log, committed, applied>>

Init ==
    /\ log = <<>>
    /\ committed = 0
    /\ applied = [n \in Node |-> <<>>]

Take ==
    /\ Len(log') = Len(log) + 1
    /\ IsPrefix(log, log')
    /\ UNCHANGED <<committed, applied>>

Commit ==
    /\ committed < committed'
    /\ committed' <= Len(log)
    /\ UNCHANGED <<log, applied>>

(* A node applies up to what it knows to be committed.                     *)
Apply(n) ==
    /\ \E k \in (Len(applied[n]) + 1)..committed :
         applied' = [applied EXCEPT ![n] = SubSeq(log, 1, k)]
    /\ UNCHANGED <<log, committed>>

Next == Take \/ Commit \/ \E n \in Node : Apply(n)

Spec == Init /\ [][Next]_logVars
=============================================================================

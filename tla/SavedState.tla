----------------------------- MODULE SavedState -----------------------------
(***************************************************************************)
(* What a node's file is to the nodes: the term, the vote and the entries  *)
(* it parses to.  Persister has the file itself and what it relies on.     *)
(***************************************************************************)
EXTENDS Integers, Sequences

None == -1

NoFile == [term |-> 0, votedFor |-> None, logs |-> <<>>]

(* serialize() writes over the file without truncating it: what was longer *)
(* keeps its tail.  The tail is old entries while entries are of one width *)
(* and terms and votes of about one (see PersisterProperties), as with the *)
(* commands main() issues while keys have one digit.                       *)
WrittenKeepsTerm(old, term, vote, log) ==      \* variant: term forgotten
    [term |-> old.term, votedFor |-> vote,
     logs |-> log \o SubSeq(old.logs, Len(log) + 1, Len(old.logs))]
Written(old, term, vote, log) ==
    [term |-> term, votedFor |-> vote,
     logs |-> log \o SubSeq(old.logs, Len(log) + 1, Len(old.logs))]
=============================================================================

--------------------------- MODULE RaftCallProofs ---------------------------
(***************************************************************************)
(* Proofs about the threads of the nodes and the calls they are in, for    *)
(* every number of nodes and every bound: each thread that has not         *)
(* returned is in exactly one place, and what follows of elections and of  *)
(* the rounds of appendEntries.                                            *)
(***************************************************************************)
EXTENDS RaftProofs, FiniteSetTheorems

USE DEF termVars, leaderVars, commitVars, ballotVars, voteNet, appendNet,
        mainVars, processVars, vars

(* Each of the calls in a bag that are of S, copy by copy.                 *)
Copies(B, S) == UNION {{x} \X (1..B[x]) : x \in DOMAIN B \cap S}

FiniteBag(B) == IsABag(B) /\ IsFiniteSet(Copies(B, DOMAIN B))

Count(B, S) == Cardinality(Copies(B, S))

VotesFrom(n) == {m \in VoteArgs : m.from = n}
VotesTo(n) == {r \in VoteAnswer : r.to = n}
EntriesFrom(n) == {m \in AppendArgs : m.from = n}
RepliesTo(n) == {r \in AppendAnswer : r.to = n}

(* The nodes whose server is in the middle of a call from n.               *)
Taken(n) == {p \in Peer : voteSrv[p] # Idle /\ voteSrv[p].req.from = n}

(* A vote thread that has not returned has not called yet, or its call is  *)
(* waiting, being served, or answered: one of these, and only one.         *)
VoteThreadsPlaced ==
    /\ FiniteBag(voteReqs) /\ FiniteBag(voteReplies)
    /\ \A n \in Peer :
         voteThreads[n] = voteSpawned[n] + Count(voteReqs, VotesFrom(n))
                            + Cardinality(Taken(n))
                            + Count(voteReplies, VotesTo(n))

(* And the threads that send entries; appendEntries is one step.           *)
SendThreadsPlaced ==
    /\ FiniteBag(appendReqs) /\ FiniteBag(appendReplies)
    /\ \A n \in Peer :
         sendThreads[n] = sendSpawned[n] + Count(appendReqs, EntriesFrom(n))
                            + Count(appendReplies, RepliesTo(n))

ThreadsPlaced == VoteThreadsPlaced /\ SendThreadsPlaced
-----------------------------------------------------------------------------
(* Copies in a bag.                                                        *)

(* What a copy is.                                                         *)
LEMMA CopiesAre ==
    ASSUME NEW B, NEW S
    PROVE  \A c : c \in Copies(B, S) <=>
                    \E x \in DOMAIN B \cap S : \E i \in 1..B[x] : c = <<x, i>>
BY DEF Copies

(* A finite bag has finitely many copies of any kind.                      *)
LEMMA CopiesFinite ==
    ASSUME NEW B, FiniteBag(B), NEW S
    PROVE  IsFiniteSet(Copies(B, S)) /\ Count(B, S) \in Nat
<1>1. Copies(B, S) \subseteq Copies(B, DOMAIN B)
    BY CopiesAre
<1>2. IsFiniteSet(Copies(B, S))
    BY <1>1, FS_Subset DEF FiniteBag
<1>3. QED
    BY <1>2, FS_CardinalityType DEF Count

(* Adding a call to a bag adds one copy, of that call.                     *)
LEMMA AddedCopy ==
    ASSUME NEW B, IsABag(B), NEW x
    PROVE  /\ IsABag(BagAdd(B, x))
           /\ DOMAIN BagAdd(B, x) = DOMAIN B \cup {x}
           /\ \E i \in Nat :
                \A S : /\ <<x, i>> \notin Copies(B, S)
                       /\ x \in S => Copies(BagAdd(B, x), S) =
                                        Copies(B, S) \cup {<<x, i>>}
                       /\ x \notin S => Copies(BagAdd(B, x), S) = Copies(B, S)
<1> DEFINE C == BagAdd(B, x)
<1>1. CASE x \in DOMAIN B
    <2>1. /\ C = [e \in DOMAIN B |-> IF e = x THEN B[e] + 1 ELSE B[e]]
          /\ \A e \in DOMAIN B : B[e] \in Nat /\ B[e] > 0
        BY <1>1 DEF BagAdd, IsABag
    <2>2. /\ DOMAIN C = DOMAIN B /\ C[x] = B[x] + 1
          /\ \A e \in DOMAIN B \ {x} : C[e] = B[e]
        BY <1>1, <2>1
    <2>3. IsABag(C)
        BY <2>1 DEF IsABag
    <2> HIDE DEF C
    <2>4. 1..(B[x] + 1) = 1..B[x] \cup {B[x] + 1} /\ B[x] + 1 \in Nat
          /\ B[x] + 1 \notin 1..B[x]
        BY <1>1, <2>1
    <2>5. ASSUME NEW S PROVE <<x, B[x] + 1>> \notin Copies(B, S)
        BY <2>4, CopiesAre
    <2>6. ASSUME NEW S, x \in S
          PROVE  Copies(C, S) = Copies(B, S) \cup {<<x, B[x] + 1>>}
        <3>1. ASSUME NEW c
              PROVE  c \in Copies(C, S) <=>
                         c \in Copies(B, S) \cup {<<x, B[x] + 1>>}
            BY <1>1, <2>2, <2>4, <2>6, CopiesAre
        <3>2. QED
            BY <3>1
    <2>7. ASSUME NEW S, x \notin S PROVE Copies(C, S) = Copies(B, S)
        <3>1. ASSUME NEW c PROVE c \in Copies(C, S) <=> c \in Copies(B, S)
            BY <2>2, <2>7, CopiesAre
        <3>2. QED
            BY <3>1
    <2>8. QED
        BY <1>1, <2>2, <2>3, <2>4, <2>5, <2>6, <2>7 DEF C
<1>2. CASE x \notin DOMAIN B
    <2>1. /\ C = [e \in DOMAIN B \cup {x} |-> IF e = x THEN 1 ELSE B[e]]
          /\ \A e \in DOMAIN B : B[e] \in Nat /\ B[e] > 0
        BY <1>2 DEF BagAdd, IsABag
    <2>2. /\ DOMAIN C = DOMAIN B \cup {x} /\ C[x] = 1
          /\ \A e \in DOMAIN B : C[e] = B[e]
        BY <1>2, <2>1
    <2>3. IsABag(C)
        BY <2>1 DEF IsABag
    <2> HIDE DEF C
    <2>5. ASSUME NEW S PROVE <<x, 1>> \notin Copies(B, S)
        BY <1>2, CopiesAre
    <2>6. ASSUME NEW S, x \in S
          PROVE  Copies(C, S) = Copies(B, S) \cup {<<x, 1>>}
        <3>1. ASSUME NEW c
              PROVE  c \in Copies(C, S) <=> c \in Copies(B, S) \cup {<<x, 1>>}
            BY <1>2, <2>2, <2>6, CopiesAre
        <3>2. QED
            BY <3>1
    <2>7. ASSUME NEW S, x \notin S PROVE Copies(C, S) = Copies(B, S)
        <3>1. ASSUME NEW c PROVE c \in Copies(C, S) <=> c \in Copies(B, S)
            BY <2>2, <2>7, CopiesAre
        <3>2. QED
            BY <3>1
    <2>8. QED
        BY <2>2, <2>3, <2>5, <2>6, <2>7 DEF C
<1>3. QED
    BY <1>1, <1>2

(* Removing a call from a bag removes one copy, of that call.              *)
LEMMA RemovedCopy ==
    ASSUME NEW B, IsABag(B), NEW x \in DOMAIN B
    PROVE  /\ IsABag(BagRemove(B, x))
           /\ \E i \in Nat :
                \A S : /\ x \in S => <<x, i>> \in Copies(B, S)
                       /\ Copies(BagRemove(B, x), S) =
                             Copies(B, S) \ {<<x, i>>}
<1> DEFINE C == BagRemove(B, x)
<1>0. \A e \in DOMAIN B : B[e] \in Nat /\ B[e] > 0
    BY DEF IsABag
<1>1. CASE B[x] # 1
    <2>1. C = [e \in DOMAIN B |-> IF e = x THEN B[e] - 1 ELSE B[e]]
        BY <1>1 DEF BagRemove
    <2>2. /\ DOMAIN C = DOMAIN B /\ C[x] = B[x] - 1
          /\ \A e \in DOMAIN B \ {x} : C[e] = B[e]
        BY <2>1
    <2>3. IsABag(C)
        BY <1>0, <1>1, <2>1 DEF IsABag
    <2> HIDE DEF C
    <2>4. /\ 1..(B[x] - 1) = 1..B[x] \ {B[x]} /\ B[x] \in 1..B[x]
          /\ B[x] \in Nat
        BY <1>0
    <2>5. ASSUME NEW S, x \in S PROVE <<x, B[x]>> \in Copies(B, S)
        BY <2>4, <2>5, CopiesAre
    <2>6. ASSUME NEW S PROVE Copies(C, S) = Copies(B, S) \ {<<x, B[x]>>}
        <3>1. ASSUME NEW c
              PROVE  c \in Copies(C, S) <=> c \in Copies(B, S) \ {<<x, B[x]>>}
            BY <2>2, <2>4, CopiesAre
        <3>2. QED
            BY <3>1
    <2>7. QED
        BY <2>3, <2>4, <2>5, <2>6 DEF C
<1>2. CASE B[x] = 1
    <2>1. C = [e \in DOMAIN B \ {x} |-> B[e]]
        BY <1>2 DEF BagRemove
    <2>2. /\ DOMAIN C = DOMAIN B \ {x}
          /\ \A e \in DOMAIN B \ {x} : C[e] = B[e]
        BY <2>1
    <2>3. IsABag(C)
        BY <1>0, <2>1 DEF IsABag
    <2> HIDE DEF C
    <2>4. 1..B[x] = {1}
        BY <1>2
    <2>5. ASSUME NEW S, x \in S PROVE <<x, 1>> \in Copies(B, S)
        BY <2>4, <2>5, CopiesAre
    <2>6. ASSUME NEW S PROVE Copies(C, S) = Copies(B, S) \ {<<x, 1>>}
        <3>1. ASSUME NEW c
              PROVE  c \in Copies(C, S) <=> c \in Copies(B, S) \ {<<x, 1>>}
            BY <2>2, <2>4, CopiesAre
        <3>2. QED
            BY <3>1
    <2>7. QED
        BY <2>3, <2>5, <2>6 DEF C
<1>3. QED
    BY <1>1, <1>2

(* What adding a call does to the counts.                                  *)
LEMMA AddCounts ==
    ASSUME NEW B, FiniteBag(B), NEW x
    PROVE  /\ FiniteBag(BagAdd(B, x))
           /\ \A S : Count(BagAdd(B, x), S) =
                        Count(B, S) + (IF x \in S THEN 1 ELSE 0)
<1> DEFINE C == BagAdd(B, x)
<1>0. IsABag(B)
    BY DEF FiniteBag
<1>1. /\ IsABag(C) /\ DOMAIN C = DOMAIN B \cup {x}
      /\ \E i \in Nat :
           \A S : /\ <<x, i>> \notin Copies(B, S)
                  /\ x \in S => Copies(C, S) = Copies(B, S) \cup {<<x, i>>}
                  /\ x \notin S => Copies(C, S) = Copies(B, S)
    BY <1>0, AddedCopy, Zenon
<1> HIDE DEF C
<1>2. PICK i \in Nat :
           \A S : /\ <<x, i>> \notin Copies(B, S)
                  /\ x \in S => Copies(C, S) = Copies(B, S) \cup {<<x, i>>}
                  /\ x \notin S => Copies(C, S) = Copies(B, S)
    BY <1>1
<1>3. Copies(C, DOMAIN C) = Copies(B, DOMAIN C) \cup {<<x, i>>}
    BY <1>1, <1>2
<1>4. IsFiniteSet(Copies(C, DOMAIN C))
    BY <1>3, CopiesFinite, FS_AddElement
<1>5. ASSUME NEW S PROVE Count(C, S) = Count(B, S) + (IF x \in S THEN 1 ELSE 0)
    <2>1. IsFiniteSet(Copies(B, S)) /\ Count(B, S) \in Nat
        BY CopiesFinite
    <2>2. CASE x \in S
        <3>1. Copies(C, S) = Copies(B, S) \cup {<<x, i>>}
              /\ <<x, i>> \notin Copies(B, S)
            BY <1>2, <2>2
        <3>2. Cardinality(Copies(C, S)) = Cardinality(Copies(B, S)) + 1
            BY <2>1, <3>1, FS_AddElement
        <3>3. QED
            BY <2>2, <3>2 DEF Count
    <2>3. CASE x \notin S
        <3>1. Copies(C, S) = Copies(B, S)
            BY <1>2, <2>3
        <3>2. QED
            BY <2>1, <2>3, <3>1 DEF Count
    <2>4. QED
        BY <2>2, <2>3
<1>6. QED
    BY <1>1, <1>4, <1>5 DEF FiniteBag, C

(* What removing a call does to the counts.                                *)
LEMMA RemoveCounts ==
    ASSUME NEW B, FiniteBag(B), NEW x \in DOMAIN B
    PROVE  /\ FiniteBag(BagRemove(B, x))
           /\ \A S : Count(BagRemove(B, x), S) =
                        Count(B, S) - (IF x \in S THEN 1 ELSE 0)
<1> DEFINE C == BagRemove(B, x)
<1>1. /\ IsABag(C)
      /\ \E i \in Nat :
           \A S : /\ x \in S => <<x, i>> \in Copies(B, S)
                  /\ Copies(C, S) = Copies(B, S) \ {<<x, i>>}
    BY RemovedCopy DEF FiniteBag
<1> HIDE DEF C
<1>2. PICK i \in Nat :
           \A S : /\ x \in S => <<x, i>> \in Copies(B, S)
                  /\ Copies(C, S) = Copies(B, S) \ {<<x, i>>}
    BY <1>1
<1>3. IsFiniteSet(Copies(C, DOMAIN C))
    <2>1. Copies(C, DOMAIN C) = Copies(B, DOMAIN C) \ {<<x, i>>}
        BY <1>2
    <2>2. IsFiniteSet(Copies(B, DOMAIN C))
        BY CopiesFinite
    <2>3. QED
        BY <2>1, <2>2, FS_RemoveElement
<1>4. ASSUME NEW S PROVE Count(C, S) = Count(B, S) - (IF x \in S THEN 1 ELSE 0)
    <2>1. IsFiniteSet(Copies(B, S)) /\ Count(B, S) \in Nat
        BY CopiesFinite
    <2>2. Copies(C, S) = Copies(B, S) \ {<<x, i>>}
        BY <1>2
    <2>3. x \in S <=> <<x, i>> \in Copies(B, S)
        BY <1>2, CopiesAre
    <2>4. Cardinality(Copies(C, S)) = IF x \in S THEN Cardinality(Copies(B, S)) - 1
                                      ELSE Cardinality(Copies(B, S))
        BY <2>1, <2>2, <2>3, FS_RemoveElement
    <2>5. QED
        BY <2>1, <2>4 DEF Count
<1>5. QED
    BY <1>1, <1>3, <1>4 DEF FiniteBag, C

(* The empty bag has no copies.                                            *)
LEMMA EmptyCounts ==
    FiniteBag(EmptyBag) /\ \A S : Count(EmptyBag, S) = 0
<1>1. \A S : Copies(EmptyBag, S) = {}
    BY EmptyBagDomain, CopiesAre
<1>2. IsABag(EmptyBag)
    BY EmptyBagDomain DEF IsABag, EmptyBag, SetToBag
<1>3. QED
    BY <1>1, <1>2, FS_EmptySet DEF FiniteBag, Count

(* A call in a bag is counted.                                             *)
LEMMA CountPositive ==
    ASSUME NEW B, FiniteBag(B), NEW S, NEW x \in DOMAIN B, x \in S
    PROVE  Count(B, S) >= 1
<1>1. B[x] \in Nat /\ B[x] > 0
    BY DEF FiniteBag, IsABag
<1>2. <<x, 1>> \in Copies(B, S)
    BY <1>1, CopiesAre
<1>3. QED
    BY <1>2, CopiesFinite, FS_EmptySet DEF Count
-----------------------------------------------------------------------------
(* Vote threads.                                                           *)

(* A node has finitely many calls being served.                            *)
LEMMA TakenFinite ==
    \A n : IsFiniteSet(Taken(n)) /\ Cardinality(Taken(n)) \in Nat
<1>1. IsFiniteSet(Peer)
    BY NumPeersPositive, FS_Interval DEF Peer
<1>2. \A n : Taken(n) \subseteq Peer
    BY DEF Taken
<1>3. QED
    BY <1>1, <1>2, FS_Subset, FS_CardinalityType

(* Every place has a natural number of the threads.                        *)
LEMMA VotePlacesNatural ==
    ASSUME TypeOK, VoteThreadsPlaced, NEW n \in Peer
    PROVE  /\ Count(voteReqs, VotesFrom(n)) \in Nat
           /\ Cardinality(Taken(n)) \in Nat
           /\ Count(voteReplies, VotesTo(n)) \in Nat
           /\ voteSpawned[n] \in Nat /\ voteThreads[n] \in Int
           /\ voteThreads[n] = voteSpawned[n] + Count(voteReqs, VotesFrom(n))
                                 + Cardinality(Taken(n))
                                 + Count(voteReplies, VotesTo(n))
<1>1. /\ Count(voteReqs, VotesFrom(n)) \in Nat
      /\ Count(voteReplies, VotesTo(n)) \in Nat
    BY CopiesFinite DEF VoteThreadsPlaced
<1>2. QED
    BY <1>1, TakenFinite DEF TypeOK, ThreadTypes, VoteThreadsPlaced

(* The threads are where they are when a step leaves them alone.           *)
LEMMA VotesStay ==
    ASSUME VoteThreadsPlaced, UNCHANGED voteNet PROVE VoteThreadsPlaced'
BY DEF VoteThreadsPlaced, Count, Taken

(* A server that takes a call holds one more of its caller's.              *)
LEMMA ServerTakes ==
    ASSUME TypeOK, NEW n \in Peer, voteSrv[n] = Idle, NEW call \in VoteCall,
           voteSrv' = [voteSrv EXCEPT ![n] = call]
    PROVE  \A q : Cardinality(Taken(q)') =
                     Cardinality(Taken(q)) + (IF call.req.from = q THEN 1 ELSE 0)
<1> TAKE q
<1>1. call # Idle
    BY DEF VoteCall, Idle
<1>2. /\ voteSrv'[n] = call
      /\ \A p \in Peer \ {n} : voteSrv'[p] = voteSrv[p]
    BY DEF TypeOK, CallTypes
<1>3. n \notin Taken(q) /\ IsFiniteSet(Taken(q)) /\ Cardinality(Taken(q)) \in Nat
    BY TakenFinite DEF Taken
<1>4. CASE call.req.from = q
    <2>1. Taken(q)' = Taken(q) \cup {n}
        BY <1>1, <1>2, <1>3, <1>4 DEF Taken
    <2>2. QED
        BY <1>3, <1>4, <2>1, FS_AddElement
<1>5. CASE call.req.from # q
    <2>1. Taken(q)' = Taken(q)
        BY <1>1, <1>2, <1>3, <1>5 DEF Taken
    <2>2. QED
        BY <1>3, <1>5, <2>1
<1>6. QED
    BY <1>4, <1>5

(* A server that answers holds one less.                                   *)
LEMMA ServerAnswers ==
    ASSUME TypeOK, NEW n \in Peer, voteSrv[n] \in VoteCall,
           voteSrv' = [voteSrv EXCEPT ![n] = Idle]
    PROVE  \A q : Cardinality(Taken(q)') =
                     Cardinality(Taken(q))
                        - (IF voteSrv[n].req.from = q THEN 1 ELSE 0)
<1> TAKE q
<1>1. voteSrv[n] # Idle
    BY DEF VoteCall, Idle
<1>2. /\ voteSrv'[n] = Idle
      /\ \A p \in Peer \ {n} : voteSrv'[p] = voteSrv[p]
    BY DEF TypeOK, CallTypes
<1>3. IsFiniteSet(Taken(q)) /\ Cardinality(Taken(q)) \in Nat
    BY TakenFinite
<1>4. Taken(q)' = Taken(q) \ {n}
    BY <1>2 DEF Taken
<1>5. n \in Taken(q) <=> voteSrv[n].req.from = q
    BY <1>1 DEF Taken
<1>6. Cardinality(Taken(q) \ {n}) =
          IF n \in Taken(q) THEN Cardinality(Taken(q)) - 1
          ELSE Cardinality(Taken(q))
    BY <1>3, FS_RemoveElement
<1>7. QED
    BY <1>3, <1>4, <1>5, <1>6

(* A waiting call is answered.                                             *)
LEMMA CallAnswered ==
    ASSUME TypeOK, VoteThreadsPlaced, NEW m \in DOMAIN voteReqs,
           NEW reply \in VoteAnswer, reply.to = m.from,
           voteReqs' = BagRemove(voteReqs, m),
           voteReplies' = BagAdd(voteReplies, reply),
           UNCHANGED <<voteSpawned, voteThreads, voteSrv>>
    PROVE  VoteThreadsPlaced'
<1>1. m \in VoteArgs
    BY DEF TypeOK, CallTypes
<1>2. FiniteBag(voteReqs) /\ FiniteBag(voteReplies)
    BY DEF VoteThreadsPlaced
<1>3. /\ FiniteBag(voteReqs')
      /\ \A S : Count(voteReqs', S) =
                   Count(voteReqs, S) - (IF m \in S THEN 1 ELSE 0)
    BY <1>2, RemoveCounts
<1>4. /\ FiniteBag(voteReplies')
      /\ \A S : Count(voteReplies', S) =
                   Count(voteReplies, S) + (IF reply \in S THEN 1 ELSE 0)
    BY <1>2, AddCounts
<1>5. \A q : m \in VotesFrom(q) <=> reply \in VotesTo(q)
    BY <1>1 DEF VotesFrom, VotesTo
<1>6. \A q : Taken(q)' = Taken(q)
    BY DEF Taken
<1>7. ASSUME NEW q \in Peer
      PROVE  voteThreads'[q] = voteSpawned'[q] + Count(voteReqs', VotesFrom(q))
                                 + Cardinality(Taken(q)')
                                 + Count(voteReplies', VotesTo(q))
    BY <1>3, <1>4, <1>5, <1>6, VotePlacesNatural
<1>8. QED
    BY <1>3, <1>4, <1>7 DEF VoteThreadsPlaced

(* A call being served is answered.                                        *)
LEMMA ServedAnswered ==
    ASSUME TypeOK, VoteThreadsPlaced, NEW n \in Peer, voteSrv[n] \in VoteCall,
           NEW reply \in VoteAnswer, reply.to = voteSrv[n].req.from,
           voteSrv' = [voteSrv EXCEPT ![n] = Idle],
           voteReplies' = BagAdd(voteReplies, reply),
           UNCHANGED <<voteSpawned, voteThreads, voteReqs>>
    PROVE  VoteThreadsPlaced'
<1>1. FiniteBag(voteReqs) /\ FiniteBag(voteReplies)
    BY DEF VoteThreadsPlaced
<1>2. /\ FiniteBag(voteReplies')
      /\ \A S : Count(voteReplies', S) =
                   Count(voteReplies, S) + (IF reply \in S THEN 1 ELSE 0)
    BY <1>1, AddCounts
<1>3. \A q : voteSrv[n].req.from = q <=> reply \in VotesTo(q)
    BY DEF VotesTo
<1>4. \A q : Cardinality(Taken(q)') =
               Cardinality(Taken(q))
                  - (IF voteSrv[n].req.from = q THEN 1 ELSE 0)
    BY ServerAnswers
<1>5. ASSUME NEW q \in Peer
      PROVE  voteThreads'[q] = voteSpawned'[q] + Count(voteReqs', VotesFrom(q))
                                 + Cardinality(Taken(q)')
                                 + Count(voteReplies', VotesTo(q))
    BY <1>2, <1>3, <1>4, VotePlacesNatural
<1>6. QED
    BY <1>1, <1>2, <1>5 DEF VoteThreadsPlaced

(* A server takes a waiting call.                                          *)
LEMMA ConsiderVotePlaces ==
    ASSUME TypeOK, VoteThreadsPlaced, NEW m \in DOMAIN voteReqs, ConsiderVote(m)
    PROVE  VoteThreadsPlaced'
<1> DEFINE n == m.to
           call == [step |-> "compare", req |-> m, term |-> m_curTerm[n]]
<1>1. m \in VoteArgs /\ n \in Peer
    BY DEF TypeOK, CallTypes, VoteArgs
<1>2. /\ call \in VoteCall /\ call.req.from = m.from
      /\ voteSrv[n] = Idle /\ voteSrv' = [voteSrv EXCEPT ![n] = call]
      /\ voteReqs' = BagRemove(voteReqs, m)
      /\ UNCHANGED <<voteSpawned, voteThreads, voteReplies>>
    BY <1>1 DEF TypeOK, TermTypes, VoteCall, ConsiderVote
<1> HIDE DEF call, n
<1>3. FiniteBag(voteReqs) /\ FiniteBag(voteReplies)
    BY DEF VoteThreadsPlaced
<1>4. /\ FiniteBag(voteReqs')
      /\ \A S : Count(voteReqs', S) =
                   Count(voteReqs, S) - (IF m \in S THEN 1 ELSE 0)
    BY <1>2, <1>3, RemoveCounts
<1>5. \A q : Cardinality(Taken(q)') =
               Cardinality(Taken(q)) + (IF m.from = q THEN 1 ELSE 0)
    BY <1>1, <1>2, ServerTakes
<1>6. \A q : m \in VotesFrom(q) <=> m.from = q
    BY <1>1 DEF VotesFrom
<1>7. ASSUME NEW q \in Peer
      PROVE  voteThreads'[q] = voteSpawned'[q] + Count(voteReqs', VotesFrom(q))
                                 + Cardinality(Taken(q)')
                                 + Count(voteReplies', VotesTo(q))
    BY <1>2, <1>4, <1>5, <1>6, VotePlacesNatural
<1>8. QED
    BY <1>2, <1>3, <1>4, <1>7 DEF VoteThreadsPlaced

(* A server compares the logs: it goes on, or answers.                     *)
LEMMA checkLogUptodatePlaces ==
    ASSUME TypeOK, VoteThreadsPlaced, NEW n \in Peer, checkLogUptodate(n)
    PROVE  VoteThreadsPlaced'
<1>1. /\ voteSrv[n] \in VoteCall
      /\ voteSrv[n].req \in VoteArgs /\ voteSrv[n].term \in Nat
    BY DEF TypeOK, CallTypes, checkLogUptodate, VoteCall, Idle
<1>2. CASE LogUptodate(voteSrv[n].req, m_logs[n])
    <2>1. /\ voteSrv' = [voteSrv EXCEPT ![n].step = "grant"]
          /\ UNCHANGED <<voteSpawned, voteThreads, voteReqs, voteReplies>>
        BY <1>2 DEF checkLogUptodate
    <2>2. /\ voteSrv'[n].req = voteSrv[n].req /\ voteSrv'[n] # Idle
          /\ \A p \in Peer \ {n} : voteSrv'[p] = voteSrv[p]
        BY <1>1, <2>1 DEF TypeOK, CallTypes, VoteCall, Idle
    <2>3. voteSrv[n] # Idle
        BY <1>1 DEF VoteCall, Idle
    <2>4. \A q : Taken(q)' = Taken(q)
        BY <2>2, <2>3 DEF Taken
    <2>5. QED
        BY <2>1, <2>4 DEF VoteThreadsPlaced
<1>3. CASE ~LogUptodate(voteSrv[n].req, m_logs[n])
    <2> DEFINE reply == VoteReply(voteSrv[n].req, voteSrv[n].term, FALSE)
    <2>1. reply \in VoteAnswer /\ reply.to = voteSrv[n].req.from
        BY <1>1, VoteReplyTyped DEF VoteReply
    <2>2. /\ voteSrv' = [voteSrv EXCEPT ![n] = Idle]
          /\ voteReplies' = BagAdd(voteReplies, reply)
          /\ UNCHANGED <<voteSpawned, voteThreads, voteReqs>>
        BY <1>3 DEF checkLogUptodate
    <2> HIDE DEF reply
    <2>3. QED
        BY <1>1, <2>1, <2>2, ServedAnswered
<1>4. QED
    BY <1>2, <1>3

(* A server grants its vote.                                               *)
LEMMA GrantVotePlaces ==
    ASSUME TypeOK, VoteThreadsPlaced, NEW n \in Peer, GrantVote(n)
    PROVE  VoteThreadsPlaced'
<1> DEFINE reply == VoteReply(voteSrv[n].req, voteSrv[n].term, TRUE)
<1>1. /\ voteSrv[n] \in VoteCall
      /\ voteSrv[n].req \in VoteArgs /\ voteSrv[n].term \in Nat
    BY DEF TypeOK, CallTypes, GrantVote, VoteCall, Idle
<1>2. reply \in VoteAnswer /\ reply.to = voteSrv[n].req.from
    BY <1>1, VoteReplyTyped DEF VoteReply
<1>3. /\ voteSrv' = [voteSrv EXCEPT ![n] = Idle]
      /\ voteReplies' = BagAdd(voteReplies, reply)
      /\ UNCHANGED <<voteSpawned, voteThreads, voteReqs>>
    BY DEF GrantVote
<1> HIDE DEF reply
<1>4. QED
    BY <1>1, <1>2, <1>3, ServedAnswered

(* A call is answered as soon as it is taken.                              *)
LEMMA RefusedPlaces ==
    ASSUME TypeOK, VoteThreadsPlaced, NEW m \in DOMAIN voteReqs,
           RejectVote(m) \/ RefuseVote(m)
    PROVE  VoteThreadsPlaced'
<1> DEFINE reply == VoteReply(m, m_curTerm[m.to], FALSE)
<1>1. m \in VoteArgs /\ m_curTerm[m.to] \in Nat
    BY DEF TypeOK, TermTypes, CallTypes, VoteArgs
<1>2. reply \in VoteAnswer /\ reply.to = m.from
    BY <1>1, VoteReplyTyped DEF VoteReply
<1>3. /\ voteReqs' = BagRemove(voteReqs, m)
      /\ voteReplies' = BagAdd(voteReplies, reply)
      /\ UNCHANGED <<voteSpawned, voteThreads, voteSrv>>
    BY DEF RejectVote, RefuseVote
<1> HIDE DEF reply
<1>4. QED
    BY <1>2, <1>3, CallAnswered

(* An election spawns its threads.                                         *)
LEMMA StartElectionPlaces ==
    ASSUME TypeOK, VoteThreadsPlaced, NEW n \in Peer, StartElection(n)
    PROVE  VoteThreadsPlaced'
<1>1. /\ voteSpawned' = [voteSpawned EXCEPT ![n] = @ + (NumPeers - 1)]
      /\ voteThreads' = [voteThreads EXCEPT ![n] = @ + (NumPeers - 1)]
      /\ UNCHANGED <<voteReqs, voteSrv, voteReplies>>
    BY DEF StartElection
<1>2. \A q : Taken(q)' = Taken(q)
    BY <1>1 DEF Taken
<1>3. ASSUME NEW q \in Peer
      PROVE  voteThreads'[q] = voteSpawned'[q] + Count(voteReqs, VotesFrom(q))
                                 + Cardinality(Taken(q))
                                 + Count(voteReplies, VotesTo(q))
    BY <1>1, VotePlacesNatural, NumPeersPositive DEF TypeOK, ThreadTypes
<1>4. QED
    BY <1>1, <1>2, <1>3 DEF VoteThreadsPlaced

(* A spawned thread calls.                                                 *)
LEMMA SendVoteRequestPlaces ==
    ASSUME TypeInv, VoteThreadsPlaced, NEW n \in Peer, SendVoteRequest(n)
    PROVE  VoteThreadsPlaced'
<1> DEFINE req == [from |-> n, to |-> Callee(n), term |-> m_curTerm[n],
                   lastLogTerm |-> LastTerm(m_logs[n]),
                   lastLogIndex |-> Len(m_logs[n])]
<1> USE DEF TypeInv
<1>1. Callee(n) \in Peer
    BY CursorAdvanced DEF SendVoteRequest
<1>2. req \in VoteArgs /\ req.from = n
    BY <1>1, LastTermTyped, LenProperties
    DEF TypeOK, TermTypes, LogTypes, VoteArgs
<1>3. /\ voteReqs' = BagAdd(voteReqs, req)
      /\ voteSpawned' = [voteSpawned EXCEPT ![n] = @ - 1]
      /\ UNCHANGED <<voteThreads, voteSrv, voteReplies>>
    BY DEF SendVoteRequest
<1> HIDE DEF req, TypeInv
<1>4. FiniteBag(voteReqs) /\ FiniteBag(voteReplies)
    BY DEF VoteThreadsPlaced
<1>5. /\ FiniteBag(voteReqs')
      /\ \A S : Count(voteReqs', S) =
                   Count(voteReqs, S) + (IF req \in S THEN 1 ELSE 0)
    BY <1>3, <1>4, AddCounts
<1>6. \A q : req \in VotesFrom(q) <=> q = n
    BY <1>2 DEF VotesFrom
<1>7. \A q : Taken(q)' = Taken(q)
    BY <1>3 DEF Taken
<1>8. TypeOK
    BY DEF TypeInv
<1>9. ASSUME NEW q \in Peer
      PROVE  voteThreads'[q] = voteSpawned'[q] + Count(voteReqs', VotesFrom(q))
                                 + Cardinality(Taken(q)')
                                 + Count(voteReplies', VotesTo(q))
    BY <1>3, <1>5, <1>6, <1>7, <1>8, VotePlacesNatural DEF TypeOK, ThreadTypes
<1>10. QED
    BY <1>3, <1>4, <1>5, <1>9 DEF VoteThreadsPlaced

(* A thread handles its reply and returns.                                 *)
LEMMA HandleVoteReplyPlaces ==
    ASSUME TypeOK, VoteThreadsPlaced, NEW r \in DOMAIN voteReplies,
           HandleVoteReply(r)
    PROVE  VoteThreadsPlaced'
<1>1. r \in VoteAnswer /\ r.to \in Peer
    BY DEF TypeOK, CallTypes, VoteAnswer
<1>2. /\ voteReplies' = BagRemove(voteReplies, r)
      /\ voteThreads' = [voteThreads EXCEPT ![r.to] = @ - 1]
      /\ UNCHANGED <<voteSpawned, voteSrv, voteReqs>>
    BY DEF HandleVoteReply
<1>3. FiniteBag(voteReqs) /\ FiniteBag(voteReplies)
    BY DEF VoteThreadsPlaced
<1>4. /\ FiniteBag(voteReplies')
      /\ \A S : Count(voteReplies', S) =
                   Count(voteReplies, S) - (IF r \in S THEN 1 ELSE 0)
    BY <1>2, <1>3, RemoveCounts
<1>5. \A q : r \in VotesTo(q) <=> q = r.to
    BY <1>1 DEF VotesTo
<1>6. \A q : Taken(q)' = Taken(q)
    BY <1>2 DEF Taken
<1>7. ASSUME NEW q \in Peer
      PROVE  voteThreads'[q] = voteSpawned'[q] + Count(voteReqs', VotesFrom(q))
                                 + Cardinality(Taken(q)')
                                 + Count(voteReplies', VotesTo(q))
    BY <1>1, <1>2, <1>4, <1>5, <1>6, VotePlacesNatural DEF TypeOK, ThreadTypes
<1>8. QED
    BY <1>2, <1>3, <1>4, <1>7 DEF VoteThreadsPlaced
-----------------------------------------------------------------------------
(* Threads that send entries.                                              *)

(* Every place has a natural number of the threads.                        *)
LEMMA SendPlacesNatural ==
    ASSUME TypeOK, SendThreadsPlaced, NEW n \in Peer
    PROVE  /\ Count(appendReqs, EntriesFrom(n)) \in Nat
           /\ Count(appendReplies, RepliesTo(n)) \in Nat
           /\ sendSpawned[n] \in Nat /\ sendThreads[n] \in Int
           /\ sendThreads[n] = sendSpawned[n] + Count(appendReqs, EntriesFrom(n))
                                 + Count(appendReplies, RepliesTo(n))
<1>1. /\ Count(appendReqs, EntriesFrom(n)) \in Nat
      /\ Count(appendReplies, RepliesTo(n)) \in Nat
    BY CopiesFinite DEF SendThreadsPlaced
<1>2. QED
    BY <1>1 DEF TypeOK, ThreadTypes, SendThreadsPlaced

(* The threads are where they are when a step leaves them alone.           *)
LEMMA SendsStay ==
    ASSUME SendThreadsPlaced, UNCHANGED appendNet PROVE SendThreadsPlaced'
BY DEF SendThreadsPlaced, Count

(* A round spawns its threads.                                             *)
LEMMA BroadcastPlaces ==
    ASSUME TypeOK, SendThreadsPlaced, NEW n \in Peer, Broadcast(n)
    PROVE  SendThreadsPlaced'
<1>1. /\ sendSpawned' = [sendSpawned EXCEPT ![n] = @ + (NumPeers - 1)]
      /\ sendThreads' = [sendThreads EXCEPT ![n] = @ + (NumPeers - 1)]
      /\ UNCHANGED <<appendReqs, appendReplies>>
    BY DEF Broadcast
<1>2. ASSUME NEW q \in Peer
      PROVE  sendThreads'[q] = sendSpawned'[q] + Count(appendReqs, EntriesFrom(q))
                                 + Count(appendReplies, RepliesTo(q))
    BY <1>1, SendPlacesNatural, NumPeersPositive DEF TypeOK, ThreadTypes
<1>3. QED
    BY <1>1, <1>2 DEF SendThreadsPlaced

(* What a spawned thread sends is well formed.                             *)
LEMMA EntriesSent ==
    ASSUME TypeInv, NEW n \in Peer, SendEntries(n)
    PROVE  \E req \in AppendArgs :
              /\ req.from = n /\ req.to = Callee(n)
              /\ req.term = m_curTerm[n]
              /\ req.prevLogIndex = m_nextIndex[n][Callee(n)] - 1
              /\ req.prevLogTerm \in PrevLogTerms(m_logs[n], req.prevLogIndex)
              /\ req.leaderCommit = m_commitIndex[n]
              /\ req.entries = EntriesAfter(m_logs[n], req.prevLogIndex)
              /\ appendReqs' = BagAdd(appendReqs, req)
<1> DEFINE p == Callee(n)
           prev == m_nextIndex[n][p] - 1
<1> USE DEF TypeInv, TypeOK
<1>1. p \in Peer
    BY CursorAdvanced DEF SendEntries
<1>2. prev \in Int
    BY <1>1 DEF IndexTypes
<1>3. PICK prevTerm \in PrevLogTerms(m_logs[n], prev) :
        appendReqs' = BagAdd(appendReqs,
           [from |-> n, to |-> p, term |-> m_curTerm[n],
            prevLogIndex |-> prev, prevLogTerm |-> prevTerm,
            leaderCommit |-> m_commitIndex[n],
            entries |-> EntriesAfter(m_logs[n], prev)])
    BY DEF SendEntries
<1>4. EntriesAfter(m_logs[n], prev) \in Seq(Entry) /\ prevTerm \in Int
    BY <1>2, SentTyped DEF LogTypes
<1> DEFINE req ==
           [from |-> n, to |-> p, term |-> m_curTerm[n],
            prevLogIndex |-> prev, prevLogTerm |-> prevTerm,
            leaderCommit |-> m_commitIndex[n],
            entries |-> EntriesAfter(m_logs[n], prev)]
<1>5. req \in AppendArgs
    BY <1>1, <1>2, <1>4 DEF TermTypes, IndexTypes, AppendArgs
<1>6. /\ req.from = n /\ req.to = p /\ req.term = m_curTerm[n]
      /\ req.prevLogIndex = prev
      /\ req.prevLogTerm \in PrevLogTerms(m_logs[n], req.prevLogIndex)
      /\ req.leaderCommit = m_commitIndex[n]
      /\ req.entries = EntriesAfter(m_logs[n], req.prevLogIndex)
    OBVIOUS
<1>7. appendReqs' = BagAdd(appendReqs, req)
    BY <1>3
<1> HIDE DEF req
<1>8. QED
    BY <1>5, <1>6, <1>7

(* A spawned thread calls.                                                 *)
LEMMA SendEntriesPlaces ==
    ASSUME TypeInv, SendThreadsPlaced, NEW n \in Peer, SendEntries(n)
    PROVE  SendThreadsPlaced'
<1>1. TypeOK
    BY DEF TypeInv
<1>2. PICK req \in AppendArgs :
          req.from = n /\ appendReqs' = BagAdd(appendReqs, req)
    BY EntriesSent
<1>3. /\ sendSpawned' = [sendSpawned EXCEPT ![n] = @ - 1]
      /\ UNCHANGED <<sendThreads, appendReplies>>
    BY DEF SendEntries
<1>4. FiniteBag(appendReqs) /\ FiniteBag(appendReplies)
    BY DEF SendThreadsPlaced
<1>5. /\ FiniteBag(appendReqs')
      /\ \A S : Count(appendReqs', S) =
                   Count(appendReqs, S) + (IF req \in S THEN 1 ELSE 0)
    BY <1>2, <1>4, AddCounts
<1>6. \A q : req \in EntriesFrom(q) <=> q = n
    BY <1>2 DEF EntriesFrom
<1>7. ASSUME NEW q \in Peer
      PROVE  sendThreads'[q] = sendSpawned'[q] + Count(appendReqs', EntriesFrom(q))
                                 + Count(appendReplies', RepliesTo(q))
    BY <1>1, <1>3, <1>5, <1>6, SendPlacesNatural DEF TypeOK, ThreadTypes
<1>8. QED
    BY <1>3, <1>4, <1>5, <1>7 DEF SendThreadsPlaced

(* Whatever appendEntries does, it answers its caller.                     *)
LEMMA AppendAnswered ==
    ASSUME TypeInv, NEW m \in DOMAIN appendReqs, HandleAppend(m)
    PROVE  \E reply \in AppendAnswer :
              /\ Reply(m, reply) /\ reply.to = m.from /\ reply.from = m.to
<1>1. /\ m.from \in Peer /\ m.to \in Peer /\ m.prevLogIndex \in Int
      /\ m.entries \in Seq(Entry) /\ m_curTerm[m.to] \in Nat
      /\ m_logs[m.to] \in Seq(Entry)
    BY AppendArgsTyped, NodeTyped DEF TypeInv
<1>2. ASSUME NEW success \in BOOLEAN, NEW conflictTerm \in Int,
             NEW conflictIndex \in Int,
             Reply(m, AppendReply(m, m_curTerm[m.to], success, conflictTerm,
                                  conflictIndex))
      PROVE  \E reply \in AppendAnswer :
                /\ Reply(m, reply) /\ reply.to = m.from /\ reply.from = m.to
    <2> DEFINE reply == AppendReply(m, m_curTerm[m.to], success, conflictTerm,
                                    conflictIndex)
    <2>1. reply \in AppendAnswer /\ reply.to = m.from /\ reply.from = m.to
        BY <1>1, LenProperties DEF AppendReply, AppendAnswer
    <2>2. Reply(m, reply)
        BY <1>2
    <2> HIDE DEF reply
    <2>3. QED
        BY <2>1, <2>2
<1>3. CASE RejectEntries(m)
    <2> DEFINE none == -1
    <2>1. Reply(m, AppendReply(m, m_curTerm[m.to], FALSE, none, none))
        BY <1>3, Zenon DEF RejectEntries
    <2>2. none \in Int
        OBVIOUS
    <2> HIDE DEF none
    <2>3. QED
        BY <1>2, <2>1, <2>2
<1>4. CASE ReportShortLog(m)
    <2> DEFINE none == -1
    <2>1. Reply(m, AppendReply(m, m_curTerm[m.to], FALSE, none,
                               Len(m_logs[m.to])))
        BY <1>4, Zenon DEF ReportShortLog
    <2>2. none \in Int
        OBVIOUS
    <2> HIDE DEF none
    <2>3. Len(m_logs[m.to]) \in Int
        BY <1>1, LenProperties
    <2>4. QED
        BY <1>2, <2>1, <2>2, <2>3
<1>5. CASE ReportConflict(m)
    <2>1. PICK first \in FirstIndexes(m_logs[m.to], m.prevLogIndex) :
            Reply(m, AppendReply(m, m_curTerm[m.to], FALSE,
                                 m_logs[m.to][m.prevLogIndex].term, first))
        BY <1>5 DEF ReportConflict
    <2>2. m.prevLogIndex \in 1..Len(m_logs[m.to])
        BY <1>5 DEF ReportConflict, ConflictsAtPrev
    <2>3. m_logs[m.to][m.prevLogIndex] \in Entry
        BY <1>1, <2>2, ElementOfSeq
    <2>4. m_logs[m.to][m.prevLogIndex].term \in Int /\ first \in Int
        BY <2>3 DEF Entry, FirstIndexes
    <2>5. QED
        BY <1>2, <2>1, <2>4
<1>6. CASE AcceptEntries(m)
    <2> DEFINE none == -1
    <2>1. Reply(m, AppendReply(m, m_curTerm[m.to], TRUE, none, none))
        BY <1>6, Zenon DEF AcceptEntries
    <2>2. none \in Int
        OBVIOUS
    <2> HIDE DEF none
    <2>3. QED
        BY <1>2, <2>1, <2>2
<1>7. QED
    BY <1>3, <1>4, <1>5, <1>6 DEF HandleAppend

(* A call of appendEntries is answered.                                    *)
LEMMA HandleAppendPlaces ==
    ASSUME TypeInv, SendThreadsPlaced, NEW m \in DOMAIN appendReqs,
           HandleAppend(m)
    PROVE  SendThreadsPlaced'
<1>1. TypeOK
    BY DEF TypeInv
<1>2. m \in AppendArgs
    BY <1>1 DEF TypeOK, CallTypes
<1>3. PICK reply \in AppendAnswer : Reply(m, reply) /\ reply.to = m.from
    BY AppendAnswered
<1>4. /\ appendReqs' = BagRemove(appendReqs, m)
      /\ appendReplies' = BagAdd(appendReplies, reply)
      /\ UNCHANGED <<sendSpawned, sendThreads>>
    BY <1>3 DEF Reply
<1>5. FiniteBag(appendReqs) /\ FiniteBag(appendReplies)
    BY DEF SendThreadsPlaced
<1>6. /\ FiniteBag(appendReqs')
      /\ \A S : Count(appendReqs', S) =
                   Count(appendReqs, S) - (IF m \in S THEN 1 ELSE 0)
    BY <1>4, <1>5, RemoveCounts
<1>7. /\ FiniteBag(appendReplies')
      /\ \A S : Count(appendReplies', S) =
                   Count(appendReplies, S) + (IF reply \in S THEN 1 ELSE 0)
    BY <1>4, <1>5, AddCounts
<1>8. \A q : m \in EntriesFrom(q) <=> reply \in RepliesTo(q)
    BY <1>2, <1>3 DEF EntriesFrom, RepliesTo
<1>9. ASSUME NEW q \in Peer
      PROVE  sendThreads'[q] = sendSpawned'[q] + Count(appendReqs', EntriesFrom(q))
                                 + Count(appendReplies', RepliesTo(q))
    BY <1>1, <1>4, <1>6, <1>7, <1>8, SendPlacesNatural
<1>10. QED
    BY <1>6, <1>7, <1>9 DEF SendThreadsPlaced

(* A thread handles its reply and returns.                                 *)
LEMMA HandleReplyPlaces ==
    ASSUME TypeOK, SendThreadsPlaced, NEW r \in DOMAIN appendReplies,
           HandleReply(r)
    PROVE  SendThreadsPlaced'
<1>1. r \in AppendAnswer /\ r.to \in Peer
    BY DEF TypeOK, CallTypes, AppendAnswer
<1>2. /\ appendReplies' = BagRemove(appendReplies, r)
      /\ sendThreads' = [sendThreads EXCEPT ![r.to] = @ - 1]
      /\ UNCHANGED <<sendSpawned, appendReqs>>
    BY DEF HandleReply
<1>3. FiniteBag(appendReqs) /\ FiniteBag(appendReplies)
    BY DEF SendThreadsPlaced
<1>4. /\ FiniteBag(appendReplies')
      /\ \A S : Count(appendReplies', S) =
                   Count(appendReplies, S) - (IF r \in S THEN 1 ELSE 0)
    BY <1>2, <1>3, RemoveCounts
<1>5. \A q : r \in RepliesTo(q) <=> q = r.to
    BY <1>1 DEF RepliesTo
<1>6. ASSUME NEW q \in Peer
      PROVE  sendThreads'[q] = sendSpawned'[q] + Count(appendReqs', EntriesFrom(q))
                                 + Count(appendReplies', RepliesTo(q))
    <2>1. sendThreads'[q] = IF q = r.to THEN sendThreads[q] - 1 ELSE sendThreads[q]
        BY <1>1, <1>2 DEF TypeOK, ThreadTypes
    <2>2. QED
        BY <1>2, <1>4, <1>5, <2>1, SendPlacesNatural
<1>7. QED
    BY <1>2, <1>3, <1>4, <1>6 DEF SendThreadsPlaced
-----------------------------------------------------------------------------
(* Every thread is in its place in every reachable state.                  *)

(* At a start, of the process too, there is no thread.                     *)
LEMMA NoThreadsPlaced ==
    ASSUME voteSpawned = AtEveryPeer(0), voteThreads = AtEveryPeer(0),
           sendSpawned = AtEveryPeer(0), sendThreads = AtEveryPeer(0),
           voteSrv = AtEveryPeer(Idle), voteReqs = EmptyBag,
           voteReplies = EmptyBag, appendReqs = EmptyBag,
           appendReplies = EmptyBag
    PROVE  ThreadsPlaced
<1>1. \A n : Cardinality(Taken(n)) = 0
    BY FS_EmptySet DEF Taken, AtEveryPeer
<1>2. QED
    BY <1>1, EmptyCounts
    DEF ThreadsPlaced, VoteThreadsPlaced, SendThreadsPlaced, AtEveryPeer

(* Steps of the vote threads and servers.                                  *)
LEMMA VoteStepsPlace ==
    ASSUME TypeInv, ThreadsPlaced, NEW n \in Peer,
           ElectionStep(n) \/ VoteServerStep(n)
    PROVE  ThreadsPlaced'
<1>1. TypeOK /\ VoteThreadsPlaced /\ SendThreadsPlaced
    BY DEF TypeInv, ThreadsPlaced
<1>2. SendThreadsPlaced'
    <2>1. UNCHANGED appendNet
        BY DEF ElectionStep, VoteServerStep, StartElection, LoseElection,
               LeaveDeposed, FinishElection, SendVoteRequest, RejectVote,
               RefuseVote, ConsiderVote, checkLogUptodate, GrantVote
    <2>2. QED
        BY <1>1, <2>1, SendsStay
<1>3. CASE StartElection(n)
    BY <1>1, <1>2, <1>3, StartElectionPlaces DEF ThreadsPlaced
<1>4. CASE SendVoteRequest(n)
    BY <1>1, <1>2, <1>4, SendVoteRequestPlaces DEF ThreadsPlaced
<1>5. CASE LoseElection(n) \/ LeaveDeposed(n) \/ FinishElection(n)
    <2>1. UNCHANGED voteNet
        BY <1>5 DEF LoseElection, LeaveDeposed, FinishElection
    <2>2. QED
        BY <1>1, <1>2, <2>1, VotesStay DEF ThreadsPlaced
<1>6. CASE VoteServerStep(n)
    BY <1>1, <1>2, <1>6, RefusedPlaces, ConsiderVotePlaces,
       checkLogUptodatePlaces, GrantVotePlaces
    DEF VoteServerStep, ThreadsPlaced
<1>7. QED
    BY <1>1, <1>2, <1>3, <1>4, <1>5, <1>6 DEF ElectionStep, ThreadsPlaced

(* Steps of the threads that send entries, and of their servers.           *)
LEMMA AppendStepsPlace ==
    ASSUME TypeInv, ThreadsPlaced, NEW n \in Peer, AppendStep(n)
    PROVE  ThreadsPlaced'
<1>1. TypeOK /\ VoteThreadsPlaced /\ SendThreadsPlaced
    BY DEF TypeInv, ThreadsPlaced
<1>2. VoteThreadsPlaced'
    <2>1. UNCHANGED voteNet
        BY DEF AppendStep, start, Broadcast, SendEntries, ApplyLog,
               HandleAppend, RejectEntries, ReportShortLog, ReportConflict,
               AcceptEntries, HandleAppendReply, StepDown, HandleSuccess,
               HandleFailure
    <2>2. QED
        BY <1>1, <2>1, VotesStay
<1>3. CASE start(n) \/ ApplyLog(n)
    <2>1. UNCHANGED appendNet
        BY <1>3 DEF start, ApplyLog
    <2>2. QED
        BY <1>1, <1>2, <2>1, SendsStay DEF ThreadsPlaced
<1>4. CASE Broadcast(n)
    BY <1>1, <1>2, <1>4, BroadcastPlaces DEF ThreadsPlaced
<1>5. CASE SendEntries(n)
    BY <1>1, <1>2, <1>5, SendEntriesPlaces DEF ThreadsPlaced
<1>6. ASSUME NEW m \in DOMAIN appendReqs, HandleAppend(m) PROVE ThreadsPlaced'
    BY <1>1, <1>2, <1>6, HandleAppendPlaces DEF ThreadsPlaced
<1>7. ASSUME NEW r \in DOMAIN appendReplies, HandleAppendReply(r)
      PROVE  ThreadsPlaced'
    <2>1. HandleReply(r)
        BY <1>7 DEF HandleAppendReply, StepDown, HandleSuccess, HandleFailure
    <2>2. QED
        BY <1>1, <1>2, <2>1, HandleReplyPlaces DEF ThreadsPlaced
<1>8. QED
    BY <1>3, <1>4, <1>5, <1>6, <1>7 DEF AppendStep

(* Steps of main() and of the process.                                     *)
LEMMA ProcessStepsPlace ==
    ASSUME ThreadsPlaced, ProcessStep PROVE ThreadsPlaced'
<1>1. ASSUME NEW n, NEW loop, SeeLeader(n) \/ kill \/ ExitLoop(n, loop)
      PROVE  ThreadsPlaced'
    <2>1. UNCHANGED <<voteNet, appendNet>>
        BY <1>1 DEF SeeLeader, kill, ExitLoop
    <2>2. QED
        BY <2>1, VotesStay, SendsStay DEF ThreadsPlaced
<1>2. ASSUME NEW disk, RestartFrom(disk) PROVE ThreadsPlaced'
    <2>1. /\ voteSpawned' = AtEveryPeer(0) /\ voteThreads' = AtEveryPeer(0)
          /\ sendSpawned' = AtEveryPeer(0) /\ sendThreads' = AtEveryPeer(0)
          /\ voteSrv' = AtEveryPeer(Idle) /\ voteReqs' = EmptyBag
          /\ voteReplies' = EmptyBag /\ appendReqs' = EmptyBag
          /\ appendReplies' = EmptyBag
        BY <1>2 DEF RestartFrom
    <2>2. \A n : Cardinality(Taken(n)') = 0
        BY <2>1, FS_EmptySet DEF Taken, AtEveryPeer
    <2>3. QED
        BY <2>1, <2>2, EmptyCounts
        DEF ThreadsPlaced, VoteThreadsPlaced, SendThreadsPlaced, AtEveryPeer
<1>3. QED
    BY <1>1, <1>2 DEF ProcessStep, Restart, RestartBetweenSaves

(* Every step keeps every thread in one place.                             *)
LEMMA NextPlaces == TypeInv /\ ThreadsPlaced /\ [Next]_vars => ThreadsPlaced'
<1> SUFFICES ASSUME TypeInv, ThreadsPlaced, [Next]_vars PROVE ThreadsPlaced'
    OBVIOUS
<1>1. ASSUME NEW r \in DOMAIN voteReplies, HandleVoteReply(r)
      PROVE  ThreadsPlaced'
    <2>1. UNCHANGED appendNet
        BY <1>1 DEF HandleVoteReply
    <2>2. QED
        BY <1>1, <2>1, HandleVoteReplyPlaces, SendsStay
        DEF TypeInv, ThreadsPlaced
<1>2. CASE UNCHANGED vars
    BY <1>2, VotesStay, SendsStay DEF ThreadsPlaced
<1>3. QED
    BY <1>1, <1>2, VoteStepsPlace, AppendStepsPlace, ProcessStepsPlace
    DEF Next

(* Every thread is in its place.                                           *)
LEMMA ThreadsInPlace == Spec => []ThreadsPlaced
<1>1. Init => ThreadsPlaced
    BY NoThreadsPlaced DEF Init
<1>2. QED
    BY <1>1, NextPlaces, TypeInvariance, PTL DEF Spec
-----------------------------------------------------------------------------
(* Ballots.                                                                *)

(* A vote counted is of a call counted, and what electionLoop waits for is *)
(* still to come from the threads it has out.                              *)
BallotsCounted ==
    \A n \in Peer :
        /\ recvVotes[n] <= finishedVote[n]
        /\ electionPc[n] = "waiting" =>
               finishedVote[n] + voteThreads[n] >= NumPeers

(* Where calls are timely every thread it has out is of this election.     *)
BallotsExact ==
    \A n \in Peer :
        electionPc[n] = "waiting" => finishedVote[n] + voteThreads[n] = NumPeers

(* No call outlives the round or the election it was made in.              *)
Timely == MaxThreads <= NumPeers - 1

(* Every place has a natural number of threads, so have all together.      *)
LEMMA ThreadsNatural ==
    ASSUME TypeOK, ThreadsPlaced, NEW n \in Peer
    PROVE  /\ voteSpawned[n] \in Nat /\ sendSpawned[n] \in Nat
           /\ voteThreads[n] \in Nat /\ sendThreads[n] \in Nat
           /\ voteSpawned[n] <= voteThreads[n]
           /\ sendSpawned[n] <= sendThreads[n]
<1>1. VoteThreadsPlaced /\ SendThreadsPlaced
    BY DEF ThreadsPlaced
<1>2. voteThreads[n] \in Nat /\ voteSpawned[n] <= voteThreads[n]
      /\ voteSpawned[n] \in Nat
    BY <1>1, VotePlacesNatural
<1>3. sendThreads[n] \in Nat /\ sendSpawned[n] <= sendThreads[n]
      /\ sendSpawned[n] \in Nat
    BY <1>1, SendPlacesNatural
<1>4. QED
    BY <1>2, <1>3

(* Few steps count a vote or make a node wait for votes.                   *)
LEMMA BallotSteps ==
    ASSUME [Next]_vars, TypeInv
    PROVE  \/ /\ UNCHANGED <<recvVotes, finishedVote, voteThreads>>
              /\ \A n \in Peer :
                    electionPc'[n] = "waiting" => electionPc[n] = "waiting"
           \/ \E n \in Peer : StartElection(n)
           \/ \E r \in DOMAIN voteReplies : HandleVoteReply(r)
           \/ \E disk : RestartFrom(disk)
<1> DEFINE Quiet == /\ UNCHANGED <<recvVotes, finishedVote, voteThreads>>
                    /\ \A n \in Peer : electionPc'[n] = "waiting" =>
                                          electionPc[n] = "waiting"
<1>1. ASSUME NEW n \in Peer,
             LoseElection(n) \/ LeaveDeposed(n) \/ FinishElection(n)
      PROVE  Quiet
    BY <1>1 DEF LoseElection, LeaveDeposed, FinishElection, TypeInv, TypeOK,
                BallotTypes
<1>2. ASSUME NEW n \in Peer, SendVoteRequest(n) \/ VoteServerStep(n)
      PROVE  Quiet
    BY <1>2 DEF SendVoteRequest, VoteServerStep, RejectVote, RefuseVote,
                ConsiderVote, checkLogUptodate, GrantVote
<1>3. ASSUME NEW n \in Peer, AppendStep(n) PROVE Quiet
    BY <1>3 DEF AppendStep, start, Broadcast, SendEntries, ApplyLog,
                HandleAppend, RejectEntries, ReportShortLog, ReportConflict,
                AcceptEntries, HandleAppendReply, StepDown, HandleSuccess,
                HandleFailure
<1>4. CASE ProcessStep
    BY <1>4 DEF ProcessStep, SeeLeader, kill, ExitLoop, Restart,
                RestartBetweenSaves
<1>5. CASE UNCHANGED vars
    BY <1>5
<1>6. QED
    BY <1>1, <1>2, <1>3, <1>4, <1>5 DEF Next, ElectionStep

(* An election starts with the node's own vote, and threads for the rest.  *)
LEMMA StartElectionCounts ==
    ASSUME TypeOK, ThreadsPlaced, NEW n \in Peer, StartElection(n)
    PROVE  /\ recvVotes'[n] = 1 /\ finishedVote'[n] = 1
           /\ voteThreads'[n] = voteThreads[n] + (NumPeers - 1)
           /\ voteThreads[n] \in Nat /\ sendThreads[n] \in Nat
           /\ Timely => voteThreads[n] = 0 /\ sendThreads[n] = 0
           /\ \A p \in Peer \ {n} :
                 /\ recvVotes'[p] = recvVotes[p]
                 /\ finishedVote'[p] = finishedVote[p]
                 /\ voteThreads'[p] = voteThreads[p]
                 /\ electionPc'[p] = electionPc[p]
<1>1. voteThreads[n] \in Nat /\ sendThreads[n] \in Nat
    BY ThreadsNatural
<1>2. Timely => voteThreads[n] = 0 /\ sendThreads[n] = 0
    BY <1>1, NumPeersPositive, BoundsAssumption
    DEF StartElection, MaySpawn, Timely
<1>3. QED
    BY <1>1, <1>2 DEF StartElection, TypeOK, BallotTypes, ThreadTypes

(* A reply is of one thread and counts for at most one vote.               *)
LEMMA HandleVoteReplyCounts ==
    ASSUME TypeOK, NEW r \in DOMAIN voteReplies, HandleVoteReply(r)
    PROVE  /\ r.to \in Peer
           /\ finishedVote'[r.to] = finishedVote[r.to] + 1
           /\ voteThreads'[r.to] = voteThreads[r.to] - 1
           /\ recvVotes'[r.to] \in {recvVotes[r.to], recvVotes[r.to] + 1}
           /\ electionPc' = electionPc
           /\ \A p \in Peer \ {r.to} :
                 /\ recvVotes'[p] = recvVotes[p]
                 /\ finishedVote'[p] = finishedVote[p]
                 /\ voteThreads'[p] = voteThreads[p]
<1>1. r.to \in Peer
    BY DEF TypeOK, CallTypes, VoteAnswer
<1>2. /\ finishedVote' = [finishedVote EXCEPT ![r.to] = @ + 1]
      /\ voteThreads' = [voteThreads EXCEPT ![r.to] = @ - 1]
      /\ electionPc' = electionPc
    BY <1>1 DEF HandleVoteReply, FinishedAfter, TypeOK, BallotTypes
<1>3. CASE r.term > m_curTerm[r.to]
    BY <1>1, <1>2, <1>3 DEF HandleVoteReply, TypeOK, BallotTypes, ThreadTypes
<1>4. CASE ~(r.term > m_curTerm[r.to])
    <2>1. recvVotes' = [recvVotes EXCEPT
                           ![r.to] = IF r.granted THEN @ + 1 ELSE @]
        BY <1>4 DEF HandleVoteReply
    <2>2. QED
        BY <1>1, <1>2, <2>1 DEF TypeOK, BallotTypes, ThreadTypes
<1>5. QED
    BY <1>3, <1>4

(* Every step counts its votes.                                            *)
LEMMA NextCounts ==
    TypeInv /\ ThreadsPlaced /\ BallotsCounted /\ [Next]_vars => BallotsCounted'
<1> SUFFICES ASSUME TypeInv, ThreadsPlaced, BallotsCounted, [Next]_vars
             PROVE  BallotsCounted'
    OBVIOUS
<1>1. TypeOK /\ NumPeers \in Nat
    BY NumPeersPositive DEF TypeInv
<1>2. \A p \in Peer : /\ recvVotes[p] \in Nat /\ finishedVote[p] \in Nat
                      /\ voteThreads[p] \in Nat
    BY <1>1, ThreadsNatural DEF TypeOK, BallotTypes
<1>3. CASE /\ UNCHANGED <<recvVotes, finishedVote, voteThreads>>
           /\ \A n \in Peer :
                 electionPc'[n] = "waiting" => electionPc[n] = "waiting"
    BY <1>3 DEF BallotsCounted
<1>4. ASSUME NEW n \in Peer, StartElection(n) PROVE BallotsCounted'
    BY <1>1, <1>2, <1>4, StartElectionCounts DEF BallotsCounted
<1>5. ASSUME NEW r \in DOMAIN voteReplies, HandleVoteReply(r)
      PROVE  BallotsCounted'
    BY <1>1, <1>2, <1>5, HandleVoteReplyCounts DEF BallotsCounted
<1>6. ASSUME NEW disk, RestartFrom(disk) PROVE BallotsCounted'
    BY <1>6 DEF RestartFrom, AtEveryPeer, BallotsCounted
<1>7. QED
    BY <1>3, <1>4, <1>5, <1>6, BallotSteps

(* Where calls are timely the count is exact.                              *)
LEMMA NextExact ==
    ASSUME Timely, TypeInv, ThreadsPlaced, BallotsExact, [Next]_vars
    PROVE  BallotsExact'
<1>1. TypeOK /\ NumPeers \in Nat
    BY NumPeersPositive DEF TypeInv
<1>2. \A p \in Peer : finishedVote[p] \in Nat /\ voteThreads[p] \in Nat
    BY <1>1, ThreadsNatural DEF TypeOK, BallotTypes
<1>3. CASE /\ UNCHANGED <<recvVotes, finishedVote, voteThreads>>
           /\ \A n \in Peer :
                 electionPc'[n] = "waiting" => electionPc[n] = "waiting"
    BY <1>3 DEF BallotsExact
<1>4. ASSUME NEW n \in Peer, StartElection(n) PROVE BallotsExact'
    BY <1>1, <1>2, <1>4, StartElectionCounts DEF BallotsExact
<1>5. ASSUME NEW r \in DOMAIN voteReplies, HandleVoteReply(r)
      PROVE  BallotsExact'
    BY <1>1, <1>2, <1>5, HandleVoteReplyCounts DEF BallotsExact
<1>6. ASSUME NEW disk, RestartFrom(disk) PROVE BallotsExact'
    BY <1>6 DEF RestartFrom, AtEveryPeer, BallotsExact
<1>7. QED
    BY <1>3, <1>4, <1>5, <1>6, BallotSteps

(* However many calls of earlier elections are still out: no more votes    *)
(* are counted than calls have finished, those of earlier elections among  *)
(* both, and while electionLoop waits, calls that have finished and        *)
(* threads that have not come to the size of the cluster at least.         *)
THEOREM VotesCounted == Spec => []VotesAccounted
<1>1. Init => BallotsCounted
    BY DEF Init, AtEveryPeer, BallotsCounted
<1>2. TypeInv /\ ThreadsPlaced /\ BallotsCounted => VotesAccounted
    BY ThreadsNatural DEF TypeInv, BallotsCounted, VotesAccounted
<1>3. QED
    BY <1>1, <1>2, NextCounts, TypeInvariance, ThreadsInPlace, PTL DEF Spec

(* Where calls are timely, electionLoop stops waiting once the last vote   *)
(* thread of the election has returned.                                    *)
THEOREM WaitsEnd == ASSUME Timely PROVE Spec => []WaitCanEnd
<1>1. Init => BallotsExact
    BY DEF Init, AtEveryPeer, BallotsExact
<1>2. TypeInv /\ ThreadsPlaced /\ BallotsExact /\ [Next]_vars => BallotsExact'
    BY NextExact
<1>3. TypeInv /\ BallotsExact => WaitCanEnd
    BY NumPeersPositive
    DEF BallotsExact, WaitCanEnd, AwaitingVotes, TypeInv, TypeOK, BallotTypes
<1>4. QED
    BY <1>1, <1>2, <1>3, TypeInvariance, ThreadsInPlace, PTL DEF Spec
-----------------------------------------------------------------------------
(* Rounds of appendEntries.                                                *)

(* The place of p among the others of n, in the order n calls them.        *)
Place(n, p) == IF p > n THEN p - 1 ELSE p

(* How many calls n makes before it calls p.                               *)
Before(n, p) ==
    LET ahead == Place(n, p) - Place(n, Callee(n)) IN
    IF ahead >= 0 THEN ahead ELSE ahead + (NumPeers - 1)

(* A node is in an election or in a round, not in both.                    *)
OneRound ==
    \A n \in Peer :
        /\ voteThreads[n] = 0 \/ sendThreads[n] = 0
        /\ sendSpawned[n] <= NumPeers - 1

(* A call under way is the only one to its callee...                       *)
OneRequest ==
    \A m \in DOMAIN appendReqs :
        /\ appendReqs[m] = 1
        /\ \A other \in DOMAIN appendReqs :
              other.from = m.from /\ other.to = m.to => other = m
OneReply ==
    \A r \in DOMAIN appendReplies :
        /\ appendReplies[r] = 1
        /\ \A other \in DOMAIN appendReplies :
              other.from = r.from /\ other.to = r.to => other = r
RequestOrReply ==
    \A m \in DOMAIN appendReqs : \A r \in DOMAIN appendReplies :
        ~(r.to = m.from /\ r.from = m.to)

(* ...and the threads that have not called come to other callees.          *)
RoundGoesOn ==
    /\ \A m \in DOMAIN appendReqs :
          m.from # m.to /\ sendSpawned[m.from] <= Before(m.from, m.to)
    /\ \A r \in DOMAIN appendReplies :
          r.from # r.to /\ sendSpawned[r.to] <= Before(r.to, r.from)

RoundInv == OneRound /\ OneRequest /\ OneReply /\ RequestOrReply /\ RoundGoesOn

(* A call added to a bag that does not have it is there once.              *)
LEMMA AddedOnce ==
    ASSUME NEW B, NEW x, x \notin DOMAIN B
    PROVE  /\ DOMAIN BagAdd(B, x) = DOMAIN B \cup {x}
           /\ BagAdd(B, x)[x] = 1
           /\ \A y \in DOMAIN B : BagAdd(B, x)[y] = B[y]
<1>1. BagAdd(B, x) = [e \in DOMAIN B \cup {x} |-> IF e = x THEN 1 ELSE B[e]]
    BY DEF BagAdd
<1>2. QED
    BY <1>1

(* A call that is in a bag once is gone when it is removed.                *)
LEMMA RemovedOnce ==
    ASSUME NEW B, NEW x \in DOMAIN B, B[x] = 1
    PROVE  /\ DOMAIN BagRemove(B, x) = DOMAIN B \ {x}
           /\ \A y \in DOMAIN B \ {x} : BagRemove(B, x)[y] = B[y]
<1>1. BagRemove(B, x) = [e \in DOMAIN B \ {x} |-> B[e]]
    BY DEF BagRemove
<1>2. QED
    BY <1>1

(* The others have their places, a place each.                             *)
LEMMA Places ==
    ASSUME NEW n \in Peer
    PROVE  /\ \A p \in Peer \ {n} : Place(n, p) \in 0..(NumPeers - 2)
           /\ \A p, q \in Peer \ {n} : Place(n, p) = Place(n, q) => p = q
BY NumPeersPositive DEF Place, Peer

(* The cursor comes to the next place, and to the first after the last.    *)
LEMMA NextPlace ==
    ASSUME TypeInv, NEW n \in Peer,
           voteSpawned[n] > 0 \/ sendSpawned[n] > 0, AdvanceCursor(n)
    PROVE  /\ NumPeers > 1 /\ Callee(n) \in Peer \ {n}
           /\ Callee(n)' \in Peer \ {n}
           /\ Place(n, Callee(n)') = IF Place(n, Callee(n)) = NumPeers - 2 THEN 0
                                     ELSE Place(n, Callee(n)) + 1
           /\ \A p \in Peer \ {n} : Callee(p)' = Callee(p)
<1>1. /\ NumPeers > 1 /\ NumPeers \in Nat /\ Callee(n) \in Peer \ {n}
      /\ Callee(n)' \in Peer \ {n}
    BY CursorAdvanced, NumPeersPositive DEF CalleeValid, TypeInv
<1>2. cur_peerId \in [Peer -> Peer]
    BY DEF TypeInv, TypeOK, ThreadTypes
<1>3. /\ cur_peerId'[n] =
             IF Wraps(n, Callee(n) + 1) THEN 0 ELSE Callee(n) + 1
      /\ \A p \in Peer \ {n} : cur_peerId'[p] = cur_peerId[p]
    BY <1>2 DEF AdvanceCursor
<1>4. Callee(n)' = IF cur_peerId'[n] = n THEN n + 1 ELSE cur_peerId'[n]
    BY <1>3 DEF Callee
<1>5. Place(n, Callee(n)') = IF Place(n, Callee(n)) = NumPeers - 2 THEN 0
                             ELSE Place(n, Callee(n)) + 1
    <2> DEFINE c == Callee(n)
               d == Callee(n)'
    <2>1. c \in 0..(NumPeers - 1) /\ c # n /\ n \in 0..(NumPeers - 1)
          /\ d \in 0..(NumPeers - 1) /\ d # n
        BY <1>1 DEF Peer
    <2>2. d = IF c + 1 = NumPeers \/ (c + 1 = NumPeers - 1 /\ c + 1 = n)
              THEN IF n = 0 THEN 1 ELSE 0
              ELSE IF c + 1 = n THEN c + 2 ELSE c + 1
        BY <1>3, <1>4, <2>1 DEF Wraps
    <2> HIDE DEF c, d
    <2>3. Place(n, d) = IF Place(n, c) = NumPeers - 2 THEN 0
                        ELSE Place(n, c) + 1
        BY <1>1, <2>1, <2>2 DEF Place
    <2>4. QED
        BY <2>3 DEF c, d
<1>6. \A p \in Peer \ {n} : Callee(p)' = Callee(p)
    BY <1>3 DEF Callee
<1>7. QED
    BY <1>1, <1>5, <1>6

(* Every call brings the others one nearer, and its callee comes last.     *)
LEMMA BeforeMoves ==
    ASSUME TypeInv, NEW n \in Peer,
           voteSpawned[n] > 0 \/ sendSpawned[n] > 0, AdvanceCursor(n)
    PROVE  /\ NumPeers > 1 /\ Callee(n) \in Peer \ {n}
           /\ \A p \in Peer \ {n} :
                 IF p = Callee(n)
                 THEN Before(n, p) = 0 /\ Before(n, p)' = NumPeers - 2
                 ELSE /\ Before(n, p) \in Nat \ {0}
                      /\ Before(n, p)' = Before(n, p) - 1
           /\ \A k \in Peer \ {n}, p \in Peer : Before(k, p)' = Before(k, p)
<1> DEFINE c == Callee(n)
           d == Callee(n)'
<1>1. /\ NumPeers > 1 /\ c \in Peer \ {n} /\ d \in Peer \ {n}
      /\ NumPeers \in Nat
      /\ Place(n, d) = IF Place(n, c) = NumPeers - 2 THEN 0
                       ELSE Place(n, c) + 1
      /\ \A p \in Peer \ {n} : Callee(p)' = Callee(p)
    BY NextPlace, NumPeersPositive
<1>2. \A p : /\ Before(n, p) = IF Place(n, p) - Place(n, c) >= 0
                                THEN Place(n, p) - Place(n, c)
                                ELSE Place(n, p) - Place(n, c) + (NumPeers - 1)
             /\ Before(n, p)' = IF Place(n, p) - Place(n, d) >= 0
                                THEN Place(n, p) - Place(n, d)
                                ELSE Place(n, p) - Place(n, d) + (NumPeers - 1)
    BY DEF Before, Place
<1>3. \A k \in Peer \ {n}, p \in Peer : Before(k, p)' = Before(k, p)
    BY <1>1 DEF Before
<1>4. NumPeers > 1 /\ Callee(n) \in Peer \ {n}
    BY <1>1
<1> HIDE DEF d
<1>5. ASSUME NEW p \in Peer \ {n}, p = c
      PROVE  Before(n, p) = 0 /\ Before(n, p)' = NumPeers - 2
    BY <1>1, <1>2, <1>5, Places
<1>6. ASSUME NEW p \in Peer \ {n}, p # c
      PROVE  /\ Before(n, p) \in Nat \ {0}
             /\ Before(n, p)' = Before(n, p) - 1
    BY <1>1, <1>2, <1>6, Places
<1>7. QED
    BY <1>3, <1>4, <1>5, <1>6

(* A thread waits for every call under way.                                *)
LEMMA CallersWait ==
    ASSUME TypeOK, ThreadsPlaced
    PROVE  /\ \A m \in DOMAIN appendReqs :
                 m.from \in Peer /\ m.to \in Peer /\ sendThreads[m.from] > 0
           /\ \A r \in DOMAIN appendReplies :
                 r.from \in Peer /\ r.to \in Peer /\ sendThreads[r.to] > 0
           /\ \A r \in DOMAIN voteReplies :
                 r.to \in Peer /\ voteThreads[r.to] > 0
<1>1. VoteThreadsPlaced /\ SendThreadsPlaced
    BY DEF ThreadsPlaced
<1>2. ASSUME NEW m \in DOMAIN appendReqs
      PROVE  m.from \in Peer /\ m.to \in Peer /\ sendThreads[m.from] > 0
    <2>1. m \in AppendArgs /\ m.from \in Peer /\ m.to \in Peer
        BY DEF TypeOK, CallTypes, AppendArgs
    <2>2. m \in EntriesFrom(m.from)
        BY <2>1 DEF EntriesFrom
    <2>3. Count(appendReqs, EntriesFrom(m.from)) >= 1
        BY <1>1, <2>2, CountPositive DEF SendThreadsPlaced
    <2>4. QED
        BY <1>1, <2>1, <2>3, SendPlacesNatural
<1>3. ASSUME NEW r \in DOMAIN appendReplies
      PROVE  r.from \in Peer /\ r.to \in Peer /\ sendThreads[r.to] > 0
    <2>1. r \in AppendAnswer /\ r.from \in Peer /\ r.to \in Peer
        BY DEF TypeOK, CallTypes, AppendAnswer
    <2>2. r \in RepliesTo(r.to)
        BY <2>1 DEF RepliesTo
    <2>3. Count(appendReplies, RepliesTo(r.to)) >= 1
        BY <1>1, <2>2, CountPositive DEF SendThreadsPlaced
    <2>4. QED
        BY <1>1, <2>1, <2>3, SendPlacesNatural
<1>4. ASSUME NEW r \in DOMAIN voteReplies
      PROVE  r.to \in Peer /\ voteThreads[r.to] > 0
    <2>1. r \in VoteAnswer /\ r.to \in Peer
        BY DEF TypeOK, CallTypes, VoteAnswer
    <2>2. r \in VotesTo(r.to)
        BY <2>1 DEF VotesTo
    <2>3. Count(voteReplies, VotesTo(r.to)) >= 1
        BY <1>1, <2>2, CountPositive DEF VoteThreadsPlaced
    <2>4. QED
        BY <1>1, <2>1, <2>3, VotePlacesNatural
<1>5. QED
    BY <1>2, <1>3, <1>4

(* A spawned thread calls the node its cursor has come to.                 *)
LEMMA SendEntriesRound ==
    ASSUME TypeInv, RoundInv, NEW n \in Peer, SendEntries(n)
    PROVE  RoundInv'
<1>1. PICK req \in AppendArgs :
        /\ req.from = n /\ req.to = Callee(n)
        /\ appendReqs' = BagAdd(appendReqs, req)
    BY EntriesSent
<1>2. /\ sendSpawned[n] > 0 /\ AdvanceCursor(n)
      /\ sendSpawned' = [sendSpawned EXCEPT ![n] = @ - 1]
      /\ UNCHANGED <<voteThreads, sendThreads, appendReplies>>
    BY DEF SendEntries
<1>3. /\ sendSpawned \in [Peer -> Nat]
      /\ DOMAIN appendReqs \subseteq AppendArgs
      /\ DOMAIN appendReplies \subseteq AppendAnswer
    BY DEF TypeInv, TypeOK, ThreadTypes, CallTypes
<1>4. /\ NumPeers > 1 /\ NumPeers \in Nat /\ Callee(n) \in Peer \ {n}
      /\ \A p \in Peer \ {n} :
            IF p = Callee(n)
            THEN Before(n, p) = 0 /\ Before(n, p)' = NumPeers - 2
            ELSE /\ Before(n, p) \in Nat \ {0}
                 /\ Before(n, p)' = Before(n, p) - 1
      /\ \A k \in Peer \ {n}, p \in Peer : Before(k, p)' = Before(k, p)
    BY <1>2, BeforeMoves, NumPeersPositive
<1>5. /\ sendSpawned'[n] = sendSpawned[n] - 1
      /\ \A k \in Peer \ {n} : sendSpawned'[k] = sendSpawned[k]
    BY <1>2, <1>3
<1>6. /\ \A m \in DOMAIN appendReqs :
            /\ m.from \in Peer /\ m.to \in Peer
            /\ ~(m.from = n /\ m.to = Callee(n))
      /\ \A r \in DOMAIN appendReplies :
            /\ r.from \in Peer /\ r.to \in Peer
            /\ ~(r.to = n /\ r.from = Callee(n))
    <2>1. Before(n, Callee(n)) = 0
        BY <1>4
    <2>2. sendSpawned[n] \in Nat
        BY <1>3
    <2>3. ASSUME NEW m \in DOMAIN appendReqs
          PROVE  /\ m.from \in Peer /\ m.to \in Peer
                 /\ ~(m.from = n /\ m.to = Callee(n))
        <3>1. m.from \in Peer /\ m.to \in Peer
            BY <1>3 DEF AppendArgs
        <3>2. QED
            BY <1>2, <2>1, <2>2, <3>1 DEF RoundInv, RoundGoesOn
    <2>4. ASSUME NEW r \in DOMAIN appendReplies
          PROVE  /\ r.from \in Peer /\ r.to \in Peer
                 /\ ~(r.to = n /\ r.from = Callee(n))
        <3>1. r.from \in Peer /\ r.to \in Peer
            BY <1>3 DEF AppendAnswer
        <3>2. QED
            BY <1>2, <2>1, <2>2, <3>1 DEF RoundInv, RoundGoesOn
    <2>5. QED
        BY <2>3, <2>4
<1>7. req \notin DOMAIN appendReqs
    BY <1>1, <1>6
<1>8. /\ DOMAIN appendReqs' = DOMAIN appendReqs \cup {req}
      /\ appendReqs'[req] = 1
      /\ \A m \in DOMAIN appendReqs : appendReqs'[m] = appendReqs[m]
    BY <1>1, <1>7, AddedOnce
<1>9. OneRound'
    BY <1>2, <1>3, <1>4, <1>5 DEF RoundInv, OneRound
<1>10. OneRequest'
    BY <1>1, <1>6, <1>8 DEF RoundInv, OneRequest
<1>11. OneReply' /\ RequestOrReply'
    BY <1>1, <1>2, <1>6, <1>8 DEF RoundInv, OneReply, RequestOrReply
<1>12. RoundGoesOn'
    <2>1. ASSUME NEW k \in Peer, NEW p \in Peer, k # p,
                 ~(k = n /\ p = Callee(n)), sendSpawned[k] <= Before(k, p)
          PROVE  sendSpawned'[k] <= Before(k, p)'
        BY <1>3, <1>4, <1>5, <2>1
    <2>2. sendSpawned'[n] <= Before(n, req.to)'
        BY <1>1, <1>3, <1>4, <1>5 DEF RoundInv, OneRound
    <2>3. ASSUME NEW m \in DOMAIN appendReqs'
          PROVE  m.from # m.to /\ sendSpawned'[m.from] <= Before(m.from, m.to)'
        BY <1>1, <1>4, <1>6, <1>8, <2>1, <2>2, <2>3 DEF RoundInv, RoundGoesOn
    <2>4. ASSUME NEW r \in DOMAIN appendReplies
          PROVE  r.from # r.to /\ sendSpawned'[r.to] <= Before(r.to, r.from)'
        BY <1>6, <2>1, <2>4 DEF RoundInv, RoundGoesOn
    <2>5. QED
        BY <1>2, <2>3, <2>4 DEF RoundGoesOn
<1>13. QED
    BY <1>9, <1>10, <1>11, <1>12 DEF RoundInv

(* An answer takes the place of its call.                                  *)
LEMMA AnswerRound ==
    ASSUME TypeInv, RoundInv, NEW m \in DOMAIN appendReqs,
           NEW reply \in AppendAnswer, Reply(m, reply), reply.to = m.from,
           reply.from = m.to, UNCHANGED <<cur_peerId, voteThreads>>
    PROVE  RoundInv'
<1>1. /\ appendReqs' = BagRemove(appendReqs, m)
      /\ appendReplies' = BagAdd(appendReplies, reply)
      /\ UNCHANGED <<sendSpawned, sendThreads>>
    BY DEF Reply
<1>2. appendReqs[m] = 1 /\ \A r \in DOMAIN appendReplies :
                             ~(r.to = m.from /\ r.from = m.to)
    BY DEF RoundInv, OneRequest, RequestOrReply
<1>3. /\ DOMAIN appendReqs' = DOMAIN appendReqs \ {m}
      /\ \A o \in DOMAIN appendReqs \ {m} : appendReqs'[o] = appendReqs[o]
    BY <1>1, <1>2, RemovedOnce
<1>4. /\ DOMAIN appendReplies' = DOMAIN appendReplies \cup {reply}
      /\ appendReplies'[reply] = 1
      /\ \A r \in DOMAIN appendReplies : appendReplies'[r] = appendReplies[r]
    <2>1. reply \notin DOMAIN appendReplies
        BY <1>2
    <2>2. appendReplies' = [e \in DOMAIN appendReplies \cup {reply} |->
                               IF e = reply THEN 1 ELSE appendReplies[e]]
        BY <1>1, <2>1 DEF BagAdd
    <2>3. QED
        BY <2>1, <2>2
<1>5. \A k, p : Before(k, p)' = Before(k, p)
    BY DEF Before, Place, Callee
<1>6. OneRound' /\ OneRequest'
    BY <1>1, <1>3 DEF RoundInv, OneRound, OneRequest
<1>7. OneReply'
    BY <1>2, <1>4 DEF RoundInv, OneReply
<1>8. RequestOrReply'
    BY <1>3, <1>4 DEF RoundInv, OneRequest, RequestOrReply
<1>9. RoundGoesOn'
    BY <1>1, <1>3, <1>4, <1>5 DEF RoundInv, RoundGoesOn
<1>10. QED
    BY <1>6, <1>7, <1>8, <1>9 DEF RoundInv

(* A thread returns.                                                       *)
LEMMA HandleReplyRound ==
    ASSUME TypeInv, ThreadsPlaced, RoundInv, NEW r \in DOMAIN appendReplies,
           HandleReply(r), UNCHANGED <<cur_peerId, voteThreads>>
    PROVE  RoundInv'
<1>1. /\ appendReplies' = BagRemove(appendReplies, r)
      /\ sendThreads' = [sendThreads EXCEPT ![r.to] = @ - 1]
      /\ UNCHANGED <<sendSpawned, appendReqs>>
    BY DEF HandleReply
<1>2. /\ DOMAIN appendReplies' = DOMAIN appendReplies \ {r}
      /\ \A o \in DOMAIN appendReplies \ {r} :
            appendReplies'[o] = appendReplies[o]
    BY <1>1, RemovedOnce DEF RoundInv, OneReply
<1>3. r.to \in Peer /\ sendThreads[r.to] > 0 /\ sendThreads \in [Peer -> Int]
    BY CallersWait DEF TypeInv, TypeOK, ThreadTypes
<1>4. OneRound'
    BY <1>1, <1>3 DEF RoundInv, OneRound
<1>5. \A k, p : Before(k, p)' = Before(k, p)
    BY DEF Before, Place, Callee
<1>6. OneRequest' /\ OneReply' /\ RequestOrReply' /\ RoundGoesOn'
    BY <1>1, <1>2, <1>5
    DEF RoundInv, OneRequest, OneReply, RequestOrReply, RoundGoesOn
<1>7. QED
    BY <1>4, <1>6 DEF RoundInv

(* A node with no thread out has no call under way.                        *)
LEMMA BroadcastRound ==
    ASSUME Timely, TypeInv, ThreadsPlaced, RoundInv, NEW n \in Peer,
           Broadcast(n)
    PROVE  RoundInv'
<1>1. /\ sendSpawned' = [sendSpawned EXCEPT ![n] = @ + (NumPeers - 1)]
      /\ sendThreads' = [sendThreads EXCEPT ![n] = @ + (NumPeers - 1)]
      /\ MaySpawn(n)
      /\ UNCHANGED <<voteThreads, cur_peerId, appendReqs, appendReplies>>
    BY DEF Broadcast
<1>2. /\ \A p \in Peer : /\ voteThreads[p] \in Nat /\ sendThreads[p] \in Nat
                         /\ sendSpawned[p] \in Nat
                         /\ sendSpawned[p] <= sendThreads[p]
      /\ NumPeers \in Nat
    BY ThreadsNatural, NumPeersPositive DEF TypeInv
<1>3. voteThreads[n] = 0 /\ sendThreads[n] = 0 /\ sendSpawned[n] = 0
    BY <1>1, <1>2, BoundsAssumption DEF MaySpawn, Timely
<1>4. /\ \A m \in DOMAIN appendReqs : m.from \in Peer /\ m.from # n
      /\ \A r \in DOMAIN appendReplies : r.to \in Peer /\ r.to # n
    BY <1>3, CallersWait DEF TypeInv
<1>5. /\ sendSpawned \in [Peer -> Nat] /\ sendThreads \in [Peer -> Int]
      /\ sendSpawned'[n] = NumPeers - 1
      /\ \A p \in Peer \ {n} : /\ sendSpawned'[p] = sendSpawned[p]
                               /\ sendThreads'[p] = sendThreads[p]
    BY <1>1, <1>2, <1>3 DEF TypeInv, TypeOK, ThreadTypes
<1>6. OneRound'
    BY <1>1, <1>2, <1>3, <1>5 DEF RoundInv, OneRound
<1>7. \A k, p : Before(k, p)' = Before(k, p)
    BY <1>1 DEF Before, Place, Callee
<1>8. OneRequest' /\ OneReply' /\ RequestOrReply' /\ RoundGoesOn'
    BY <1>1, <1>4, <1>5, <1>7
    DEF RoundInv, OneRequest, OneReply, RequestOrReply, RoundGoesOn
<1>9. QED
    BY <1>6, <1>8 DEF RoundInv

(* A step of an election moves the cursor of a node that is in no round.   *)
LEMMA ElectionRound ==
    ASSUME Timely, TypeInv, ThreadsPlaced, RoundInv, NEW n \in Peer,
           StartElection(n) \/ SendVoteRequest(n)
    PROVE  RoundInv'
<1>1. UNCHANGED appendNet
    BY DEF StartElection, SendVoteRequest
<1>2. \A p \in Peer : /\ voteThreads[p] \in Nat /\ sendThreads[p] \in Nat
                      /\ sendSpawned[p] \in Nat
                      /\ sendSpawned[p] <= sendThreads[p]
                      /\ voteSpawned[p] <= voteThreads[p]
                      /\ voteSpawned[p] \in Nat
    BY ThreadsNatural DEF TypeInv
<1>3. sendThreads[n] = 0
    <2>1. CASE StartElection(n)
        BY <2>1, StartElectionCounts DEF TypeInv
    <2>2. CASE SendVoteRequest(n)
        BY <1>2, <2>2 DEF SendVoteRequest, RoundInv, OneRound
    <2>3. QED
        BY <2>1, <2>2
<1>4. /\ \A m \in DOMAIN appendReqs : m.from \in Peer /\ m.from # n
      /\ \A r \in DOMAIN appendReplies : r.to \in Peer /\ r.to # n
    BY <1>3, CallersWait DEF TypeInv
<1>5. /\ \A p \in Peer \ {n} : /\ cur_peerId'[p] = cur_peerId[p]
                               /\ voteThreads'[p] = voteThreads[p]
    BY DEF StartElection, SendVoteRequest, AdvanceCursor, TypeInv, TypeOK,
           ThreadTypes
<1>6. \A k \in Peer \ {n} : \A p : Before(k, p)' = Before(k, p)
    BY <1>5 DEF Before, Place, Callee
<1>7. OneRound'
    BY <1>1, <1>3, <1>5 DEF RoundInv, OneRound
<1>8. OneRequest' /\ OneReply' /\ RequestOrReply' /\ RoundGoesOn'
    BY <1>1, <1>4, <1>6
    DEF RoundInv, OneRequest, OneReply, RequestOrReply, RoundGoesOn
<1>9. QED
    BY <1>7, <1>8 DEF RoundInv

(* Where calls are timely every step leaves at most one call to each.      *)
LEMMA NextRound ==
    ASSUME Timely, TypeInv, ThreadsPlaced, RoundInv, [Next]_vars
    PROVE  RoundInv'
<1>1. ASSUME UNCHANGED <<appendNet, cur_peerId, voteThreads>> PROVE RoundInv'
    BY <1>1 DEF RoundInv, OneRound, OneRequest, OneReply, RequestOrReply,
                RoundGoesOn, Before, Place, Callee
<1>2. ASSUME NEW n \in Peer, ElectionStep(n) \/ VoteServerStep(n)
      PROVE  RoundInv'
    <2>1. CASE LoseElection(n) \/ LeaveDeposed(n) \/ FinishElection(n)
                  \/ VoteServerStep(n)
        BY <1>1, <2>1
        DEF LoseElection, LeaveDeposed, FinishElection, VoteServerStep,
            RejectVote, RefuseVote, ConsiderVote, checkLogUptodate, GrantVote
    <2>2. QED
        BY <1>2, <2>1, ElectionRound DEF ElectionStep
<1>3. ASSUME NEW n \in Peer, AppendStep(n) PROVE RoundInv'
    <2>1. CASE start(n) \/ ApplyLog(n)
        BY <1>1, <2>1 DEF start, ApplyLog
    <2>2. ASSUME NEW m \in DOMAIN appendReqs, HandleAppend(m)
          PROVE  RoundInv'
        <3>1. UNCHANGED <<cur_peerId, voteThreads>>
            BY <2>2 DEF HandleAppend, RejectEntries, ReportShortLog,
                        ReportConflict, AcceptEntries
        <3>2. QED
            BY <2>2, <3>1, AppendAnswered, AnswerRound
    <2>3. ASSUME NEW r \in DOMAIN appendReplies, HandleAppendReply(r)
          PROVE  RoundInv'
        <3>1. HandleReply(r) /\ UNCHANGED <<cur_peerId, voteThreads>>
            BY <2>3 DEF HandleAppendReply, StepDown, HandleSuccess,
                        HandleFailure
        <3>2. QED
            BY <3>1, HandleReplyRound
    <2>4. QED
        BY <1>3, <2>1, <2>2, <2>3, SendEntriesRound, BroadcastRound
        DEF AppendStep
<1>4. ASSUME NEW r \in DOMAIN voteReplies, HandleVoteReply(r) PROVE RoundInv'
    <2>1. r.to \in Peer /\ voteThreads[r.to] > 0
        BY CallersWait DEF TypeInv
    <2>2. voteThreads' = [voteThreads EXCEPT ![r.to] = @ - 1]
          /\ UNCHANGED <<appendNet, cur_peerId>>
        BY <1>4 DEF HandleVoteReply
    <2>3. voteThreads \in [Peer -> Int]
        BY DEF TypeInv, TypeOK, ThreadTypes
    <2>4. OneRound'
        BY <2>1, <2>2, <2>3 DEF RoundInv, OneRound
    <2>5. OneRequest' /\ OneReply' /\ RequestOrReply' /\ RoundGoesOn'
        BY <2>2 DEF RoundInv, OneRequest, OneReply, RequestOrReply,
                    RoundGoesOn, Before, Place, Callee
    <2>6. QED
        BY <2>4, <2>5 DEF RoundInv
<1>5. CASE ProcessStep
    <2>1. ASSUME NEW n, NEW loop, SeeLeader(n) \/ kill \/ ExitLoop(n, loop)
          PROVE  RoundInv'
        BY <1>1, <2>1 DEF SeeLeader, kill, ExitLoop
    <2>2. ASSUME NEW disk, RestartFrom(disk) PROVE RoundInv'
        BY <2>2, EmptyBagDomain, NumPeersPositive
        DEF RestartFrom, AtEveryPeer, RoundInv, OneRound, OneRequest,
            OneReply, RequestOrReply, RoundGoesOn
    <2>3. QED
        BY <1>5, <2>1, <2>2 DEF ProcessStep, Restart, RestartBetweenSaves
<1>6. CASE UNCHANGED vars
    BY <1>1, <1>6
<1>7. QED
    BY <1>2, <1>3, <1>4, <1>5, <1>6 DEF Next

(* The calls that RoundInv speaks of are the calls of OneCallToEach.       *)
LEMMA RoundCalls ==
    ASSUME TypeOK, RoundInv PROVE OneCallToEach
<1>1. ASSUME NEW n, NEW p PROVE Cardinality(CallsTo(n, p)) <= 1
    <2> DEFINE S == CallsTo(n, p)
    <2>1. \A x, y \in S : x = y
        BY DEF CallsTo, RoundInv, OneRequest, OneReply, RequestOrReply
    <2> HIDE DEF S
    <2>2. CASE S = {}
        BY <2>2, FS_EmptySet DEF S
    <2>3. CASE S # {}
        <3>1. PICK x \in S : S = {x}
            BY <2>1, <2>3
        <3>2. Cardinality(S) = 1
            BY <3>1, FS_Singleton
        <3>3. QED
            BY <3>2 DEF S
    <2>4. QED
        BY <2>2, <2>3
<1>2. QED
    BY <1>1 DEF OneCallToEach, RoundInv, OneRequest, OneReply

(* Where calls are timely the invariant of the rounds always holds.        *)
LEMMA RoundsGoOn == ASSUME Timely PROVE Spec => []RoundInv
<1>1. Init => RoundInv
    BY EmptyBagDomain, NumPeersPositive
    DEF Init, AtEveryPeer, RoundInv, OneRound, OneRequest, OneReply,
        RequestOrReply, RoundGoesOn
<1>2. TypeInv /\ ThreadsPlaced /\ RoundInv /\ [Next]_vars => RoundInv'
    BY NextRound
<1>3. QED
    BY <1>1, <1>2, TypeInvariance, ThreadsInPlace, PTL DEF Spec

(* Where calls are timely the threads of a round, each taking its callee   *)
(* from the cursor it finds, call every other node once: no two calls are  *)
(* under way from one node to another.                                     *)
THEOREM CallsToEach == ASSUME Timely PROVE Spec => []OneCallToEach
<1>1. TypeInv /\ RoundInv => OneCallToEach
    BY RoundCalls DEF TypeInv
<1>2. QED
    BY <1>1, RoundsGoOn, TypeInvariance, PTL
=============================================================================

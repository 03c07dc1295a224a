----------------------------- MODULE RaftProofs -----------------------------
(***************************************************************************)
(* Proofs about the cluster, for every number of nodes and every bound:    *)
(* the types with the shared cursor, the terms of the logs on disk, and    *)
(* the action properties that follow from them.                            *)
(***************************************************************************)
EXTENDS RaftProperties, SequenceTheorems, TLAPS

(* The tuples of variables are only abbreviations.                         *)
USE DEF termVars, leaderVars, commitVars, ballotVars, voteNet, appendNet,
        mainVars, processVars, vars
-----------------------------------------------------------------------------
(* The operators the model is built from.                                  *)

(* A cluster has a node 0.                                                 *)
LEMMA NumPeersPositive == NumPeers \in Nat /\ NumPeers >= 1 /\ 0 \in Peer
BY NumPeersAssumption DEF Peer

(* Calls and replies in flight stay well formed where a well formed one is *)
(* added or one is removed.                                                *)
LEMMA AddedToBag ==
    ASSUME NEW S, NEW B, DOMAIN B \subseteq S, NEW x \in S
    PROVE  DOMAIN BagAdd(B, x) \subseteq S
BY DEF BagAdd

(* Removing from a bag adds no element.                                    *)
LEMMA RemovedFromBag ==
    ASSUME NEW S, NEW B, DOMAIN B \subseteq S, NEW x
    PROVE  DOMAIN BagRemove(B, x) \subseteq S
BY DEF BagRemove

(* The empty bag has no element.                                           *)
LEMMA EmptyBagDomain == DOMAIN EmptyBag = {}
BY DEF EmptyBag, SetToBag

(* The front and the tail of a log are logs, the tail of one that is too   *)
(* short included.                                                         *)
LEMMA TailTyped ==
    ASSUME NEW S, NEW log \in Seq(S), NEW i \in Nat \ {0}
    PROVE  SubSeq(log, i, Len(log)) \in Seq(S)
<1>1. CASE i <= Len(log)
    BY <1>1, SubSeqProperties, LenProperties
<1>2. CASE i > Len(log)
    BY <1>2, SubSeqProperties, LenProperties
<1>3. QED
    BY <1>1, <1>2, LenProperties

(* The first entries of a log are a log.                                   *)
LEMMA FrontTyped ==
    ASSUME NEW S, NEW log \in Seq(S), NEW i \in 0..Len(log)
    PROVE  SubSeq(log, 1, i) \in Seq(S)
BY SubSeqProperties, LenProperties

(* What serialize() leaves on disk is a term, a vote and a log.            *)
LEMMA WrittenSaved ==
    ASSUME NEW old \in Saved, NEW term \in Nat, NEW vote \in Peer \cup {None},
           NEW log \in Seq(Entry)
    PROVE  Written(old, term, vote, log) \in Saved
<1>1. old.logs \in Seq(Entry)
    BY DEF Saved
<1>2. SubSeq(old.logs, Len(log) + 1, Len(old.logs)) \in Seq(Entry)
    BY <1>1, TailTyped, LenProperties
<1>3. log \o SubSeq(old.logs, Len(log) + 1, Len(old.logs)) \in Seq(Entry)
    BY <1>2, ConcatProperties
<1>4. QED
    BY <1>3 DEF Written, Saved

(* The last term of a log is a term.                                       *)
LEMMA LastTermTyped ==
    ASSUME NEW log \in Seq(Entry) PROVE LastTerm(log) \in Nat
<1>1. CASE log = <<>>
    BY <1>1 DEF LastTerm
<1>2. CASE log # <<>>
    <2>1. Len(log) \in 1..Len(log)
        BY <1>2, EmptySeq, LenProperties
    <2>2. log[Len(log)] \in Entry
        BY <2>1, ElementOfSeq
    <2>3. QED
        BY <1>2, <2>2 DEF LastTerm, Entry
<1>3. QED
    BY <1>1, <1>2
-----------------------------------------------------------------------------
(* Types.  A thread takes its callee from the cursor, so that the calls in *)
(* flight are well formed because the cursor never leads past the end; a   *)
(* cluster of one node has nobody to call.                                 *)
LoneNodeSilent ==
    NumPeers = 1 => \A n \in Peer : voteSpawned[n] = 0 /\ sendSpawned[n] = 0

TypeInv == TypeOK /\ CalleeValid /\ LoneNodeSilent

(* The cursor stays valid where no thread is spawned or moves it.          *)
LEMMA CursorLeftAlone ==
    ASSUME TypeInv, UNCHANGED <<cur_peerId, voteSpawned, sendSpawned>>
    PROVE  CalleeValid' /\ LoneNodeSilent'
BY DEF TypeInv, CalleeValid, Callee, LoneNodeSilent

(* A thread that calls moves the cursor on to a node that can be called.   *)
LEMMA CursorAdvanced ==
    ASSUME TypeInv, NEW n \in Peer,
           voteSpawned[n] > 0 \/ sendSpawned[n] > 0, AdvanceCursor(n)
    PROVE  /\ NumPeers > 1 /\ Callee(n) \in Peer
           /\ cur_peerId' \in [Peer -> Peer]
           /\ CalleeValid'
<1>1. cur_peerId \in [Peer -> Peer] /\ voteSpawned \in [Peer -> Nat]
      /\ sendSpawned \in [Peer -> Nat]
    BY DEF TypeInv, TypeOK, ThreadTypes
<1>2. NumPeers > 1
    BY <1>1, NumPeersPositive DEF TypeInv, LoneNodeSilent
<1>3. NumPeers # 2
    BY NumPeersAssumption
<1>4. Callee(n) \in Peer \ {n}
    BY <1>2 DEF TypeInv, CalleeValid
<1> DEFINE next == IF Wraps(n, Callee(n) + 1) THEN 0 ELSE Callee(n) + 1
<1>5. next \in Peer /\ (next = n => next + 1 \in Peer)
    BY <1>2, <1>3, <1>4, NumPeersPositive DEF Wraps, Peer
<1>6. cur_peerId' = [cur_peerId EXCEPT ![n] = next]
    BY DEF AdvanceCursor
<1>7. \A p \in Peer : p # n => cur_peerId'[p] = cur_peerId[p]
    BY <1>1, <1>6
<1>8. cur_peerId'[n] = next
    BY <1>1, <1>6
<1>9. Callee(n)' \in Peer \ {n}
    BY <1>5, <1>8, NumPeersPositive DEF Callee, Peer
<1>10. ASSUME NEW p \in Peer, p # n PROVE Callee(p)' \in Peer \ {p}
    BY <1>2, <1>7, <1>10 DEF TypeInv, CalleeValid, Callee
<1>11. QED
    BY <1>1, <1>2, <1>4, <1>5, <1>6, <1>9, <1>10 DEF CalleeValid

(* StartElection keeps TypeInv.                                            *)
LEMMA StartElectionTypes ==
    ASSUME TypeInv, NEW n \in Peer, StartElection(n) PROVE TypeInv'
<1> USE DEF TypeInv, TypeOK
<1>1. TermTypes'
    BY DEF TermTypes, StartElection
<1>2. LogTypes'
    <2>1. Written(file[n], m_curTerm[n] + 1, n, m_logs[n]) \in Saved
        BY WrittenSaved DEF LogTypes, TermTypes
    <2>2. QED
        BY <2>1 DEF LogTypes, StartElection, saveRaftState
<1>3. BallotTypes'
    BY DEF BallotTypes, StartElection
<1>4. ThreadTypes'
    <2>1. /\ voteSpawned[n] + (NumPeers - 1) \in Nat
          /\ voteThreads[n] + (NumPeers - 1) \in Int
        BY NumPeersPositive DEF ThreadTypes
    <2>2. QED
        BY <2>1, NumPeersPositive DEF ThreadTypes, StartElection
<1>5. LoneNodeSilent'
    BY DEF LoneNodeSilent, ThreadTypes, StartElection
<1>6. CalleeValid'
    <2>1. ASSUME NumPeers > 1, NEW p \in Peer PROVE Callee(p)' \in Peer \ {p}
        <3>1. CASE p = n
            BY <2>1, <3>1, NumPeersPositive
            DEF Callee, StartElection, ThreadTypes, Peer
        <3>2. CASE p # n
            BY <2>1, <3>2 DEF CalleeValid, Callee, StartElection, ThreadTypes
        <3>3. QED
            BY <3>1, <3>2
    <2>2. QED
        BY <2>1 DEF CalleeValid
<1>7. IndexTypes' /\ CallTypes' /\ ProcessTypes'
    BY DEF IndexTypes, CallTypes, ProcessTypes, StartElection
<1>8. QED
    BY <1>1, <1>2, <1>3, <1>4, <1>5, <1>6, <1>7

(* LoseElection keeps TypeInv.                                             *)
LEMMA LoseElectionTypes ==
    ASSUME TypeInv, NEW n \in Peer, LoseElection(n) PROVE TypeInv'
<1> USE DEF TypeInv, TypeOK
<1>1. BallotTypes'
    BY DEF BallotTypes, LoseElection
<1>2. CalleeValid' /\ LoneNodeSilent'
    BY CursorLeftAlone DEF LoseElection
<1>3. /\ TermTypes' /\ LogTypes' /\ IndexTypes' /\ ThreadTypes'
      /\ CallTypes' /\ ProcessTypes'
    BY DEF TermTypes, LogTypes, IndexTypes, ThreadTypes, CallTypes,
           ProcessTypes, LoseElection
<1>4. QED
    BY <1>1, <1>2, <1>3

(* LeaveDeposed keeps TypeInv.                                             *)
LEMMA LeaveDeposedTypes ==
    ASSUME TypeInv, NEW n \in Peer, LeaveDeposed(n) PROVE TypeInv'
<1> USE DEF TypeInv, TypeOK
<1>1. BallotTypes'
    BY DEF BallotTypes, LeaveDeposed
<1>2. ProcessTypes'
    BY DEF ProcessTypes, LeaveDeposed, LoopsAfter
<1>3. CalleeValid' /\ LoneNodeSilent'
    BY CursorLeftAlone DEF LeaveDeposed
<1>4. TermTypes' /\ LogTypes' /\ IndexTypes' /\ ThreadTypes' /\ CallTypes'
    BY DEF TermTypes, LogTypes, IndexTypes, ThreadTypes, CallTypes,
           LeaveDeposed
<1>5. QED
    BY <1>1, <1>2, <1>3, <1>4

(* FinishElection keeps TypeInv.                                           *)
LEMMA FinishElectionTypes ==
    ASSUME TypeInv, NEW n \in Peer, FinishElection(n) PROVE TypeInv'
<1> USE DEF TypeInv, TypeOK
<1>1. TermTypes'
    BY DEF TermTypes, FinishElection
<1>2. IndexTypes'
    <2>1. /\ AtEveryPeer(Len(m_logs[n]) + 1) \in [Peer -> Int]
          /\ AtEveryPeer(0) \in [Peer -> Int]
        BY LenProperties DEF LogTypes, AtEveryPeer
    <2>2. CASE Majority(recvVotes[n])
        BY <2>1, <2>2 DEF IndexTypes, FinishElection
    <2>3. CASE ~Majority(recvVotes[n])
        BY <2>3 DEF IndexTypes, FinishElection
    <2>4. QED
        BY <2>2, <2>3
<1>3. BallotTypes'
    BY DEF BallotTypes, FinishElection
<1>4. ProcessTypes'
    BY DEF ProcessTypes, FinishElection, LoopsAfter
<1>5. CalleeValid' /\ LoneNodeSilent'
    BY CursorLeftAlone DEF FinishElection
<1>6. LogTypes' /\ ThreadTypes' /\ CallTypes'
    BY DEF LogTypes, ThreadTypes, CallTypes, FinishElection
<1>7. QED
    BY <1>1, <1>2, <1>3, <1>4, <1>5, <1>6

(* SendVoteRequest keeps TypeInv.                                          *)
LEMMA SendVoteRequestTypes ==
    ASSUME TypeInv, NEW n \in Peer, SendVoteRequest(n) PROVE TypeInv'
<1> USE DEF TypeInv, TypeOK
<1>1. /\ NumPeers > 1 /\ Callee(n) \in Peer
      /\ cur_peerId' \in [Peer -> Peer] /\ CalleeValid'
    BY CursorAdvanced DEF SendVoteRequest
<1>2. ThreadTypes'
    <2>1. voteSpawned[n] - 1 \in Nat
        BY DEF ThreadTypes, SendVoteRequest
    <2>2. QED
        BY <1>1, <2>1 DEF ThreadTypes, SendVoteRequest
<1>3. LoneNodeSilent'
    BY <1>1, NumPeersPositive DEF LoneNodeSilent
<1>4. CallTypes'
    <2> DEFINE req == [from |-> n, to |-> Callee(n), term |-> m_curTerm[n],
                       lastLogTerm |-> LastTerm(m_logs[n]),
                       lastLogIndex |-> Len(m_logs[n])]
    <2>1. req \in VoteArgs
        BY <1>1, LastTermTyped, LenProperties
        DEF TermTypes, LogTypes, VoteArgs
    <2>2. voteReqs' = BagAdd(voteReqs, req)
        BY DEF SendVoteRequest
    <2> HIDE DEF req
    <2>3. DOMAIN voteReqs' \subseteq VoteArgs
        BY <2>1, <2>2, AddedToBag DEF CallTypes
    <2>4. QED
        BY <2>3 DEF CallTypes, SendVoteRequest
<1>5. /\ TermTypes' /\ LogTypes' /\ IndexTypes' /\ BallotTypes'
      /\ ProcessTypes'
    BY DEF TermTypes, LogTypes, IndexTypes, BallotTypes, ProcessTypes,
           SendVoteRequest
<1>6. QED
    BY <1>1, <1>2, <1>3, <1>4, <1>5

(* The reply requestVote gives to a call is well formed.                   *)
LEMMA VoteReplyTyped ==
    ASSUME NEW m \in VoteArgs, NEW term \in Nat, NEW granted \in BOOLEAN
    PROVE  VoteReply(m, term, granted) \in VoteAnswer
BY DEF VoteArgs, VoteReply, VoteAnswer

(* RejectVote keeps TypeInv.                                               *)
LEMMA RejectVoteTypes ==
    ASSUME TypeInv, NEW m \in DOMAIN voteReqs, RejectVote(m) PROVE TypeInv'
<1> USE DEF TypeInv, TypeOK
<1>1. m \in VoteArgs /\ m.to \in Peer
    BY DEF CallTypes, VoteArgs
<1>2. CallTypes'
    <2>1. VoteReply(m, m_curTerm[m.to], FALSE) \in VoteAnswer
        BY <1>1, VoteReplyTyped DEF TermTypes
    <2>2. /\ DOMAIN voteReqs' \subseteq VoteArgs
          /\ DOMAIN voteReplies' \subseteq VoteAnswer
        BY <2>1, AddedToBag, RemovedFromBag DEF CallTypes, RejectVote
    <2>3. QED
        BY <2>2 DEF CallTypes, RejectVote
<1>3. CalleeValid' /\ LoneNodeSilent'
    BY CursorLeftAlone DEF RejectVote
<1>4. /\ TermTypes' /\ LogTypes' /\ IndexTypes' /\ BallotTypes'
      /\ ThreadTypes' /\ ProcessTypes'
    BY DEF TermTypes, LogTypes, IndexTypes, BallotTypes, ThreadTypes,
           ProcessTypes, RejectVote
<1>5. QED
    BY <1>2, <1>3, <1>4

(* RefuseVote keeps TypeInv.                                               *)
LEMMA RefuseVoteTypes ==
    ASSUME TypeInv, NEW m \in DOMAIN voteReqs, RefuseVote(m) PROVE TypeInv'
<1> USE DEF TypeInv, TypeOK
<1>1. m \in VoteArgs /\ m.to \in Peer
    BY DEF CallTypes, VoteArgs
<1>2. LogTypes'
    <2>1. Written(file[m.to], m_curTerm[m.to], m_votedFor[m.to],
                  m_logs[m.to]) \in Saved
        BY <1>1, WrittenSaved DEF LogTypes, TermTypes
    <2>2. QED
        BY <1>1, <2>1 DEF LogTypes, RefuseVote, saveRaftState
<1>3. CallTypes'
    <2>1. VoteReply(m, m_curTerm[m.to], FALSE) \in VoteAnswer
        BY <1>1, VoteReplyTyped DEF TermTypes
    <2>2. /\ DOMAIN voteReqs' \subseteq VoteArgs
          /\ DOMAIN voteReplies' \subseteq VoteAnswer
        BY <2>1, AddedToBag, RemovedFromBag DEF CallTypes, RefuseVote
    <2>3. QED
        BY <2>2 DEF CallTypes, RefuseVote
<1>4. CalleeValid' /\ LoneNodeSilent'
    BY CursorLeftAlone DEF RefuseVote
<1>5. /\ TermTypes' /\ IndexTypes' /\ BallotTypes' /\ ThreadTypes'
      /\ ProcessTypes'
    BY DEF TermTypes, IndexTypes, BallotTypes, ThreadTypes, ProcessTypes,
           RefuseVote
<1>6. QED
    BY <1>2, <1>3, <1>4, <1>5

(* ConsiderVote keeps TypeInv.                                             *)
LEMMA ConsiderVoteTypes ==
    ASSUME TypeInv, NEW m \in DOMAIN voteReqs, ConsiderVote(m) PROVE TypeInv'
<1> USE DEF TypeInv, TypeOK
<1>1. m \in VoteArgs /\ m.to \in Peer /\ m.term \in Nat
    BY DEF CallTypes, VoteArgs
<1>2. TermTypes'
    BY <1>1 DEF TermTypes, ConsiderVote
<1>3. CallTypes'
    <2>1. [step |-> "compare", req |-> m, term |-> m_curTerm[m.to]] \in VoteCall
        BY <1>1 DEF TermTypes, VoteCall
    <2>2. voteSrv' \in [Peer -> VoteCall \cup {Idle}]
        BY <1>1, <2>1 DEF CallTypes, ConsiderVote
    <2>3. DOMAIN voteReqs' \subseteq VoteArgs
        BY RemovedFromBag DEF CallTypes, ConsiderVote
    <2>4. QED
        BY <2>2, <2>3 DEF CallTypes, ConsiderVote
<1>4. CalleeValid' /\ LoneNodeSilent'
    BY CursorLeftAlone DEF ConsiderVote
<1>5. /\ LogTypes' /\ IndexTypes' /\ BallotTypes' /\ ThreadTypes'
      /\ ProcessTypes'
    BY DEF LogTypes, IndexTypes, BallotTypes, ThreadTypes, ProcessTypes,
           ConsiderVote
<1>6. QED
    BY <1>2, <1>3, <1>4, <1>5

(* checkLogUptodate keeps TypeInv.                                         *)
LEMMA checkLogUptodateTypes ==
    ASSUME TypeInv, NEW n \in Peer, checkLogUptodate(n) PROVE TypeInv'
<1> USE DEF TypeInv, TypeOK
<1>1. /\ voteSrv[n] \in VoteCall
      /\ voteSrv[n].req \in VoteArgs /\ voteSrv[n].term \in Nat
    BY DEF CallTypes, checkLogUptodate, VoteCall, Idle
<1>2. CallTypes'
    <2>1. CASE LogUptodate(voteSrv[n].req, m_logs[n])
        <3>1. [voteSrv[n] EXCEPT !.step = "grant"] \in VoteCall
            BY <1>1 DEF VoteCall
        <3>2. voteSrv' = [voteSrv EXCEPT
                            ![n] = [voteSrv[n] EXCEPT !.step = "grant"]]
            BY <2>1 DEF checkLogUptodate
        <3>3. QED
            BY <2>1, <3>1, <3>2 DEF CallTypes, checkLogUptodate
    <2>2. CASE ~LogUptodate(voteSrv[n].req, m_logs[n])
        <3>1. VoteReply(voteSrv[n].req, voteSrv[n].term, FALSE) \in VoteAnswer
            BY <1>1, VoteReplyTyped
        <3>2. DOMAIN voteReplies' \subseteq VoteAnswer
            BY <2>2, <3>1, AddedToBag DEF CallTypes, checkLogUptodate
        <3>3. QED
            BY <2>2, <3>2 DEF CallTypes, checkLogUptodate
    <2>3. QED
        BY <2>1, <2>2
<1>3. CalleeValid' /\ LoneNodeSilent'
    BY CursorLeftAlone DEF checkLogUptodate
<1>4. /\ TermTypes' /\ LogTypes' /\ IndexTypes' /\ BallotTypes'
      /\ ThreadTypes' /\ ProcessTypes'
    BY DEF TermTypes, LogTypes, IndexTypes, BallotTypes, ThreadTypes,
           ProcessTypes, checkLogUptodate
<1>5. QED
    BY <1>2, <1>3, <1>4

(* GrantVote keeps TypeInv.                                                *)
LEMMA GrantVoteTypes ==
    ASSUME TypeInv, NEW n \in Peer, GrantVote(n) PROVE TypeInv'
<1> USE DEF TypeInv, TypeOK
<1>1. /\ voteSrv[n].req \in VoteArgs /\ voteSrv[n].req.from \in Peer
      /\ voteSrv[n].term \in Nat
    BY DEF CallTypes, GrantVote, VoteCall, VoteArgs, Idle
<1>2. TermTypes'
    BY <1>1 DEF TermTypes, GrantVote
<1>3. LogTypes'
    <2>1. Written(file[n], m_curTerm[n], voteSrv[n].req.from, m_logs[n])
            \in Saved
        BY <1>1, WrittenSaved DEF LogTypes, TermTypes
    <2>2. QED
        BY <2>1 DEF LogTypes, GrantVote, saveRaftState
<1>4. CallTypes'
    <2>1. VoteReply(voteSrv[n].req, voteSrv[n].term, TRUE) \in VoteAnswer
        BY <1>1, VoteReplyTyped
    <2>2. DOMAIN voteReplies' \subseteq VoteAnswer
        BY <2>1, AddedToBag DEF CallTypes, GrantVote
    <2>3. QED
        BY <2>2 DEF CallTypes, GrantVote
<1>5. CalleeValid' /\ LoneNodeSilent'
    BY CursorLeftAlone DEF GrantVote
<1>6. IndexTypes' /\ BallotTypes' /\ ThreadTypes' /\ ProcessTypes'
    BY DEF IndexTypes, BallotTypes, ThreadTypes, ProcessTypes, GrantVote
<1>7. QED
    BY <1>2, <1>3, <1>4, <1>5, <1>6

(* HandleVoteReply keeps TypeInv.                                          *)
LEMMA HandleVoteReplyTypes ==
    ASSUME TypeInv, NEW r \in DOMAIN voteReplies, HandleVoteReply(r)
    PROVE  TypeInv'
<1> USE DEF TypeInv, TypeOK
<1>1. r.to \in Peer
    BY DEF CallTypes, VoteAnswer
<1>2. /\ file[r.to].term \in Nat /\ file[r.to].votedFor \in Peer \cup {None}
      /\ file[r.to].logs \in Seq(Entry)
    BY <1>1 DEF LogTypes, Saved
<1>3. TermTypes'
    BY <1>1, <1>2 DEF TermTypes, HandleVoteReply
<1>4. LogTypes'
    <2>1. m_logs[r.to] \o file[r.to].logs \in Seq(Entry)
        BY <1>1, <1>2, ConcatProperties DEF LogTypes
    <2>2. QED
        BY <1>1, <2>1 DEF LogTypes, HandleVoteReply
<1>5. BallotTypes'
    <2>1. /\ finishedVote[r.to] + 1 \in Nat
          /\ (IF r.granted THEN recvVotes[r.to] + 1 ELSE recvVotes[r.to]) \in Nat
        BY <1>1 DEF BallotTypes
    <2>2. finishedVote' \in [Peer -> Nat]
        BY <2>1 DEF BallotTypes, HandleVoteReply, FinishedAfter
    <2>3. recvVotes' \in [Peer -> Nat]
        BY <2>1 DEF BallotTypes, HandleVoteReply
    <2>4. QED
        BY <2>2, <2>3 DEF BallotTypes, HandleVoteReply
<1>6. ThreadTypes'
    BY <1>1 DEF ThreadTypes, HandleVoteReply
<1>7. CallTypes'
    <2>1. DOMAIN voteReplies' \subseteq VoteAnswer
        BY RemovedFromBag DEF CallTypes, HandleVoteReply
    <2>2. QED
        BY <2>1 DEF CallTypes, HandleVoteReply
<1>8. CalleeValid' /\ LoneNodeSilent'
    BY CursorLeftAlone DEF HandleVoteReply
<1>9. IndexTypes' /\ ProcessTypes'
    BY DEF IndexTypes, ProcessTypes, HandleVoteReply
<1>10. QED
    BY <1>3, <1>4, <1>5, <1>6, <1>7, <1>8, <1>9

(* Replication.                                                            *)

(* start keeps TypeInv.                                                    *)
LEMMA startTypes ==
    ASSUME TypeInv, NEW n \in Peer, start(n) PROVE TypeInv'
<1> USE DEF TypeInv, TypeOK
<1>1. LogTypes'
    <2>1. [term |-> m_curTerm[n], key |-> key] \in Entry
        BY DEF TermTypes, ProcessTypes, Entry
    <2>2. Append(m_logs[n], [term |-> m_curTerm[n], key |-> key]) \in Seq(Entry)
        BY <2>1, AppendProperties DEF LogTypes
    <2>3. QED
        BY <2>2 DEF LogTypes, start
<1>2. ProcessTypes'
    BY DEF ProcessTypes, start
<1>3. CalleeValid' /\ LoneNodeSilent'
    BY CursorLeftAlone DEF start
<1>4. TermTypes' /\ IndexTypes' /\ BallotTypes' /\ ThreadTypes' /\ CallTypes'
    BY DEF TermTypes, IndexTypes, BallotTypes, ThreadTypes, CallTypes, start
<1>5. QED
    BY <1>1, <1>2, <1>3, <1>4

(* Broadcast keeps TypeInv.                                                *)
LEMMA BroadcastTypes ==
    ASSUME TypeInv, NEW n \in Peer, Broadcast(n) PROVE TypeInv'
<1> USE DEF TypeInv, TypeOK
<1>1. ThreadTypes'
    <2>1. /\ sendSpawned[n] + (NumPeers - 1) \in Nat
          /\ sendThreads[n] + (NumPeers - 1) \in Int
        BY NumPeersPositive DEF ThreadTypes
    <2>2. QED
        BY <2>1 DEF ThreadTypes, Broadcast
<1>2. LoneNodeSilent'
    BY DEF LoneNodeSilent, ThreadTypes, Broadcast
<1>3. CalleeValid'
    BY DEF CalleeValid, Callee, Broadcast
<1>4. ProcessTypes'
    BY DEF ProcessTypes, Broadcast
<1>5. TermTypes' /\ LogTypes' /\ IndexTypes' /\ BallotTypes' /\ CallTypes'
    BY DEF TermTypes, LogTypes, IndexTypes, BallotTypes, CallTypes, Broadcast
<1>6. QED
    BY <1>1, <1>2, <1>3, <1>4, <1>5

(* What is sent is a log, and the term sent with it a number.              *)
LEMMA SentTyped ==
    ASSUME NEW log \in Seq(Entry), NEW prev \in Int,
           NEW term \in PrevLogTerms(log, prev)
    PROVE  EntriesAfter(log, prev) \in Seq(Entry) /\ term \in Int
<1>1. EntriesAfter(log, prev) \in Seq(Entry)
    <2>1. CASE prev \in 0..Len(log)
        <3>1. prev + 1 \in Nat \ {0}
            BY <2>1, LenProperties
        <3>2. SubSeq(log, prev + 1, Len(log)) \in Seq(Entry)
            BY <3>1, TailTyped
        <3>3. QED
            BY <2>1, <3>2 DEF EntriesAfter
    <2>2. CASE prev \notin 0..Len(log)
        BY <2>2, EmptySeq DEF EntriesAfter
    <2>3. QED
        BY <2>1, <2>2
<1>2. \A i \in 1..Len(log) : log[i].term \in Nat
    <2>1. ASSUME NEW i \in 1..Len(log) PROVE log[i] \in Entry
        BY ElementOfSeq
    <2>2. QED
        BY <2>1 DEF Entry
<1>3. ASSUME NEW i \in Int, NEW t \in TermsAt(log, i) PROVE t \in Int
    BY <1>2, BoundsAssumption DEF TermsAt, AnyTerm
<1>4. CASE prev = 0 /\ log # <<>>
    <2>1. 1 \in 1..Len(log)
        BY <1>4, EmptySeq, LenProperties
    <2>2. QED
        BY <1>1, <1>2, <1>4, <2>1 DEF PrevLogTerms
<1>5. CASE prev = 0 /\ log = <<>>
    BY <1>1, <1>5 DEF PrevLogTerms
<1>6. CASE prev # 0
    BY <1>1, <1>3, <1>6 DEF PrevLogTerms
<1>7. QED
    BY <1>4, <1>5, <1>6

(* SendEntries keeps TypeInv.                                              *)
LEMMA SendEntriesTypes ==
    ASSUME TypeInv, NEW n \in Peer, SendEntries(n) PROVE TypeInv'
<1> USE DEF TypeInv, TypeOK
<1> DEFINE p == Callee(n)
           prev == m_nextIndex[n][p] - 1
<1>1. /\ NumPeers > 1 /\ p \in Peer
      /\ cur_peerId' \in [Peer -> Peer] /\ CalleeValid'
    BY CursorAdvanced DEF SendEntries
<1>2. ThreadTypes'
    <2>1. sendSpawned[n] - 1 \in Nat
        BY DEF ThreadTypes, SendEntries
    <2>2. QED
        BY <1>1, <2>1 DEF ThreadTypes, SendEntries
<1>3. LoneNodeSilent'
    BY <1>1, NumPeersPositive DEF LoneNodeSilent
<1>4. CallTypes'
    <2>1. prev \in Int
        BY <1>1 DEF IndexTypes
    <2>2. PICK prevTerm \in PrevLogTerms(m_logs[n], prev) :
            appendReqs' = BagAdd(appendReqs,
               [from |-> n, to |-> p, term |-> m_curTerm[n],
                prevLogIndex |-> prev, prevLogTerm |-> prevTerm,
                leaderCommit |-> m_commitIndex[n],
                entries |-> EntriesAfter(m_logs[n], prev)])
        BY DEF SendEntries
    <2>3. EntriesAfter(m_logs[n], prev) \in Seq(Entry) /\ prevTerm \in Int
        BY <2>1, SentTyped DEF LogTypes
    <2> DEFINE req ==
               [from |-> n, to |-> p, term |-> m_curTerm[n],
                prevLogIndex |-> prev, prevLogTerm |-> prevTerm,
                leaderCommit |-> m_commitIndex[n],
                entries |-> EntriesAfter(m_logs[n], prev)]
    <2>4. req \in AppendArgs
        BY <1>1, <2>1, <2>3 DEF TermTypes, IndexTypes, AppendArgs
    <2>5. appendReqs' = BagAdd(appendReqs, req)
        BY <2>2
    <2> HIDE DEF req
    <2>6. DOMAIN appendReqs' \subseteq AppendArgs
        BY <2>4, <2>5, AddedToBag DEF CallTypes
    <2>7. QED
        BY <2>6 DEF CallTypes, SendEntries
<1>5. /\ TermTypes' /\ LogTypes' /\ IndexTypes' /\ BallotTypes'
      /\ ProcessTypes'
    BY DEF TermTypes, LogTypes, IndexTypes, BallotTypes, ProcessTypes,
           SendEntries
<1>6. QED
    BY <1>1, <1>2, <1>3, <1>4, <1>5

(* The calls and replies of appendEntries stay well formed where one call  *)
(* is answered.                                                            *)
LEMMA AnsweredTyped ==
    ASSUME TypeOK, NEW m \in DOMAIN appendReqs, NEW success \in BOOLEAN,
           NEW conflictTerm \in Int, NEW conflictIndex \in Int,
           Reply(m, AppendReply(m, m_curTerm[m.to], success, conflictTerm,
                                conflictIndex)),
           UNCHANGED voteNet
    PROVE  CallTypes'
<1> USE DEF TypeOK
<1>1. /\ m.from \in Peer /\ m.to \in Peer /\ m.prevLogIndex \in Int
      /\ m.entries \in Seq(Entry)
    BY DEF CallTypes, AppendArgs
<1> DEFINE reply == AppendReply(m, m_curTerm[m.to], success, conflictTerm,
                                conflictIndex)
<1>2. reply \in AppendAnswer
    BY <1>1, LenProperties DEF AppendReply, AppendAnswer, TermTypes
<1>3. /\ appendReqs' = BagRemove(appendReqs, m)
      /\ appendReplies' = BagAdd(appendReplies, reply)
    BY DEF Reply
<1> HIDE DEF reply
<1>4. DOMAIN appendReqs' \subseteq AppendArgs
    BY <1>3, RemovedFromBag DEF CallTypes
<1>5. DOMAIN appendReplies' \subseteq AppendAnswer
    BY <1>2, <1>3, AddedToBag DEF CallTypes
<1>6. QED
    BY <1>4, <1>5 DEF CallTypes

(* The fields of a call of appendEntries in flight.                        *)
LEMMA AppendArgsTyped ==
    ASSUME TypeOK, NEW m \in DOMAIN appendReqs
    PROVE  /\ m.from \in Peer /\ m.to \in Peer /\ m.term \in Nat
           /\ m.prevLogIndex \in Int /\ m.leaderCommit \in Nat
           /\ m.entries \in Seq(Entry)
BY DEF TypeOK, CallTypes, AppendArgs

(* FollowLeader keeps TypeInv.                                             *)
LEMMA FollowLeaderTypes ==
    ASSUME TypeOK, NEW m \in DOMAIN appendReqs, FollowLeader(m)
    PROVE  TermTypes'
BY AppendArgsTyped DEF TypeOK, TermTypes, FollowLeader

(* The log and the files appendEntries leaves.                             *)
LEMMA FirstSaveTyped ==
    ASSUME TypeOK, NEW m \in DOMAIN appendReqs
    PROVE  FirstSave(m) \in [Peer -> Saved]
<1> USE DEF TypeOK
<1>1. m.to \in Peer
    BY AppendArgsTyped
<1>2. Written(file[m.to], m_curTerm[m.to], None, m_logs[m.to]) \in Saved
    BY <1>1, WrittenSaved DEF LogTypes, TermTypes
<1>3. QED
    BY <1>1, <1>2 DEF FirstSave, LogTypes

(* What appendEntries makes of a log is a log.                             *)
LEMMA AcceptedTyped ==
    ASSUME TypeOK, NEW m \in DOMAIN appendReqs,
           m_logs[m.to] = <<>> \/ ~MissesPrev(m)
    PROVE  Accepted(m) \in Seq(Entry)
<1> USE DEF TypeOK
<1>1. m.to \in Peer /\ m.entries \in Seq(Entry) /\ m_logs[m.to] \in Seq(Entry)
    BY AppendArgsTyped DEF LogTypes
<1>2. CASE m_logs[m.to] = <<>>
    BY <1>1, <1>2 DEF Accepted
<1>3. CASE m_logs[m.to] # <<>>
    <2>1. SubSeq(m_logs[m.to], 1, m.prevLogIndex) \in Seq(Entry)
        BY <1>1, <1>3, FrontTyped DEF MissesPrev
    <2>2. SubSeq(m_logs[m.to], 1, m.prevLogIndex) \o m.entries \in Seq(Entry)
        BY <1>1, <2>1, ConcatProperties
    <2>3. QED
        BY <1>3, <2>2 DEF Accepted
<1>4. QED
    BY <1>2, <1>3

(* What the second save of appendEntries leaves is a file.                 *)
LEMMA SecondSaveTyped ==
    ASSUME TypeOK, NEW m \in DOMAIN appendReqs, Accepted(m) \in Seq(Entry)
    PROVE  SecondSave(m) \in [Peer -> Saved]
<1> USE DEF TypeOK
<1> DEFINE vote == IF m.term > m_curTerm[m.to] THEN None ELSE m_votedFor[m.to]
<1>1. m.to \in Peer /\ m.term \in Nat /\ vote \in Peer \cup {None}
    BY AppendArgsTyped DEF TermTypes
<1>2. FirstSave(m) \in [Peer -> Saved]
    BY FirstSaveTyped
<1>3. Written(FirstSave(m)[m.to], m.term, vote, Accepted(m)) \in Saved
    BY <1>1, <1>2, WrittenSaved
<1>4. QED
    BY <1>1, <1>2, <1>3 DEF SecondSave

(* RejectEntries keeps TypeInv.                                            *)
LEMMA RejectEntriesTypes ==
    ASSUME TypeInv, NEW m \in DOMAIN appendReqs, RejectEntries(m)
    PROVE  TypeInv'
<1> USE DEF TypeInv
<1>1. CallTypes'
    <2>1. /\ Reply(m, AppendReply(m, m_curTerm[m.to], FALSE, -1, -1))
          /\ UNCHANGED voteNet
        BY DEF RejectEntries
    <2>2. -1 \in Int
        OBVIOUS
    <2>3. QED
        BY <2>1, <2>2, AnsweredTyped
<1>2. CalleeValid' /\ LoneNodeSilent'
    BY CursorLeftAlone DEF RejectEntries, Reply
<1>3. /\ TermTypes' /\ LogTypes' /\ IndexTypes' /\ BallotTypes'
      /\ ThreadTypes' /\ ProcessTypes'
    BY DEF TypeOK, TermTypes, LogTypes, IndexTypes, BallotTypes, ThreadTypes,
           ProcessTypes, RejectEntries, Reply
<1>4. QED
    BY <1>1, <1>2, <1>3 DEF TypeOK

(* ReportShortLog keeps TypeInv.                                           *)
LEMMA ReportShortLogTypes ==
    ASSUME TypeInv, NEW m \in DOMAIN appendReqs, ReportShortLog(m)
    PROVE  TypeInv'
<1> USE DEF TypeInv
<1>1. TermTypes'
    BY FollowLeaderTypes DEF ReportShortLog
<1>2. LogTypes'
    BY FirstSaveTyped DEF TypeOK, LogTypes, ReportShortLog
<1>3. CallTypes'
    <2>1. Len(m_logs[m.to]) \in Int
        BY AppendArgsTyped, LenProperties DEF TypeOK, LogTypes
    <2>2. /\ Reply(m, AppendReply(m, m_curTerm[m.to], FALSE, -1,
                               Len(m_logs[m.to])))
          /\ UNCHANGED voteNet
        BY DEF ReportShortLog
    <2>3. -1 \in Int
        OBVIOUS
    <2>4. QED
        BY <2>1, <2>2, <2>3, AnsweredTyped
<1>4. CalleeValid' /\ LoneNodeSilent'
    BY CursorLeftAlone DEF ReportShortLog, Reply
<1>5. IndexTypes' /\ BallotTypes' /\ ThreadTypes' /\ ProcessTypes'
    BY DEF TypeOK, IndexTypes, BallotTypes, ThreadTypes, ProcessTypes,
           ReportShortLog, Reply
<1>6. QED
    BY <1>1, <1>2, <1>3, <1>4, <1>5 DEF TypeOK

(* ReportConflict keeps TypeInv.                                           *)
LEMMA ReportConflictTypes ==
    ASSUME TypeInv, NEW m \in DOMAIN appendReqs, ReportConflict(m)
    PROVE  TypeInv'
<1> USE DEF TypeInv
<1>1. TermTypes'
    BY FollowLeaderTypes DEF ReportConflict
<1>2. LogTypes'
    BY FirstSaveTyped DEF TypeOK, LogTypes, ReportConflict
<1>3. CallTypes'
    <2> DEFINE log == m_logs[m.to]
    <2>1. PICK first \in FirstIndexes(log, m.prevLogIndex) :
            Reply(m, AppendReply(m, m_curTerm[m.to], FALSE,
                                 log[m.prevLogIndex].term, first))
        BY DEF ReportConflict
    <2>2. first \in Int
        BY DEF FirstIndexes
    <2>3. log[m.prevLogIndex].term \in Int
        <3>1. log \in Seq(Entry) /\ m.prevLogIndex \in 1..Len(log)
            BY AppendArgsTyped
            DEF TypeOK, LogTypes, ReportConflict, ConflictsAtPrev
        <3>2. log[m.prevLogIndex] \in Entry
            BY <3>1, ElementOfSeq
        <3>3. QED
            BY <3>2 DEF Entry
    <2>4. UNCHANGED voteNet
        BY DEF ReportConflict
    <2>5. QED
        BY <2>1, <2>2, <2>3, <2>4, AnsweredTyped
<1>4. CalleeValid' /\ LoneNodeSilent'
    BY CursorLeftAlone DEF ReportConflict, Reply
<1>5. IndexTypes' /\ BallotTypes' /\ ThreadTypes' /\ ProcessTypes'
    BY DEF TypeOK, IndexTypes, BallotTypes, ThreadTypes, ProcessTypes,
           ReportConflict, Reply
<1>6. QED
    BY <1>1, <1>2, <1>3, <1>4, <1>5 DEF TypeOK

(* AcceptEntries keeps TypeInv.                                            *)
LEMMA AcceptEntriesTypes ==
    ASSUME TypeInv, NEW m \in DOMAIN appendReqs, AcceptEntries(m)
    PROVE  TypeInv'
<1> USE DEF TypeInv
<1>1. m.to \in Peer /\ m.leaderCommit \in Nat
    BY AppendArgsTyped
<1>2. Accepted(m) \in Seq(Entry)
    BY AcceptedTyped DEF AcceptEntries
<1>3. TermTypes'
    BY FollowLeaderTypes DEF AcceptEntries
<1>4. LogTypes'
    BY <1>1, <1>2, SecondSaveTyped DEF TypeOK, LogTypes, AcceptEntries
<1>5. IndexTypes'
    <2> DEFINE size == Len(Accepted(m))
               known == IF m.leaderCommit < size THEN m.leaderCommit ELSE size
    <2>1. known \in Nat
        BY <1>1, <1>2, LenProperties
    <2>2. m_commitIndex' = [m_commitIndex EXCEPT
                              ![m.to] = IF @ < m.leaderCommit THEN known ELSE @]
        BY DEF AcceptEntries
    <2> HIDE DEF known
    <2>3. m_commitIndex' \in [Peer -> Nat]
        BY <1>1, <2>1, <2>2 DEF TypeOK, IndexTypes
    <2>4. QED
        BY <2>3 DEF TypeOK, IndexTypes, AcceptEntries
<1>6. CallTypes'
    <2>1. /\ Reply(m, AppendReply(m, m_curTerm[m.to], TRUE, -1, -1))
          /\ UNCHANGED voteNet
        BY DEF AcceptEntries
    <2>2. -1 \in Int
        OBVIOUS
    <2>3. QED
        BY <2>1, <2>2, AnsweredTyped
<1>7. CalleeValid' /\ LoneNodeSilent'
    BY CursorLeftAlone DEF AcceptEntries, Reply
<1>8. BallotTypes' /\ ThreadTypes' /\ ProcessTypes'
    BY DEF TypeOK, BallotTypes, ThreadTypes, ProcessTypes, AcceptEntries, Reply
<1>9. QED
    BY <1>3, <1>4, <1>5, <1>6, <1>7, <1>8 DEF TypeOK

(* The fields of a reply of appendEntries in flight.                       *)
LEMMA AppendAnswerTyped ==
    ASSUME TypeOK, NEW r \in DOMAIN appendReplies
    PROVE  /\ r.to \in Peer /\ r.from \in Peer /\ r.term \in Nat
           /\ r.conflictTerm \in Int /\ r.conflictIndex \in Int
           /\ r.prevLogIndex \in Int /\ r.sent \in Nat
BY DEF TypeOK, CallTypes, AppendAnswer

(* A handled reply is gone with its thread.                                *)
LEMMA HandledTyped ==
    ASSUME TypeOK, NEW r \in DOMAIN appendReplies, HandleReply(r),
           UNCHANGED <<cur_peerId, voteNet>>
    PROVE  ThreadTypes' /\ CallTypes'
<1> USE DEF TypeOK
<1>1. r.to \in Peer
    BY AppendAnswerTyped
<1>2. ThreadTypes'
    BY <1>1 DEF ThreadTypes, HandleReply
<1>3. DOMAIN appendReplies' \subseteq AppendAnswer
    BY RemovedFromBag DEF CallTypes, HandleReply
<1>4. QED
    BY <1>2, <1>3 DEF CallTypes, HandleReply

(* A node that saves what it holds.                                        *)
LEMMA SaveTyped ==
    ASSUME TypeOK, NEW n \in Peer, NEW term \in Nat,
           NEW vote \in Peer \cup {None},
           saveRaftState(n, term, vote, m_logs[n]), UNCHANGED m_logs
    PROVE  LogTypes'
<1>1. Written(file[n], term, vote, m_logs[n]) \in Saved
    BY WrittenSaved DEF TypeOK, LogTypes
<1>2. QED
    BY <1>1 DEF TypeOK, LogTypes, saveRaftState

(* StepDown keeps TypeInv.                                                 *)
LEMMA StepDownTypes ==
    ASSUME TypeInv, NEW r \in DOMAIN appendReplies, StepDown(r)
    PROVE  TypeInv'
<1> USE DEF TypeInv
<1>1. r.to \in Peer /\ r.term \in Nat
    BY AppendAnswerTyped
<1>2. TermTypes'
    BY <1>1 DEF TypeOK, TermTypes, StepDown
<1>3. LogTypes'
    BY <1>1, SaveTyped DEF StepDown
<1>4. ThreadTypes' /\ CallTypes'
    BY HandledTyped DEF StepDown
<1>5. CalleeValid' /\ LoneNodeSilent'
    BY CursorLeftAlone DEF StepDown, HandleReply
<1>6. IndexTypes' /\ BallotTypes' /\ ProcessTypes'
    BY DEF TypeOK, IndexTypes, BallotTypes, ProcessTypes, StepDown
<1>7. QED
    BY <1>2, <1>3, <1>4, <1>5, <1>6 DEF TypeOK

(* HandleSuccess keeps TypeInv.                                            *)
LEMMA HandleSuccessTypes ==
    ASSUME TypeInv, NEW r \in DOMAIN appendReplies, HandleSuccess(r)
    PROVE  TypeInv'
<1> USE DEF TypeInv
<1> DEFINE n == r.to
           next == NextAfterSuccess(r)
           match == [m_matchIndex[n] EXCEPT ![r.from] = next - 1]
<1>1. n \in Peer /\ r.from \in Peer /\ r.sent \in Nat
    BY AppendAnswerTyped
<1>2. LogTypes'
    <2>1. m_curTerm[n] \in Nat /\ m_votedFor[n] \in Peer \cup {None}
        BY <1>1 DEF TypeOK, TermTypes
    <2>2. QED
        BY <1>1, <2>1, SaveTyped DEF HandleSuccess
<1>3. IndexTypes'
    <2>1. next \in Int
        BY <1>1 DEF TypeOK, IndexTypes, NextAfterSuccess
    <2>2. match \in [Peer -> Int]
        BY <1>1, <2>1 DEF TypeOK, IndexTypes
    <2>3. MiddleMatch(match) \subseteq Int
        BY <2>2 DEF MiddleMatch
    <2>4. /\ m_nextIndex' = [m_nextIndex EXCEPT ![n][r.from] = next]
          /\ m_matchIndex' = [m_matchIndex EXCEPT ![n] = match]
          /\ UNCHANGED m_lastApplied
        BY DEF HandleSuccess
    <2>5. PICK middle \in MiddleMatch(match) :
            \E term \in TermsAt(m_logs[n], middle) :
              m_commitIndex' = [m_commitIndex EXCEPT ![n] =
                IF middle > @ /\ term = m_curTerm[n] THEN middle ELSE @]
        BY DEF HandleSuccess
    <2> HIDE DEF next, match
    <2>6. middle \in Int
        BY <2>3
    <2>7. m_commitIndex' \in [Peer -> Nat]
        BY <1>1, <2>5, <2>6 DEF TypeOK, IndexTypes
    <2>8. m_matchIndex' \in [Peer -> [Peer -> Int]]
        BY <2>2, <2>4 DEF TypeOK, IndexTypes
    <2>9. m_nextIndex' \in [Peer -> [Peer -> Int]]
        BY <1>1, <2>1, <2>4 DEF TypeOK, IndexTypes
    <2>10. QED
        BY <2>4, <2>7, <2>8, <2>9 DEF TypeOK, IndexTypes
<1>4. ThreadTypes' /\ CallTypes'
    BY HandledTyped DEF HandleSuccess
<1>5. CalleeValid' /\ LoneNodeSilent'
    BY CursorLeftAlone DEF HandleSuccess, HandleReply
<1>6. TermTypes' /\ BallotTypes' /\ ProcessTypes'
    BY DEF TypeOK, TermTypes, BallotTypes, ProcessTypes, HandleSuccess
<1>7. QED
    BY <1>2, <1>3, <1>4, <1>5, <1>6 DEF TypeOK

(* HandleFailure keeps TypeInv.                                            *)
LEMMA HandleFailureTypes ==
    ASSUME TypeInv, NEW r \in DOMAIN appendReplies, HandleFailure(r)
    PROVE  TypeInv'
<1> USE DEF TypeInv
<1> DEFINE n == r.to
           lasts == IF r.conflictTerm = -1 THEN {r.conflictIndex}
                    ELSE LastIndexes(m_logs[n], r.prevLogIndex, r.conflictTerm)
<1>1. /\ n \in Peer /\ r.from \in Peer /\ r.conflictTerm \in Int
      /\ r.conflictIndex \in Int /\ r.prevLogIndex \in Int
    BY AppendAnswerTyped
<1>2. LogTypes'
    <2>1. m_curTerm[n] \in Nat /\ m_votedFor[n] \in Peer \cup {None}
        BY <1>1 DEF TypeOK, TermTypes
    <2>2. QED
        BY <1>1, <2>1, SaveTyped DEF HandleFailure
<1>3. IndexTypes'
    <2>1. lasts \subseteq Int
        <3>1. LastIndexes(m_logs[n], r.prevLogIndex, r.conflictTerm) \subseteq Int
            BY <1>1, LenProperties DEF LastIndexes, TypeOK, LogTypes
        <3>2. QED
            BY <1>1, <3>1
    <2>2. PICK last \in lasts :
            m_nextIndex' = [m_nextIndex EXCEPT ![n][r.from] =
                IF r.conflictTerm # -1 /\ last = -1 THEN r.conflictIndex
                ELSE last + 1]
        BY DEF HandleFailure
    <2> HIDE DEF lasts
    <2>3. last \in Int
        BY <2>1
    <2>4. m_nextIndex' \in [Peer -> [Peer -> Int]]
        BY <1>1, <2>2, <2>3 DEF TypeOK, IndexTypes
    <2>5. QED
        BY <2>4 DEF TypeOK, IndexTypes, HandleFailure
<1>4. ThreadTypes' /\ CallTypes'
    BY HandledTyped DEF HandleFailure
<1>5. CalleeValid' /\ LoneNodeSilent'
    BY CursorLeftAlone DEF HandleFailure, HandleReply
<1>6. TermTypes' /\ BallotTypes' /\ ProcessTypes'
    BY DEF TypeOK, TermTypes, BallotTypes, ProcessTypes, HandleFailure
<1>7. QED
    BY <1>2, <1>3, <1>4, <1>5, <1>6 DEF TypeOK

(* ApplyLog keeps TypeInv.                                                 *)
LEMMA ApplyLogTypes ==
    ASSUME TypeInv, NEW n \in Peer, ApplyLog(n) PROVE TypeInv'
<1> USE DEF TypeInv, TypeOK
<1>1. IndexTypes'
    BY DEF IndexTypes, ApplyLog
<1>2. ProcessTypes'
    BY DEF ProcessTypes, ApplyLog
<1>3. CalleeValid' /\ LoneNodeSilent'
    BY CursorLeftAlone DEF ApplyLog
<1>4. /\ TermTypes' /\ LogTypes' /\ BallotTypes' /\ ThreadTypes'
      /\ CallTypes'
    BY DEF TermTypes, LogTypes, BallotTypes, ThreadTypes, CallTypes, ApplyLog
<1>5. QED
    BY <1>1, <1>2, <1>3, <1>4

(* The process.                                                            *)

(* SeeLeader keeps TypeInv.                                                *)
LEMMA SeeLeaderTypes ==
    ASSUME TypeInv, NEW n \in Peer, SeeLeader(n) PROVE TypeInv'
<1> USE DEF TypeInv, TypeOK
<1>1. ProcessTypes'
    BY DEF ProcessTypes, SeeLeader
<1>2. CalleeValid' /\ LoneNodeSilent'
    BY CursorLeftAlone DEF SeeLeader
<1>3. /\ TermTypes' /\ LogTypes' /\ IndexTypes' /\ BallotTypes'
      /\ ThreadTypes' /\ CallTypes'
    BY DEF TermTypes, LogTypes, IndexTypes, BallotTypes, ThreadTypes,
           CallTypes, SeeLeader
<1>4. QED
    BY <1>1, <1>2, <1>3

(* kill keeps TypeInv.                                                     *)
LEMMA killTypes ==
    ASSUME TypeInv, kill PROVE TypeInv'
<1> USE DEF TypeInv, TypeOK
<1>1. ProcessTypes'
    BY DEF ProcessTypes, kill
<1>2. CalleeValid' /\ LoneNodeSilent'
    BY CursorLeftAlone DEF kill
<1>3. /\ TermTypes' /\ LogTypes' /\ IndexTypes' /\ BallotTypes'
      /\ ThreadTypes' /\ CallTypes'
    BY DEF TermTypes, LogTypes, IndexTypes, BallotTypes, ThreadTypes,
           CallTypes, kill
<1>4. QED
    BY <1>1, <1>2, <1>3

(* ExitLoop keeps TypeInv.                                                 *)
LEMMA ExitLoopTypes ==
    ASSUME TypeInv, NEW n \in Peer, NEW loop, ExitLoop(n, loop) PROVE TypeInv'
<1> USE DEF TypeInv, TypeOK
<1>1. ProcessTypes'
    BY DEF ProcessTypes, ExitLoop
<1>2. CalleeValid' /\ LoneNodeSilent'
    BY CursorLeftAlone DEF ExitLoop
<1>3. /\ TermTypes' /\ LogTypes' /\ IndexTypes' /\ BallotTypes'
      /\ ThreadTypes' /\ CallTypes'
    BY DEF TermTypes, LogTypes, IndexTypes, BallotTypes, ThreadTypes,
           CallTypes, ExitLoop
<1>4. QED
    BY <1>1, <1>2, <1>3

(* A cursor at 0 leads to another node, whoever holds it.                  *)
LEMMA CursorAtZero ==
    ASSUME cur_peerId = AtEveryPeer(0) PROVE CalleeValid
<1>1. ASSUME NumPeers > 1, NEW n \in Peer PROVE Callee(n) \in Peer \ {n}
    BY <1>1, NumPeersPositive DEF Callee, AtEveryPeer, Peer
<1>2. QED
    BY <1>1 DEF CalleeValid

(* RestartFrom keeps TypeInv.                                              *)
LEMMA RestartFromTypes ==
    ASSUME TypeInv, NEW disk \in [Peer -> Saved], RestartFrom(disk)
    PROVE  TypeInv'
<1> USE DEF RestartFrom, AtEveryPeer
<1>1. \A n \in Peer : /\ disk[n].term \in Nat
                      /\ disk[n].votedFor \in Peer \cup {None}
                      /\ disk[n].logs \in Seq(Entry)
    BY DEF Saved
<1>2. TermTypes' /\ LogTypes'
    BY <1>1 DEF TermTypes, LogTypes
<1>3. IndexTypes' /\ BallotTypes'
    BY DEF IndexTypes, BallotTypes
<1>4. ThreadTypes'
    BY NumPeersPositive DEF ThreadTypes
<1>5. CallTypes'
    BY EmptyBagDomain DEF CallTypes
<1>6. ProcessTypes'
    BY DEF ProcessTypes, TypeInv, TypeOK
<1>7. LoneNodeSilent'
    BY DEF LoneNodeSilent
<1>8. CalleeValid'
    <2>1. ASSUME NumPeers > 1, NEW n \in Peer PROVE Callee(n)' \in Peer \ {n}
        BY <2>1, NumPeersPositive DEF Callee, Peer
    <2>2. QED
        BY <2>1 DEF CalleeValid
<1>9. QED
    BY <1>2, <1>3, <1>4, <1>5, <1>6, <1>7, <1>8 DEF TypeInv, TypeOK

(* The initial states satisfy TypeInv.                                     *)
LEMMA InitTypes == Init => TypeInv
<1> SUFFICES ASSUME Init PROVE TypeInv
    OBVIOUS
<1> USE DEF Init, AtEveryPeer
<1>1. NoFile \in Saved
    BY EmptySeq DEF NoFile, Saved
<1>2. TermTypes /\ LogTypes
    BY <1>1, EmptySeq DEF TermTypes, LogTypes
<1>3. IndexTypes /\ BallotTypes
    BY DEF IndexTypes, BallotTypes
<1>4. ThreadTypes
    BY NumPeersPositive DEF ThreadTypes
<1>5. CallTypes
    BY EmptyBagDomain DEF CallTypes
<1>6. ProcessTypes
    BY DEF ProcessTypes
<1>7. LoneNodeSilent
    BY DEF LoneNodeSilent
<1>8. CalleeValid
    BY CursorAtZero
<1>9. QED
    BY <1>2, <1>3, <1>4, <1>5, <1>6, <1>7, <1>8 DEF TypeInv, TypeOK

(* Every step keeps TypeInv, a step that changes nothing too.              *)
LEMMA NextTypes == TypeInv /\ [Next]_vars => TypeInv'
<1> SUFFICES ASSUME TypeInv, [Next]_vars PROVE TypeInv'
    OBVIOUS
<1>1. ASSUME NEW n \in Peer, ElectionStep(n) PROVE TypeInv'
    BY <1>1, StartElectionTypes, LoseElectionTypes, LeaveDeposedTypes,
       FinishElectionTypes, SendVoteRequestTypes DEF ElectionStep
<1>2. ASSUME NEW n \in Peer, VoteServerStep(n) PROVE TypeInv'
    BY <1>2, RejectVoteTypes, RefuseVoteTypes, ConsiderVoteTypes,
       checkLogUptodateTypes, GrantVoteTypes DEF VoteServerStep
<1>3. ASSUME NEW n \in Peer, AppendStep(n) PROVE TypeInv'
    <2>1. ASSUME NEW m \in DOMAIN appendReqs, HandleAppend(m) PROVE TypeInv'
        BY <2>1, RejectEntriesTypes, ReportShortLogTypes, ReportConflictTypes,
           AcceptEntriesTypes DEF HandleAppend
    <2>2. ASSUME NEW r \in DOMAIN appendReplies, HandleAppendReply(r)
          PROVE  TypeInv'
        BY <2>2, StepDownTypes, HandleSuccessTypes, HandleFailureTypes
        DEF HandleAppendReply
    <2>3. QED
        BY <1>3, <2>1, <2>2, startTypes, BroadcastTypes, SendEntriesTypes,
           ApplyLogTypes DEF AppendStep
<1>4. ASSUME NEW r \in DOMAIN voteReplies, HandleVoteReply(r) PROVE TypeInv'
    BY <1>4, HandleVoteReplyTypes
<1>5. CASE ProcessStep
    <2>1. CASE Restart
        <3>1. file \in [Peer -> Saved]
            BY DEF TypeInv, TypeOK, LogTypes
        <3>2. QED
            BY <2>1, <3>1, RestartFromTypes DEF Restart
    <2>2. ASSUME NEW m \in DOMAIN appendReqs, RestartBetweenSaves(m)
          PROVE  TypeInv'
        <3>1. FirstSave(m) \in [Peer -> Saved]
            BY FirstSaveTyped DEF TypeInv
        <3>2. QED
            BY <2>2, <3>1, RestartFromTypes DEF RestartBetweenSaves
    <2>3. QED
        BY <1>5, <2>1, <2>2, SeeLeaderTypes, killTypes, ExitLoopTypes
        DEF ProcessStep
<1>6. CASE UNCHANGED vars
    BY <1>6 DEF TypeInv, TypeOK, TermTypes, LogTypes, IndexTypes, BallotTypes,
        ThreadTypes, CallTypes, ProcessTypes, CalleeValid, Callee,
        LoneNodeSilent
<1>7. QED
    BY <1>1, <1>2, <1>3, <1>4, <1>5, <1>6 DEF Next

(* TypeInv holds in every reachable state.                                 *)
LEMMA TypeInvariance == Spec => []TypeInv
BY InitTypes, NextTypes, PTL DEF Spec

(* Every reachable state of a cluster of any size is well typed.           *)
THEOREM TypeCorrectness == Spec => []TypeOK
<1>1. TypeInv => TypeOK
    BY DEF TypeInv
<1>2. QED
    BY <1>1, TypeInvariance, PTL

(* The cursor that every RPC thread of a node shares never leads past the  *)
(* end of m_peers nor to the node itself, however the threads interleave.  *)
THEOREM CursorCorrectness == Spec => []CalleeValid
<1>1. TypeInv => CalleeValid
    BY DEF TypeInv
<1>2. QED
    BY <1>1, TypeInvariance, PTL
-----------------------------------------------------------------------------
(* Terms on disk.                                                          *)

(* Logs with terms up to a bound, put together, stay within it.            *)
LEMMA UpToConcat ==
    ASSUME NEW a \in Seq(Entry), NEW b \in Seq(Entry), NEW term \in Nat,
           EntriesUpTo(a, term), EntriesUpTo(b, term)
    PROVE  EntriesUpTo(a \o b, term)
<1>1. /\ Len(a \o b) = Len(a) + Len(b) /\ a \o b \in Seq(Entry)
      /\ \A i \in 1..(Len(a) + Len(b)) :
           (a \o b)[i] = IF i <= Len(a) THEN a[i] ELSE b[i - Len(a)]
    BY ConcatProperties
<1>2. ASSUME NEW i \in 1..(Len(a) + Len(b)) PROVE (a \o b)[i].term <= term
    <2>1. CASE i <= Len(a)
        <3>1. i \in DOMAIN a
            BY <2>1, LenProperties
        <3>2. QED
            BY <1>1, <2>1, <3>1 DEF EntriesUpTo
    <2>2. CASE i > Len(a)
        <3>1. i - Len(a) \in DOMAIN b
            BY <2>2, LenProperties
        <3>2. (a \o b)[i] = b[i - Len(a)]
            BY <1>1, <2>2, LenProperties
        <3>3. QED
            BY <3>1, <3>2 DEF EntriesUpTo
    <2>3. QED
        BY <2>1, <2>2, LenProperties
<1>3. QED
    BY <1>1, <1>2, LenProperties DEF EntriesUpTo

(* A part of a log with terms up to a bound stays within it.               *)
LEMMA UpToSubSeq ==
    ASSUME NEW log \in Seq(Entry), NEW term \in Nat, EntriesUpTo(log, term),
           NEW i \in Nat \ {0}, NEW j \in 0..Len(log)
    PROVE  EntriesUpTo(SubSeq(log, i, j), term)
<1>1. CASE i <= j + 1
    <2>1. /\ Len(SubSeq(log, i, j)) = j - i + 1
          /\ SubSeq(log, i, j) \in Seq(Entry)
          /\ \A k \in 1..(j - i + 1) : SubSeq(log, i, j)[k] = log[i + k - 1]
        BY <1>1, SubSeqProperties, LenProperties
    <2>2. ASSUME NEW k \in 1..(j - i + 1) PROVE i + k - 1 \in DOMAIN log
        BY <1>1, <2>2, LenProperties
    <2>3. DOMAIN SubSeq(log, i, j) = 1..(j - i + 1)
        BY <2>1, LenProperties
    <2>4. QED
        BY <2>1, <2>2, <2>3 DEF EntriesUpTo
<1>2. CASE i > j + 1
    <2>1. SubSeq(log, i, j) = <<>>
        BY <1>2, SubSeqEmpty, LenProperties
    <2>2. QED
        BY <2>1 DEF EntriesUpTo
<1>3. QED
    BY <1>1, <1>2, LenProperties

(* A bound on terms may grow.                                              *)
LEMMA UpToLater ==
    ASSUME NEW log \in Seq(Entry), NEW term \in Nat, NEW later \in Nat,
           term <= later, EntriesUpTo(log, term)
    PROVE  EntriesUpTo(log, later)
<1>1. \A i \in DOMAIN log : log[i].term \in Nat
    <2>1. ASSUME NEW i \in DOMAIN log PROVE log[i] \in Entry
        BY ElementOfSeq, LenProperties
    <2>2. QED
        BY <2>1 DEF Entry
<1>2. QED
    BY <1>1 DEF EntriesUpTo

(* Saving a term and a log keeps on disk what the old file had beyond.     *)
LEMMA UpToWritten ==
    ASSUME NEW saved \in Saved, NEW term \in Nat, NEW vote, NEW upto \in Nat,
           NEW log \in Seq(Entry), EntriesUpTo(log, upto),
           EntriesUpTo(saved.logs, upto)
    PROVE  /\ EntriesUpTo(Written(saved, term, vote, log).logs, upto)
           /\ Written(saved, term, vote, log).term = term
<1> DEFINE tail == SubSeq(saved.logs, Len(log) + 1, Len(saved.logs))
<1>1. saved.logs \in Seq(Entry)
    BY DEF Saved
<1>2. tail \in Seq(Entry)
    BY <1>1, TailTyped, LenProperties
<1>3. EntriesUpTo(tail, upto)
    BY <1>1, UpToSubSeq, LenProperties
<1>4. EntriesUpTo(log \o tail, upto)
    BY <1>2, <1>3, UpToConcat
<1>5. QED
    BY <1>4 DEF Written

(* A node that saves its log with a term not before its own is covered,    *)
(* whatever it has become.                                                 *)
LEMMA CoveredWhenSaved ==
    ASSUME NEW state, NEW term \in Nat, NEW log \in Seq(Entry),
           NEW saved \in Saved, Covered(state, term, log, saved),
           NEW newState, NEW newTerm \in Nat, term <= newTerm, NEW vote
    PROVE  Covered(newState, newTerm, log, Written(saved, newTerm, vote, log))
<1>1. saved.term \in Nat /\ saved.logs \in Seq(Entry) /\ saved.term <= newTerm
    BY DEF Saved, Covered
<1>2. EntriesUpTo(log, newTerm) /\ EntriesUpTo(saved.logs, newTerm)
    BY <1>1, UpToLater DEF Covered
<1>3. QED
    BY <1>2, UpToWritten DEF Covered

(* What holds of a node and its file.                                      *)
LEMMA NodeTyped ==
    ASSUME TypeOK, NEW n \in Peer
    PROVE  /\ m_curTerm[n] \in Nat /\ m_votedFor[n] \in Peer \cup {None}
           /\ m_logs[n] \in Seq(Entry) /\ file[n] \in Saved
           /\ file[n].term \in Nat /\ file[n].logs \in Seq(Entry)
BY DEF TypeOK, TermTypes, LogTypes, Saved

(* A step of one node that adds no call of appendEntries has to keep that  *)
(* node covered only.                                                      *)
LEMMA OneNodeCovered ==
    ASSUME TermCoversLog, NEW n \in Peer,
           \A p \in Peer \ {n} :
               /\ m_state'[p] = m_state[p] /\ m_curTerm'[p] = m_curTerm[p]
               /\ m_logs'[p] = m_logs[p] /\ file'[p] = file[p],
           Covered(m_state'[n], m_curTerm'[n], m_logs'[n], file'[n]),
           DOMAIN appendReqs' \subseteq DOMAIN appendReqs
    PROVE  TermCoversLog'
BY DEF TermCoversLog

(* A step that leaves terms, logs, files and calls of appendEntries alone. *)
LEMMA CoverLeftAlone ==
    ASSUME TermCoversLog,
           UNCHANGED <<m_state, m_curTerm, m_logs, file, appendReqs>>
    PROVE  TermCoversLog'
BY DEF TermCoversLog

(* StartElection keeps TermCoversLog.                                      *)
LEMMA StartElectionCovers ==
    ASSUME TypeOK, TermCoversLog, NEW n \in Peer, StartElection(n)
    PROVE  TermCoversLog'
<1>1. Covered("CANDIDATE", m_curTerm[n] + 1, m_logs[n],
              Written(file[n], m_curTerm[n] + 1, n, m_logs[n]))
    <2>1. m_curTerm[n] + 1 \in Nat /\ m_curTerm[n] <= m_curTerm[n] + 1
        BY NodeTyped
    <2>2. QED
        BY <2>1, NodeTyped, CoveredWhenSaved DEF TermCoversLog
<1>2. /\ m_state'[n] = "CANDIDATE" /\ m_curTerm'[n] = m_curTerm[n] + 1
      /\ m_logs'[n] = m_logs[n]
      /\ file'[n] = Written(file[n], m_curTerm[n] + 1, n, m_logs[n])
    BY DEF TypeOK, TermTypes, LogTypes, StartElection, saveRaftState
<1>3. \A p \in Peer \ {n} :
          /\ m_state'[p] = m_state[p] /\ m_curTerm'[p] = m_curTerm[p]
          /\ m_logs'[p] = m_logs[p] /\ file'[p] = file[p]
    BY DEF TypeOK, TermTypes, LogTypes, StartElection, saveRaftState
<1>4. DOMAIN appendReqs' \subseteq DOMAIN appendReqs
    BY DEF StartElection
<1>5. QED
    BY <1>1, <1>2, <1>3, <1>4, OneNodeCovered

(* FinishElection keeps TermCoversLog.                                     *)
LEMMA FinishElectionCovers ==
    ASSUME TypeOK, TermCoversLog, NEW n \in Peer, FinishElection(n)
    PROVE  TermCoversLog'
<1>1. Covered("CANDIDATE", m_curTerm[n], m_logs[n], file[n])
    BY DEF TermCoversLog, FinishElection
<1>2. Covered(m_state'[n], m_curTerm'[n], m_logs'[n], file'[n])
    BY <1>1 DEF Covered, FinishElection
<1>3. \A p \in Peer \ {n} :
          /\ m_state'[p] = m_state[p] /\ m_curTerm'[p] = m_curTerm[p]
          /\ m_logs'[p] = m_logs[p] /\ file'[p] = file[p]
    BY DEF TypeOK, TermTypes, FinishElection
<1>4. DOMAIN appendReqs' \subseteq DOMAIN appendReqs
    BY DEF FinishElection
<1>5. QED
    BY <1>2, <1>3, <1>4, OneNodeCovered

(* RefuseVote keeps TermCoversLog.                                         *)
LEMMA RefuseVoteCovers ==
    ASSUME TypeOK, TermCoversLog, NEW m \in DOMAIN voteReqs, RefuseVote(m)
    PROVE  TermCoversLog'
<1> DEFINE n == m.to
           written == Written(file[n], m_curTerm[n], m_votedFor[n], m_logs[n])
<1>1. n \in Peer
    BY DEF TypeOK, CallTypes, VoteArgs
<1>2. Covered(m_state[n], m_curTerm[n], m_logs[n], written)
    BY <1>1, NodeTyped, CoveredWhenSaved DEF TermCoversLog
<1>3. file' = [file EXCEPT ![n] = written]
    BY DEF RefuseVote, saveRaftState
<1> HIDE DEF n, written
<1>4. Covered(m_state'[n], m_curTerm'[n], m_logs'[n], file'[n])
    BY <1>1, <1>2, <1>3 DEF TypeOK, LogTypes, RefuseVote
<1>5. \A p \in Peer \ {n} :
          /\ m_state'[p] = m_state[p] /\ m_curTerm'[p] = m_curTerm[p]
          /\ m_logs'[p] = m_logs[p] /\ file'[p] = file[p]
    BY <1>3 DEF TypeOK, LogTypes, RefuseVote
<1>6. DOMAIN appendReqs' \subseteq DOMAIN appendReqs
    BY DEF RefuseVote
<1>7. QED
    BY <1>1, <1>4, <1>5, <1>6, OneNodeCovered

(* ConsiderVote keeps TermCoversLog.                                       *)
LEMMA ConsiderVoteCovers ==
    ASSUME TypeOK, TermCoversLog, NEW m \in DOMAIN voteReqs, ConsiderVote(m)
    PROVE  TermCoversLog'
<1> DEFINE n == m.to
<1>1. n \in Peer /\ m.term \in Nat
    BY DEF TypeOK, CallTypes, VoteArgs
<1>2. Covered(m_state[n], m_curTerm[n], m_logs[n], file[n])
    BY <1>1 DEF TermCoversLog
<1>3. Covered(m_state'[n], m_curTerm'[n], m_logs'[n], file'[n])
    <2>1. CASE m.term > m_curTerm[n]
        <3>1. /\ m_state'[n] = "FOLLOWER" /\ m_curTerm'[n] = m.term
              /\ m_logs'[n] = m_logs[n] /\ file'[n] = file[n]
            BY <1>1, <2>1 DEF TypeOK, TermTypes, ConsiderVote
        <3>2. QED
            BY <1>1, <1>2, <2>1, <3>1, NodeTyped DEF Covered
    <2>2. CASE ~(m.term > m_curTerm[n])
        BY <1>2, <2>2 DEF ConsiderVote
    <2>3. QED
        BY <2>1, <2>2
<1>4. \A p \in Peer \ {n} :
          /\ m_state'[p] = m_state[p] /\ m_curTerm'[p] = m_curTerm[p]
          /\ m_logs'[p] = m_logs[p] /\ file'[p] = file[p]
    BY DEF TypeOK, TermTypes, ConsiderVote
<1>5. DOMAIN appendReqs' \subseteq DOMAIN appendReqs
    BY DEF ConsiderVote
<1>6. QED
    BY <1>1, <1>3, <1>4, <1>5, OneNodeCovered

(* GrantVote keeps TermCoversLog.                                          *)
LEMMA GrantVoteCovers ==
    ASSUME TypeOK, TermCoversLog, NEW n \in Peer, GrantVote(n)
    PROVE  TermCoversLog'
<1> DEFINE written == Written(file[n], m_curTerm[n], voteSrv[n].req.from,
                              m_logs[n])
<1>1. Covered(m_state[n], m_curTerm[n], m_logs[n], written)
    BY NodeTyped, CoveredWhenSaved DEF TermCoversLog
<1>2. file' = [file EXCEPT ![n] = written]
    BY DEF GrantVote, saveRaftState
<1> HIDE DEF written
<1>3. Covered(m_state'[n], m_curTerm'[n], m_logs'[n], file'[n])
    BY <1>1, <1>2 DEF TypeOK, LogTypes, GrantVote
<1>4. \A p \in Peer \ {n} :
          /\ m_state'[p] = m_state[p] /\ m_curTerm'[p] = m_curTerm[p]
          /\ m_logs'[p] = m_logs[p] /\ file'[p] = file[p]
    BY <1>2 DEF TypeOK, LogTypes, GrantVote
<1>5. DOMAIN appendReqs' \subseteq DOMAIN appendReqs
    BY DEF GrantVote
<1>6. QED
    BY <1>3, <1>4, <1>5, OneNodeCovered

(* HandleVoteReply keeps TermCoversLog.                                    *)
LEMMA HandleVoteReplyCovers ==
    ASSUME TypeOK, TermCoversLog, NEW r \in DOMAIN voteReplies,
           HandleVoteReply(r)
    PROVE  TermCoversLog'
<1> DEFINE n == r.to
<1>1. n \in Peer
    BY DEF TypeOK, CallTypes, VoteAnswer
<1>2. Covered(m_state[n], m_curTerm[n], m_logs[n], file[n])
    BY <1>1 DEF TermCoversLog
<1>3. Covered(m_state'[n], m_curTerm'[n], m_logs'[n], file'[n])
    <2>1. CASE r.term > m_curTerm[n]
        <3>1. /\ m_state'[n] = "FOLLOWER" /\ m_curTerm'[n] = file[n].term
              /\ m_logs'[n] = m_logs[n] \o file[n].logs /\ file'[n] = file[n]
            BY <1>1, <2>1 DEF TypeOK, TermTypes, LogTypes, HandleVoteReply
        <3>2. EntriesUpTo(m_logs[n] \o file[n].logs, file[n].term)
            BY <1>1, <1>2, NodeTyped, UpToConcat DEF Covered
        <3>3. QED
            BY <1>1, <1>2, <3>1, <3>2, NodeTyped DEF Covered
    <2>2. CASE ~(r.term > m_curTerm[n])
        BY <1>2, <2>2 DEF HandleVoteReply
    <2>3. QED
        BY <2>1, <2>2
<1>4. \A p \in Peer \ {n} :
          /\ m_state'[p] = m_state[p] /\ m_curTerm'[p] = m_curTerm[p]
          /\ m_logs'[p] = m_logs[p] /\ file'[p] = file[p]
    BY DEF TypeOK, TermTypes, LogTypes, HandleVoteReply
<1>5. DOMAIN appendReqs' \subseteq DOMAIN appendReqs
    BY DEF HandleVoteReply
<1>6. QED
    BY <1>1, <1>3, <1>4, <1>5, OneNodeCovered

(* start keeps TermCoversLog.                                              *)
LEMMA startCovers ==
    ASSUME TypeOK, TermCoversLog, NEW n \in Peer, start(n)
    PROVE  TermCoversLog'
<1> DEFINE e == [term |-> m_curTerm[n], key |-> key]
<1>1. Covered(m_state[n], m_curTerm[n], m_logs[n], file[n])
    BY DEF TermCoversLog
<1>2. file[n].term = m_curTerm[n] /\ file[n].term \in Nat
      /\ m_logs[n] \in Seq(Entry)
    BY <1>1, NodeTyped DEF Covered, start
<1>3. EntriesUpTo(Append(m_logs[n], e), file[n].term)
    <2>1. /\ Len(Append(m_logs[n], e)) = Len(m_logs[n]) + 1
          /\ \A i \in 1..Len(m_logs[n]) : Append(m_logs[n], e)[i] = m_logs[n][i]
          /\ Append(m_logs[n], e)[Len(m_logs[n]) + 1] = e
          /\ DOMAIN Append(m_logs[n], e) = 1..(Len(m_logs[n]) + 1)
        <3>1. m_logs[n] \in Seq({m_logs[n][i] : i \in 1..Len(m_logs[n])} \cup {e})
            BY <1>2, IsASeq, ElementOfSeq, LenProperties
        <3>2. e \in {m_logs[n][i] : i \in 1..Len(m_logs[n])} \cup {e}
            OBVIOUS
        <3>3. QED
            BY <3>1, <3>2, AppendProperties, LenProperties
    <2>2. \A i \in 1..Len(m_logs[n]) : m_logs[n][i].term <= file[n].term
        BY <1>1, <1>2, LenProperties DEF Covered, EntriesUpTo
    <2>3. e.term <= file[n].term
        BY <1>2
    <2>4. QED
        BY <1>2, <2>1, <2>2, <2>3, LenProperties DEF EntriesUpTo
<1>4. /\ m_state'[n] = m_state[n] /\ m_curTerm'[n] = m_curTerm[n]
      /\ m_logs'[n] = Append(m_logs[n], e) /\ file'[n] = file[n]
    BY DEF TypeOK, LogTypes, start
<1>5. Covered(m_state'[n], m_curTerm'[n], m_logs'[n], file'[n])
    BY <1>1, <1>3, <1>4 DEF Covered
<1>6. \A p \in Peer \ {n} :
          /\ m_state'[p] = m_state[p] /\ m_curTerm'[p] = m_curTerm[p]
          /\ m_logs'[p] = m_logs[p] /\ file'[p] = file[p]
    BY DEF TypeOK, LogTypes, start
<1>7. DOMAIN appendReqs' \subseteq DOMAIN appendReqs
    BY DEF start
<1>8. QED
    BY <1>5, <1>6, <1>7, OneNodeCovered

(* SendEntries keeps TermCoversLog.                                        *)
LEMMA SendEntriesCovers ==
    ASSUME TypeInv, TermCoversLog, NEW n \in Peer, SendEntries(n)
    PROVE  TermCoversLog'
<1> DEFINE p == Callee(n)
           prev == m_nextIndex[n][p] - 1
<1>1. p \in Peer /\ prev \in Int
    BY CursorAdvanced DEF SendEntries, TypeInv, TypeOK, IndexTypes
<1>2. EntriesUpTo(EntriesAfter(m_logs[n], prev), m_curTerm[n])
    <2>1. /\ m_logs[n] \in Seq(Entry) /\ m_curTerm[n] \in Nat
          /\ file[n].term \in Nat /\ file[n].term <= m_curTerm[n]
          /\ EntriesUpTo(m_logs[n], file[n].term)
        BY NodeTyped DEF TypeInv, TermCoversLog, Covered
    <2>2. EntriesUpTo(m_logs[n], m_curTerm[n])
        BY <2>1, UpToLater
    <2>3. CASE prev \in 0..Len(m_logs[n])
        <3>1. prev + 1 \in Nat \ {0} /\ Len(m_logs[n]) \in 0..Len(m_logs[n])
            BY <2>1, <2>3, LenProperties
        <3>2. EntriesUpTo(SubSeq(m_logs[n], prev + 1, Len(m_logs[n])),
                          m_curTerm[n])
            BY <2>1, <2>2, <3>1, UpToSubSeq
        <3>3. QED
            BY <2>3, <3>2 DEF EntriesAfter
    <2>4. CASE prev \notin 0..Len(m_logs[n])
        BY <2>4 DEF EntriesAfter, EntriesUpTo
    <2>5. QED
        BY <2>3, <2>4
<1>3. PICK prevTerm \in PrevLogTerms(m_logs[n], prev) :
        appendReqs' = BagAdd(appendReqs,
           [from |-> n, to |-> p, term |-> m_curTerm[n],
            prevLogIndex |-> prev, prevLogTerm |-> prevTerm,
            leaderCommit |-> m_commitIndex[n],
            entries |-> EntriesAfter(m_logs[n], prev)])
    BY DEF SendEntries
<1> DEFINE req == [from |-> n, to |-> p, term |-> m_curTerm[n],
                   prevLogIndex |-> prev, prevLogTerm |-> prevTerm,
                   leaderCommit |-> m_commitIndex[n],
                   entries |-> EntriesAfter(m_logs[n], prev)]
<1>4. EntriesUpTo(req.entries, req.term)
    BY <1>2
<1>5. appendReqs' = BagAdd(appendReqs, req)
    BY <1>3
<1> HIDE DEF req
<1>6. DOMAIN appendReqs' \subseteq DOMAIN appendReqs \cup {req}
    BY <1>5 DEF BagAdd
<1>7. UNCHANGED <<m_state, m_curTerm, m_logs, file>>
    BY DEF SendEntries
<1>8. QED
    BY <1>4, <1>6, <1>7 DEF TermCoversLog

(* appendEntries: the node follows a term not before its own, and the      *)
(* first save leaves no later one on disk.                                 *)
LEMMA FollowerCovered ==
    ASSUME TypeOK, TermCoversLog, NEW m \in DOMAIN appendReqs,
           m.term >= m_curTerm[m.to]
    PROVE  Covered("FOLLOWER", m.term, m_logs[m.to], FirstSave(m)[m.to])
<1> DEFINE n == m.to
<1>1. n \in Peer /\ m.term \in Nat
    BY AppendArgsTyped
<1>2. Covered(m_state[n], m_curTerm[n], m_logs[n], file[n])
    BY <1>1 DEF TermCoversLog
<1>3. CASE m.term > m_curTerm[n]
    <2> DEFINE written == Written(file[n], m_curTerm[n], None, m_logs[n])
    <2>1. Covered("FOLLOWER", m_curTerm[n], m_logs[n], written)
        BY <1>1, <1>2, NodeTyped, CoveredWhenSaved
    <2>2. written.term = m_curTerm[n]
        BY DEF Written
    <2>3. FirstSave(m)[n] = written
        BY <1>1, <1>3 DEF FirstSave, TypeOK, LogTypes
    <2> HIDE DEF written
    <2>4. QED
        BY <1>1, <1>3, <2>1, <2>2, <2>3, NodeTyped DEF Covered
<1>4. CASE ~(m.term > m_curTerm[n])
    <2>1. FirstSave(m)[n] = file[n]
        BY <1>4 DEF FirstSave
    <2>2. m.term = m_curTerm[n]
        BY <1>1, <1>4, NodeTyped
    <2>3. QED
        BY <1>2, <2>1, <2>2 DEF Covered
<1>5. QED
    BY <1>3, <1>4

(* The other nodes and the calls, where one call is answered.              *)
LEMMA AnswerLeavesOthers ==
    ASSUME TypeOK, NEW m \in DOMAIN appendReqs, FollowLeader(m),
           NEW reply, Reply(m, reply)
    PROVE  /\ m_state'[m.to] = "FOLLOWER" /\ m_curTerm'[m.to] = m.term
           /\ m.term >= m_curTerm[m.to]
           /\ \A p \in Peer \ {m.to} : /\ m_state'[p] = m_state[p]
                                        /\ m_curTerm'[p] = m_curTerm[p]
                                        /\ FirstSave(m)[p] = file[p]
                                        /\ SecondSave(m)[p] = file[p]
           /\ DOMAIN appendReqs' \subseteq DOMAIN appendReqs
<1>1. m.to \in Peer
    BY AppendArgsTyped
<1>2. DOMAIN appendReqs' \subseteq DOMAIN appendReqs
    BY RemovedFromBag DEF Reply
<1>3. \A p \in Peer \ {m.to} : FirstSave(m)[p] = file[p]
    BY DEF FirstSave, TypeOK, LogTypes
<1>4. \A p \in Peer \ {m.to} : SecondSave(m)[p] = file[p]
    BY <1>3, FirstSaveTyped DEF SecondSave
<1>5. QED
    BY <1>1, <1>2, <1>3, <1>4 DEF TypeOK, TermTypes, FollowLeader

(* ReportShortLog keeps TermCoversLog.                                     *)
LEMMA ReportShortLogCovers ==
    ASSUME TypeOK, TermCoversLog, NEW m \in DOMAIN appendReqs,
           ReportShortLog(m)
    PROVE  TermCoversLog'
<1>1. PICK reply : Reply(m, reply)
    BY DEF ReportShortLog
<1>2. FollowLeader(m) /\ file' = FirstSave(m) /\ m_logs' = m_logs
    BY DEF ReportShortLog
<1>3. QED
    BY <1>1, <1>2, AnswerLeavesOthers, FollowerCovered, AppendArgsTyped,
       OneNodeCovered

(* ReportConflict keeps TermCoversLog.                                     *)
LEMMA ReportConflictCovers ==
    ASSUME TypeOK, TermCoversLog, NEW m \in DOMAIN appendReqs,
           ReportConflict(m)
    PROVE  TermCoversLog'
<1>1. PICK reply : Reply(m, reply)
    BY DEF ReportConflict
<1>2. FollowLeader(m) /\ file' = FirstSave(m) /\ m_logs' = m_logs
    BY DEF ReportConflict
<1>3. QED
    BY <1>1, <1>2, AnswerLeavesOthers, FollowerCovered, AppendArgsTyped,
       OneNodeCovered

(* AcceptEntries keeps TermCoversLog.                                      *)
LEMMA AcceptEntriesCovers ==
    ASSUME TypeOK, TermCoversLog, NEW m \in DOMAIN appendReqs,
           AcceptEntries(m)
    PROVE  TermCoversLog'
<1> DEFINE n == m.to
           log == Accepted(m)
           saved == FirstSave(m)[n]
           vote == IF m.term > m_curTerm[n] THEN None ELSE m_votedFor[n]
<1>1. PICK reply : Reply(m, reply)
    BY DEF AcceptEntries
<1>2. FollowLeader(m) /\ file' = SecondSave(m)
      /\ m_logs' = [m_logs EXCEPT ![n] = log]
    BY DEF AcceptEntries
<1>3. /\ n \in Peer /\ m.term \in Nat /\ m.entries \in Seq(Entry)
      /\ m_logs[n] \in Seq(Entry) /\ saved \in Saved
      /\ saved.logs \in Seq(Entry) /\ saved.term \in Nat
    BY AppendArgsTyped, FirstSaveTyped, NodeTyped DEF Saved
<1>4. log \in Seq(Entry)
    BY AcceptedTyped DEF AcceptEntries
<1>5. Covered("FOLLOWER", m.term, m_logs[n], saved)
    BY <1>1, <1>2, AnswerLeavesOthers, FollowerCovered
<1>6. /\ EntriesUpTo(m_logs[n], m.term) /\ EntriesUpTo(saved.logs, m.term)
      /\ EntriesUpTo(m.entries, m.term)
    BY <1>3, <1>5, UpToLater DEF Covered, TermCoversLog
<1>7. EntriesUpTo(log, m.term)
    <2>1. CASE m_logs[n] = <<>>
        BY <1>6, <2>1 DEF Accepted
    <2>2. CASE m_logs[n] # <<>>
        <3>1. m.prevLogIndex \in 0..Len(m_logs[n])
            BY <2>2 DEF AcceptEntries, MissesPrev
        <3>2. /\ SubSeq(m_logs[n], 1, m.prevLogIndex) \in Seq(Entry)
              /\ EntriesUpTo(SubSeq(m_logs[n], 1, m.prevLogIndex), m.term)
            BY <1>3, <1>6, <3>1, FrontTyped, UpToSubSeq
        <3>3. QED
            BY <1>3, <1>6, <2>2, <3>2, UpToConcat DEF Accepted
    <2>3. QED
        BY <2>1, <2>2
<1> HIDE DEF log, saved
<1>8. file'[n] = Written(saved, m.term, vote, log)
    <2>1. FirstSave(m) \in [Peer -> Saved]
        BY FirstSaveTyped
    <2>2. QED
        BY <1>2, <1>3, <2>1 DEF SecondSave, saved, log
<1>9. Covered("FOLLOWER", m.term, log, file'[n])
    BY <1>3, <1>4, <1>6, <1>7, <1>8, UpToWritten DEF Covered
<1>10. m_logs'[n] = log /\ \A p \in Peer \ {n} : m_logs'[p] = m_logs[p]
    BY <1>2, <1>3 DEF TypeOK, LogTypes
<1>11. QED
    BY <1>1, <1>2, <1>3, <1>9, <1>10, AnswerLeavesOthers, OneNodeCovered

(* A node that handles a reply saves its log with the term it then has.    *)
LEMMA SavingCovers ==
    ASSUME TypeOK, TermCoversLog, NEW n \in Peer, NEW term \in Nat, NEW vote,
           m_curTerm[n] <= term, m_curTerm'[n] = term,
           saveRaftState(n, term, vote, m_logs[n]), UNCHANGED m_logs,
           \A p \in Peer \ {n} :
               m_state'[p] = m_state[p] /\ m_curTerm'[p] = m_curTerm[p],
           DOMAIN appendReqs' \subseteq DOMAIN appendReqs
    PROVE  TermCoversLog'
<1> DEFINE written == Written(file[n], term, vote, m_logs[n])
<1>1. Covered(m_state'[n], term, m_logs[n], written)
    BY NodeTyped, CoveredWhenSaved DEF TermCoversLog
<1>2. file' = [file EXCEPT ![n] = written]
    BY DEF saveRaftState
<1> HIDE DEF written
<1>3. file'[n] = written /\ \A p \in Peer \ {n} : file'[p] = file[p]
    BY <1>2 DEF TypeOK, LogTypes
<1>4. QED
    BY <1>1, <1>3, OneNodeCovered

(* StepDown keeps TermCoversLog.                                           *)
LEMMA StepDownCovers ==
    ASSUME TypeOK, TermCoversLog, NEW r \in DOMAIN appendReplies, StepDown(r)
    PROVE  TermCoversLog'
<1>1. /\ r.to \in Peer /\ r.term \in Nat /\ m_curTerm[r.to] \in Nat
    BY AppendAnswerTyped, NodeTyped
<1>2. /\ m_curTerm[r.to] <= r.term /\ m_curTerm'[r.to] = r.term
      /\ \A p \in Peer \ {r.to} :
            m_state'[p] = m_state[p] /\ m_curTerm'[p] = m_curTerm[p]
    BY <1>1 DEF TypeOK, TermTypes, StepDown, LaterTerm
<1>3. /\ saveRaftState(r.to, r.term, None, m_logs[r.to]) /\ UNCHANGED m_logs
      /\ DOMAIN appendReqs' \subseteq DOMAIN appendReqs
    BY DEF StepDown, HandleReply
<1>4. QED
    BY <1>1, <1>2, <1>3, SavingCovers

(* HandleSuccess keeps TermCoversLog.                                      *)
LEMMA HandleSuccessCovers ==
    ASSUME TypeOK, TermCoversLog, NEW r \in DOMAIN appendReplies,
           HandleSuccess(r)
    PROVE  TermCoversLog'
<1>1. r.to \in Peer /\ m_curTerm[r.to] \in Nat
    BY AppendAnswerTyped, NodeTyped
<1>2. m_state' = m_state /\ m_curTerm' = m_curTerm
    BY DEF HandleSuccess
<1>3. /\ saveRaftState(r.to, m_curTerm[r.to], m_votedFor[r.to], m_logs[r.to])
      /\ UNCHANGED m_logs /\ DOMAIN appendReqs' \subseteq DOMAIN appendReqs
    BY DEF HandleSuccess, HandleReply
<1>4. QED
    BY <1>1, <1>2, <1>3, SavingCovers

(* HandleFailure keeps TermCoversLog.                                      *)
LEMMA HandleFailureCovers ==
    ASSUME TypeOK, TermCoversLog, NEW r \in DOMAIN appendReplies,
           HandleFailure(r)
    PROVE  TermCoversLog'
<1>1. r.to \in Peer /\ m_curTerm[r.to] \in Nat
    BY AppendAnswerTyped, NodeTyped
<1>2. m_state' = m_state /\ m_curTerm' = m_curTerm
    BY DEF HandleFailure
<1>3. /\ saveRaftState(r.to, m_curTerm[r.to], m_votedFor[r.to], m_logs[r.to])
      /\ UNCHANGED m_logs /\ DOMAIN appendReqs' \subseteq DOMAIN appendReqs
    BY DEF HandleFailure, HandleReply
<1>4. QED
    BY <1>1, <1>2, <1>3, SavingCovers

(* A process that starts on files that cover their own logs.               *)
LEMMA RestartFromCovers ==
    ASSUME NEW disk \in [Peer -> Saved], RestartFrom(disk),
           \A n \in Peer : EntriesUpTo(disk[n].logs, disk[n].term)
    PROVE  TermCoversLog'
<1>1. \A n \in Peer : disk[n].term \in Nat
    BY DEF Saved
<1>2. ASSUME NEW n \in Peer
      PROVE  Covered(m_state'[n], m_curTerm'[n], m_logs'[n], file'[n])
    BY <1>1 DEF Covered, RestartFrom, AtEveryPeer
<1>3. DOMAIN appendReqs' = {}
    BY EmptyBagDomain DEF RestartFrom
<1>4. QED
    BY <1>2, <1>3 DEF TermCoversLog

(* RestartBetweenSaves keeps TermCoversLog.                                *)
LEMMA RestartBetweenSavesCovers ==
    ASSUME TypeOK, TermCoversLog, NEW m \in DOMAIN appendReqs,
           RestartBetweenSaves(m)
    PROVE  TermCoversLog'
<1>1. FirstSave(m) \in [Peer -> Saved]
    BY FirstSaveTyped
<1>2. ASSUME NEW n \in Peer
      PROVE  EntriesUpTo(FirstSave(m)[n].logs, FirstSave(m)[n].term)
    <2>1. CASE n = m.to
        <3>1. m.term >= m_curTerm[m.to]
            BY <1>2, <2>1, AppendArgsTyped, NodeTyped DEF RestartBetweenSaves
        <3>2. QED
            BY <2>1, <3>1, FollowerCovered DEF Covered
    <2>2. CASE n # m.to
        BY <2>2 DEF FirstSave, TypeOK, LogTypes, TermCoversLog, Covered
    <2>3. QED
        BY <2>1, <2>2
<1>3. QED
    BY <1>1, <1>2, RestartFromCovers DEF RestartBetweenSaves

(* The initial states satisfy TermCoversLog.                               *)
LEMMA InitCovers == Init => TermCoversLog
BY EmptyBagDomain
DEF Init, TermCoversLog, Covered, EntriesUpTo, AtEveryPeer, NoFile

(* Every step from a state with TypeInv keeps TermCoversLog.               *)
LEMMA NextCovers == TypeInv /\ TermCoversLog /\ [Next]_vars => TermCoversLog'
<1> SUFFICES ASSUME TypeInv, TermCoversLog, [Next]_vars PROVE TermCoversLog'
    OBVIOUS
<1>1. TypeOK
    BY DEF TypeInv
<1>2. ASSUME NEW n \in Peer, ElectionStep(n) PROVE TermCoversLog'
    <2>1. ASSUME LoseElection(n) \/ LeaveDeposed(n) \/ SendVoteRequest(n)
          PROVE  TermCoversLog'
        BY <2>1, CoverLeftAlone
        DEF LoseElection, LeaveDeposed, SendVoteRequest
    <2>2. QED
        BY <1>1, <1>2, <2>1, StartElectionCovers, FinishElectionCovers
        DEF ElectionStep
<1>3. ASSUME NEW n \in Peer, VoteServerStep(n) PROVE TermCoversLog'
    <2>1. ASSUME NEW m, RejectVote(m) PROVE TermCoversLog'
        BY <2>1, CoverLeftAlone DEF RejectVote
    <2>2. ASSUME checkLogUptodate(n) PROVE TermCoversLog'
        BY <2>2, CoverLeftAlone DEF checkLogUptodate
    <2>3. QED
        BY <1>1, <1>3, <2>1, <2>2, RefuseVoteCovers, ConsiderVoteCovers,
           GrantVoteCovers DEF VoteServerStep
<1>4. ASSUME NEW n \in Peer, AppendStep(n) PROVE TermCoversLog'
    <2>1. ASSUME NEW m \in DOMAIN appendReqs, HandleAppend(m)
          PROVE  TermCoversLog'
        <3>1. ASSUME RejectEntries(m) PROVE TermCoversLog'
            <4>1. /\ UNCHANGED <<m_state, m_curTerm, m_logs, file>>
                  /\ DOMAIN appendReqs' \subseteq DOMAIN appendReqs
                BY <3>1, RemovedFromBag DEF RejectEntries, Reply
            <4>2. QED
                BY <4>1 DEF TermCoversLog
        <3>2. QED
            BY <1>1, <2>1, <3>1, ReportShortLogCovers, ReportConflictCovers,
               AcceptEntriesCovers DEF HandleAppend
    <2>2. ASSUME NEW r \in DOMAIN appendReplies, HandleAppendReply(r)
          PROVE  TermCoversLog'
        BY <1>1, <2>2, StepDownCovers, HandleSuccessCovers,
           HandleFailureCovers DEF HandleAppendReply
    <2>3. ASSUME Broadcast(n) \/ ApplyLog(n) PROVE TermCoversLog'
        BY <2>3, CoverLeftAlone DEF Broadcast, ApplyLog
    <2>4. QED
        BY <1>1, <1>4, <2>1, <2>2, <2>3, startCovers, SendEntriesCovers
        DEF AppendStep
<1>5. ASSUME NEW r \in DOMAIN voteReplies, HandleVoteReply(r)
      PROVE  TermCoversLog'
    BY <1>1, <1>5, HandleVoteReplyCovers
<1>6. CASE ProcessStep
    <2>1. CASE Restart
        BY <1>1, <2>1, RestartFromCovers
        DEF Restart, TypeOK, LogTypes, TermCoversLog, Covered
    <2>2. ASSUME NEW n \in Peer, NEW loop,
                 SeeLeader(n) \/ kill \/ ExitLoop(n, loop)
          PROVE  TermCoversLog'
        BY <2>2, CoverLeftAlone DEF SeeLeader, kill, ExitLoop
    <2>3. QED
        BY <1>1, <1>6, <2>1, <2>2, NumPeersPositive, RestartBetweenSavesCovers
        DEF ProcessStep
<1>7. CASE UNCHANGED vars
    BY <1>7, CoverLeftAlone
<1>8. QED
    BY <1>2, <1>3, <1>4, <1>5, <1>6, <1>7 DEF Next

(* However late calls return and whenever the process crashes, what a node *)
(* has on disk is of its own term or an earlier one, and its entries are   *)
(* of no later term than the one it would come back in.                    *)
THEOREM TermsOnDisk == Spec => []TermCoversLog
<1>1. Init => TermCoversLog
    BY InitCovers
<1>2. TypeInv /\ TermCoversLog /\ [Next]_vars => TermCoversLog'
    BY NextCovers
<1>3. QED
    BY <1>1, <1>2, TypeInvariance, PTL DEF Spec
-----------------------------------------------------------------------------
(* What a step may do to a term, and to the log of a leader.               *)

(* A step that moves the term of one node on, and no other.                *)
LEMMA OneTermRises ==
    ASSUME TypeOK, NEW n \in Peer, NEW term \in Nat, term >= m_curTerm[n],
           m_curTerm' = [m_curTerm EXCEPT ![n] = term]
    PROVE  \A p \in Peer : FallsToDisk(p)
<1>1. \A p \in Peer : m_curTerm[p] \in Nat
    BY NodeTyped
<1>2. \A p \in Peer : m_curTerm'[p] = IF p = n THEN term ELSE m_curTerm[p]
    BY DEF TypeOK, TermTypes
<1>3. \A p \in Peer : ~(m_curTerm'[p] < m_curTerm[p])
    BY <1>1, <1>2
<1>4. QED
    BY <1>3 DEF FallsToDisk

(* A step that leaves the terms alone.                                     *)
LEMMA TermsLeftAlone ==
    ASSUME TypeOK, UNCHANGED m_curTerm PROVE \A p \in Peer : FallsToDisk(p)
BY NodeTyped DEF FallsToDisk

(* Elections raise the term of the node that starts one.                   *)
LEMMA ElectionTerms ==
    ASSUME TypeOK, NEW n \in Peer, ElectionStep(n)
    PROVE  \A p \in Peer : FallsToDisk(p)
<1>1. CASE StartElection(n)
    <2>1. m_curTerm[n] + 1 \in Nat /\ m_curTerm[n] + 1 >= m_curTerm[n]
        BY NodeTyped
    <2>2. QED
        BY <1>1, <2>1, OneTermRises DEF StartElection
<1>2. CASE LoseElection(n) \/ LeaveDeposed(n) \/ FinishElection(n)
           \/ SendVoteRequest(n)
    BY <1>2, TermsLeftAlone
    DEF LoseElection, LeaveDeposed, FinishElection, SendVoteRequest
<1>3. QED
    BY <1>1, <1>2 DEF ElectionStep

(* A vote server moves its node on to the term of a request.               *)
LEMMA VoteServerTerms ==
    ASSUME TypeOK, NEW n \in Peer, VoteServerStep(n)
    PROVE  \A p \in Peer : FallsToDisk(p)
<1>1. ASSUME NEW m \in DOMAIN voteReqs, ConsiderVote(m)
      PROVE  \A p \in Peer : FallsToDisk(p)
    <2>1. m.to \in Peer /\ m.term \in Nat
        BY DEF TypeOK, CallTypes, VoteArgs
    <2>2. CASE m.term > m_curTerm[m.to]
        <3>1. m_curTerm' = [m_curTerm EXCEPT ![m.to] = m.term]
            BY <1>1, <2>2 DEF ConsiderVote
        <3>2. m.term >= m_curTerm[m.to]
            BY <2>1, <2>2, NodeTyped
        <3>3. QED
            BY <2>1, <3>1, <3>2, OneTermRises
    <2>3. CASE ~(m.term > m_curTerm[m.to])
        BY <1>1, <2>3, TermsLeftAlone DEF ConsiderVote
    <2>4. QED
        BY <2>2, <2>3
<1>2. ASSUME NEW m, RejectVote(m) \/ RefuseVote(m)
      PROVE  \A p \in Peer : FallsToDisk(p)
    BY <1>2, TermsLeftAlone DEF RejectVote, RefuseVote
<1>3. CASE checkLogUptodate(n) \/ GrantVote(n)
    BY <1>3, TermsLeftAlone DEF checkLogUptodate, GrantVote
<1>4. QED
    BY <1>1, <1>2, <1>3 DEF VoteServerStep

(* So does an appendEntries, and a reply to one moves on to its term.      *)
LEMMA AppendTerms ==
    ASSUME TypeOK, NEW n \in Peer, AppendStep(n)
    PROVE  \A p \in Peer : FallsToDisk(p)
<1>1. CASE start(n) \/ Broadcast(n) \/ SendEntries(n) \/ ApplyLog(n)
    BY <1>1, TermsLeftAlone DEF start, Broadcast, SendEntries, ApplyLog
<1>2. ASSUME NEW m \in DOMAIN appendReqs, HandleAppend(m)
      PROVE  \A p \in Peer : FallsToDisk(p)
    <2>1. CASE RejectEntries(m)
        BY <2>1, TermsLeftAlone DEF RejectEntries
    <2>2. CASE ReportShortLog(m) \/ ReportConflict(m) \/ AcceptEntries(m)
        <3>1. m.to \in Peer /\ m.term \in Nat
            BY DEF TypeOK, CallTypes, AppendArgs
        <3>2. FollowLeader(m)
            BY <2>2 DEF ReportShortLog, ReportConflict, AcceptEntries
        <3>3. QED
            BY <3>1, <3>2, OneTermRises DEF FollowLeader
    <2>3. QED
        BY <1>2, <2>1, <2>2 DEF HandleAppend
<1>3. ASSUME NEW r \in DOMAIN appendReplies, HandleAppendReply(r)
      PROVE  \A p \in Peer : FallsToDisk(p)
    <2>1. CASE StepDown(r)
        <3>1. r.to \in Peer /\ r.term \in Nat
            BY DEF TypeOK, CallTypes, AppendAnswer
        <3>2. r.term >= m_curTerm[r.to]
            BY <2>1, <3>1, NodeTyped DEF StepDown, LaterTerm
        <3>3. m_curTerm' = [m_curTerm EXCEPT ![r.to] = r.term]
            BY <2>1 DEF StepDown
        <3>4. QED
            BY <3>1, <3>2, <3>3, OneTermRises
    <2>2. CASE HandleSuccess(r) \/ HandleFailure(r)
        BY <2>2, TermsLeftAlone DEF HandleSuccess, HandleFailure
    <2>3. QED
        BY <1>3, <2>1, <2>2 DEF HandleAppendReply
<1>4. QED
    BY <1>1, <1>2, <1>3 DEF AppendStep

(* A reply to requestVote may make a node read its file, as a follower.    *)
LEMMA VoteReplyTerms ==
    ASSUME TypeOK, NEW r \in DOMAIN voteReplies, HandleVoteReply(r)
    PROVE  \A p \in Peer : FallsToDisk(p)
<1>1. r.to \in Peer
    BY DEF TypeOK, CallTypes, VoteAnswer
<1>2. CASE r.term > m_curTerm[r.to]
    <2>1. /\ m_state' = [m_state EXCEPT ![r.to] = "FOLLOWER"]
          /\ m_curTerm' = [m_curTerm EXCEPT ![r.to] = file[r.to].term]
        BY <1>2 DEF HandleVoteReply
    <2>2. /\ m_state'[r.to] = "FOLLOWER"
          /\ m_curTerm'[r.to] = file[r.to].term
          /\ \A p \in Peer \ {r.to} : m_curTerm'[p] = m_curTerm[p]
        BY <1>1, <2>1 DEF TypeOK, TermTypes
    <2>3. QED
        BY <2>2, NodeTyped DEF FallsToDisk
<1>3. CASE ~(r.term > m_curTerm[r.to])
    BY <1>3, TermsLeftAlone DEF HandleVoteReply
<1>4. QED
    BY <1>2, <1>3

(* A restart makes every node a follower in the term on its disk; the      *)
(* first save of an appendEntries has not changed any of these terms but   *)
(* that of its own node, which is then the term that the node was in.      *)
LEMMA RestartTerms ==
    ASSUME TypeOK, NEW disk, RestartFrom(disk),
           \A p \in Peer : disk[p].term \in {file[p].term, m_curTerm[p]}
    PROVE  \A p \in Peer : FallsToDisk(p)
<1> SUFFICES ASSUME NEW p \in Peer PROVE FallsToDisk(p)
    OBVIOUS
<1>1. m_curTerm'[p] = disk[p].term /\ m_state'[p] = "FOLLOWER"
    BY DEF RestartFrom, AtEveryPeer
<1>2. QED
    BY <1>1, NodeTyped DEF FallsToDisk

(* Every step lowers a term only to that on disk.                          *)
LEMMA NextTerms == TypeInv /\ [Next]_vars => \A n \in Peer : FallsToDisk(n)
<1> SUFFICES ASSUME TypeOK, [Next]_vars PROVE \A n \in Peer : FallsToDisk(n)
    BY DEF TypeInv
<1>1. CASE ProcessStep
    <2>1. ASSUME NEW n, NEW loop, SeeLeader(n) \/ kill \/ ExitLoop(n, loop)
          PROVE  \A p \in Peer : FallsToDisk(p)
        BY <2>1, TermsLeftAlone DEF SeeLeader, kill, ExitLoop
    <2>2. CASE Restart
        BY <2>2, RestartTerms DEF Restart
    <2>3. ASSUME NEW m \in DOMAIN appendReqs, RestartBetweenSaves(m)
          PROVE  \A p \in Peer : FallsToDisk(p)
        <3>1. \A p \in Peer :
                  FirstSave(m)[p].term \in {file[p].term, m_curTerm[p]}
            BY DEF FirstSave, Written, TypeOK, LogTypes
        <3>2. QED
            BY <2>3, <3>1, RestartTerms DEF RestartBetweenSaves
    <2>4. QED
        BY <1>1, <2>1, <2>2, <2>3 DEF ProcessStep
<1>2. CASE UNCHANGED vars
    BY <1>2, TermsLeftAlone
<1>3. QED
    BY <1>1, <1>2, ElectionTerms, VoteServerTerms, AppendTerms, VoteReplyTerms
    DEF Next

(* A term goes back only to the term on disk, and only at a follower: no   *)
(* interleaving of elections, late replies and crashes lowers it further.  *)
THEOREM TermsFallToDisk == Spec => TermFallsToDisk
<1>1. TypeInv /\ [Next]_vars => [\A n \in Peer : FallsToDisk(n)]_vars
    BY NextTerms
<1>2. QED
    BY <1>1, TypeInvariance, PTL DEF Spec, TermFallsToDisk
-----------------------------------------------------------------------------
(* A log is a prefix of itself.                                            *)
LEMMA PrefixOfItself ==
    ASSUME NEW S, NEW log \in Seq(S) PROVE IsPrefix(log, log)
BY LenProperties DEF IsPrefix

(* A log is a prefix of what appending an entry makes of it.               *)
LEMMA PrefixOfLonger ==
    ASSUME NEW S, NEW log \in Seq(S), NEW e \in S
    PROVE  IsPrefix(log, Append(log, e))
<1> DEFINE longer == Append(log, e)
           size == Len(log)
<1>1. size \in Nat /\ longer \in Seq(S) /\ Len(longer) = size + 1
    BY LenProperties, AppendProperties
<1>2. \A i \in 1..size : longer[i] = log[i]
    BY AppendProperties
<1>3. SubSeq(log, 1, size) = [i \in 1..size |-> log[i]]
    BY <1>1, SubSeqProperties, LenProperties
<1>4. SubSeq(longer, 1, size) = [i \in 1..size |-> longer[i]]
    BY <1>1
<1>5. SubSeq(longer, 1, size) = SubSeq(log, 1, size)
    BY <1>2, <1>3, <1>4
<1>6. QED
    BY <1>1, <1>5 DEF IsPrefix

(* A step that leaves the logs alone.                                      *)
LEMMA LogsLeftAlone ==
    ASSUME TypeOK, UNCHANGED m_logs PROVE \A p \in Peer : AppendsOnly(p)
BY NodeTyped, PrefixOfItself DEF AppendsOnly

(* A step that rewrites the log of one node, which follows afterwards.     *)
LEMMA OneFollowerRewritten ==
    ASSUME TypeOK, NEW n \in Peer, m_state'[n] = "FOLLOWER",
           \A p \in Peer \ {n} : m_logs'[p] = m_logs[p]
    PROVE  \A p \in Peer : AppendsOnly(p)
BY NodeTyped, PrefixOfItself DEF AppendsOnly

(* start() appends to the log of a leader.                                 *)
LEMMA startAppends ==
    ASSUME TypeOK, NEW n \in Peer, start(n)
    PROVE  \A p \in Peer : AppendsOnly(p)
<1> DEFINE e == [term |-> m_curTerm[n], key |-> key]
<1>1. e \in Entry
    BY NodeTyped DEF TypeOK, ProcessTypes, Entry
<1>2. m_logs'[n] = Append(m_logs[n], e)
      /\ \A p \in Peer \ {n} : m_logs'[p] = m_logs[p]
    BY DEF start, TypeOK, LogTypes
<1>3. IsPrefix(m_logs[n], m_logs'[n])
    BY <1>1, <1>2, NodeTyped, PrefixOfLonger
<1>4. \A p \in Peer \ {n} : IsPrefix(m_logs[p], m_logs'[p])
    BY <1>2, NodeTyped, PrefixOfItself
<1>5. QED
    BY <1>3, <1>4 DEF AppendsOnly

(* An appendEntries that takes the entries makes its node a follower.      *)
LEMMA AcceptEntriesFollows ==
    ASSUME TypeOK, NEW m \in DOMAIN appendReqs, AcceptEntries(m)
    PROVE  \A p \in Peer : AppendsOnly(p)
<1>1. m.to \in Peer
    BY DEF TypeOK, CallTypes, AppendArgs
<1>2. m_state'[m.to] = "FOLLOWER"
    BY <1>1 DEF AcceptEntries, FollowLeader, TypeOK, TermTypes
<1>3. \A p \in Peer \ {m.to} : m_logs'[p] = m_logs[p]
    BY DEF AcceptEntries, TypeOK, LogTypes
<1>4. QED
    BY <1>1, <1>2, <1>3, OneFollowerRewritten

(* A vote reply that makes a node read its file makes it a follower.       *)
LEMMA HandleVoteReplyFollows ==
    ASSUME TypeOK, NEW r \in DOMAIN voteReplies, HandleVoteReply(r)
    PROVE  \A p \in Peer : AppendsOnly(p)
<1>1. r.to \in Peer
    BY DEF TypeOK, CallTypes, VoteAnswer
<1>2. CASE r.term > m_curTerm[r.to]
    <2>1. /\ m_state' = [m_state EXCEPT ![r.to] = "FOLLOWER"]
          /\ m_logs' = [m_logs EXCEPT ![r.to] = @ \o file[r.to].logs]
        BY <1>2 DEF HandleVoteReply
    <2>2. /\ m_state'[r.to] = "FOLLOWER"
          /\ \A p \in Peer \ {r.to} : m_logs'[p] = m_logs[p]
        BY <1>1, <2>1 DEF TypeOK, TermTypes, LogTypes
    <2>3. QED
        BY <1>1, <2>2, OneFollowerRewritten
<1>3. CASE ~(r.term > m_curTerm[r.to])
    BY <1>3, LogsLeftAlone DEF HandleVoteReply
<1>4. QED
    BY <1>2, <1>3

(* A restart leaves no leader.                                             *)
LEMMA RestartFollows ==
    ASSUME NEW disk, RestartFrom(disk) PROVE \A p \in Peer : AppendsOnly(p)
BY DEF RestartFrom, AtEveryPeer, AppendsOnly

(* Every step only appends to the log of a node that stays leader.         *)
LEMMA NextAppends == TypeInv /\ [Next]_vars => \A n \in Peer : AppendsOnly(n)
<1> SUFFICES ASSUME TypeOK, [Next]_vars PROVE \A n \in Peer : AppendsOnly(n)
    BY DEF TypeInv
<1>1. ASSUME NEW n \in Peer, ElectionStep(n) \/ VoteServerStep(n)
      PROVE  \A p \in Peer : AppendsOnly(p)
    <2>1. UNCHANGED m_logs
        BY <1>1
        DEF ElectionStep, StartElection, LoseElection, LeaveDeposed,
            FinishElection, SendVoteRequest, VoteServerStep, RejectVote,
            RefuseVote, ConsiderVote, checkLogUptodate, GrantVote
    <2>2. QED
        BY <2>1, LogsLeftAlone
<1>2. ASSUME NEW n \in Peer, AppendStep(n)
      PROVE  \A p \in Peer : AppendsOnly(p)
    <2>1. CASE Broadcast(n) \/ SendEntries(n) \/ ApplyLog(n)
        BY <2>1, LogsLeftAlone DEF Broadcast, SendEntries, ApplyLog
    <2>2. ASSUME NEW m \in DOMAIN appendReqs, HandleAppend(m)
          PROVE  \A p \in Peer : AppendsOnly(p)
        BY <2>2, LogsLeftAlone, AcceptEntriesFollows
        DEF HandleAppend, RejectEntries, ReportShortLog, ReportConflict
    <2>3. ASSUME NEW r \in DOMAIN appendReplies, HandleAppendReply(r)
          PROVE  \A p \in Peer : AppendsOnly(p)
        BY <2>3, LogsLeftAlone
        DEF HandleAppendReply, StepDown, HandleSuccess, HandleFailure
    <2>4. QED
        BY <1>2, <2>1, <2>2, <2>3, startAppends DEF AppendStep
<1>3. CASE ProcessStep
    <2>1. ASSUME NEW n, NEW loop, SeeLeader(n) \/ kill \/ ExitLoop(n, loop)
          PROVE  \A p \in Peer : AppendsOnly(p)
        BY <2>1, LogsLeftAlone DEF SeeLeader, kill, ExitLoop
    <2>2. QED
        BY <1>3, <2>1, RestartFollows
        DEF ProcessStep, Restart, RestartBetweenSaves
<1>4. CASE UNCHANGED vars
    BY <1>4, LogsLeftAlone
<1>5. QED
    BY <1>1, <1>2, <1>3, <1>4, HandleVoteReplyFollows DEF Next

(* A node that leads and goes on leading keeps every entry of its log:     *)
(* appendEntries and the reading of a file never rewrite it.               *)
THEOREM LeadersAppendOnly == Spec => LeaderAppendOnly
<1>1. TypeInv /\ [Next]_vars => [\A n \in Peer : AppendsOnly(n)]_vars
    BY NextAppends
<1>2. QED
    BY <1>1, TypeInvariance, PTL DEF Spec, LeaderAppendOnly
=============================================================================

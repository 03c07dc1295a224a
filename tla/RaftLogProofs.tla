--------------------------- MODULE RaftLogProofs ---------------------------
(***************************************************************************)
(* Proofs about the logs while one node leads: calls are timely, the timer *)
(* of one node only can fire, and the process does not crash.  For every   *)
(* number of nodes, of commands and of rounds, the logs match, what is     *)
(* committed is on the disks of a majority, and the cluster implements     *)
(* ReplicatedLog.                                                          *)
(***************************************************************************)
EXTENDS RaftCallProofs

USE DEF termVars, leaderVars, commitVars, ballotVars, voteNet, appendNet,
        mainVars, processVars, vars

(* The node that leads if any does, and its world.                         *)
OneCandidate(L) ==
    /\ L \in Peer /\ Timers \subseteq {L}
    /\ MaxRestarts = 0
    /\ Timely
-----------------------------------------------------------------------------
(* Roles: the others follow, vote for L and take its entries.              *)
OthersFollow(L) ==
    \A n \in Peer \ {L} :
        /\ m_state[n] = "FOLLOWER" /\ electionPc[n] = "polling"
        /\ m_curTerm[n] <= m_curTerm[L] /\ m_votedFor[n] \in {None, L}
        /\ voteSpawned[n] = 0 /\ sendSpawned[n] = 0

VoteCallsOf(L) ==
    /\ \A m \in DOMAIN voteReqs :
          m.from = L /\ m.to # L /\ m.term = m_curTerm[L]
    /\ \A n \in Peer : voteSrv[n] # Idle =>
          /\ n # L /\ voteSrv[n].req.from = L
          /\ voteSrv[n].term <= m_curTerm[L]
    /\ \A r \in DOMAIN voteReplies :
          r.to = L /\ r.granted /\ r.term <= m_curTerm[L]

EntryCallsOf(L) ==
    /\ \A m \in DOMAIN appendReqs :
          m.from = L /\ m.to # L /\ m.term = m_curTerm[L]
    /\ \A r \in DOMAIN appendReplies :
          /\ r.to = L /\ r.from # L /\ r.success
          /\ r.term <= m_curTerm[L]

(* Every vote is granted, so that the only election is won.                *)
WinsElection(L) ==
    /\ m_state[L] = "CANDIDATE" <=> electionPc[L] = "waiting"
    /\ electionPc[L] # "deposed"
    /\ m_state[L] = "FOLLOWER" => voteThreads[L] = 0
    /\ m_state[L] # "LEADER" => sendThreads[L] = 0 /\ m_logs[L] = <<>>
    /\ recvVotes[L] = finishedVote[L]
    /\ voteThreads[L] > 0 => \A p \in Peer \ {L} : m_logs[p] = <<>>

RolesInv(L) ==
    OthersFollow(L) /\ VoteCallsOf(L) /\ EntryCallsOf(L) /\ WinsElection(L)

(* Logs: every other has a start of the log of L, on disk too.             *)
Begins(short, long) ==
    Len(short) <= Len(long) /\ \A i \in 1..Len(short) : short[i] = long[i]

LogsBegin(L) ==
    \A p \in Peer \ {L} :
        Begins(m_logs[p], m_logs[L]) /\ file[p].logs = m_logs[p]

(* What L knows of p, with no call under way and with one.                 *)
IndexesKnow(L) ==
    /\ m_matchIndex[L][L] = 0
    /\ \A p \in Peer \ {L} :
          /\ m_matchIndex[L][p] \in 0..(m_nextIndex[L][p] - 1)
          /\ m_nextIndex[L][p] - 1 <= Len(m_logs[p])
          /\ CallsTo(L, p) = {} => m_nextIndex[L][p] - 1 = Len(m_logs[p])

RequestsFit(L) ==
    \A m \in DOMAIN appendReqs :
        /\ m.prevLogIndex = m_nextIndex[L][m.to] - 1
        /\ m.prevLogIndex = Len(m_logs[m.to])
        /\ m.prevLogIndex > 0 =>
              m.prevLogTerm = m_logs[L][m.prevLogIndex].term
        /\ m.prevLogIndex + Len(m.entries) <= Len(m_logs[L])
        /\ \A i \in 1..Len(m.entries) :
              m.entries[i] = m_logs[L][m.prevLogIndex + i]
        /\ m.leaderCommit <= m_commitIndex[L]

RepliesFit(L) ==
    \A r \in DOMAIN appendReplies :
        m_nextIndex[L][r.from] - 1 + r.sent = Len(m_logs[r.from])

(* The others that have the first k entries.                               *)
Have(L, k) == {p \in Peer \ {L} : Len(m_logs[p]) >= k}

CommitsHeld(L) ==
    /\ \A n \in Peer : /\ m_commitIndex[n] <= m_commitIndex[L]
                       /\ m_commitIndex[n] <= Len(m_logs[n])
                       /\ m_lastApplied[n] <= m_commitIndex[n]
    /\ m_commitIndex[L] > 0 =>
          Majority(Cardinality(Have(L, m_commitIndex[L])))

LogsInv(L) ==
    /\ LogsBegin(L) /\ IndexesKnow(L)
    /\ RequestsFit(L) /\ RepliesFit(L) /\ CommitsHeld(L)

LeaderInv(L) ==
    /\ TypeInv /\ ThreadsPlaced /\ RoundInv
    /\ RolesInv(L) /\ LogsInv(L)
-----------------------------------------------------------------------------
(* What the invariant says of calls.                                       *)

(* A thread of L waits for every call.                                     *)
LEMMA CallsHaveThreads ==
    ASSUME NEW L \in Peer, LeaderInv(L)
    PROVE  /\ voteThreads[L] \in Nat /\ sendThreads[L] \in Nat
           /\ DOMAIN voteReqs # {} => voteThreads[L] > 0
           /\ DOMAIN voteReplies # {} => voteThreads[L] > 0
           /\ \A n \in Peer : voteSrv[n] # Idle => voteThreads[L] > 0
           /\ DOMAIN appendReqs # {} => sendThreads[L] > 0
           /\ DOMAIN appendReplies # {} => sendThreads[L] > 0
           /\ voteThreads[L] = 0 \/ sendThreads[L] = 0
<1>1. /\ TypeOK /\ VoteThreadsPlaced /\ VoteCallsOf(L) /\ EntryCallsOf(L)
      /\ ThreadsPlaced
    BY DEF LeaderInv, TypeInv, ThreadsPlaced, RolesInv
<1>2. voteThreads[L] \in Nat /\ sendThreads[L] \in Nat
    BY <1>1, ThreadsNatural
<1>3. ASSUME NEW m \in DOMAIN voteReqs PROVE voteThreads[L] > 0
    <2>1. m \in VotesFrom(L)
        BY <1>1 DEF VoteCallsOf, VotesFrom, TypeOK, CallTypes
    <2>2. Count(voteReqs, VotesFrom(L)) >= 1
        BY <1>1, <2>1, CountPositive DEF VoteThreadsPlaced
    <2>3. QED
        BY <1>1, <2>2, VotePlacesNatural
<1>4. ASSUME NEW n \in Peer, voteSrv[n] # Idle PROVE voteThreads[L] > 0
    <2>1. n \in Taken(L)
        BY <1>1, <1>4 DEF VoteCallsOf, Taken
    <2>2. Cardinality(Taken(L)) # 0
        BY <2>1, TakenFinite, FS_EmptySet
    <2>3. /\ Count(voteReqs, VotesFrom(L)) \in Nat
          /\ Cardinality(Taken(L)) \in Nat
          /\ Count(voteReplies, VotesTo(L)) \in Nat
          /\ voteSpawned[L] \in Nat
          /\ voteThreads[L] = voteSpawned[L] + Count(voteReqs, VotesFrom(L))
                                + Cardinality(Taken(L))
                                + Count(voteReplies, VotesTo(L))
        BY <1>1, VotePlacesNatural
    <2>4. QED
        BY <2>2, <2>3
<1>5. /\ DOMAIN voteReplies # {} => voteThreads[L] > 0
      /\ DOMAIN appendReqs # {} => sendThreads[L] > 0
      /\ DOMAIN appendReplies # {} => sendThreads[L] > 0
    BY <1>1, CallersWait DEF VoteCallsOf, EntryCallsOf
<1>6. voteThreads[L] = 0 \/ sendThreads[L] = 0
    BY DEF LeaderInv, RoundInv, OneRound
<1>7. QED
    BY <1>2, <1>3, <1>4, <1>5, <1>6

(* No call is under way that no thread waits for.                          *)
LEMMA NoCalls ==
    ASSUME NEW L \in Peer, LeaderInv(L)
    PROVE  /\ voteThreads[L] = 0 =>
                  /\ DOMAIN voteReqs = {} /\ DOMAIN voteReplies = {}
                  /\ \A n \in Peer : voteSrv[n] = Idle
           /\ sendThreads[L] = 0 =>
                  DOMAIN appendReqs = {} /\ DOMAIN appendReplies = {}
<1>1. /\ voteThreads[L] = 0 => ~(voteThreads[L] > 0)
      /\ sendThreads[L] = 0 => ~(sendThreads[L] > 0)
    OBVIOUS
<1>2. QED
    BY <1>1, CallsHaveThreads, Zenon

(* The node a request or a reply is of, and its fields.                    *)
LEMMA CallFields ==
    ASSUME TypeOK
    PROVE  /\ \A m \in DOMAIN voteReqs :
                 m.from \in Peer /\ m.to \in Peer /\ m.term \in Nat
           /\ \A r \in DOMAIN voteReplies : r.to \in Peer /\ r.term \in Nat
           /\ \A m \in DOMAIN appendReqs :
                 /\ m.from \in Peer /\ m.to \in Peer /\ m.term \in Nat
                 /\ m.prevLogIndex \in Int /\ m.leaderCommit \in Nat
                 /\ m.entries \in Seq(Entry)
           /\ \A r \in DOMAIN appendReplies :
                 /\ r.from \in Peer /\ r.to \in Peer /\ r.term \in Nat
                 /\ r.sent \in Nat
           /\ \A n \in Peer : voteSrv[n] # Idle =>
                 /\ voteSrv[n] \in VoteCall /\ voteSrv[n].req \in VoteArgs
                 /\ voteSrv[n].req.from \in Peer /\ voteSrv[n].term \in Nat
           /\ \A n \in Peer :
                 /\ m_curTerm[n] \in Nat /\ m_logs[n] \in Seq(Entry)
                 /\ Len(m_logs[n]) \in Nat /\ m_commitIndex[n] \in Nat
                 /\ m_lastApplied[n] \in Nat /\ file[n] \in Saved
                 /\ file[n].logs \in Seq(Entry)
           /\ \A n, p \in Peer :
                 m_nextIndex[n][p] \in Int /\ m_matchIndex[n][p] \in Int
<1>1. /\ DOMAIN voteReqs \subseteq VoteArgs
      /\ DOMAIN voteReplies \subseteq VoteAnswer
      /\ DOMAIN appendReqs \subseteq AppendArgs
      /\ DOMAIN appendReplies \subseteq AppendAnswer
      /\ voteSrv \in [Peer -> VoteCall \cup {Idle}]
    BY DEF TypeOK, CallTypes
<1>2. /\ \A m \in DOMAIN voteReqs :
            m.from \in Peer /\ m.to \in Peer /\ m.term \in Nat
      /\ \A r \in DOMAIN voteReplies : r.to \in Peer /\ r.term \in Nat
    BY <1>1 DEF VoteArgs, VoteAnswer
<1>3. /\ \A m \in DOMAIN appendReqs :
            /\ m.from \in Peer /\ m.to \in Peer /\ m.term \in Nat
            /\ m.prevLogIndex \in Int /\ m.leaderCommit \in Nat
            /\ m.entries \in Seq(Entry)
      /\ \A r \in DOMAIN appendReplies :
            /\ r.from \in Peer /\ r.to \in Peer /\ r.term \in Nat
            /\ r.sent \in Nat
    BY <1>1 DEF AppendArgs, AppendAnswer
<1>4. \A n \in Peer : voteSrv[n] # Idle =>
         /\ voteSrv[n] \in VoteCall /\ voteSrv[n].req \in VoteArgs
         /\ voteSrv[n].req.from \in Peer /\ voteSrv[n].term \in Nat
    BY <1>1 DEF VoteCall, VoteArgs
<1>5. \A n \in Peer :
         /\ m_curTerm[n] \in Nat /\ m_logs[n] \in Seq(Entry)
         /\ Len(m_logs[n]) \in Nat /\ m_commitIndex[n] \in Nat
         /\ m_lastApplied[n] \in Nat /\ file[n] \in Saved
         /\ file[n].logs \in Seq(Entry)
    BY LenProperties DEF TypeOK, TermTypes, LogTypes, IndexTypes, Saved
<1>6. \A n, p \in Peer :
         m_nextIndex[n][p] \in Int /\ m_matchIndex[n][p] \in Int
    BY DEF TypeOK, IndexTypes
<1>7. QED
    BY <1>2, <1>3, <1>4, <1>5, <1>6

(* Before L leads every log is empty.                                      *)
LEMMA LogsEmpty ==
    ASSUME NEW L \in Peer, LeaderInv(L), m_state[L] # "LEADER"
    PROVE  \A p \in Peer : m_logs[p] = <<>>
<1>1. m_logs[L] = <<>>
    BY DEF LeaderInv, RolesInv, WinsElection
<1>2. ASSUME NEW p \in Peer \ {L} PROVE m_logs[p] = <<>>
    <2>1. Len(m_logs[p]) <= 0 /\ m_logs[p] \in Seq(Entry)
        BY <1>1, CallFields
        DEF LeaderInv, TypeInv, LogsInv, LogsBegin, Begins
    <2>2. QED
        BY <2>1, EmptySeq, LenProperties
<1>3. QED
    BY <1>1, <1>2
-----------------------------------------------------------------------------
(* The steps that can be taken.                                            *)

(* A request of L fits the log of its callee.                              *)
LEMMA RequestsAccepted ==
    ASSUME NEW L \in Peer, LeaderInv(L), NEW m \in DOMAIN appendReqs,
           HandleAppend(m)
    PROVE  AcceptEntries(m) /\ m.to \in Peer \ {L}
<1>1. TypeOK /\ EntryCallsOf(L) /\ OthersFollow(L)
    BY DEF LeaderInv, TypeInv, RolesInv
<1>2. m.to \in Peer \ {L} /\ m.term = m_curTerm[L] /\ m.term \in Nat
    BY <1>1, CallFields DEF EntryCallsOf
<1>3. m_curTerm[m.to] <= m.term
    BY <1>1, <1>2 DEF OthersFollow
<1>4. /\ m.prevLogIndex = Len(m_logs[m.to])
      /\ m.prevLogIndex > 0 =>
            m.prevLogTerm = m_logs[L][m.prevLogIndex].term
    BY DEF LeaderInv, LogsInv, RequestsFit
<1>5. Len(m_logs[m.to]) \in Nat
    BY <1>1, <1>2, CallFields
<1>6. ~MissesPrev(m)
    BY <1>4, <1>5 DEF MissesPrev
<1>7. ~ConflictsAtPrev(m)
    BY <1>2, <1>4, <1>5
    DEF LeaderInv, LogsInv, LogsBegin, Begins, ConflictsAtPrev
<1>8. ~(m.term < m_curTerm[m.to])
    BY <1>1, <1>2, <1>3, CallFields
<1>9. QED
    BY <1>2, <1>6, <1>7, <1>8
    DEF HandleAppend, RejectEntries, ReportShortLog, ReportConflict

(* A reply to L is a success of its term.                                  *)
LEMMA RepliesSucceed ==
    ASSUME NEW L \in Peer, LeaderInv(L), NEW r \in DOMAIN appendReplies,
           HandleAppendReply(r)
    PROVE  HandleSuccess(r) /\ r.to = L /\ r.from \in Peer \ {L}
<1>1. TypeOK /\ EntryCallsOf(L)
    BY DEF LeaderInv, TypeInv, RolesInv
<1>2. /\ r.to = L /\ r.from \in Peer \ {L} /\ r.success
      /\ r.term <= m_curTerm[L] /\ r.term \in Nat /\ m_curTerm[L] \in Nat
    BY <1>1, CallFields DEF EntryCallsOf
<1>3. QED
    BY <1>2 DEF HandleAppendReply, StepDown, HandleFailure, LaterTerm

(* A vote asked for is never refused.                                      *)
LEMMA VotesGranted ==
    ASSUME NEW L \in Peer, LeaderInv(L), NEW n \in Peer, VoteServerStep(n)
    PROVE  /\ n # L
           /\ \/ \E m \in DOMAIN voteReqs : m.to = n /\ ConsiderVote(m)
              \/ /\ voteSrv[n].step = "compare" /\ voteSrv[n] # Idle
                 /\ voteSrv' = [voteSrv EXCEPT ![n].step = "grant"]
                 /\ UNCHANGED <<termVars, m_logs, leaderVars, commitVars,
                                ballotVars, cur_peerId, file, voteSpawned,
                                voteThreads, voteReqs, voteReplies,
                                appendNet, processVars>>
              \/ GrantVote(n) /\ voteSrv[n] # Idle
<1>1. /\ TypeOK /\ VoteCallsOf(L) /\ OthersFollow(L) /\ WinsElection(L)
    BY DEF LeaderInv, TypeInv, RolesInv
<1>2. ASSUME NEW m \in DOMAIN voteReqs, m.to = n,
             RejectVote(m) \/ RefuseVote(m) \/ ConsiderVote(m)
      PROVE  n # L /\ ConsiderVote(m)
    <2>1. /\ m.from = L /\ n \in Peer \ {L} /\ m.term = m_curTerm[L]
          /\ m.term \in Nat /\ m_curTerm[n] \in Nat
        BY <1>1, <1>2, CallFields DEF VoteCallsOf
    <2>2. m_curTerm[n] <= m.term /\ m_votedFor[n] \in {None, m.from}
        BY <1>1, <2>1 DEF OthersFollow
    <2>3. ~RejectVote(m)
        <3>1. ~(m.term < m_curTerm[m.to])
            BY <1>2, <2>1, <2>2
        <3>2. QED
            BY <3>1, Zenon DEF RejectVote
    <2>4. ~RefuseVote(m)
        BY <1>2, <2>2 DEF RefuseVote
    <2>5. QED
        BY <1>2, <2>1, <2>3, <2>4
<1>3. ASSUME checkLogUptodate(n)
      PROVE  /\ n # L /\ voteSrv[n].step = "compare" /\ voteSrv[n] # Idle
             /\ voteSrv' = [voteSrv EXCEPT ![n].step = "grant"]
             /\ UNCHANGED <<termVars, m_logs, leaderVars, commitVars,
                            ballotVars, cur_peerId, file, voteSpawned,
                            voteThreads, voteReqs, voteReplies,
                            appendNet, processVars>>
    <2>1. voteSrv[n].step = "compare" /\ voteSrv[n] # Idle
        BY <1>3 DEF checkLogUptodate, Idle
    <2>2. n # L /\ voteThreads[L] > 0
        BY <1>1, <2>1, CallsHaveThreads DEF VoteCallsOf
    <2>3. m_logs[n] = <<>>
        BY <1>1, <2>2 DEF WinsElection
    <2>4. LogUptodate(voteSrv[n].req, m_logs[n])
        BY <2>3 DEF LogUptodate
    <2>5. QED
        BY <1>3, <2>1, <2>2, <2>4 DEF checkLogUptodate
<1>4. ASSUME GrantVote(n) PROVE n # L /\ voteSrv[n] # Idle
    BY <1>1, <1>4 DEF GrantVote, Idle, VoteCallsOf
<1>5. QED
    BY <1>2, <1>3, <1>4 DEF VoteServerStep

(* L is the one candidate, it is elected, and it leads.                    *)
LEMMA ElectionsWon ==
    ASSUME NEW L, OneCandidate(L), LeaderInv(L), NEW n \in Peer,
           ElectionStep(n)
    PROVE  /\ n = L
           /\ \/ StartElection(L) /\ m_state[L] = "FOLLOWER"
              \/ /\ FinishElection(L) /\ Majority(recvVotes[L])
                 /\ m_state[L] = "CANDIDATE"
              \/ SendVoteRequest(L)
<1>1. TypeOK /\ OthersFollow(L) /\ WinsElection(L) /\ L \in Peer
    BY DEF LeaderInv, TypeInv, RolesInv, OneCandidate
<1>2. n # L => electionPc[n] = "polling" /\ voteSpawned[n] = 0
    BY <1>1 DEF OthersFollow
<1>3. CASE StartElection(n)
    BY <1>1, <1>3 DEF StartElection, OneCandidate, WinsElection
<1>4. CASE LoseElection(n)
    BY <1>1, <1>2, <1>4 DEF LoseElection, WinsElection
<1>5. CASE LeaveDeposed(n)
    BY <1>1, <1>2, <1>5 DEF LeaveDeposed, WinsElection
<1>6. CASE FinishElection(n)
    <2>1. n = L /\ ~AwaitingVotes(L) /\ m_state[L] = "CANDIDATE"
        BY <1>2, <1>6 DEF FinishElection
    <2>2. recvVotes[L] \in Nat /\ finishedVote[L] = recvVotes[L]
        BY <1>1 DEF WinsElection, TypeOK, BallotTypes
    <2>3. Majority(NumPeers)
        BY NumPeersPositive DEF Majority
    <2>4. Majority(recvVotes[L])
        BY <2>1, <2>2, <2>3 DEF AwaitingVotes
    <2>5. QED
        BY <1>6, <2>1, <2>4
<1>7. CASE SendVoteRequest(n)
    <2>1. n = L
        BY <1>2, <1>7 DEF SendVoteRequest
    <2>2. QED
        BY <1>7, <2>1
<1>8. QED
    BY <1>3, <1>4, <1>5, <1>6, <1>7 DEF ElectionStep

(* The process does not crash.                                             *)
LEMMA NoRestart ==
    ASSUME NEW L, OneCandidate(L), TypeInv, ProcessStep
    PROVE  \E n \in Peer : \E loop : SeeLeader(n) \/ kill \/ ExitLoop(n, loop)
<1>1. \A disk : ~RestartFrom(disk)
    <2>1. restarts \in Nat /\ ~(restarts < MaxRestarts)
        BY DEF OneCandidate, TypeInv, TypeOK, ProcessTypes
    <2>2. QED
        BY <2>1, Zenon DEF RestartFrom
<1>2. QED
    BY <1>1, NumPeersPositive DEF ProcessStep, Restart, RestartBetweenSaves
-----------------------------------------------------------------------------
(* Steps of elections.                                                     *)

(* The logs stay as the invariant says where nothing of theirs changes.    *)
LEMMA LogsStay ==
    ASSUME NEW L, LogsInv(L),
           UNCHANGED <<m_logs, leaderVars, commitVars, appendReqs,
                       appendReplies>>,
           \A p \in Peer \ {L} : file'[p].logs = file[p].logs
    PROVE  LogsInv(L)'
<1>1. LogsBegin(L)' /\ IndexesKnow(L)'
    BY DEF LogsInv, LogsBegin, Begins, IndexesKnow, CallsTo
<1>2. RequestsFit(L)' /\ RepliesFit(L)' /\ CommitsHeld(L)'
    BY DEF LogsInv, RequestsFit, RepliesFit, CommitsHeld, Have
<1>3. QED
    BY <1>1, <1>2 DEF LogsInv

(* The roles stay where nothing of theirs changes.                         *)
LEMMA RolesStay ==
    ASSUME NEW L, RolesInv(L),
           UNCHANGED <<termVars, m_logs, ballotVars, voteNet, appendNet>>
    PROVE  RolesInv(L)'
BY DEF RolesInv, OthersFollow, VoteCallsOf, EntryCallsOf, WinsElection

(* A save of what a file holds at least the start of leaves that log.      *)
LEMMA WrittenLonger ==
    ASSUME NEW old \in Saved, NEW term, NEW vote, NEW log \in Seq(Entry),
           Len(old.logs) <= Len(log)
    PROVE  Written(old, term, vote, log).logs = log
<1>1. old.logs \in Seq(Entry)
    BY DEF Saved
<1>2. SubSeq(old.logs, Len(log) + 1, Len(old.logs)) = <<>>
    BY <1>1, SubSeqEmpty, LenProperties
<1>3. QED
    BY <1>2, ConcatEmptySeq DEF Written

(* L starts its election.                                                  *)
LEMMA StartElectionLeads ==
    ASSUME NEW L, OneCandidate(L), LeaderInv(L), StartElection(L),
           m_state[L] = "FOLLOWER"
    PROVE  RolesInv(L)' /\ LogsInv(L)'
<1>1. L \in Peer /\ TypeOK /\ RolesInv(L) /\ LogsInv(L) /\ ThreadsPlaced
    BY DEF OneCandidate, LeaderInv, TypeInv
<1>2. /\ m_state'[L] = "CANDIDATE" /\ m_curTerm'[L] = m_curTerm[L] + 1
      /\ electionPc'[L] = "waiting"
      /\ m_curTerm[L] \in Nat
      /\ \A n \in Peer \ {L} :
            /\ m_state'[n] = m_state[n] /\ m_curTerm'[n] = m_curTerm[n]
            /\ m_votedFor'[n] = m_votedFor[n]
            /\ electionPc'[n] = electionPc[n]
            /\ voteSpawned'[n] = voteSpawned[n] /\ file'[n] = file[n]
            /\ m_curTerm[n] \in Nat
      /\ UNCHANGED <<m_logs, voteReqs, voteSrv, voteReplies, appendNet,
                     leaderVars, commitVars>>
    BY <1>1 DEF StartElection, saveRaftState, TypeOK, TermTypes, LogTypes,
                BallotTypes, ThreadTypes
<1>3. /\ recvVotes'[L] = finishedVote'[L]
      /\ voteThreads[L] = 0 /\ sendThreads[L] = 0
    BY <1>1, StartElectionCounts DEF OneCandidate
<1>4. /\ DOMAIN voteReqs = {} /\ DOMAIN voteReplies = {}
      /\ DOMAIN appendReqs = {} /\ DOMAIN appendReplies = {}
      /\ \A n \in Peer : voteSrv[n] = Idle
    BY <1>1, <1>3, NoCalls
<1>5. OthersFollow(L)'
    BY <1>1, <1>2 DEF RolesInv, OthersFollow
<1>6. VoteCallsOf(L)' /\ EntryCallsOf(L)'
    BY <1>2, <1>4 DEF VoteCallsOf, EntryCallsOf
<1>7. WinsElection(L)'
    BY <1>1, <1>2, <1>3, LogsEmpty DEF WinsElection
<1>8. LogsInv(L)'
    BY <1>1, <1>2, LogsStay
<1>9. QED
    BY <1>5, <1>6, <1>7, <1>8 DEF RolesInv

(* L is elected.  Every log is empty and nothing is known to be anywhere.  *)
LEMMA FinishElectionLeads ==
    ASSUME NEW L, OneCandidate(L), LeaderInv(L), FinishElection(L),
           Majority(recvVotes[L]), m_state[L] = "CANDIDATE"
    PROVE  RolesInv(L)' /\ LogsInv(L)'
<1>1. L \in Peer /\ TypeOK /\ RolesInv(L) /\ LogsInv(L)
    BY DEF OneCandidate, LeaderInv, TypeInv
<1>2. /\ m_state'[L] = "LEADER" /\ electionPc'[L] = "polling"
      /\ \A n \in Peer \ {L} :
            m_state'[n] = m_state[n] /\ electionPc'[n] = electionPc[n]
      /\ m_nextIndex'[L] = AtEveryPeer(Len(m_logs[L]) + 1)
      /\ m_matchIndex'[L] = AtEveryPeer(0)
      /\ UNCHANGED <<m_curTerm, m_votedFor, m_logs, commitVars, recvVotes,
                     finishedVote, file, voteNet, appendNet>>
    BY <1>1 DEF FinishElection, TypeOK, TermTypes, IndexTypes, BallotTypes
<1>3. \A p \in Peer : m_logs[p] = <<>>
    BY <1>1, LogsEmpty
<1>4. sendThreads[L] = 0 /\ DOMAIN appendReqs = {}
      /\ DOMAIN appendReplies = {}
    BY <1>1, NoCalls DEF RolesInv, WinsElection
<1>5. Len(<<>>) = 0
    OBVIOUS
<1>6. \A p \in Peer : /\ m_nextIndex'[L][p] = 1 /\ m_matchIndex'[L][p] = 0
                      /\ Len(m_logs[p]) = 0
    BY <1>1, <1>2, <1>3, <1>5 DEF AtEveryPeer
<1>7. OthersFollow(L)' /\ VoteCallsOf(L)' /\ EntryCallsOf(L)'
    BY <1>1, <1>2
    DEF RolesInv, OthersFollow, VoteCallsOf, EntryCallsOf
<1>8. WinsElection(L)'
    BY <1>1, <1>2, <1>3, <1>4 DEF RolesInv, WinsElection
<1>9. LogsBegin(L)' /\ CommitsHeld(L)'
    BY <1>1, <1>2 DEF LogsInv, LogsBegin, Begins, CommitsHeld, Have
<1>10. RequestsFit(L)' /\ RepliesFit(L)'
    BY <1>2, <1>4 DEF RequestsFit, RepliesFit
<1>11. IndexesKnow(L)'
    BY <1>1, <1>2, <1>6 DEF IndexesKnow
<1>12. QED
    BY <1>7, <1>8, <1>9, <1>10, <1>11 DEF RolesInv, LogsInv

(* A vote thread of L calls.                                               *)
LEMMA SendVoteRequestLeads ==
    ASSUME NEW L, OneCandidate(L), LeaderInv(L), SendVoteRequest(L)
    PROVE  RolesInv(L)' /\ LogsInv(L)'
<1>1. L \in Peer /\ TypeOK /\ RolesInv(L) /\ LogsInv(L) /\ TypeInv
    BY DEF OneCandidate, LeaderInv, TypeInv
<1> DEFINE req == [from |-> L, to |-> Callee(L), term |-> m_curTerm[L],
                   lastLogTerm |-> LastTerm(m_logs[L]),
                   lastLogIndex |-> Len(m_logs[L])]
<1>2. /\ voteReqs' = BagAdd(voteReqs, req)
      /\ voteSpawned' = [voteSpawned EXCEPT ![L] = @ - 1]
      /\ voteSpawned[L] > 0 /\ AdvanceCursor(L)
      /\ UNCHANGED <<termVars, m_logs, leaderVars, commitVars, ballotVars,
                     file, voteThreads, voteSrv, voteReplies, appendNet>>
    BY DEF SendVoteRequest
<1>3. Callee(L) \in Peer \ {L}
    BY <1>1, <1>2, NextPlace
<1>4. req.from = L /\ req.to # L /\ req.term = m_curTerm[L]
    BY <1>3
<1> HIDE DEF req
<1>5. DOMAIN voteReqs' = DOMAIN voteReqs \cup {req}
    BY <1>2 DEF BagAdd
<1>6. VoteCallsOf(L)'
    BY <1>1, <1>2, <1>4, <1>5 DEF RolesInv, VoteCallsOf
<1>7. OthersFollow(L)'
    BY <1>1, <1>2 DEF RolesInv, OthersFollow, TypeOK, ThreadTypes
<1>8. EntryCallsOf(L)' /\ WinsElection(L)'
    BY <1>1, <1>2 DEF RolesInv, EntryCallsOf, WinsElection
<1>9. QED
    BY <1>1, <1>2, <1>6, <1>7, <1>8, LogsStay DEF RolesInv

(* A server takes a request of L.                                          *)
LEMMA ConsiderVoteLeads ==
    ASSUME NEW L, OneCandidate(L), LeaderInv(L), NEW m \in DOMAIN voteReqs,
           ConsiderVote(m)
    PROVE  RolesInv(L)' /\ LogsInv(L)'
<1> DEFINE n == m.to
<1>1. L \in Peer /\ TypeOK /\ RolesInv(L) /\ LogsInv(L)
    BY DEF OneCandidate, LeaderInv, TypeInv
<1>2. /\ m.from = L /\ n \in Peer \ {L} /\ m.term = m_curTerm[L]
      /\ m_curTerm[n] <= m_curTerm[L]
    BY <1>1, CallFields DEF RolesInv, VoteCallsOf, OthersFollow
<1>3. /\ voteReqs' = BagRemove(voteReqs, m)
      /\ voteSrv' = [voteSrv EXCEPT ![n] =
                        [step |-> "compare", req |-> m, term |-> m_curTerm[n]]]
      /\ UNCHANGED <<m_logs, leaderVars, commitVars, ballotVars, file,
                     voteSpawned, voteThreads, voteReplies, appendNet>>
    BY DEF ConsiderVote
<1>4. /\ m_state'[n] = "FOLLOWER" /\ m_curTerm'[n] <= m_curTerm[L]
      /\ m_votedFor'[n] \in {None, L}
      /\ \A p \in Peer \ {n} : /\ m_state'[p] = m_state[p]
                               /\ m_curTerm'[p] = m_curTerm[p]
                               /\ m_votedFor'[p] = m_votedFor[p]
    <2>1. CASE m.term > m_curTerm[n]
        <3>1. /\ m_state' = [m_state EXCEPT ![n] = "FOLLOWER"]
              /\ m_curTerm' = [m_curTerm EXCEPT ![n] = m.term]
              /\ m_votedFor' = [m_votedFor EXCEPT ![n] = None]
            BY <2>1 DEF ConsiderVote
        <3>2. m_curTerm[L] <= m_curTerm[L]
            BY <1>1 DEF TypeOK, TermTypes
        <3>3. QED
            BY <1>1, <1>2, <3>1, <3>2 DEF TypeOK, TermTypes
    <2>2. CASE ~(m.term > m_curTerm[n])
        <3>1. UNCHANGED termVars
            BY <2>2 DEF ConsiderVote
        <3>2. QED
            BY <1>1, <1>2, <3>1 DEF RolesInv, OthersFollow
    <2>3. QED
        BY <2>1, <2>2
<1>5. DOMAIN voteReqs' \subseteq DOMAIN voteReqs
    BY <1>3, RemovedFromBag
<1>6. /\ voteSrv'[n].req = m /\ voteSrv'[n].term = m_curTerm[n]
      /\ \A p \in Peer \ {n} : voteSrv'[p] = voteSrv[p]
    BY <1>1, <1>2, <1>3 DEF TypeOK, CallTypes
<1>7. OthersFollow(L)'
    BY <1>1, <1>2, <1>3, <1>4 DEF RolesInv, OthersFollow
<1>8. VoteCallsOf(L)'
    BY <1>1, <1>2, <1>3, <1>4, <1>5, <1>6 DEF RolesInv, VoteCallsOf
<1>9. EntryCallsOf(L)' /\ WinsElection(L)'
    BY <1>1, <1>2, <1>3, <1>4 DEF RolesInv, EntryCallsOf, WinsElection
<1>10. QED
    BY <1>1, <1>3, <1>7, <1>8, <1>9, LogsStay DEF RolesInv

(* A server finds the log of L up to date.                                 *)
LEMMA CompareLeads ==
    ASSUME NEW L, OneCandidate(L), LeaderInv(L), NEW n \in Peer,
           voteSrv[n] # Idle,
           voteSrv' = [voteSrv EXCEPT ![n].step = "grant"],
           UNCHANGED <<termVars, m_logs, leaderVars, commitVars, ballotVars,
                       file, voteSpawned, voteThreads, voteReqs, voteReplies,
                       appendNet>>
    PROVE  RolesInv(L)' /\ LogsInv(L)'
<1>1. L \in Peer /\ TypeOK /\ RolesInv(L) /\ LogsInv(L)
    BY DEF OneCandidate, LeaderInv, TypeInv
<1>2. voteSrv[n] \in VoteCall
    BY <1>1, CallFields
<1>3. /\ voteSrv'[n].req = voteSrv[n].req /\ voteSrv'[n].term = voteSrv[n].term
      /\ \A p \in Peer \ {n} : voteSrv'[p] = voteSrv[p]
    BY <1>1, <1>2 DEF TypeOK, CallTypes, VoteCall
<1>4. VoteCallsOf(L)'
    BY <1>1, <1>3 DEF RolesInv, VoteCallsOf
<1>5. OthersFollow(L)' /\ EntryCallsOf(L)' /\ WinsElection(L)'
    BY <1>1 DEF RolesInv, OthersFollow, EntryCallsOf, WinsElection
<1>6. QED
    BY <1>1, <1>4, <1>5, LogsStay DEF RolesInv

(* A server grants its vote to L.                                          *)
LEMMA GrantVoteLeads ==
    ASSUME NEW L, OneCandidate(L), LeaderInv(L), NEW n \in Peer,
           voteSrv[n] # Idle, GrantVote(n)
    PROVE  RolesInv(L)' /\ LogsInv(L)'
<1> DEFINE reply == VoteReply(voteSrv[n].req, voteSrv[n].term, TRUE)
<1>1. L \in Peer /\ TypeOK /\ RolesInv(L) /\ LogsInv(L)
    BY DEF OneCandidate, LeaderInv, TypeInv
<1>2. n # L /\ voteSrv[n].req.from = L /\ voteSrv[n].term <= m_curTerm[L]
    BY <1>1 DEF RolesInv, VoteCallsOf
<1>3. /\ m_votedFor' = [m_votedFor EXCEPT ![n] = L]
      /\ file' = [file EXCEPT ![n] = Written(@, m_curTerm[n], L, m_logs[n])]
      /\ voteReplies' = BagAdd(voteReplies, reply)
      /\ voteSrv' = [voteSrv EXCEPT ![n] = Idle]
      /\ UNCHANGED <<m_state, m_curTerm, m_logs, leaderVars, commitVars,
                     ballotVars, voteSpawned, voteThreads, voteReqs,
                     appendNet>>
    BY <1>2 DEF GrantVote, saveRaftState
<1>4. reply.to = L /\ reply.granted /\ reply.term <= m_curTerm[L]
    BY <1>2 DEF VoteReply
<1> HIDE DEF reply
<1>5. DOMAIN voteReplies' = DOMAIN voteReplies \cup {reply}
    BY <1>3 DEF BagAdd
<1>6. /\ voteSrv'[n] = Idle /\ \A p \in Peer \ {n} : voteSrv'[p] = voteSrv[p]
      /\ m_votedFor'[n] = L
      /\ \A p \in Peer \ {n} : m_votedFor'[p] = m_votedFor[p]
    BY <1>1, <1>3 DEF TypeOK, TermTypes, CallTypes
<1>7. \A p \in Peer \ {L} : file'[p].logs = file[p].logs
    <2>1. /\ file[n].logs = m_logs[n] /\ file[n] \in Saved
          /\ m_logs[n] \in Seq(Entry)
        BY <1>1, <1>2, CallFields DEF LogsInv, LogsBegin
    <2>2. Written(file[n], m_curTerm[n], L, m_logs[n]).logs = m_logs[n]
        BY <2>1, WrittenLonger, LenProperties
    <2>3. QED
        BY <1>1, <1>3, <2>1, <2>2 DEF TypeOK, LogTypes
<1>8. OthersFollow(L)'
    BY <1>1, <1>3, <1>6 DEF RolesInv, OthersFollow
<1>9. VoteCallsOf(L)'
    BY <1>1, <1>3, <1>4, <1>5, <1>6 DEF RolesInv, VoteCallsOf
<1>10. EntryCallsOf(L)' /\ WinsElection(L)'
    BY <1>1, <1>3 DEF RolesInv, EntryCallsOf, WinsElection
<1>11. QED
    BY <1>1, <1>3, <1>7, <1>8, <1>9, <1>10, LogsStay DEF RolesInv

(* L counts a vote.                                                        *)
LEMMA HandleVoteReplyLeads ==
    ASSUME NEW L, OneCandidate(L), LeaderInv(L),
           NEW r \in DOMAIN voteReplies, HandleVoteReply(r)
    PROVE  RolesInv(L)' /\ LogsInv(L)'
<1>1. L \in Peer /\ TypeOK /\ RolesInv(L) /\ LogsInv(L)
    BY DEF OneCandidate, LeaderInv, TypeInv
<1>2. /\ r.to = L /\ r.granted /\ ~(r.term > m_curTerm[L])
    <2>1. r.to = L /\ r.granted /\ r.term <= m_curTerm[L]
        BY <1>1 DEF RolesInv, VoteCallsOf
    <2>2. r.term \in Nat /\ m_curTerm[L] \in Nat
        BY <1>1, CallFields
    <2>3. QED
        BY <2>1, <2>2
<1>3. /\ voteReplies' = BagRemove(voteReplies, r)
      /\ voteThreads' = [voteThreads EXCEPT ![L] = @ - 1]
      /\ finishedVote' = [finishedVote EXCEPT ![L] = finishedVote[L] + 1]
      /\ recvVotes' = [recvVotes EXCEPT ![L] = @ + 1]
      /\ UNCHANGED <<termVars, m_logs, leaderVars, commitVars, electionPc,
                     file, voteSpawned, voteReqs, voteSrv, appendNet>>
    BY <1>2 DEF HandleVoteReply, FinishedAfter
<1>4. DOMAIN voteReplies' \subseteq DOMAIN voteReplies
    BY <1>3, RemovedFromBag
<1>5. /\ voteThreads'[L] = voteThreads[L] - 1 /\ voteThreads[L] > 0
      /\ voteThreads[L] \in Nat
      /\ finishedVote'[L] = finishedVote[L] + 1
      /\ recvVotes'[L] = recvVotes[L] + 1
    BY <1>1, <1>3, CallsHaveThreads DEF TypeOK, ThreadTypes, BallotTypes
<1>6. OthersFollow(L)' /\ VoteCallsOf(L)' /\ EntryCallsOf(L)'
    BY <1>1, <1>3, <1>4
    DEF RolesInv, OthersFollow, VoteCallsOf, EntryCallsOf
<1>7. WinsElection(L)'
    BY <1>1, <1>3, <1>5 DEF RolesInv, WinsElection
<1>8. QED
    BY <1>1, <1>3, <1>6, <1>7, LogsStay DEF RolesInv
-----------------------------------------------------------------------------
(* Steps of replication.                                                   *)

(* Only L leads.                                                           *)
LEMMA LeaderIs ==
    ASSUME NEW L, LeaderInv(L), NEW n \in Peer, m_state[n] = "LEADER"
    PROVE  n = L
BY DEF LeaderInv, RolesInv, OthersFollow

(* An entry more changes none of those before it.                          *)
LEMMA OneMore ==
    ASSUME NEW log \in Seq(Entry), NEW e \in Entry
    PROVE  /\ Len(Append(log, e)) = Len(log) + 1 /\ Len(log) \in Nat
           /\ \A i \in 1..Len(log) : Append(log, e)[i] = log[i]
           /\ \A prev, k \in Nat : prev + k <= Len(log) =>
                 /\ prev + k <= Len(Append(log, e))
                 /\ prev > 0 => Append(log, e)[prev] = log[prev]
                 /\ \A i \in 1..k : Append(log, e)[prev + i] = log[prev + i]
<1>1. /\ Len(Append(log, e)) = Len(log) + 1 /\ Len(log) \in Nat
      /\ \A i \in 1..Len(log) : Append(log, e)[i] = log[i]
    BY AppendProperties, LenProperties
<1>2. ASSUME NEW prev \in Nat, NEW k \in Nat, prev + k <= Len(log)
      PROVE  /\ prev + k <= Len(Append(log, e))
             /\ prev > 0 => Append(log, e)[prev] = log[prev]
             /\ \A i \in 1..k : Append(log, e)[prev + i] = log[prev + i]
    <2> DEFINE size == Len(log)
               more == Append(log, e)
    <2>1. /\ Len(more) = size + 1 /\ size \in Nat /\ prev + k <= size
          /\ \A i \in 1..size : more[i] = log[i]
        BY <1>1, <1>2
    <2> HIDE DEF size, more
    <2>2. prev + k <= Len(more) /\ (prev > 0 => prev \in 1..size)
          /\ \A i \in 1..k : prev + i \in 1..size
        BY <2>1
    <2>3. QED
        BY <2>1, <2>2 DEF more
<1>3. QED
    BY <1>1, <1>2

(* What is behind an index of a log.                                       *)
LEMMA EntriesBehind ==
    ASSUME NEW log \in Seq(Entry), NEW prev \in 0..Len(log)
    PROVE  /\ Len(EntriesAfter(log, prev)) = Len(log) - prev
           /\ \A i \in 1..Len(EntriesAfter(log, prev)) :
                 EntriesAfter(log, prev)[i] = log[prev + i]
<1> DEFINE size == Len(log)
           behind == SubSeq(log, prev + 1, size)
<1>1. size \in Nat /\ prev \in 0..size
    BY LenProperties
<1>2. EntriesAfter(log, prev) = behind
    BY DEF EntriesAfter
<1>3. \A i \in (prev + 1)..size : log[i] \in Entry
    BY <1>1, ElementOfSeq
<1> HIDE DEF size
<1>4. /\ Len(behind) = IF prev + 1 <= size THEN size - (prev + 1) + 1 ELSE 0
      /\ \A i \in 1..(size - (prev + 1) + 1) : behind[i] = log[prev + 1 + i - 1]
    BY <1>1, <1>3, SubSeqProperties
<1> HIDE DEF behind
<1>5. /\ Len(behind) = size - prev
      /\ \A i \in 1..(size - prev) : behind[i] = log[prev + i]
    <2>1. /\ size - (prev + 1) + 1 = size - prev
          /\ prev + 1 <= size \/ size - prev = 0
          /\ \A i \in 1..(size - prev) : prev + 1 + i - 1 = prev + i
        BY <1>1
    <2>2. QED
        BY <1>4, <2>1
<1>6. QED
    BY <1>2, <1>5 DEF size

(* L takes a command.                                                      *)
LEMMA startLeads ==
    ASSUME NEW L, OneCandidate(L), LeaderInv(L), start(L)
    PROVE  RolesInv(L)' /\ LogsInv(L)'
<1>1. L \in Peer /\ TypeOK /\ RolesInv(L) /\ LogsInv(L)
    BY DEF OneCandidate, LeaderInv, TypeInv
<1> DEFINE e == [term |-> m_curTerm[L], key |-> key]
<1>2. /\ m_logs'[L] = Append(m_logs[L], e) /\ m_state[L] = "LEADER"
      /\ \A p \in Peer \ {L} : m_logs'[p] = m_logs[p]
      /\ UNCHANGED <<termVars, leaderVars, commitVars, ballotVars, file,
                     voteNet, appendNet>>
    BY <1>1 DEF start, TypeOK, LogTypes
<1>3. e \in Entry /\ m_logs[L] \in Seq(Entry)
    BY <1>1 DEF TypeOK, TermTypes, LogTypes, ProcessTypes, Entry
<1> HIDE DEF e
<1>4. /\ Len(m_logs'[L]) = Len(m_logs[L]) + 1 /\ Len(m_logs[L]) \in Nat
      /\ \A i \in 1..Len(m_logs[L]) : m_logs'[L][i] = m_logs[L][i]
    BY <1>2, <1>3, OneMore
<1>5. \A p \in Peer : Len(m_logs[p]) \in Nat
    BY <1>1, CallFields
<1>6. LogsBegin(L)'
    BY <1>1, <1>2, <1>4, <1>5 DEF LogsInv, LogsBegin, Begins
<1>7. IndexesKnow(L)'
    BY <1>1, <1>2 DEF LogsInv, IndexesKnow, CallsTo
<1>8. RequestsFit(L)'
    <2> SUFFICES ASSUME NEW m \in DOMAIN appendReqs
                 PROVE  /\ m.prevLogIndex = m_nextIndex[L][m.to] - 1
                        /\ m.prevLogIndex = Len(m_logs'[m.to])
                        /\ m.prevLogIndex > 0 =>
                              m.prevLogTerm = m_logs'[L][m.prevLogIndex].term
                        /\ m.prevLogIndex + Len(m.entries) <= Len(m_logs'[L])
                        /\ \A i \in 1..Len(m.entries) :
                              m.entries[i] = m_logs'[L][m.prevLogIndex + i]
                        /\ m.leaderCommit <= m_commitIndex[L]
        BY <1>2 DEF RequestsFit
    <2>1. /\ m.to \in Peer \ {L} /\ Len(m.entries) \in Nat
          /\ m.prevLogIndex \in Int
        BY <1>1, CallFields, LenProperties DEF RolesInv, EntryCallsOf
    <2>2. /\ m.prevLogIndex = Len(m_logs[m.to])
          /\ m.prevLogIndex + Len(m.entries) <= Len(m_logs[L])
        BY <1>1 DEF LogsInv, RequestsFit
    <2>3. m.prevLogIndex \in Nat
        BY <1>5, <2>1, <2>2
    <2>4. /\ m.prevLogIndex + Len(m.entries) <= Len(m_logs'[L])
          /\ m.prevLogIndex > 0 =>
                m_logs'[L][m.prevLogIndex] = m_logs[L][m.prevLogIndex]
          /\ \A i \in 1..Len(m.entries) :
                m_logs'[L][m.prevLogIndex + i] = m_logs[L][m.prevLogIndex + i]
        <3> DEFINE log == m_logs[L]
                   more == Append(log, e)
        <3>1. \A prev, k \in Nat : prev + k <= Len(log) =>
                 /\ prev + k <= Len(more)
                 /\ prev > 0 => more[prev] = log[prev]
                 /\ \A i \in 1..k : more[prev + i] = log[prev + i]
            BY <1>3, OneMore, Zenon
        <3>2. m_logs'[L] = more
            BY <1>2
        <3> HIDE DEF more
        <3>3. QED
            BY <2>1, <2>2, <2>3, <3>1, <3>2, Zenon
    <2>5. QED
        BY <1>1, <1>2, <2>1, <2>4 DEF LogsInv, RequestsFit
<1>9. RepliesFit(L)'
    BY <1>1, <1>2 DEF LogsInv, RepliesFit, RolesInv, EntryCallsOf, TypeOK,
                      CallTypes, AppendAnswer
<1>10. CommitsHeld(L)'
    <2>1. \A k : Have(L, k)' = Have(L, k)
        BY <1>2 DEF Have
    <2>2. ASSUME NEW n \in Peer PROVE m_commitIndex[n] <= Len(m_logs'[n])
        <3>1. /\ m_commitIndex[n] <= Len(m_logs[n])
              /\ m_commitIndex[n] \in Nat /\ Len(m_logs[n]) \in Nat
            BY <1>1, CallFields DEF LogsInv, CommitsHeld
        <3>2. Len(m_logs'[n]) \in {Len(m_logs[n]), Len(m_logs[n]) + 1}
            BY <1>2, <1>4
        <3>3. QED
            BY <3>1, <3>2
    <2>3. QED
        BY <1>1, <1>2, <2>1, <2>2 DEF LogsInv, CommitsHeld
<1>11. RolesInv(L)'
    BY <1>1, <1>2
    DEF RolesInv, OthersFollow, VoteCallsOf, EntryCallsOf, WinsElection
<1>12. QED
    BY <1>6, <1>7, <1>8, <1>9, <1>10, <1>11 DEF LogsInv

(* L begins a round.                                                       *)
LEMMA BroadcastLeads ==
    ASSUME NEW L, OneCandidate(L), LeaderInv(L), Broadcast(L)
    PROVE  RolesInv(L)' /\ LogsInv(L)'
<1>1. L \in Peer /\ TypeOK /\ RolesInv(L) /\ LogsInv(L)
    BY DEF OneCandidate, LeaderInv, TypeInv
<1>2. /\ m_state[L] = "LEADER"
      /\ \A p \in Peer \ {L} : sendSpawned'[p] = sendSpawned[p]
      /\ UNCHANGED <<termVars, m_logs, leaderVars, commitVars, ballotVars,
                     file, voteNet, appendReqs, appendReplies>>
    BY <1>1 DEF Broadcast, TypeOK, ThreadTypes
<1>3. RolesInv(L)'
    BY <1>1, <1>2
    DEF RolesInv, OthersFollow, VoteCallsOf, EntryCallsOf, WinsElection
<1>4. QED
    BY <1>1, <1>2, <1>3, LogsStay

(* A thread of L calls: no call to its callee is under way, and L knows    *)
(* where the log of its callee ends.                                       *)
LEMMA SendEntriesLeads ==
    ASSUME NEW L, OneCandidate(L), LeaderInv(L), SendEntries(L)
    PROVE  RolesInv(L)' /\ LogsInv(L)'
<1> DEFINE p == Callee(L)
<1>1. L \in Peer /\ TypeInv /\ TypeOK /\ RolesInv(L) /\ LogsInv(L)
      /\ RoundInv
    BY DEF OneCandidate, LeaderInv, TypeInv
<1>2. /\ sendSpawned[L] > 0 /\ AdvanceCursor(L)
      /\ sendSpawned' = [sendSpawned EXCEPT ![L] = @ - 1]
      /\ UNCHANGED <<termVars, m_logs, leaderVars, commitVars, ballotVars,
                     file, voteNet, sendThreads, appendReplies>>
    BY DEF SendEntries
<1>3. p \in Peer \ {L} /\ Before(L, p) = 0
    BY <1>1, <1>2, BeforeMoves
<1>4. CallsTo(L, p) = {}
    <2>1. sendSpawned[L] \in Nat
        BY <1>1 DEF TypeOK, ThreadTypes
    <2>2. QED
        BY <1>1, <1>2, <1>3, <2>1 DEF RoundInv, RoundGoesOn, CallsTo
<1>5. PICK req \in AppendArgs :
        /\ req.from = L /\ req.to = p
        /\ req.term = m_curTerm[L]
        /\ req.prevLogIndex = m_nextIndex[L][p] - 1
        /\ req.prevLogTerm \in PrevLogTerms(m_logs[L], req.prevLogIndex)
        /\ req.leaderCommit = m_commitIndex[L]
        /\ req.entries = EntriesAfter(m_logs[L], req.prevLogIndex)
        /\ appendReqs' = BagAdd(appendReqs, req)
    BY <1>1, EntriesSent
<1> HIDE DEF p
<1>6. DOMAIN appendReqs' = DOMAIN appendReqs \cup {req}
    BY <1>5 DEF BagAdd
<1> DEFINE prev == req.prevLogIndex
           log == m_logs[L]
<1>7. prev = Len(m_logs[p]) /\ prev \in 0..Len(log) /\ Len(log) \in Nat
      /\ log \in Seq(Entry)
    BY <1>1, <1>3, <1>4, <1>5, CallFields
    DEF LogsInv, IndexesKnow, LogsBegin, Begins
<1>8. /\ Len(req.entries) = Len(log) - prev
      /\ \A i \in 1..Len(req.entries) : req.entries[i] = log[prev + i]
    <2>1. /\ Len(EntriesAfter(log, prev)) = Len(log) - prev
          /\ \A i \in 1..Len(EntriesAfter(log, prev)) :
                EntriesAfter(log, prev)[i] = log[prev + i]
        BY <1>7, EntriesBehind, Zenon
    <2>2. req.entries = EntriesAfter(log, prev)
        BY <1>5
    <2>3. QED
        BY <2>1, <2>2, Zenon
<1>9. prev > 0 => req.prevLogTerm = log[prev].term
    BY <1>5, <1>7 DEF PrevLogTerms, TermsAt
<1>10. m_commitIndex[L] <= m_commitIndex[L]
    BY <1>1, CallFields
<1> HIDE DEF log, prev
<1>11. RequestsFit(L)'
    <2>1. /\ req.prevLogIndex = m_nextIndex[L][req.to] - 1
          /\ req.prevLogIndex = Len(m_logs[req.to])
          /\ req.prevLogIndex > 0 =>
                req.prevLogTerm = m_logs[L][req.prevLogIndex].term
          /\ req.prevLogIndex + Len(req.entries) <= Len(m_logs[L])
          /\ \A i \in 1..Len(req.entries) :
                req.entries[i] = m_logs[L][req.prevLogIndex + i]
          /\ req.leaderCommit <= m_commitIndex[L]
        BY <1>5, <1>7, <1>8, <1>9, <1>10 DEF log, prev
    <2>2. QED
        BY <1>1, <1>2, <1>6, <2>1 DEF LogsInv, RequestsFit
<1>12. IndexesKnow(L)'
    <2>1. \A q \in Peer : CallsTo(L, q)' = {} => CallsTo(L, q) = {}
        BY <1>2, <1>6 DEF CallsTo
    <2>2. QED
        BY <1>1, <1>2, <2>1 DEF LogsInv, IndexesKnow
<1>13. LogsBegin(L)' /\ RepliesFit(L)' /\ CommitsHeld(L)'
    BY <1>1, <1>2
    DEF LogsInv, LogsBegin, Begins, RepliesFit, CommitsHeld, Have
<1>14. OthersFollow(L)' /\ VoteCallsOf(L)' /\ WinsElection(L)'
    <2>1. \A n \in Peer \ {L} : sendSpawned'[n] = sendSpawned[n]
        BY <1>1, <1>2 DEF TypeOK, ThreadTypes
    <2>2. QED
        BY <1>1, <1>2, <2>1
        DEF RolesInv, OthersFollow, VoteCallsOf, WinsElection
<1>15. EntryCallsOf(L)'
    BY <1>1, <1>2, <1>3, <1>5, <1>6 DEF RolesInv, EntryCallsOf
<1>16. QED
    BY <1>11, <1>12, <1>13, <1>14, <1>15 DEF RolesInv, LogsInv

(* A log that takes the entries of L goes as far as they go, and is the    *)
(* start of the log of L.                                                  *)
LEMMA AcceptedFits ==
    ASSUME NEW L \in Peer, LeaderInv(L), NEW m \in DOMAIN appendReqs,
           m.to \in Peer \ {L}
    PROVE  /\ Accepted(m) \in Seq(Entry)
           /\ Len(Accepted(m)) = Len(m_logs[m.to]) + Len(m.entries)
           /\ Len(m_logs[m.to]) \in Nat /\ Len(Accepted(m)) \in Nat
           /\ Len(m_logs[m.to]) <= Len(Accepted(m))
           /\ Begins(Accepted(m), m_logs[L])
<1> DEFINE log == m_logs[m.to]
           big == m_logs[L]
           prev == m.prevLogIndex
           more == m.entries
<1>1. /\ log \in Seq(Entry) /\ more \in Seq(Entry)
      /\ Len(log) \in Nat /\ Len(more) \in Nat
    BY CallFields, LenProperties DEF LeaderInv, TypeInv
<1>2. /\ prev = Len(log) /\ prev + Len(more) <= Len(big)
      /\ \A i \in 1..Len(more) : more[i] = big[prev + i]
    BY DEF LeaderInv, LogsInv, RequestsFit
<1>3. \A i \in 1..Len(log) : log[i] = big[i]
    BY DEF LeaderInv, LogsInv, LogsBegin, Begins
<1>4. Accepted(m) = log \o more
    <2>1. CASE log = <<>>
        BY <1>1, <2>1, EmptySeq DEF Accepted
    <2>2. CASE log # <<>>
        <3>1. SubSeq(log, 1, Len(log)) = log
            BY <1>1, SubSeqFull, Zenon
        <3>2. QED
            BY <1>2, <2>2, <3>1 DEF Accepted
    <2>3. QED
        BY <2>1, <2>2
<1>5. /\ log \o more \in Seq(Entry)
      /\ Len(log \o more) = Len(log) + Len(more)
      /\ \A i \in 1..(Len(log) + Len(more)) :
            (log \o more)[i] = IF i <= Len(log) THEN log[i]
                               ELSE more[i - Len(log)]
    BY <1>1, ConcatProperties
<1> HIDE DEF log, big, prev, more
<1>6. ASSUME NEW i \in 1..(Len(log) + Len(more))
      PROVE  (log \o more)[i] = big[i]
    <2>1. CASE i <= Len(log)
        <3>1. i \in 1..Len(log)
            BY <1>1, <2>1
        <3>2. QED
            BY <1>3, <1>5, <2>1, <3>1
    <2>2. CASE ~(i <= Len(log))
        <3>1. /\ i - Len(log) \in 1..Len(more)
              /\ Len(log) + (i - Len(log)) = i
            BY <1>1, <2>2
        <3>2. more[i - Len(log)] = big[i]
            BY <1>2, <3>1
        <3>3. QED
            BY <1>5, <2>2, <3>2
    <2>3. QED
        BY <2>1, <2>2
<1>7. /\ Len(log \o more) <= Len(big) /\ Len(log \o more) \in Nat
      /\ Len(log) <= Len(log \o more)
    BY <1>1, <1>2, <1>5
<1>8. QED
    BY <1>1, <1>4, <1>5, <1>6, <1>7 DEF Begins, log, big, more

(* ...and so is its file.                                                  *)
LEMMA AcceptedFiled ==
    ASSUME NEW L \in Peer, LeaderInv(L), NEW m \in DOMAIN appendReqs,
           m.to \in Peer \ {L}
    PROVE  /\ SecondSave(m)[m.to].logs = Accepted(m)
           /\ \A p \in Peer \ {m.to} : SecondSave(m)[p] = file[p]
<1> DEFINE n == m.to
           log == m_logs[n]
<1>1. /\ TypeOK /\ file[n].logs = log /\ file[n] \in Saved
      /\ log \in Seq(Entry) /\ Len(log) \in Nat /\ m_curTerm[n] \in Nat
    BY CallFields DEF LeaderInv, TypeInv, LogsInv, LogsBegin
<1>2. /\ Accepted(m) \in Seq(Entry) /\ Len(log) <= Len(Accepted(m))
    BY AcceptedFits
<1>3. /\ FirstSave(m) \in [Peer -> Saved] /\ FirstSave(m)[n].logs = log
      /\ \A p \in Peer \ {n} : FirstSave(m)[p] = file[p]
    <2>1. Written(file[n], m_curTerm[n], None, log).logs = log
        BY <1>1, WrittenLonger
    <2>2. file \in [Peer -> Saved]
        BY <1>1 DEF TypeOK, LogTypes
    <2>3. QED
        BY <1>1, <2>1, <2>2, FirstSaveTyped DEF FirstSave
<1>4. \A term, vote :
         Written(FirstSave(m)[n], term, vote, Accepted(m)).logs = Accepted(m)
    BY <1>2, <1>3, WrittenLonger
<1>5. QED
    BY <1>3, <1>4 DEF SecondSave

(* More than a majority is one.                                            *)
LEMMA MoreHold ==
    ASSUME NEW T \in SUBSET Peer, NEW S \in SUBSET T, Majority(Cardinality(S))
    PROVE  Majority(Cardinality(T))
<1>1. IsFiniteSet(T)
    <2>1. 0 \in Int /\ NumPeers - 1 \in Int
        BY NumPeersPositive
    <2>2. IsFiniteSet(0..(NumPeers - 1))
        BY <2>1, FS_Interval
    <2>3. QED
        BY <2>2, FS_Subset DEF Peer
<1>2. /\ Cardinality(S) <= Cardinality(T) /\ Cardinality(S) \in Nat
      /\ Cardinality(T) \in Nat
    BY <1>1, FS_Subset, FS_CardinalityType
<1>3. QED
    BY <1>2, NumPeersPositive DEF Majority

(* A server takes the entries of L.                                        *)
LEMMA AcceptEntriesLeads ==
    ASSUME NEW L, OneCandidate(L), LeaderInv(L), NEW m \in DOMAIN appendReqs,
           m.to \in Peer \ {L}, AcceptEntries(m)
    PROVE  RolesInv(L)' /\ LogsInv(L)'
<1> DEFINE n == m.to
           reply == AppendReply(m, m_curTerm[n], TRUE, -1, -1)
<1>1. L \in Peer /\ TypeOK /\ RolesInv(L) /\ LogsInv(L) /\ RoundInv
    BY DEF OneCandidate, LeaderInv, TypeInv
<1>2. /\ n \in Peer \ {L} /\ m.from = L /\ m.term = m_curTerm[L]
      /\ m_curTerm[L] \in Nat /\ m_curTerm[n] <= m_curTerm[L]
      /\ m.leaderCommit <= m_commitIndex[L] /\ m.leaderCommit \in Nat
      /\ m.prevLogIndex = m_nextIndex[L][n] - 1
      /\ m.prevLogIndex = Len(m_logs[n])
      /\ Len(m.entries) \in Nat /\ m.entries \in Seq(Entry)
    BY <1>1, CallFields, LenProperties
    DEF RolesInv, OthersFollow, EntryCallsOf, LogsInv, RequestsFit
<1>3. /\ Accepted(m) \in Seq(Entry) /\ Begins(Accepted(m), m_logs[L])
      /\ Len(Accepted(m)) = Len(m_logs[n]) + Len(m.entries)
      /\ Len(m_logs[n]) \in Nat /\ Len(m_logs[n]) <= Len(Accepted(m))
      /\ Len(Accepted(m)) \in Nat
    BY <1>1, AcceptedFits
<1>4. /\ appendReqs' = BagRemove(appendReqs, m)
      /\ appendReplies' = BagAdd(appendReplies, reply)
      /\ UNCHANGED <<leaderVars, m_lastApplied, ballotVars, voteNet,
                     sendSpawned, sendThreads>>
    BY DEF AcceptEntries, Reply
<1>5. /\ reply.to = L /\ reply.from = n /\ reply.success
      /\ reply.term = m_curTerm[n] /\ reply.sent = Len(m.entries)
    BY <1>2 DEF AppendReply
<1>6. /\ m_state'[n] = "FOLLOWER" /\ m_curTerm'[n] = m_curTerm[L]
      /\ m_votedFor'[n] \in {None, L} /\ m_logs'[n] = Accepted(m)
      /\ file'[n].logs = Accepted(m)
      /\ \A p \in Peer \ {n} :
            /\ m_state'[p] = m_state[p] /\ m_curTerm'[p] = m_curTerm[p]
            /\ m_votedFor'[p] = m_votedFor[p] /\ m_logs'[p] = m_logs[p]
            /\ file'[p] = file[p] /\ m_commitIndex'[p] = m_commitIndex[p]
    <2>1. m_votedFor[n] \in {None, L}
        BY <1>1 DEF RolesInv, OthersFollow
    <2>2. file' = SecondSave(m) /\ FollowLeader(m)
          /\ m_logs' = [m_logs EXCEPT ![n] = Accepted(m)]
          /\ \A p \in Peer \ {n} : m_commitIndex'[p] = m_commitIndex[p]
        BY <1>1 DEF AcceptEntries, TypeOK, IndexTypes
    <2>3. QED
        BY <1>1, <1>2, <2>1, <2>2, AcceptedFiled
        DEF FollowLeader, TypeOK, TermTypes, LogTypes
<1>7. /\ m_commitIndex'[n] <= m_commitIndex[L]
      /\ m_commitIndex'[n] <= Len(Accepted(m))
      /\ m_lastApplied[n] <= m_commitIndex'[n]
    <2> DEFINE old == m_commitIndex[n]
               new == m_commitIndex'[n]
               top == m_commitIndex[L]
               known == m.leaderCommit
               size == Len(Accepted(m))
    <2>1. /\ old \in Nat /\ top \in Nat /\ m_lastApplied[n] \in Nat
          /\ old <= top /\ old <= Len(m_logs[n]) /\ m_lastApplied[n] <= old
        BY <1>1, CallFields DEF LogsInv, CommitsHeld
    <2>2. new = IF old < known THEN IF known < size THEN known ELSE size
                ELSE old
        BY <1>1 DEF AcceptEntries, TypeOK, IndexTypes
    <2>3. known \in Nat /\ known <= top /\ size \in Nat
          /\ Len(m_logs[n]) \in Nat /\ Len(m_logs[n]) <= size
        BY <1>2, <1>3
    <2> HIDE DEF old, new, top, known, size
    <2>4. new <= top /\ new <= size /\ m_lastApplied[n] <= new
        BY <2>1, <2>2, <2>3
    <2>5. QED
        BY <2>4 DEF new, top, size
<1> HIDE DEF reply
<1>8. /\ DOMAIN appendReqs' = DOMAIN appendReqs \ {m}
      /\ \A q \in DOMAIN appendReqs' : q.to \in Peer /\ q.to # n
    <2>1. appendReqs[m] = 1
        BY <1>1 DEF RoundInv, OneRequest
    <2>2. DOMAIN appendReqs' = DOMAIN appendReqs \ {m}
        BY <1>4, <2>1, RemovedOnce
    <2>3. QED
        BY <1>1, <1>2, <2>2, CallFields
        DEF RoundInv, OneRequest, RolesInv, EntryCallsOf
<1>9. /\ DOMAIN appendReplies' = DOMAIN appendReplies \cup {reply}
      /\ \A r \in DOMAIN appendReplies : r.from \in Peer /\ r.from # n
    <2>1. DOMAIN appendReplies' = DOMAIN appendReplies \cup {reply}
        BY <1>4 DEF BagAdd
    <2>2. QED
        BY <1>1, <1>2, <2>1, CallFields
        DEF RoundInv, RequestOrReply, RolesInv, EntryCallsOf
<1>10. OthersFollow(L)'
    <2>1. m_curTerm[L] <= m_curTerm[L]
        BY <1>2
    <2>2. QED
        BY <1>1, <1>2, <1>4, <1>6, <2>1 DEF RolesInv, OthersFollow
<1>11. VoteCallsOf(L)'
    BY <1>1, <1>2, <1>4, <1>6 DEF RolesInv, VoteCallsOf
<1>12. EntryCallsOf(L)'
    BY <1>1, <1>2, <1>5, <1>6, <1>8, <1>9 DEF RolesInv, EntryCallsOf
<1>13. WinsElection(L)'
    <2>1. voteThreads[L] = 0
        BY <1>1, CallsHaveThreads
    <2>2. ~(voteThreads'[L] > 0)
        BY <1>4, <2>1
    <2>3. QED
        BY <1>1, <1>2, <1>4, <1>6, <2>2 DEF RolesInv, WinsElection
<1>14. LogsBegin(L)'
    <2>1. m_logs'[L] = m_logs[L]
        BY <1>1, <1>2, <1>6
    <2>2. ASSUME NEW p \in Peer \ {L}
          PROVE  Begins(m_logs'[p], m_logs[L]) /\ file'[p].logs = m_logs'[p]
        <3>1. CASE p = n
            BY <1>3, <1>6, <3>1
        <3>2. CASE p # n
            BY <1>1, <1>6, <3>2 DEF LogsInv, LogsBegin
        <3>3. QED
            BY <3>1, <3>2
    <2>3. QED
        BY <2>1, <2>2 DEF LogsBegin, Begins
<1>15. IndexesKnow(L)'
    <2>1. ASSUME NEW p \in Peer \ {L, n} PROVE CallsTo(L, p)' = CallsTo(L, p)
        BY <1>2, <1>5, <1>8, <1>9 DEF CallsTo
    <2>2. reply \in CallsTo(L, n)'
        BY <1>5, <1>9 DEF CallsTo
    <2>3. ASSUME NEW p \in Peer \ {L}
          PROVE  /\ m_matchIndex[L][p] \in 0..(m_nextIndex[L][p] - 1)
                 /\ m_nextIndex[L][p] - 1 <= Len(m_logs'[p])
                 /\ CallsTo(L, p)' = {} =>
                       m_nextIndex[L][p] - 1 = Len(m_logs'[p])
        <3>1. CASE p = n
            <4>1. /\ m_matchIndex[L][n] \in 0..(m_nextIndex[L][n] - 1)
                  /\ m_nextIndex[L][n] - 1 = Len(m_logs[n])
                BY <1>1, <1>2 DEF LogsInv, IndexesKnow
            <4>2. m_nextIndex[L][n] - 1 <= Len(m_logs'[n])
                BY <1>3, <1>6, <4>1
            <4>3. QED
                BY <2>2, <3>1, <4>1, <4>2
        <3>2. CASE p # n
            BY <1>1, <1>6, <2>1, <3>2 DEF LogsInv, IndexesKnow
        <3>3. QED
            BY <3>1, <3>2
    <2>4. QED
        BY <1>1, <1>4, <2>3 DEF LogsInv, IndexesKnow
<1>16. RequestsFit(L)'
    <2>1. m_logs'[L] = m_logs[L] /\ m_commitIndex'[L] = m_commitIndex[L]
        BY <1>1, <1>2, <1>6
    <2>2. \A q \in DOMAIN appendReqs' :
             q \in DOMAIN appendReqs /\ m_logs'[q.to] = m_logs[q.to]
        BY <1>6, <1>8
    <2>3. QED
        BY <1>1, <1>4, <2>1, <2>2 DEF LogsInv, RequestsFit
<1>17. RepliesFit(L)'
    <2>1. m_nextIndex[L][n] - 1 + reply.sent = Len(m_logs'[n])
        BY <1>2, <1>3, <1>5, <1>6
    <2>2. QED
        BY <1>1, <1>4, <1>5, <1>6, <1>9, <2>1 DEF LogsInv, RepliesFit
<1>18. CommitsHeld(L)'
    <2> DEFINE k == m_commitIndex[L]
    <2>1. k \in Nat /\ \A p \in Peer : Len(m_logs[p]) \in Nat
        BY <1>1, CallFields
    <2>2. Have(L, k) \subseteq Have(L, k)'
        <3>1. ASSUME NEW p \in Peer, Len(m_logs[p]) >= k
              PROVE  Len(m_logs'[p]) >= k
            <4>1. CASE p = n
                <5> DEFINE size == Len(Accepted(m))
                           length == Len(m_logs[n])
                <5>1. /\ length \in Nat /\ size \in Nat /\ length <= size
                      /\ length >= k /\ Len(m_logs'[n]) = size
                    BY <1>3, <1>6, <3>1, <4>1
                <5> HIDE DEF size, length, k
                <5>2. Len(m_logs'[n]) >= k
                    BY <2>1, <5>1
                <5>3. QED
                    BY <4>1, <5>2
            <4>2. CASE p # n
                BY <1>6, <3>1, <4>2
            <4>3. QED
                BY <4>1, <4>2
        <3>2. m_commitIndex'[L] = k
            BY <1>1, <1>2, <1>6
        <3>3. QED
            BY <3>1, <3>2 DEF Have
    <2>3. Have(L, k)' \subseteq Peer
        BY DEF Have
    <2>4. k > 0 => Majority(Cardinality(Have(L, k)'))
        BY <1>1, <2>2, <2>3, MoreHold DEF LogsInv, CommitsHeld
    <2>5. m_commitIndex'[L] = k
        BY <1>1, <1>2, <1>6
    <2>6. k > 0 => Majority(Cardinality(Have(L, m_commitIndex[L])'))
        BY <2>4, <2>5 DEF Have
    <2>7. QED
        BY <1>1, <1>2, <1>4, <1>6, <1>7, <2>5, <2>6
        DEF LogsInv, CommitsHeld
<1>19. QED
    BY <1>10, <1>11, <1>12, <1>13, <1>14, <1>15, <1>16, <1>17, <1>18
    DEF RolesInv, LogsInv

(* The nodes at or above the middle of the match indexes are a majority.   *)
LEMMA MiddleHeld ==
    ASSUME NEW match \in [Peer -> Int], NEW middle \in MiddleMatch(match)
    PROVE  Majority(Cardinality({p \in Peer : match[p] >= middle}))
<1> DEFINE below == {p \in Peer : match[p] < middle}
           rest == {p \in Peer : match[p] >= middle}
           half == NumPeers \div 2
<1>1. NumPeers \in Nat /\ half \in Nat /\ NumPeers = 2 * half + 1
    BY NumPeersAssumption
<1>2. IsFiniteSet(Peer) /\ Cardinality(Peer) = NumPeers
    <2>1. 0 \in Int /\ NumPeers - 1 \in Int /\ ~(0 > NumPeers - 1)
          /\ NumPeers - 1 - 0 + 1 = NumPeers
        BY NumPeersPositive
    <2>2. QED
        BY <2>1, FS_Interval DEF Peer
<1>3. Peer \cap below = below /\ Peer \ below = rest
    <2>1. middle \in Int /\ \A p \in Peer : match[p] \in Int
        BY DEF MiddleMatch
    <2>2. QED
        BY <2>1
<1>4. Cardinality(below) <= half
    BY DEF MiddleMatch
<1> HIDE DEF below, rest, half
<1>5. /\ Cardinality(rest) = NumPeers - Cardinality(below)
      /\ Cardinality(below) \in Nat
    BY <1>2, <1>3, FS_Difference, FS_Intersection, FS_CardinalityType
<1>6. Cardinality(rest) > half
    BY <1>1, <1>4, <1>5
<1>7. QED
    BY <1>6 DEF Majority, rest, half

(* What HandleSuccess does to the members.                                 *)
LEMMA SuccessSteps ==
    ASSUME NEW L, OneCandidate(L), LeaderInv(L),
           NEW r \in DOMAIN appendReplies, r.to = L, r.from \in Peer \ {L},
           HandleSuccess(r)
    PROVE  /\ m_nextIndex'[L][r.from] - 1 = Len(m_logs[r.from])
           /\ m_matchIndex'[L][r.from] = m_nextIndex'[L][r.from] - 1
           /\ \A q \in Peer \ {r.from} :
                 /\ m_nextIndex'[L][q] = m_nextIndex[L][q]
                 /\ m_matchIndex'[L][q] = m_matchIndex[L][q]
           /\ m_matchIndex'[L] \in [Peer -> Int]
           /\ \A q \in Peer \ {L} :
                 /\ file'[q] = file[q]
                 /\ m_commitIndex'[q] = m_commitIndex[q]
           /\ \/ m_commitIndex'[L] = m_commitIndex[L]
              \/ /\ m_commitIndex'[L] \in MiddleMatch(m_matchIndex'[L])
                 /\ m_commitIndex'[L] > m_commitIndex[L]
           /\ appendReplies' = BagRemove(appendReplies, r)
           /\ UNCHANGED <<termVars, m_logs, m_lastApplied, ballotVars,
                          voteNet, sendSpawned, appendReqs>>
<1> DEFINE p == r.from
           match == [m_matchIndex[L] EXCEPT ![p] = NextAfterSuccess(r) - 1]
<1>1. /\ L \in Peer /\ TypeOK /\ p \in Peer
      /\ r.sent \in Nat /\ m_nextIndex[L][p] \in Int
    BY CallFields DEF OneCandidate, LeaderInv, TypeInv
<1>2. /\ m_nextIndex \in [Peer -> [Peer -> Int]]
      /\ m_matchIndex \in [Peer -> [Peer -> Int]]
      /\ m_commitIndex \in [Peer -> Nat] /\ file \in [Peer -> Saved]
    BY <1>1 DEF TypeOK, IndexTypes, LogTypes
<1>3. NextAfterSuccess(r) = m_nextIndex[L][p] + r.sent
    BY DEF NextAfterSuccess
<1>4. NextAfterSuccess(r) - 1 = Len(m_logs[p])
    BY <1>1, <1>3 DEF LeaderInv, LogsInv, RepliesFit
<1>5. /\ m_nextIndex' = [m_nextIndex EXCEPT ![L][p] = NextAfterSuccess(r)]
      /\ m_matchIndex' = [m_matchIndex EXCEPT ![L] = match]
      /\ appendReplies' = BagRemove(appendReplies, r)
      /\ UNCHANGED <<termVars, m_logs, m_lastApplied, ballotVars,
                     voteNet, sendSpawned, appendReqs>>
    BY DEF HandleSuccess, HandleReply
<1>6. file' = [file EXCEPT ![L] = Written(@, m_curTerm[L], m_votedFor[L],
                                          m_logs[L])]
    BY DEF HandleSuccess, saveRaftState
<1>7. NextAfterSuccess(r) \in Int /\ match \in [Peer -> Int]
      /\ m_matchIndex'[L] = match
    BY <1>1, <1>2, <1>3, <1>5
<1>8. \A q \in Peer \ {L} : file'[q] = file[q]
    BY <1>1, <1>2, <1>6
<1>9. PICK middle \in MiddleMatch(match) :
        \E term : m_commitIndex' = [m_commitIndex EXCEPT ![L] =
                     IF middle > @ /\ term = m_curTerm[L] THEN middle ELSE @]
    BY DEF HandleSuccess
<1>10. /\ \A q \in Peer \ {L} : m_commitIndex'[q] = m_commitIndex[q]
       /\ \/ m_commitIndex'[L] = m_commitIndex[L]
          \/ m_commitIndex'[L] = middle /\ middle > m_commitIndex[L]
    BY <1>1, <1>2, <1>9
<1>11. /\ m_nextIndex'[L][p] = NextAfterSuccess(r)
       /\ match[p] = NextAfterSuccess(r) - 1
       /\ \A q \in Peer \ {p} : /\ m_nextIndex'[L][q] = m_nextIndex[L][q]
                                /\ match[q] = m_matchIndex[L][q]
    BY <1>1, <1>2, <1>5
<1> HIDE DEF match
<1>12. QED
    BY <1>4, <1>5, <1>7, <1>8, <1>9, <1>10, <1>11

(* L handles the reply of a call.                                          *)
LEMMA HandleSuccessLeads ==
    ASSUME NEW L, OneCandidate(L), LeaderInv(L),
           NEW r \in DOMAIN appendReplies, r.to = L, r.from \in Peer \ {L},
           HandleSuccess(r)
    PROVE  RolesInv(L)' /\ LogsInv(L)'
<1> DEFINE p == r.from
<1>1. L \in Peer /\ TypeOK /\ RolesInv(L) /\ LogsInv(L) /\ RoundInv
    BY DEF OneCandidate, LeaderInv, TypeInv
<1>2. /\ m_nextIndex'[L][p] - 1 = Len(m_logs[p])
      /\ m_matchIndex'[L][p] = m_nextIndex'[L][p] - 1
      /\ \A q \in Peer \ {p} : /\ m_nextIndex'[L][q] = m_nextIndex[L][q]
                               /\ m_matchIndex'[L][q] = m_matchIndex[L][q]
    BY SuccessSteps
<1>3. /\ \A q \in Peer \ {L} : /\ file'[q] = file[q]
                               /\ m_commitIndex'[q] = m_commitIndex[q]
      /\ appendReplies' = BagRemove(appendReplies, r)
      /\ UNCHANGED <<termVars, m_logs, m_lastApplied, ballotVars,
                     voteNet, sendSpawned, appendReqs>>
    BY SuccessSteps
<1>4. \/ m_commitIndex'[L] = m_commitIndex[L]
      \/ /\ m_commitIndex'[L] \in MiddleMatch(m_matchIndex'[L])
         /\ m_commitIndex'[L] > m_commitIndex[L]
    BY SuccessSteps
<1>5. /\ \A q \in Peer : /\ Len(m_logs[q]) \in Nat
                         /\ m_commitIndex[q] \in Nat
                         /\ m_nextIndex[L][q] \in Int
      /\ m_matchIndex'[L] \in [Peer -> Int]
    BY <1>1, CallFields, SuccessSteps
<1>6. /\ DOMAIN appendReplies' = DOMAIN appendReplies \ {r}
      /\ \A o \in DOMAIN appendReplies' : o.from \in Peer \ {p}
      /\ \A m \in DOMAIN appendReqs : m.to \in Peer \ {p}
    <2>1. appendReplies[r] = 1
        BY <1>1 DEF RoundInv, OneReply
    <2>2. DOMAIN appendReplies' = DOMAIN appendReplies \ {r}
        BY <1>3, <2>1, RemovedOnce
    <2>3. ASSUME NEW o \in DOMAIN appendReplies' PROVE o.from \in Peer \ {p}
        <3>1. o \in DOMAIN appendReplies /\ o # r /\ o.to = L
            BY <1>1, <2>2 DEF RolesInv, EntryCallsOf
        <3>2. QED
            BY <1>1, <3>1, CallFields DEF RoundInv, OneReply
    <2>4. ASSUME NEW m \in DOMAIN appendReqs PROVE m.to \in Peer \ {p}
        <3>1. m.from = L
            BY <1>1 DEF RolesInv, EntryCallsOf
        <3>2. QED
            BY <1>1, <3>1, CallFields DEF RoundInv, RequestOrReply
    <2>5. QED
        BY <2>2, <2>3, <2>4
<1>7. m_commitIndex'[L] \in Int /\ m_commitIndex[L] <= m_commitIndex'[L]
    BY <1>1, <1>4, <1>5 DEF MiddleMatch
<1>8. OthersFollow(L)' /\ VoteCallsOf(L)' /\ EntryCallsOf(L)'
    BY <1>1, <1>3, <1>6 DEF RolesInv, OthersFollow, VoteCallsOf, EntryCallsOf
<1>9. WinsElection(L)'
    <2>1. sendThreads[L] > 0 /\ sendThreads[L] \in Nat
        BY <1>1, CallsHaveThreads
    <2>2. m_state[L] = "LEADER"
        BY <1>1, <2>1 DEF RolesInv, WinsElection
    <2>3. QED
        BY <1>1, <1>3, <2>2 DEF RolesInv, WinsElection
<1>10. LogsBegin(L)'
    BY <1>1, <1>3 DEF LogsInv, LogsBegin, Begins
<1>11. IndexesKnow(L)'
    <2>1. m_matchIndex'[L][L] = 0
        BY <1>1, <1>2 DEF LogsInv, IndexesKnow
    <2>2. ASSUME NEW q \in Peer \ {L}
          PROVE  /\ m_matchIndex'[L][q] \in 0..(m_nextIndex'[L][q] - 1)
                 /\ m_nextIndex'[L][q] - 1 <= Len(m_logs[q])
                 /\ CallsTo(L, q)' = {} =>
                       m_nextIndex'[L][q] - 1 = Len(m_logs[q])
        <3>1. CASE q = p
            BY <1>2, <1>5, <3>1
        <3>2. CASE q # p
            <4>1. CallsTo(L, q)' = CallsTo(L, q)
                BY <1>3, <1>6, <3>2 DEF CallsTo
            <4>2. QED
                BY <1>1, <1>2, <3>2, <4>1 DEF LogsInv, IndexesKnow
        <3>3. QED
            BY <3>1, <3>2
    <2>3. QED
        BY <1>3, <2>1, <2>2 DEF IndexesKnow
<1>12. RequestsFit(L)'
    <2> SUFFICES ASSUME NEW m \in DOMAIN appendReqs
                 PROVE  /\ m_nextIndex'[L][m.to] = m_nextIndex[L][m.to]
                        /\ m.leaderCommit <= m_commitIndex'[L]
        BY <1>1, <1>3 DEF LogsInv, RequestsFit
    <2>1. m.leaderCommit <= m_commitIndex[L] /\ m.leaderCommit \in Nat
        BY <1>1, CallFields DEF LogsInv, RequestsFit
    <2>2. QED
        BY <1>1, <1>2, <1>5, <1>6, <1>7, <2>1
<1>13. RepliesFit(L)'
    BY <1>1, <1>2, <1>3, <1>6 DEF LogsInv, RepliesFit
<1>14. CommitsHeld(L)'
    <2> DEFINE match == m_matchIndex'[L]
               k == m_commitIndex'[L]
    <2>1. /\ k <= Len(m_logs[L])
          /\ k > 0 => Majority(Cardinality(Have(L, k)))
        <3>1. CASE k = m_commitIndex[L]
            BY <1>1, <3>1 DEF LogsInv, CommitsHeld
        <3>2. CASE k \in MiddleMatch(match) /\ k > m_commitIndex[L]
            <4>1. \A q \in Peer \ {L} :
                     match[q] \in Int /\ match[q] <= Len(m_logs[q])
                <5>1. ASSUME NEW q \in Peer \ {L}
                      PROVE  match[q] <= Len(m_logs[q])
                    <6>1. CASE q = p
                        BY <1>2, <1>5, <6>1
                    <6>2. CASE q # p
                        BY <1>1, <1>2, <1>5, <6>2 DEF LogsInv, IndexesKnow
                    <6>3. QED
                        BY <6>1, <6>2
                <5>2. QED
                    BY <1>5, <5>1
            <4>2. match[L] = 0
                BY <1>11 DEF IndexesKnow
            <4>3. k \in Int /\ k > 0
                BY <1>1, <1>5, <1>7, <3>2
            <4>4. PICK q \in Peer : k = match[q]
                BY <3>2 DEF MiddleMatch
            <4>5. q # L /\ k <= Len(m_logs[q])
                BY <4>1, <4>2, <4>3, <4>4
            <4>6. Len(m_logs[q]) <= Len(m_logs[L])
                BY <1>1, <4>5 DEF LogsInv, LogsBegin, Begins
            <4>7. k <= Len(m_logs[L])
                BY <1>1, <1>5, <4>3, <4>5, <4>6
            <4>8. {x \in Peer : match[x] >= k} \subseteq Have(L, k)
                <5>1. ASSUME NEW x \in Peer, match[x] >= k
                      PROVE  x # L /\ Len(m_logs[x]) >= k
                    <6>1. x # L
                        BY <4>2, <4>3, <5>1
                    <6>2. QED
                        BY <1>5, <4>1, <4>3, <5>1, <6>1
                <5>2. QED
                    BY <5>1 DEF Have
            <4>9. Majority(Cardinality({x \in Peer : match[x] >= k}))
                BY <1>5, <3>2, MiddleHeld
            <4>10. Have(L, k) \subseteq Peer
                BY DEF Have
            <4>11. Majority(Cardinality(Have(L, k)))
                BY <4>8, <4>9, <4>10, MoreHold
            <4>12. QED
                BY <4>7, <4>11
        <3>3. QED
            BY <1>4, <3>1, <3>2
    <2>2. \A q \in Peer : /\ m_commitIndex'[q] <= k
                          /\ m_commitIndex'[q] <= Len(m_logs[q])
                          /\ m_lastApplied[q] <= m_commitIndex'[q]
        <3>1. ASSUME NEW q \in Peer
              PROVE  /\ m_commitIndex'[q] <= k
                     /\ m_commitIndex'[q] <= Len(m_logs[q])
                     /\ m_lastApplied[q] <= m_commitIndex'[q]
            <4>1. /\ m_commitIndex[q] \in Nat /\ m_lastApplied[q] \in Nat
                  /\ m_commitIndex[q] <= m_commitIndex[L]
                  /\ m_commitIndex[q] <= Len(m_logs[q])
                  /\ m_lastApplied[q] <= m_commitIndex[q]
                  /\ m_commitIndex[L] \in Nat
                BY <1>1, CallFields DEF LogsInv, CommitsHeld
            <4>2. CASE q = L
                BY <1>7, <2>1, <4>1, <4>2
            <4>3. CASE q # L
                BY <1>3, <1>7, <4>1, <4>3
            <4>4. QED
                BY <4>2, <4>3
        <3>2. QED
            BY <3>1
    <2>3. Have(L, m_commitIndex[L])' = Have(L, k)
        BY <1>3 DEF Have
    <2> HIDE DEF k
    <2>4. QED
        BY <1>3, <2>1, <2>2, <2>3 DEF CommitsHeld, k
<1>15. QED
    BY <1>8, <1>9, <1>10, <1>11, <1>12, <1>13, <1>14 DEF RolesInv, LogsInv

(* A node applies what it takes for committed.                             *)
LEMMA ApplyLogLeads ==
    ASSUME NEW L, OneCandidate(L), LeaderInv(L), NEW n \in Peer, ApplyLog(n)
    PROVE  RolesInv(L)' /\ LogsInv(L)'
<1>1. L \in Peer /\ TypeOK /\ RolesInv(L) /\ LogsInv(L)
    BY DEF OneCandidate, LeaderInv, TypeInv
<1>2. /\ m_lastApplied'[n] = m_commitIndex[n] /\ m_commitIndex[n] \in Nat
      /\ \A p \in Peer \ {n} : m_lastApplied'[p] = m_lastApplied[p]
      /\ UNCHANGED <<termVars, m_logs, leaderVars, m_commitIndex, ballotVars,
                     file, voteNet, appendNet>>
    BY <1>1 DEF ApplyLog, TypeOK, IndexTypes
<1>3. LogsBegin(L)' /\ IndexesKnow(L)' /\ RequestsFit(L)' /\ RepliesFit(L)'
    BY <1>1, <1>2 DEF LogsInv, LogsBegin, Begins, IndexesKnow, CallsTo,
                      RequestsFit, RepliesFit
<1>4. CommitsHeld(L)'
    <2>1. \A p \in Peer : m_lastApplied'[p] <= m_commitIndex[p]
        BY <1>1, <1>2 DEF LogsInv, CommitsHeld
    <2>2. QED
        BY <1>1, <1>2, <2>1 DEF LogsInv, CommitsHeld, Have
<1>5. QED
    BY <1>1, <1>2, <1>3, <1>4, RolesStay DEF LogsInv
-----------------------------------------------------------------------------
(* Every step.                                                             *)

(* A step of an election.                                                  *)
LEMMA ElectionLeads ==
    ASSUME NEW L, OneCandidate(L), LeaderInv(L), NEW n \in Peer,
           ElectionStep(n) \/ VoteServerStep(n)
    PROVE  RolesInv(L)' /\ LogsInv(L)'
<1>1. L \in Peer
    BY DEF OneCandidate
<1>2. CASE ElectionStep(n)
    BY <1>2, ElectionsWon, StartElectionLeads, FinishElectionLeads,
       SendVoteRequestLeads
<1>3. CASE VoteServerStep(n)
    BY <1>1, <1>3, VotesGranted, ConsiderVoteLeads, CompareLeads,
       GrantVoteLeads
<1>4. QED
    BY <1>2, <1>3

(* A step of replication.                                                  *)
LEMMA AppendLeads ==
    ASSUME NEW L, OneCandidate(L), LeaderInv(L), NEW n \in Peer, AppendStep(n)
    PROVE  RolesInv(L)' /\ LogsInv(L)'
<1>1. L \in Peer
    BY DEF OneCandidate
<1>2. CASE start(n)
    BY <1>2, LeaderIs, startLeads DEF start
<1>3. CASE Broadcast(n)
    BY <1>3, LeaderIs, BroadcastLeads DEF Broadcast
<1>4. CASE SendEntries(n)
    <2>1. sendSpawned[n] # 0
        BY <1>4 DEF SendEntries
    <2>2. n = L
        BY <2>1 DEF LeaderInv, RolesInv, OthersFollow
    <2>3. QED
        BY <1>4, <2>2, SendEntriesLeads
<1>5. ASSUME NEW m \in DOMAIN appendReqs, HandleAppend(m)
      PROVE  RolesInv(L)' /\ LogsInv(L)'
    BY <1>1, <1>5, RequestsAccepted, AcceptEntriesLeads
<1>6. ASSUME NEW r \in DOMAIN appendReplies, HandleAppendReply(r)
      PROVE  RolesInv(L)' /\ LogsInv(L)'
    BY <1>1, <1>6, RepliesSucceed, HandleSuccessLeads
<1>7. QED
    BY <1>2, <1>3, <1>4, <1>5, <1>6, ApplyLogLeads DEF AppendStep

(* While one node leads, every step keeps the roles and the logs.          *)
LEMMA NextLeads ==
    ASSUME NEW L, OneCandidate(L), LeaderInv(L), [Next]_vars
    PROVE  RolesInv(L)' /\ LogsInv(L)'
<1>1. ASSUME UNCHANGED <<termVars, m_logs, leaderVars, commitVars, ballotVars,
                         file, voteNet, appendNet>>
      PROVE  RolesInv(L)' /\ LogsInv(L)'
    BY <1>1, RolesStay, LogsStay DEF LeaderInv
<1>2. CASE ProcessStep
    <2>1. ASSUME NEW n, NEW loop, SeeLeader(n) \/ kill \/ ExitLoop(n, loop)
          PROVE  RolesInv(L)' /\ LogsInv(L)'
        BY <1>1, <2>1 DEF SeeLeader, kill, ExitLoop
    <2>2. QED
        BY <1>2, <2>1, NoRestart DEF LeaderInv
<1>3. CASE UNCHANGED vars
    BY <1>1, <1>3
<1>4. QED
    BY <1>2, <1>3, ElectionLeads, AppendLeads, HandleVoteReplyLeads DEF Next

(* It holds to begin with.                                                 *)
LEMMA InitLeads ==
    ASSUME NEW L, OneCandidate(L), Init PROVE RolesInv(L) /\ LogsInv(L)
<1>1. L \in Peer /\ Len(<<>>) = 0
    BY DEF OneCandidate
<1>2. RolesInv(L)
    BY <1>1, EmptyBagDomain
    DEF Init, AtEveryPeer, RolesInv, OthersFollow, VoteCallsOf, EntryCallsOf,
        WinsElection
<1>3. LogsBegin(L) /\ IndexesKnow(L) /\ CommitsHeld(L)
    BY <1>1
    DEF Init, AtEveryPeer, NoFile, LogsBegin, Begins, IndexesKnow,
        CommitsHeld, Have
<1>4. RequestsFit(L) /\ RepliesFit(L)
    BY EmptyBagDomain DEF Init, RequestsFit, RepliesFit
<1>5. QED
    BY <1>2, <1>3, <1>4 DEF LogsInv

(* While one node leads the invariant holds.                               *)
LEMMA LeaderInvariance ==
    ASSUME NEW L, OneCandidate(L) PROVE Spec => []LeaderInv(L)
<1> DEFINE Rest == RolesInv(L) /\ LogsInv(L)
<1>1. Init => Rest
    BY InitLeads
<1>2. TypeInv /\ ThreadsPlaced /\ RoundInv /\ Rest /\ [Next]_vars => Rest'
    BY NextLeads DEF LeaderInv
<1>3. TypeInv /\ ThreadsPlaced /\ RoundInv /\ Rest => LeaderInv(L)
    BY DEF LeaderInv
<1>4. Spec => []RoundInv
    BY RoundsGoOn DEF OneCandidate
<1> HIDE DEF Rest
<1>5. QED
    BY <1>1, <1>2, <1>3, <1>4, TypeInvariance, ThreadsInPlace, PTL DEF Spec
-----------------------------------------------------------------------------
(* Prefixes of logs.                                                       *)

(* The smaller of two.                                                     *)
LEMMA MinOfTwo ==
    ASSUME NEW a \in Int, NEW b \in Int
    PROVE  Min({a, b}) = IF a <= b THEN a ELSE b
<1> DEFINE least == IF a <= b THEN a ELSE b
<1>1. least \in {a, b} /\ \A y \in {a, b} : least <= y
    OBVIOUS
<1>2. \A x \in {a, b} : (\A y \in {a, b} : x <= y) => x = least
    OBVIOUS
<1> HIDE DEF least
<1>3. Min({a, b}) = least
    BY <1>1, <1>2 DEF Min
<1>4. QED
    BY <1>3 DEF least

(* The first k entries of a log that has k.                                *)
LEMMA FrontOf ==
    ASSUME NEW log \in Seq(Entry), NEW k \in Nat, k <= Len(log)
    PROVE  /\ Prefix(log, k) = SubSeq(log, 1, k)
           /\ SubSeq(log, 1, k) \in Seq(Entry) /\ Len(SubSeq(log, 1, k)) = k
           /\ \A i \in 1..k : SubSeq(log, 1, k)[i] = log[i]
<1>1. Len(log) \in Nat
    BY LenProperties
<1>2. Min({k, Len(log)}) = k
    BY <1>1, MinOfTwo
<1>3. \A i \in 1..k : log[i] \in Entry
    <2>1. \A i \in 1..k : i \in 1..Len(log)
        BY <1>1
    <2>2. QED
        BY <2>1, ElementOfSeq
<1>4. /\ SubSeq(log, 1, k) \in Seq(Entry)
      /\ Len(SubSeq(log, 1, k)) = IF 1 <= k THEN k - 1 + 1 ELSE 0
      /\ \A i \in 1..(k - 1 + 1) : SubSeq(log, 1, k)[i] = log[1 + i - 1]
    BY <1>3, SubSeqProperties
<1>5. /\ (IF 1 <= k THEN k - 1 + 1 ELSE 0) = k /\ k - 1 + 1 = k
      /\ \A i \in 1..k : 1 + i - 1 = i
    OBVIOUS
<1>6. QED
    BY <1>2, <1>4, <1>5 DEF Prefix

(* Logs that agree entry by entry have the same start.                     *)
LEMMA SameFront ==
    ASSUME NEW a \in Seq(Entry), NEW b \in Seq(Entry), NEW k \in Nat,
           k <= Len(a), k <= Len(b), \A i \in 1..k : a[i] = b[i]
    PROVE  SubSeq(a, 1, k) = SubSeq(b, 1, k) /\ Prefix(a, k) = Prefix(b, k)
<1>1. /\ Prefix(a, k) = SubSeq(a, 1, k) /\ Prefix(b, k) = SubSeq(b, 1, k)
      /\ SubSeq(a, 1, k) \in Seq(Entry) /\ SubSeq(b, 1, k) \in Seq(Entry)
      /\ Len(SubSeq(a, 1, k)) = k /\ Len(SubSeq(b, 1, k)) = k
      /\ \A i \in 1..k : SubSeq(a, 1, k)[i] = a[i] /\ SubSeq(b, 1, k)[i] = b[i]
    BY FrontOf
<1>2. SubSeq(a, 1, k) = SubSeq(b, 1, k)
    BY <1>1, SeqEqual
<1>3. QED
    BY <1>1, <1>2

(* Every log is the start of the log of L.                                 *)
LEMMA AllBegin ==
    ASSUME NEW L \in Peer, LeaderInv(L)
    PROVE  \A p \in Peer :
              /\ m_logs[p] \in Seq(Entry) /\ Len(m_logs[p]) \in Nat
              /\ Len(m_logs[p]) <= Len(m_logs[L])
              /\ \A i \in 1..Len(m_logs[p]) : m_logs[p][i] = m_logs[L][i]
<1>1. \A p \in Peer : m_logs[p] \in Seq(Entry) /\ Len(m_logs[p]) \in Nat
    BY CallFields DEF LeaderInv, TypeInv
<1>2. QED
    BY <1>1 DEF LeaderInv, LogsInv, LogsBegin, Begins

(* Any two logs agree as far as both go.                                   *)
LEMMA LogsAgree ==
    ASSUME NEW L \in Peer, LeaderInv(L), NEW a \in Peer, NEW b \in Peer,
           NEW k \in Nat, k <= Len(m_logs[a]), k <= Len(m_logs[b])
    PROVE  /\ SubSeq(m_logs[a], 1, k) = SubSeq(m_logs[b], 1, k)
           /\ Prefix(m_logs[a], k) = Prefix(m_logs[b], k)
<1>1. \A i \in 1..k : m_logs[a][i] = m_logs[b][i]
    <2>1. \A i \in 1..k : i \in 1..Len(m_logs[a]) /\ i \in 1..Len(m_logs[b])
        BY AllBegin
    <2>2. QED
        BY <2>1, AllBegin
<1>2. QED
    BY <1>1, AllBegin, SameFront
-----------------------------------------------------------------------------
(* What holds of the logs.                                                 *)

(* While one node leads, the logs match: two logs with entries of one term *)
(* at an index are the same up to it (logEntriesAppend.cpp:130-184 cuts    *)
(* and extends them).                                                      *)
THEOREM LogsMatch ==
    ASSUME NEW L, OneCandidate(L) PROVE Spec => []LogMatching
<1>1. LeaderInv(L) => LogMatching
    <2> SUFFICES ASSUME LeaderInv(L), NEW a \in Peer, NEW b \in Peer,
                        NEW i \in 1..Min({Len(m_logs[a]), Len(m_logs[b])})
                 PROVE  Prefix(m_logs[a], i) = Prefix(m_logs[b], i)
        BY DEF LogMatching
    <2>1. Len(m_logs[a]) \in Nat /\ Len(m_logs[b]) \in Nat /\ L \in Peer
        BY AllBegin DEF OneCandidate
    <2>2. i \in Nat /\ i <= Len(m_logs[a]) /\ i <= Len(m_logs[b])
        <3>1. Min({Len(m_logs[a]), Len(m_logs[b])}) =
                 IF Len(m_logs[a]) <= Len(m_logs[b]) THEN Len(m_logs[a])
                 ELSE Len(m_logs[b])
            BY <2>1, MinOfTwo
        <3>2. QED
            BY <2>1, <3>1
    <2>3. QED
        BY <2>1, <2>2, LogsAgree
<1>2. QED
    BY <1>1, LeaderInvariance, PTL

(* With one candidate and timely calls, by which a follower answers one    *)
(* call at a time, matchIndex claims no more than the follower has in its  *)
(* log (logEntriesAppend.cpp:117, :201-254).                               *)
THEOREM MatchStored ==
    ASSUME NEW L, OneCandidate(L) PROVE Spec => []MatchIsStored
<1>1. LeaderInv(L) => MatchIsStored
    <2> SUFFICES ASSUME LeaderInv(L), NEW p \in Peer
                 PROVE  LET k == m_matchIndex[L][p] IN
                        /\ k <= Len(m_logs[p]) /\ k <= Len(m_logs[L])
                        /\ Prefix(m_logs[p], k) = Prefix(m_logs[L], k)
        BY LeaderIs DEF MatchIsStored
    <2> DEFINE k == m_matchIndex[L][p]
    <2>1. /\ L \in Peer /\ Len(m_logs[p]) \in Nat /\ Len(m_logs[L]) \in Nat
          /\ Len(m_logs[p]) <= Len(m_logs[L]) /\ m_nextIndex[L][p] \in Int
        BY AllBegin, CallFields DEF OneCandidate, LeaderInv, TypeInv
    <2>2. k \in Nat /\ k <= Len(m_logs[p])
        <3>1. CASE p = L
            BY <2>1, <3>1 DEF LeaderInv, LogsInv, IndexesKnow
        <3>2. CASE p # L
            BY <2>1, <3>2 DEF LeaderInv, LogsInv, IndexesKnow
        <3>3. QED
            BY <3>1, <3>2
    <2> HIDE DEF k
    <2>3. k <= Len(m_logs[L])
        BY <2>1, <2>2
    <2>4. Prefix(m_logs[p], k) = Prefix(m_logs[L], k)
        BY <2>1, <2>2, <2>3, LogsAgree
    <2>5. QED
        BY <2>2, <2>3, <2>4 DEF k
<1>2. QED
    BY <1>1, LeaderInvariance, PTL

(* While one node leads, what any node takes for committed is in the files *)
(* of a majority (logEntriesAppend.cpp:184, :231-254).                     *)
THEOREM CommittedSurvives ==
    ASSUME NEW L, OneCandidate(L) PROVE Spec => []CommittedOnDisk
<1>1. LeaderInv(L) => CommittedOnDisk
    <2> SUFFICES ASSUME LeaderInv(L), NEW n \in Peer
                 PROVE  LET k == m_commitIndex[n]
                            holders ==
                              {p \in Peer : IsPrefix(Prefix(m_logs[n], k),
                                                     file[p].logs)}
                        IN /\ k <= Len(m_logs[n])
                           /\ k > 0 => Majority(Cardinality(holders))
        BY DEF CommittedOnDisk
    <2> DEFINE k == m_commitIndex[n]
               top == m_commitIndex[L]
               holders == {p \in Peer : IsPrefix(Prefix(m_logs[n], k),
                                                 file[p].logs)}
    <2>1. /\ L \in Peer /\ k \in Nat /\ top \in Nat
          /\ \A p \in Peer : Len(m_logs[p]) \in Nat
        BY CallFields DEF OneCandidate, LeaderInv, TypeInv
    <2>2. /\ k <= Len(m_logs[n]) /\ k <= top
          /\ top > 0 => Majority(Cardinality(Have(L, top)))
        BY DEF LeaderInv, LogsInv, CommitsHeld
    <2>3. ASSUME NEW p \in Have(L, top) PROVE p \in holders
        <3>1. p \in Peer /\ file[p].logs = m_logs[p] /\ Len(m_logs[p]) >= top
            BY DEF Have, LeaderInv, LogsInv, LogsBegin
        <3>2. k <= Len(m_logs[p])
            BY <2>1, <2>2, <3>1
        <3> DEFINE front == SubSeq(m_logs[n], 1, k)
        <3>3. front = SubSeq(m_logs[p], 1, k)
            BY <2>1, <2>2, <3>1, <3>2, LogsAgree
        <3>4. /\ Prefix(m_logs[n], k) = front /\ front \in Seq(Entry)
              /\ Len(front) = k
            BY <2>1, <2>2, AllBegin, FrontOf
        <3> HIDE DEF front
        <3>5. SubSeq(front, 1, k) = front
            BY <3>4, SubSeqFull
        <3>6. IsPrefix(front, m_logs[p])
            BY <3>2, <3>3, <3>4, <3>5 DEF IsPrefix
        <3>7. QED
            BY <3>1, <3>4, <3>6
    <2>4. k > 0 => Majority(Cardinality(holders))
        <3>1. k > 0 => Majority(Cardinality(Have(L, top)))
            BY <2>1, <2>2
        <3>2. Have(L, top) \subseteq holders /\ holders \subseteq Peer
            BY <2>3
        <3> HIDE DEF holders
        <3>3. QED
            BY <3>1, <3>2, MoreHold
    <2>5. QED
        BY <2>2, <2>4
<1>2. QED
    BY <1>1, LeaderInvariance, PTL
-----------------------------------------------------------------------------
(* The cluster implements ReplicatedLog.                                   *)

(* The largest of a set that has one.                                      *)
LEMMA MaxIs ==
    ASSUME NEW S \in SUBSET Int, NEW x \in S, \A y \in S : y <= x
    PROVE  Max(S) = x
<1>1. \A y \in S : x >= y
    OBVIOUS
<1>2. \A z \in S : (\A y \in S : z >= y) => z = x
    OBVIOUS
<1>3. QED
    BY <1>1, <1>2, Zenon DEF Max

(* The abstract log, what is committed and what is applied are those of L. *)
MapsToLog(L) ==
    /\ LongestLog = m_logs[L]
    /\ Max({m_commitIndex[n] : n \in Peer}) = m_commitIndex[L]
    /\ [n \in Peer |-> Prefix(m_logs[n], m_lastApplied[n])]
          = [n \in Peer |-> SubSeq(m_logs[L], 1, m_lastApplied[n])]
    /\ m_logs[L] \in Seq(Entry)
    /\ m_commitIndex[L] \in Nat /\ m_commitIndex[L] <= Len(m_logs[L])
    /\ \A n \in Peer : /\ m_lastApplied[n] \in Nat
                       /\ m_lastApplied[n] <= m_commitIndex[n]
                       /\ m_commitIndex[n] \in Nat
                       /\ m_commitIndex[n] <= m_commitIndex[L]

(* While L leads they are: no other log is longer or committed further.    *)
LEMMA LeaderMaps ==
    ASSUME NEW L \in Peer, LeaderInv(L) PROVE MapsToLog(L)
<1>1. \A n \in Peer : /\ m_commitIndex[n] \in Nat /\ m_lastApplied[n] \in Nat
                      /\ m_commitIndex[n] <= m_commitIndex[L]
                      /\ m_commitIndex[n] <= Len(m_logs[n])
                      /\ m_lastApplied[n] <= m_commitIndex[n]
    BY CallFields DEF LeaderInv, TypeInv, LogsInv, CommitsHeld
<1>2. \A n \in Peer :
         /\ m_logs[n] \in Seq(Entry) /\ Len(m_logs[n]) \in Nat
         /\ Len(m_logs[n]) <= Len(m_logs[L])
         /\ \A i \in 1..Len(m_logs[n]) : m_logs[n][i] = m_logs[L][i]
    BY AllBegin
<1>3. LongestLog = m_logs[L]
    <2> DEFINE Longest(n) == \A p \in Peer : Len(m_logs[p]) <= Len(m_logs[n])
               longest == CHOOSE n \in Peer : Longest(n)
    <2>1. longest \in Peer /\ Longest(longest)
        BY <1>2
    <2>2. Len(m_logs[longest]) = Len(m_logs[L])
        BY <1>2, <2>1
    <2> HIDE DEF longest
    <2>3. m_logs[longest] = m_logs[L]
        BY <1>2, <2>1, <2>2, SeqEqual
    <2>4. QED
        BY <2>3 DEF LongestLog, longest
<1>4. Max({m_commitIndex[n] : n \in Peer}) = m_commitIndex[L]
    <2> DEFINE S == {m_commitIndex[n] : n \in Peer}
    <2>1. /\ S \subseteq Int /\ m_commitIndex[L] \in S
          /\ \A y \in S : y <= m_commitIndex[L]
        BY <1>1
    <2> HIDE DEF S
    <2>2. Max(S) = m_commitIndex[L]
        BY <2>1, MaxIs
    <2>3. QED
        BY <2>2 DEF S
<1>5. ASSUME NEW n \in Peer
      PROVE  Prefix(m_logs[n], m_lastApplied[n])
                = SubSeq(m_logs[L], 1, m_lastApplied[n])
    <2> DEFINE k == m_lastApplied[n]
    <2>1. k \in Nat /\ k <= Len(m_logs[n]) /\ k <= Len(m_logs[L])
        BY <1>1, <1>2
    <2>2. Prefix(m_logs[n], k) = Prefix(m_logs[L], k)
        BY <2>1, LogsAgree
    <2>3. Prefix(m_logs[L], k) = SubSeq(m_logs[L], 1, k)
        BY <1>2, <2>1, FrontOf
    <2>4. QED
        BY <2>2, <2>3
<1>6. QED
    BY <1>1, <1>2, <1>3, <1>4, <1>5 DEF MapsToLog

(* The steps that change what is abstracted.                               *)
LEMMA AbstractSteps ==
    ASSUME NEW L, OneCandidate(L), LeaderInv(L), [Next]_vars
    PROVE  \/ /\ UNCHANGED m_lastApplied
              /\ m_logs'[L] = m_logs[L] /\ m_commitIndex'[L] = m_commitIndex[L]
           \/ start(L)
           \/ /\ UNCHANGED <<m_logs, m_lastApplied>>
              /\ m_commitIndex[L] <= m_commitIndex'[L]
           \/ \E n \in Peer : ApplyLog(n)
<1> DEFINE Quiet == /\ UNCHANGED m_lastApplied
                    /\ m_logs'[L] = m_logs[L]
                    /\ m_commitIndex'[L] = m_commitIndex[L]
           Grows == /\ UNCHANGED <<m_logs, m_lastApplied>>
                    /\ m_commitIndex[L] <= m_commitIndex'[L]
<1>1. L \in Peer /\ TypeOK /\ RolesInv(L)
    BY DEF OneCandidate, LeaderInv, TypeInv
<1>2. ASSUME UNCHANGED <<m_logs, commitVars>> PROVE Quiet
    BY <1>2
<1>3. ASSUME NEW n \in Peer, ElectionStep(n) \/ VoteServerStep(n)
      PROVE  Quiet
    BY <1>2, <1>3
    DEF ElectionStep, VoteServerStep, StartElection, LoseElection,
        LeaveDeposed, FinishElection, SendVoteRequest, RejectVote, RefuseVote,
        ConsiderVote, checkLogUptodate, GrantVote
<1>4. ASSUME NEW r \in DOMAIN voteReplies, HandleVoteReply(r) PROVE Quiet
    <2>1. r.to = L /\ r.term <= m_curTerm[L]
        BY <1>1 DEF RolesInv, VoteCallsOf
    <2>2. ~(r.term > m_curTerm[r.to])
        BY <1>1, <2>1, CallFields
    <2>3. UNCHANGED <<m_logs, commitVars>>
        BY <1>4, <2>2 DEF HandleVoteReply
    <2>4. QED
        BY <1>2, <2>3
<1>5. ASSUME NEW m \in DOMAIN appendReqs, HandleAppend(m) PROVE Quiet
    <2>1. AcceptEntries(m) /\ m.to \in Peer \ {L}
        BY <1>1, <1>5, RequestsAccepted
    <2>2. QED
        BY <1>1, <2>1 DEF AcceptEntries, TypeOK, LogTypes, IndexTypes
<1>6. ASSUME NEW r \in DOMAIN appendReplies, HandleAppendReply(r)
      PROVE  Grows
    <2>1. HandleSuccess(r) /\ r.to = L /\ r.from \in Peer \ {L}
        BY <1>1, <1>6, RepliesSucceed
    <2>2. /\ UNCHANGED <<m_logs, m_lastApplied>>
          /\ \/ m_commitIndex'[L] = m_commitIndex[L]
             \/ /\ m_commitIndex'[L] \in MiddleMatch(m_matchIndex'[L])
                /\ m_commitIndex'[L] > m_commitIndex[L]
          /\ m_matchIndex'[L] \in [Peer -> Int]
        BY <2>1, SuccessSteps
    <2>3. m_commitIndex[L] \in Nat
        BY <1>1, CallFields
    <2>4. QED
        BY <2>2, <2>3 DEF MiddleMatch
<1>7. ASSUME NEW n \in Peer, AppendStep(n)
      PROVE  Quiet \/ start(L) \/ Grows \/ ApplyLog(n)
    <2>1. CASE start(n)
        BY <2>1, LeaderIs DEF start
    <2>2. CASE Broadcast(n) \/ SendEntries(n)
        BY <1>2, <2>2 DEF Broadcast, SendEntries
    <2>3. QED
        BY <1>5, <1>6, <1>7, <2>1, <2>2 DEF AppendStep
<1>8. ASSUME ProcessStep PROVE Quiet
    <2>1. ASSUME NEW n, NEW loop, SeeLeader(n) \/ kill \/ ExitLoop(n, loop)
          PROVE  Quiet
        BY <1>2, <2>1 DEF SeeLeader, kill, ExitLoop
    <2>2. QED
        BY <1>8, <2>1, NoRestart DEF LeaderInv
<1>9. ASSUME UNCHANGED vars PROVE Quiet
    BY <1>2, <1>9
<1> HIDE DEF Quiet, Grows
<1>10. Quiet \/ start(L) \/ Grows \/ \E n \in Peer : ApplyLog(n)
    BY <1>3, <1>4, <1>7, <1>8, <1>9 DEF Next
<1>11. QED
    BY <1>10 DEF Quiet, Grows

(* Every step of the cluster is one of the abstract log, or a stutter.     *)
LEMMA StepsMap ==
    ASSUME NEW L, OneCandidate(L), LeaderInv(L), MapsToLog(L), MapsToLog(L)',
           [Next]_vars
    PROVE  [Abstract!Next]_Abstract!logVars
<1> DEFINE log == m_logs[L]
           top == m_commitIndex[L]
           applied == [n \in Peer |-> SubSeq(m_logs[L], 1, m_lastApplied[n])]
<1>1. L \in Peer /\ TypeOK
    BY DEF OneCandidate, LeaderInv, TypeInv
<1>2. /\ LongestLog = log
      /\ Max({m_commitIndex[n] : n \in Peer}) = top
      /\ [n \in Peer |-> Prefix(m_logs[n], m_lastApplied[n])] = applied
      /\ log \in Seq(Entry) /\ top \in Nat /\ top <= Len(log)
      /\ \A n \in Peer : /\ m_lastApplied[n] \in Nat
                         /\ m_lastApplied[n] <= m_commitIndex[n]
                         /\ m_commitIndex[n] \in Nat
                         /\ m_commitIndex[n] <= top
    BY DEF MapsToLog
<1>3. /\ LongestLog' = log'
      /\ Max({m_commitIndex[n] : n \in Peer})' = top'
      /\ [n \in Peer |-> Prefix(m_logs[n], m_lastApplied[n])]' = applied'
      /\ log' \in Seq(Entry) /\ top' \in Nat /\ top' <= Len(log')
    BY DEF MapsToLog
<1>4. Len(log) \in Nat
    BY <1>2, LenProperties
<1>5. CASE /\ UNCHANGED m_lastApplied
           /\ m_logs'[L] = m_logs[L] /\ m_commitIndex'[L] = m_commitIndex[L]
    <2>1. log' = log /\ top' = top /\ applied' = applied
        BY <1>5
    <2>2. QED
        BY <1>2, <1>3, <2>1 DEF Abstract!logVars
<1>6. CASE start(L)
    <2> DEFINE e == [term |-> m_curTerm[L], key |-> key]
    <2>1. /\ log' = Append(log, e)
          /\ UNCHANGED <<m_commitIndex, m_lastApplied>>
        BY <1>1, <1>6 DEF start, TypeOK, LogTypes
    <2>2. e \in Entry
        BY <1>1 DEF TypeOK, TermTypes, ProcessTypes, Entry
    <2> HIDE DEF e
    <2>3. /\ Len(log') = Len(log) + 1
          /\ \A i \in 1..Len(log) : log'[i] = log[i]
        BY <1>2, <2>1, <2>2, AppendProperties
    <2>4. ASSUME NEW k \in Nat, k <= Len(log)
          PROVE  SubSeq(log', 1, k) = SubSeq(log, 1, k)
        <3>1. k <= Len(log') /\ \A i \in 1..k : i \in 1..Len(log)
            BY <1>4, <2>3, <2>4
        <3>2. QED
            BY <1>2, <1>3, <2>3, <2>4, <3>1, SameFront
    <2>5. IsPrefix(log, log')
        <3>1. Len(log) <= Len(log') /\ Len(log) <= Len(log)
            BY <1>4, <2>3
        <3>2. QED
            BY <1>4, <2>4, <3>1 DEF IsPrefix
    <2>6. applied' = applied
        <3>1. \A n \in Peer : m_lastApplied[n] <= Len(log)
            BY <1>2, <1>4
        <3>2. \A n \in Peer : SubSeq(log', 1, m_lastApplied[n])
                                 = SubSeq(log, 1, m_lastApplied[n])
            BY <1>2, <2>4, <3>1
        <3>3. QED
            BY <2>1, <3>2
    <2>7. top' = top
        BY <2>1
    <2>8. Abstract!Take
        BY <1>2, <1>3, <2>3, <2>5, <2>6, <2>7
        DEF Abstract!Take, IsPrefix, Abstract!IsPrefix
    <2>9. QED
        BY <2>8 DEF Abstract!Next
<1>7. CASE /\ UNCHANGED <<m_logs, m_lastApplied>>
           /\ m_commitIndex[L] <= m_commitIndex'[L]
    <2>1. log' = log /\ applied' = applied /\ top <= top'
        BY <1>7
    <2>2. CASE top' = top
        BY <1>2, <1>3, <2>1, <2>2 DEF Abstract!logVars
    <2>3. CASE top < top'
        <3>1. Abstract!Commit
            BY <1>2, <1>3, <2>1, <2>3 DEF Abstract!Commit
        <3>2. QED
            BY <3>1 DEF Abstract!Next
    <2>4. QED
        BY <1>2, <1>3, <2>1, <2>2, <2>3
<1>8. ASSUME NEW n \in Peer, ApplyLog(n)
      PROVE  [Abstract!Next]_Abstract!logVars
    <2> DEFINE k == m_commitIndex[n]
    <2>1. /\ UNCHANGED <<m_logs, m_commitIndex>>
          /\ m_lastApplied[n] # k
          /\ m_lastApplied' = [m_lastApplied EXCEPT ![n] = k]
          /\ m_lastApplied \in [Peer -> Nat]
        BY <1>1, <1>8 DEF ApplyLog, TypeOK, IndexTypes
    <2>2. log' = log /\ top' = top
        BY <2>1
    <2>3. applied' = [applied EXCEPT ![n] = SubSeq(log, 1, k)]
        BY <2>1
    <2>4. Len(applied[n]) = m_lastApplied[n]
        <3>1. m_lastApplied[n] <= Len(log) /\ m_lastApplied[n] \in Nat
            BY <1>2, <1>4
        <3>2. QED
            BY <1>2, <3>1, FrontOf
    <2>5. k \in (Len(applied[n]) + 1)..top
        BY <1>2, <2>1, <2>4
    <2> HIDE DEF applied, log, top, k
    <2>6. Abstract!Apply(n)
        BY <1>2, <1>3, <2>2, <2>3, <2>5 DEF Abstract!Apply
    <2>7. QED
        BY <2>6 DEF Abstract!Next
<1>9. QED
    BY <1>5, <1>6, <1>7, <1>8, AbstractSteps

(* While one node leads, the cluster implements ReplicatedLog: there is    *)
(* one log, it and what is committed of it only grow, and what a node has  *)
(* applied is always the start of what is committed.                       *)
THEOREM Implementation ==
    ASSUME NEW L, OneCandidate(L) PROVE Spec => ImplementsReplicatedLog
<1>1. Init => Abstract!Init
    <2> SUFFICES ASSUME Init PROVE Abstract!Init
        OBVIOUS
    <2>1. LeaderInv(L) /\ L \in Peer
        <3>1. RolesInv(L) /\ LogsInv(L)
            BY InitLeads
        <3>2. TypeInv /\ ThreadsPlaced
            BY InitTypes, NoThreadsPlaced DEF Init
        <3>3. RoundInv
            BY EmptyBagDomain, NumPeersPositive
            DEF Init, AtEveryPeer, RoundInv, OneRound, OneRequest, OneReply,
                RequestOrReply, RoundGoesOn
        <3>4. QED
            BY <3>1, <3>2, <3>3 DEF LeaderInv, OneCandidate
    <2>2. /\ m_logs[L] = <<>> /\ m_commitIndex[L] = 0
          /\ \A n \in Peer : m_lastApplied[n] = 0
        BY <2>1 DEF Init, AtEveryPeer
    <2>3. SubSeq(<<>>, 1, 0) = <<>>
        BY SubSeqEmpty
    <2>4. QED
        BY <2>1, <2>2, <2>3, LeaderMaps DEF MapsToLog, Abstract!Init
<1>2. LeaderInv(L) => MapsToLog(L)
    BY LeaderMaps DEF OneCandidate
<1>3. LeaderInv(L) /\ MapsToLog(L) /\ MapsToLog(L)' /\ [Next]_vars
         => [Abstract!Next]_Abstract!logVars
    BY StepsMap
<1>4. QED
    BY <1>1, <1>2, <1>3, LeaderInvariance, PTL
    DEF Spec, ImplementsReplicatedLog, Abstract!Spec
=============================================================================

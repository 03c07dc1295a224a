---------------------------- MODULE RaftElection ----------------------------
(***************************************************************************)
(* Leader election: leaderElection.cpp, with the parts of raft.cpp and     *)
(* statePersistence.cpp it calls.                                          *)
(***************************************************************************)
EXTENDS RaftState

(* The wait on m_cond in electionLoop goes on while this holds.            *)
AwaitsMajority(n) == ~Majority(recvVotes[n])    \* variant: no second test
AwaitingVotes(n) == ~Majority(recvVotes[n]) /\ finishedVote[n] # NumPeers

(* electionLoop tests dead only between two elections.                     *)
LoopsAfter(n, loop) == IF dead[n] THEN loops[n] \ {loop} ELSE loops[n]

(* The timer of a follower or candidate fires: it votes for itself, saves  *)
(* and spawns one callRequestVote thread per other node, then waits.       *)
StartElection(n) ==
    /\ "election" \in loops[n] /\ electionPc[n] \in {"polling", "deposed"}
    /\ n \in Timers
    /\ m_state[n] \in {"FOLLOWER", "CANDIDATE"}
    /\ m_curTerm[n] < MaxTerm
    /\ MaySpawn(n)
    /\ m_state' = [m_state EXCEPT ![n] = "CANDIDATE"]
    /\ m_curTerm' = [m_curTerm EXCEPT ![n] = @ + 1]
    /\ m_votedFor' = [m_votedFor EXCEPT ![n] = n]
    /\ saveRaftState(n, m_curTerm[n] + 1, n, m_logs[n])
    /\ recvVotes' = [recvVotes EXCEPT ![n] = 1]
    /\ finishedVote' = [finishedVote EXCEPT ![n] = 1]
    /\ cur_peerId' = [cur_peerId EXCEPT ![n] = 0]
    /\ voteSpawned' = [voteSpawned EXCEPT ![n] = @ + (NumPeers - 1)]
    /\ voteThreads' = [voteThreads EXCEPT ![n] = @ + (NumPeers - 1)]
    /\ electionPc' = [electionPc EXCEPT ![n] = "waiting"]
    /\ UNCHANGED <<m_logs, leaderVars, commitVars, voteReqs, voteSrv,
                   voteReplies, appendNet, processVars>>

(* The wait ends at a node that is no longer a candidate: `continue' with  *)
(* resetFlag still set.                                                    *)
LoseElection(n) ==
    /\ electionPc[n] = "waiting" /\ ~AwaitingVotes(n)
    /\ m_state[n] # "CANDIDATE"
    /\ electionPc' = [electionPc EXCEPT ![n] = "deposed"]
    /\ UNCHANGED <<termVars, m_logs, leaderVars, commitVars, recvVotes,
                   finishedVote, cur_peerId, file, voteNet, appendNet,
                   processVars>>

(* The next pass of the inner loop finds the timer still running and       *)
(* resetFlag set, and leaves for the outer test of dead.                   *)
LeaveDeposed(n) ==
    /\ electionPc[n] = "deposed"
    /\ electionPc' = [electionPc EXCEPT ![n] = "polling"]
    /\ loops' = [loops EXCEPT ![n] = LoopsAfter(n, "election")]
    /\ UNCHANGED <<termVars, m_logs, leaderVars, commitVars, recvVotes,
                   finishedVote, cur_peerId, file, voteNet, appendNet, dead,
                   mainVars>>

(* The wait ends at a candidate: with a majority it becomes leader and its *)
(* broadcast is due at once; without, it stays a candidate.                *)
FinishElection(n) ==
    /\ electionPc[n] = "waiting" /\ ~AwaitingVotes(n)
    /\ m_state[n] = "CANDIDATE"
    /\ IF Majority(recvVotes[n])
       THEN /\ m_state' = [m_state EXCEPT ![n] = "LEADER"]
            /\ m_nextIndex' = [m_nextIndex EXCEPT
                                 ![n] = AtEveryPeer(Len(m_logs[n]) + 1)]
            /\ m_matchIndex' = [m_matchIndex EXCEPT ![n] = AtEveryPeer(0)]
       ELSE UNCHANGED <<m_state, leaderVars>>
    /\ electionPc' = [electionPc EXCEPT ![n] = "polling"]
    /\ loops' = [loops EXCEPT ![n] = LoopsAfter(n, "election")]
    /\ UNCHANGED <<m_curTerm, m_votedFor, m_logs, commitVars, recvVotes,
                   finishedVote, cur_peerId, file, voteNet, appendNet, dead,
                   mainVars>>

(* callRequestVote, first critical section: the request carries the term   *)
(* and log of now, whatever election the thread was spawned for.           *)
SendVoteRequest(n) ==
    /\ voteSpawned[n] > 0
    /\ voteReqs' = BagAdd(voteReqs,
                     [from |-> n, to |-> Callee(n), term |-> m_curTerm[n],
                      lastLogTerm |-> LastTerm(m_logs[n]),
                      lastLogIndex |-> Len(m_logs[n])])
    /\ AdvanceCursor(n)
    /\ voteSpawned' = [voteSpawned EXCEPT ![n] = @ - 1]
    /\ UNCHANGED <<termVars, m_logs, leaderVars, commitVars, ballotVars, file,
                   voteThreads, voteSrv, voteReplies, appendNet, processVars>>
-----------------------------------------------------------------------------
VoteReply(m, term, granted) ==
    [to |-> m.from, term |-> term, granted |-> granted]

(* requestVote, a request of a past term: answered at once.  The reply of  *)
(* requestVote always carries the term the node had on entry.              *)
RejectVote(m) ==
    LET n == m.to IN
    /\ voteSrv[n] = Idle
    /\ m.term < m_curTerm[n]
    /\ voteReqs' = BagRemove(voteReqs, m)
    /\ voteReplies' = BagAdd(voteReplies, VoteReply(m, m_curTerm[n], FALSE))
    /\ UNCHANGED <<termVars, m_logs, leaderVars, commitVars, ballotVars,
                   cur_peerId, file, voteSpawned, voteThreads, voteSrv,
                   appendNet, processVars>>

(* requestVote at a node that has voted for another in this term.          *)
RefuseVote(m) ==
    LET n == m.to IN
    /\ voteSrv[n] = Idle
    /\ m.term = m_curTerm[n] /\ m_votedFor[n] \notin {None, m.from}
    /\ voteReqs' = BagRemove(voteReqs, m)
    /\ voteReplies' = BagAdd(voteReplies, VoteReply(m, m_curTerm[n], FALSE))
    /\ saveRaftState(n, m_curTerm[n], m_votedFor[n], m_logs[n])
    /\ UNCHANGED <<termVars, m_logs, leaderVars, commitVars, ballotVars,
                   cur_peerId, voteSpawned, voteThreads, voteSrv,
                   appendNet, processVars>>

(* requestVote at a node free to vote, up to the unlock before the logs    *)
(* are compared.  Nothing is saved yet.                                    *)
ConsiderVote(m) ==
    LET n == m.to
        newer == m.term > m_curTerm[n]
    IN /\ voteSrv[n] = Idle
       /\ \/ newer
          \/ m.term = m_curTerm[n] /\ m_votedFor[n] \in {None, m.from}
       /\ voteReqs' = BagRemove(voteReqs, m)
       /\ voteSrv' = [voteSrv EXCEPT ![n] =
                         [step |-> "compare", req |-> m, term |-> m_curTerm[n]]]
       /\ IF newer
          THEN /\ m_state' = [m_state EXCEPT ![n] = "FOLLOWER"]
               /\ m_curTerm' = [m_curTerm EXCEPT ![n] = m.term]
               /\ m_votedFor' = [m_votedFor EXCEPT ![n] = None]
          ELSE UNCHANGED termVars
       /\ UNCHANGED <<m_logs, leaderVars, commitVars, ballotVars, cur_peerId,
                      file, voteSpawned, voteThreads, voteReplies, appendNet,
                      processVars>>

LogUptodate(m, log) ==
    \/ log = <<>>
    \/ m.lastLogTerm > LastTerm(log)
    \/ m.lastLogTerm = LastTerm(log) /\ m.lastLogIndex >= Len(log)

(* checkLogUptodate, a critical section of its own: a candidate whose log  *)
(* is behind is answered with nothing saved.                               *)
checkLogUptodate(n) ==
    /\ voteSrv[n].step = "compare"
    /\ LET m == voteSrv[n].req IN
       IF LogUptodate(m, m_logs[n])
       THEN /\ voteSrv' = [voteSrv EXCEPT ![n].step = "grant"]
            /\ UNCHANGED voteReplies
       ELSE /\ voteSrv' = [voteSrv EXCEPT ![n] = Idle]
            /\ voteReplies' =
                 BagAdd(voteReplies, VoteReply(m, voteSrv[n].term, FALSE))
    /\ UNCHANGED <<termVars, m_logs, leaderVars, commitVars, ballotVars,
                   cur_peerId, file, voteSpawned, voteThreads, voteReqs,
                   appendNet, processVars>>

(* requestVote after the comparison: the vote is cast and saved whatever   *)
(* the node's term and vote have become meanwhile.                         *)
GrantVote(n) ==
    /\ voteSrv[n].step = "grant"
    /\ LET m == voteSrv[n].req IN
       /\ m_votedFor' = [m_votedFor EXCEPT ![n] = m.from]
       /\ saveRaftState(n, m_curTerm[n], m.from, m_logs[n])
       /\ voteReplies' =
            BagAdd(voteReplies, VoteReply(m, voteSrv[n].term, TRUE))
    /\ voteSrv' = [voteSrv EXCEPT ![n] = Idle]
    /\ UNCHANGED <<m_state, m_curTerm, m_logs, leaderVars, commitVars,
                   ballotVars, cur_peerId, voteSpawned, voteThreads, voteReqs,
                   appendNet, processVars>>
-----------------------------------------------------------------------------
FinishedUnlessLater(r) ==                       \* variant: counted too late
    IF r.term > m_curTerm[r.to] THEN finishedVote[r.to]
    ELSE finishedVote[r.to] + 1
FinishedAfter(r) == finishedVote[r.to] + 1

(* callRequestVote after its call.  A reply of a later term makes the node *)
(* a follower of that term and then reads the file back: the term and vote *)
(* on disk replace the new ones, and the entries on disk are appended to   *)
(* the log.  A granted vote is counted whatever election it was asked for. *)
HandleVoteReply(r) ==
    LET n == r.to IN
    /\ voteReplies' = BagRemove(voteReplies, r)
    /\ voteThreads' = [voteThreads EXCEPT ![n] = @ - 1]
    /\ finishedVote' = [finishedVote EXCEPT ![n] = FinishedAfter(r)]
    /\ IF r.term > m_curTerm[n]
       THEN /\ Len(m_logs[n]) + Len(file[n].logs) <= MaxLog
            /\ m_state' = [m_state EXCEPT ![n] = "FOLLOWER"]
            /\ m_curTerm' = [m_curTerm EXCEPT ![n] = file[n].term]
            /\ m_votedFor' = [m_votedFor EXCEPT ![n] = file[n].votedFor]
            /\ m_logs' = [m_logs EXCEPT ![n] = @ \o file[n].logs]
            /\ UNCHANGED recvVotes
       ELSE /\ recvVotes' =
                 [recvVotes EXCEPT ![n] = IF r.granted THEN @ + 1 ELSE @]
            /\ UNCHANGED <<termVars, m_logs>>
    /\ UNCHANGED <<leaderVars, commitVars, electionPc, cur_peerId, file,
                   voteSpawned, voteReqs, voteSrv, appendNet, processVars>>
=============================================================================

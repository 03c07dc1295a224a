-------------------------------- MODULE Raft --------------------------------
(***************************************************************************)
(* The Raft cluster of RAFT/src as main.cpp runs it: the nodes' elections  *)
(* and log replication, main() killing a leader, and the process crashing  *)
(* and being started again on the files it left.                           *)
(***************************************************************************)
EXTENDS RaftElection, RaftReplication

(* main() looks at a node's state, without its lock, and finds a leader.   *)
SeeLeader(n) ==
    /\ n \in Victims
    /\ mainPc = "starting"
    /\ m_state[n] = "LEADER"
    /\ mainPc' = "killing"
    /\ victim' = n
    /\ UNCHANGED <<termVars, m_logs, leaderVars, commitVars, ballotVars,
                   cur_peerId, file, voteNet, appendNet, dead, loops, key,
                   restarts>>

(* kill() on the node seen, whatever it has become since.                  *)
kill ==
    /\ mainPc = "killing"
    /\ dead' = [dead EXCEPT ![victim] = TRUE]
    /\ mainPc' = "done"
    /\ UNCHANGED <<termVars, m_logs, leaderVars, commitVars, ballotVars,
                   cur_peerId, file, voteNet, appendNet, loops, key,
                   victim, restarts>>

(* A loop of a killed node comes to its test of dead and ends.  The inner  *)
(* loop of electionLoop has no such test.                                  *)
ExitLoop(n, loop) ==
    /\ dead[n] /\ loop \in loops[n]
    /\ loops' = [loops EXCEPT ![n] = @ \ {loop}]
    /\ UNCHANGED <<termVars, m_logs, leaderVars, commitVars, ballotVars,
                   cur_peerId, file, voteNet, appendNet, dead, mainVars>>

(* The process is lost and started again: Make() reads what is on disk.    *)
RestartFrom(disk) ==
    /\ restarts < MaxRestarts
    /\ restarts' = restarts + 1
    /\ file' = disk
    /\ m_state' = AtEveryPeer("FOLLOWER")
    /\ m_curTerm' = [n \in Peer |-> disk[n].term]
    /\ m_votedFor' = [n \in Peer |-> disk[n].votedFor]
    /\ m_logs' = [n \in Peer |-> disk[n].logs]
    /\ m_nextIndex' = AtEveryPeer(AtEveryPeer(1))
    /\ m_matchIndex' = AtEveryPeer(AtEveryPeer(0))
    /\ m_commitIndex' = AtEveryPeer(0)
    /\ m_lastApplied' = AtEveryPeer(0)
    /\ recvVotes' = AtEveryPeer(0)
    /\ finishedVote' = AtEveryPeer(0)
    /\ cur_peerId' = AtEveryPeer(0)
    /\ dead' = AtEveryPeer(FALSE)
    /\ loops' = AtEveryPeer(Loops)
    /\ electionPc' = AtEveryPeer("polling")
    /\ voteSpawned' = AtEveryPeer(0)
    /\ voteThreads' = AtEveryPeer(0)
    /\ voteSrv' = AtEveryPeer(Idle)
    /\ sendSpawned' = AtEveryPeer(0)
    /\ sendThreads' = AtEveryPeer(0)
    /\ voteReqs' = EmptyBag
    /\ voteReplies' = EmptyBag
    /\ appendReqs' = EmptyBag
    /\ appendReplies' = EmptyBag
    /\ mainPc' = "starting"
    /\ key' = 0
    /\ victim' = None

(* The process is lost between two critical sections.                      *)
Restart == RestartFrom(file)

(* The process is lost between the two saves of an appendEntries.          *)
RestartBetweenSaves(m) ==
    /\ m.term > m_curTerm[m.to]
    /\ RestartFrom(FirstSave(m))
-----------------------------------------------------------------------------
ElectionStep(n) ==
    \/ StartElection(n) \/ LoseElection(n) \/ LeaveDeposed(n)
    \/ FinishElection(n) \/ SendVoteRequest(n)

VoteServerStep(n) ==
    \/ \E m \in DOMAIN voteReqs :
         m.to = n /\ (RejectVote(m) \/ RefuseVote(m) \/ ConsiderVote(m))
    \/ checkLogUptodate(n)
    \/ GrantVote(n)

HandleAppend(m) ==
    \/ RejectEntries(m) \/ ReportShortLog(m) \/ ReportConflict(m)
    \/ AcceptEntries(m)

HandleAppendReply(r) == StepDown(r) \/ HandleSuccess(r) \/ HandleFailure(r)

AppendStep(n) ==
    \/ start(n) \/ Broadcast(n) \/ SendEntries(n) \/ ApplyLog(n)
    \/ \E m \in DOMAIN appendReqs : m.to = n /\ HandleAppend(m)
    \/ \E r \in DOMAIN appendReplies : r.to = n /\ HandleAppendReply(r)

ProcessStep ==
    \/ \E n \in Peer : SeeLeader(n)
    \/ kill
    \/ \E n \in Peer, loop \in {"entries", "apply"} : ExitLoop(n, loop)
    \/ Restart
    \/ \E m \in DOMAIN appendReqs : RestartBetweenSaves(m)

Next ==
    \/ \E n \in Peer : ElectionStep(n) \/ VoteServerStep(n) \/ AppendStep(n)
    \/ \E r \in DOMAIN voteReplies : HandleVoteReply(r)
    \/ ProcessStep

Spec == Init /\ [][Next]_vars

(* Every thread is scheduled: threads wait for m_lock and for their calls  *)
(* only, a server answers every call it has taken, and the clock runs the  *)
(* timers down.  An election timer is sure to fire only where no leader    *)
(* keeps setting it back.  Nothing makes a client call start(), and the    *)
(* restart and the kill are nobody's duty.  Only nodes of Timers and of      *)
(* Senders have threads that call.                                         *)
Leaderless == \A n \in Peer : m_state[n] # "LEADER"

Fairness ==
    /\ \A n \in Timers :
         /\ WF_vars(Leaderless /\ StartElection(n))
         /\ WF_vars(LoseElection(n) \/ FinishElection(n) \/ LeaveDeposed(n))
         /\ WF_vars(SendVoteRequest(n))
         /\ WF_vars(\E r \in DOMAIN voteReplies :
                      r.to = n /\ HandleVoteReply(r))
    /\ \A n \in Senders :
         /\ WF_vars(Broadcast(n))
         /\ WF_vars(SendEntries(n))
         /\ WF_vars(\E r \in DOMAIN appendReplies :
                      r.to = n /\ HandleAppendReply(r))
    /\ \A n \in Peer :
         /\ WF_vars(VoteServerStep(n))
         /\ WF_vars(\E m \in DOMAIN appendReqs : m.to = n /\ HandleAppend(m))
         /\ WF_vars(ApplyLog(n))

FairSpec == Spec /\ Fairness
=============================================================================

--------------------------- MODULE RaftProperties ---------------------------
(***************************************************************************)
(* What is checked of the cluster.  Where calls are timely (MaxThreads is  *)
(* NumPeers - 1) a node makes no call while it has others under way.       *)
(***************************************************************************)
EXTENDS Raft, SequencesExt

TermTypes ==
    /\ m_state \in [Peer -> {"FOLLOWER", "CANDIDATE", "LEADER"}]
    /\ m_curTerm \in [Peer -> Nat]
    /\ m_votedFor \in [Peer -> Peer \cup {None}]

LogTypes ==
    /\ m_logs \in [Peer -> Seq(Entry)]
    /\ file \in [Peer -> Saved]

IndexTypes ==
    /\ m_nextIndex \in [Peer -> [Peer -> Int]]
    /\ m_matchIndex \in [Peer -> [Peer -> Int]]
    /\ m_commitIndex \in [Peer -> Nat]
    /\ m_lastApplied \in [Peer -> Nat]

BallotTypes ==
    /\ recvVotes \in [Peer -> Nat]
    /\ finishedVote \in [Peer -> Nat]
    /\ electionPc \in [Peer -> {"polling", "waiting", "deposed"}]

ThreadTypes ==
    /\ cur_peerId \in [Peer -> Peer]
    /\ voteSpawned \in [Peer -> Nat]
    /\ voteThreads \in [Peer -> Int]
    /\ sendSpawned \in [Peer -> Nat]
    /\ sendThreads \in [Peer -> Int]

CallTypes ==
    /\ voteSrv \in [Peer -> VoteCall \cup {Idle}]
    /\ DOMAIN voteReqs \subseteq VoteArgs
    /\ DOMAIN voteReplies \subseteq VoteAnswer
    /\ DOMAIN appendReqs \subseteq AppendArgs
    /\ DOMAIN appendReplies \subseteq AppendAnswer

ProcessTypes ==
    /\ dead \in [Peer -> BOOLEAN]
    /\ loops \in [Peer -> SUBSET Loops]
    /\ mainPc \in {"starting", "killing", "done"}
    /\ key \in Nat
    /\ victim \in Peer \cup {None}
    /\ restarts \in Nat

(* The members hold values of their types and the RPCs in flight are well  *)
(* formed.  The thread counts are shown to be natural in VotesAccounted.   *)
TypeOK ==
    /\ TermTypes /\ LogTypes /\ IndexTypes /\ BallotTypes
    /\ ThreadTypes /\ CallTypes /\ ProcessTypes
-----------------------------------------------------------------------------
(* What holds however late calls return and whenever the process crashes.  *)

(* No entry of the log is of a later term.                                 *)
EntriesUpTo(log, term) == \A i \in DOMAIN log : log[i].term <= term

(* What a node holds, against what it has on disk.                         *)
Covered(state, term, log, saved) ==
    /\ saved.term <= term
    /\ state # "FOLLOWER" => saved.term = term
    /\ EntriesUpTo(log, saved.term)
    /\ EntriesUpTo(saved.logs, saved.term)

(* Disk never names a later term than memory, a candidate or leader has    *)
(* its term on disk, and no entry in memory, on disk or on its way is of a *)
(* later term than the disk of its node, or than the call it travels in:   *)
(* however it crashes, a node comes back in a term no older than its log.  *)
(* Rests on every place where a term changes or an entry is added and on   *)
(* which of them save (leaderElection.cpp:37, :158, :173;                  *)
(* logEntriesAppend.cpp:109, :156, :184, :254).                            *)
TermCoversLog ==
    /\ \A n \in Peer : Covered(m_state[n], m_curTerm[n], m_logs[n], file[n])
    /\ \A m \in DOMAIN appendReqs : EntriesUpTo(m.entries, m.term)

(* When a node's term goes back, at a restart or when a vote reply makes   *)
(* it read its file (leaderElection.cpp:130), it is to the term on its     *)
(* disk and no further.  That it goes back at all in a running node is not *)
(* what the code says of itself: see LaterReplyAdopted.                    *)
FallsToDisk(n) ==
    m_curTerm'[n] < m_curTerm[n] =>
        m_curTerm'[n] = file[n].term /\ m_state'[n] = "FOLLOWER"
TermFallsToDisk == [][\A n \in Peer : FallsToDisk(n)]_vars

(* A leader only appends to its log: whatever rewrites the log of a node   *)
(* (appendEntries, readRaftState) finds it a follower or makes it one.     *)
AppendsOnly(n) ==
    m_state[n] = "LEADER" /\ m_state'[n] = "LEADER" =>
        IsPrefix(m_logs[n], m_logs'[n])
LeaderAppendOnly == [][\A n \in Peer : AppendsOnly(n)]_vars

(* No more votes are counted than calls have finished, those of earlier    *)
(* elections and their votes among both (leaderElection.cpp:121, :137); no *)
(* more threads have yet to send than have yet to return; and while        *)
(* electionLoop waits, the calls finished and the threads left come to at  *)
(* least the size of the cluster, so that none of this election is missed. *)
VotesAccounted ==
    \A n \in Peer :
        /\ recvVotes[n] <= finishedVote[n]
        /\ voteSpawned[n] <= voteThreads[n] /\ sendSpawned[n] <= sendThreads[n]
        /\ electionPc[n] = "waiting" =>
               finishedVote[n] + voteThreads[n] >= NumPeers

(* The cursor the two kinds of RPC thread share never leads a thread past  *)
(* the end of m_peers or to its own node, however their uses interleave    *)
(* (leaderElection.cpp:102-114, logEntriesAppend.cpp:59-63 and :93-96).    *)
CalleeValid == NumPeers > 1 => \A n \in Peer : Callee(n) \in Peer \ {n}
-----------------------------------------------------------------------------
(* What holds where calls are timely.                                      *)

(* The appendEntries calls under way from n to p.                          *)
CallsTo(n, p) ==
    {m \in DOMAIN appendReqs : m.from = n /\ m.to = p} \cup
    {r \in DOMAIN appendReplies : r.to = n /\ r.from = p}

(* A node never has two appendEntries calls under way to the same other:   *)
(* the threads of a round, each advancing the cursor it finds, reach every *)
(* other node, so that no reply is for entries another call has resent.    *)
OneCallToEach ==
    /\ \A n, p \in Peer : Cardinality(CallsTo(n, p)) <= 1
    /\ \A m \in DOMAIN appendReqs : appendReqs[m] = 1
    /\ \A r \in DOMAIN appendReplies : appendReplies[r] = 1

(* When the last vote thread has returned electionLoop stops waiting.      *)
WaitCanEnd ==
    \A n \in Peer :
        electionPc[n] = "waiting" /\ voteThreads[n] = 0 => ~AwaitingVotes(n)

(* electionLoop never waits for ever.                                      *)
ElectionEnds ==
    \A n \in Timers : electionPc[n] = "waiting" ~> electionPc[n] # "waiting"
-----------------------------------------------------------------------------
(* What holds of a leader's log while one node leads and calls are timely. *)

Prefix(log, k) == SubSeq(log, 1, Min({k, Len(log)}))

(* Two logs with entries of one term at an index agree up to that index.   *)
LogMatching ==
    \A a, b \in Peer : \A i \in 1..Min({Len(m_logs[a]), Len(m_logs[b])}) :
        m_logs[a][i].term = m_logs[b][i].term =>
            Prefix(m_logs[a], i) = Prefix(m_logs[b], i)

(* matchIndex claims no more than the follower has: its log and the        *)
(* leader's agree up to it.                                                *)
MatchIsStored ==
    \A n, p \in Peer : m_state[n] = "LEADER" =>
        LET k == m_matchIndex[n][p] IN
        /\ k <= Len(m_logs[p]) /\ k <= Len(m_logs[n])
        /\ Prefix(m_logs[p], k) = Prefix(m_logs[n], k)

(* Whatever a node takes for committed is, entry by entry, in the files of *)
(* a majority, so that a crash of the process cannot lose it.              *)
CommittedOnDisk ==
    \A n \in Peer :
        LET k == m_commitIndex[n]
            holders == {p \in Peer : IsPrefix(Prefix(m_logs[n], k), file[p].logs)}
        IN k <= Len(m_logs[n]) /\ (k > 0 => Majority(Cardinality(holders)))

(* A log no other is longer than.                                          *)
LongestLog ==
    LET n == CHOOSE n \in Peer : \A p \in Peer : Len(m_logs[p]) <= Len(m_logs[n])
    IN m_logs[n]

Abstract == INSTANCE ReplicatedLog WITH
    Node <- Peer,
    log <- LongestLog,
    committed <- Max({m_commitIndex[n] : n \in Peer}),
    applied <- [n \in Peer |-> Prefix(m_logs[n], m_lastApplied[n])]

(* The cluster implements ReplicatedLog: the longest log is the log, the   *)
(* most any node takes for committed is committed, and what a node has     *)
(* applied is its log up to m_lastApplied.                                 *)
ImplementsReplicatedLog == Abstract!Spec

(* Every command that a leader took is applied by every node in the end:   *)
(* whenever some have been started, a time comes when all have arrived.    *)
StartedIsApplied ==
    key > 0 ~> \A n \in Peer : \A k \in 0..(key - 1) :
        \E i \in 1..Min({m_lastApplied[n], Len(m_logs[n])}) :
            m_logs[n][i].key = k
-----------------------------------------------------------------------------
(* What the repository says of the program and the code does not do.       *)

(* A node that handles a vote reply of a later term is in that term then.  *)
(* The comment at leaderElection.cpp:126 says that the term is updated to  *)
(* the one of the reply; readRaftState() puts the one on disk in its place *)
(* (leaderElection.cpp:130), though it is, says statePersistence.cpp:11,   *)
(* only called when a node is made.                                        *)
LaterReplyAdopted ==
    [][\A r \in DOMAIN voteReplies :
          HandleVoteReply(r) => m_curTerm'[r.to] >= r.term]_vars

(* No two nodes lead the same term.  raft.md says that locks and condition *)
(* variables make concurrent access safe; requestVote unlocks between      *)
(* clearing its vote and casting it (leaderElection.cpp:163-168).          *)
OneLeaderPerTerm ==
    \A a, b \in Peer :
        m_state[a] = "LEADER" /\ m_state[b] = "LEADER"
            /\ m_curTerm[a] = m_curTerm[b] => a = b
=============================================================================

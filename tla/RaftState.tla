----------------------------- MODULE RaftState -----------------------------
(***************************************************************************)
(* The state of the Raft nodes of RAFT/src: the members of class Raft, the *)
(* file each node persists itself to, its threads and the RPCs in flight.  *)
(*                                                                         *)
(* One process runs every node (main.cpp).  Threads of a node share its    *)
(* members under m_lock, so an action of the modules that extend this one  *)
(* is one critical section.  An RPC is a thread of its own blocked in      *)
(* client.call(): no call is lost or repeated, but calls overtake each     *)
(* other, so requests and replies in flight are bags.                      *)
(*                                                                         *)
(* A command is its key: main() numbers them from 0 at each node it finds  *)
(* leading, and here each command a leader takes has a number of its own,  *)
(* so that the properties can tell it from the others.                     *)
(***************************************************************************)
EXTENDS SavedState, FiniteSets, BagsExt, Bags

CONSTANTS
    NumPeers,      \* peersNum, the size of the cluster
    Timers,        \* bound: the nodes whose election timer can fire
    Senders,       \* bound: the nodes whose broadcast timer can fire
    MaxTerm,       \* bound: no election is started beyond this term
    MaxStart,      \* bound: commands main() starts
    MaxLog,        \* bound: readRaftState() makes no log longer than this
    MaxThreads,    \* bound: RPC threads a node may have alive
    MaxRestarts,   \* bound: crashes of the process
    Victims        \* bound: the nodes main() may find leading and kill

Peer == 0..(NumPeers - 1)

ASSUME NumPeersAssumption == NumPeers \in Nat \ {0} /\ NumPeers % 2 = 1
ASSUME TimersAssumption ==
    Timers \subseteq Peer /\ Senders \subseteq Peer /\ Victims \subseteq Peer
ASSUME BoundsAssumption ==
    /\ MaxTerm \in Nat /\ MaxStart \in Nat /\ MaxLog \in Nat
    /\ MaxThreads \in Nat /\ MaxRestarts \in Nat

VARIABLES
    m_state, m_curTerm, m_votedFor, m_logs,
    m_nextIndex, m_matchIndex, m_commitIndex, m_lastApplied,
    recvVotes, finishedVote, cur_peerId,
    dead,          \* set by kill()
    file,          \* what "persister-<id>" on disk parses to
    loops,         \* which of a node's looping threads still run
    electionPc,    \* where electionLoop is
    voteSpawned,   \* callRequestVote threads that have not sent yet
    voteThreads,   \* callRequestVote threads that have not returned
    voteReqs,      \* requestVote calls no server thread has taken
    voteSrv,       \* the call the node's vote server is in the middle of
    voteReplies,   \* requestVote replies not handled by their caller
    sendSpawned,   \* sendAppendEntries threads that have not sent yet
    sendThreads,   \* sendAppendEntries threads that have not returned
    appendReqs, appendReplies,
    mainPc,        \* where main() is: "starting", "killing" or "done"
    key,           \* the key of main()'s next command
    victim,        \* the leader main() saw and kills
    restarts       \* crashes so far

(* The members of Raft that one lock protects, and the rest, by theme.     *)
termVars == <<m_state, m_curTerm, m_votedFor>>
leaderVars == <<m_nextIndex, m_matchIndex>>
commitVars == <<m_commitIndex, m_lastApplied>>
ballotVars == <<recvVotes, finishedVote, electionPc>>
voteNet == <<voteSpawned, voteThreads, voteReqs, voteSrv, voteReplies>>
appendNet == <<sendSpawned, sendThreads, appendReqs, appendReplies>>
mainVars == <<mainPc, key, victim, restarts>>
processVars == <<dead, loops, mainVars>>
vars == <<termVars, m_logs, leaderVars, commitVars, ballotVars, cur_peerId,
          file, voteNet, appendNet, processVars>>
-----------------------------------------------------------------------------
Majority(k) == k > NumPeers \div 2

Entry == [term: Nat, key: Nat]

LastTerm(log) == IF log = <<>> THEN 0 ELSE log[Len(log)].term

(* What reading m_logs[i - 1].m_term can yield: past the end of the vector *)
(* it is undefined, and the build hands back any number.                   *)
AnyTerm == -1..MaxTerm
TermsAt(log, i) == IF i \in 1..Len(log) THEN {log[i].term} ELSE AnyTerm

saveRaftState(n, term, vote, log) ==
    file' = [file EXCEPT ![n] = Written(@, term, vote, log)]

(* An RPC thread picks its callee from the cursor both kinds of thread     *)
(* share, skipping the node itself, and wraps the cursor at the end.       *)
Callee(n) == IF cur_peerId[n] = n THEN cur_peerId[n] + 1 ELSE cur_peerId[n]

WrapsEarly(n, next) == next >= NumPeers - 1     \* variant: off by one
WrapsLate(n, next) == next > NumPeers           \* variant: off by one
Wraps(n, next) == next = NumPeers \/ (next = NumPeers - 1 /\ next = n)

AdvanceCursor(n) ==
    cur_peerId' = [cur_peerId EXCEPT ![n] =
                     IF Wraps(n, Callee(n) + 1) THEN 0 ELSE Callee(n) + 1]

(* Room for the threads of one more election or round.  With MaxThreads    *)
(* NumPeers - 1 every call returns before its node makes the next ones;    *)
(* with more, elections and rounds overlap.                                *)
MaySpawn(n) == voteThreads[n] + sendThreads[n] + (NumPeers - 1) <= MaxThreads

Idle == [step |-> "idle"]

-----------------------------------------------------------------------------
(* The file's content, and the arguments and results of the two RPCs.  The *)
(* thread that made a call keeps part of its arguments with the result.    *)
Saved == [term: Nat, votedFor: Peer \cup {None}, logs: Seq(Entry)]

VoteArgs == [from: Peer, to: Peer, term: Nat, lastLogTerm: Nat,
             lastLogIndex: Nat]
VoteCall == [step: {"compare", "grant"}, req: VoteArgs, term: Nat]
VoteAnswer == [to: Peer, term: Nat, granted: BOOLEAN]

AppendArgs == [from: Peer, to: Peer, term: Nat, prevLogIndex: Int,
               prevLogTerm: Int, leaderCommit: Nat, entries: Seq(Entry)]
AppendAnswer == [to: Peer, from: Peer, term: Nat, success: BOOLEAN,
                 conflictTerm: Int, conflictIndex: Int, prevLogIndex: Int,
                 sent: Nat]
-----------------------------------------------------------------------------
(* The value a member has at every node after Make().                      *)
AtEveryPeer(v) == [n \in Peer |-> v]
Loops == {"election", "entries", "apply"}

(* main() makes every node from its file; there is none at first.          *)
Init ==
    /\ m_state = AtEveryPeer("FOLLOWER")
    /\ m_curTerm = AtEveryPeer(0)
    /\ m_votedFor = AtEveryPeer(None)
    /\ m_logs = AtEveryPeer(<<>>)
    /\ m_nextIndex = AtEveryPeer(AtEveryPeer(1))
    /\ m_matchIndex = AtEveryPeer(AtEveryPeer(0))
    /\ m_commitIndex = AtEveryPeer(0)
    /\ m_lastApplied = AtEveryPeer(0)
    /\ recvVotes = AtEveryPeer(0)
    /\ finishedVote = AtEveryPeer(0)
    /\ cur_peerId = AtEveryPeer(0)
    /\ dead = AtEveryPeer(FALSE)
    /\ file = AtEveryPeer(NoFile)
    /\ loops = AtEveryPeer(Loops)
    /\ electionPc = AtEveryPeer("polling")
    /\ voteSpawned = AtEveryPeer(0)
    /\ voteThreads = AtEveryPeer(0)
    /\ voteSrv = AtEveryPeer(Idle)
    /\ sendSpawned = AtEveryPeer(0)
    /\ sendThreads = AtEveryPeer(0)
    /\ voteReqs = EmptyBag
    /\ voteReplies = EmptyBag
    /\ appendReqs = EmptyBag
    /\ appendReplies = EmptyBag
    /\ mainPc = "starting"
    /\ key = 0
    /\ victim = None
    /\ restarts = 0
=============================================================================

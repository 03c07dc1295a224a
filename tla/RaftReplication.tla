--------------------------- MODULE RaftReplication ---------------------------
(***************************************************************************)
(* Log replication: logEntriesAppend.cpp, with start() and applyLogLoop    *)
(* of raft.cpp.                                                            *)
(***************************************************************************)
EXTENDS RaftState

(* start() appends a command at a leader.  Nothing is saved.  main() stops *)
(* calling it once it has begun to look for a leader to kill.              *)
start(n) ==
    /\ mainPc = "starting"
    /\ m_state[n] = "LEADER"
    /\ key < MaxStart
    /\ m_logs' = [m_logs EXCEPT
                    ![n] = Append(@, [term |-> m_curTerm[n], key |-> key])]
    /\ key' = key + 1
    /\ UNCHANGED <<termVars, leaderVars, commitVars, ballotVars, cur_peerId,
                   file, voteNet, appendNet, dead, loops, mainPc, victim,
                   restarts>>

(* processEntriesLoop: at every period a leader spawns one thread per      *)
(* other node.  dead is tested at the top of the loop, so a killed node    *)
(* sends at most the round it is in.                                       *)
Broadcast(n) ==
    /\ "entries" \in loops[n] /\ n \in Senders
    /\ m_state[n] = "LEADER"
    /\ MaySpawn(n)
    /\ sendSpawned' = [sendSpawned EXCEPT ![n] = @ + (NumPeers - 1)]
    /\ sendThreads' = [sendThreads EXCEPT ![n] = @ + (NumPeers - 1)]
    /\ loops' = [loops EXCEPT ![n] = IF dead[n] THEN @ \ {"entries"} ELSE @]
    /\ UNCHANGED <<termVars, m_logs, leaderVars, commitVars, ballotVars,
                   cur_peerId, file, voteNet, appendReqs, appendReplies, dead,
                   mainVars>>

(* The entries behind prev: none when the index is past the end, nor when  *)
(* it is -1, which the comparison with size() makes a huge unsigned.       *)
EntriesAfterNext(log, prev) ==                  \* variant: off by one
    IF prev \in 0..Len(log) THEN SubSeq(log, prev + 2, Len(log)) ELSE <<>>
EntriesAfter(log, prev) ==
    IF prev \in 0..Len(log) THEN SubSeq(log, prev + 1, Len(log)) ELSE <<>>

(* The term sent for prev: index 0 sends that of the first entry.          *)
PrevLogTerms(log, prev) ==
    IF prev = 0 THEN {IF log = <<>> THEN 0 ELSE log[1].term} ELSE TermsAt(log, prev)

(* sendAppendEntries, first critical section.  It does not look whether    *)
(* the node still leads: the request carries the term and log of now.      *)
SendEntries(n) ==
    LET p == Callee(n)
        prev == m_nextIndex[n][p] - 1
    IN /\ sendSpawned[n] > 0
       /\ \E prevTerm \in PrevLogTerms(m_logs[n], prev) :
            appendReqs' = BagAdd(appendReqs,
               [from |-> n, to |-> p, term |-> m_curTerm[n],
                prevLogIndex |-> prev, prevLogTerm |-> prevTerm,
                leaderCommit |-> m_commitIndex[n],
                entries |-> EntriesAfter(m_logs[n], prev)])
       /\ AdvanceCursor(n)
       /\ sendSpawned' = [sendSpawned EXCEPT ![n] = @ - 1]
       /\ UNCHANGED <<termVars, m_logs, leaderVars, commitVars, ballotVars,
                      file, voteNet, sendThreads, appendReplies, processVars>>
-----------------------------------------------------------------------------
(* What the caller's thread has at hand when appendEntries returns: the    *)
(* reply and what it keeps of its request.                                 *)
AppendReply(m, term, success, conflictTerm, conflictIndex) ==
    [to |-> m.from, from |-> m.to, term |-> term, success |-> success,
     conflictTerm |-> conflictTerm, conflictIndex |-> conflictIndex,
     prevLogIndex |-> m.prevLogIndex, sent |-> Len(m.entries)]

Reply(m, reply) ==
    /\ appendReqs' = BagRemove(appendReqs, m)
    /\ appendReplies' = BagAdd(appendReplies, reply)
    /\ UNCHANGED <<sendSpawned, sendThreads>>

(* appendEntries of a past term: failure with no conflict named.           *)
RejectEntries(m) ==
    /\ m.term < m_curTerm[m.to]
    /\ Reply(m, AppendReply(m, m_curTerm[m.to], FALSE, -1, -1))
    /\ UNCHANGED <<termVars, m_logs, leaderVars, commitVars, ballotVars,
                   cur_peerId, file, voteNet, processVars>>

(* The start of appendEntries from a leader of this term or a later one:   *)
(* of a later one, the vote is cleared and saved with the term of before.  *)
AdoptTermOnly(m) ==                             \* variant: m_state left alone
    LET n == m.to IN
    /\ m.term >= m_curTerm[n]
    /\ m_curTerm' = [m_curTerm EXCEPT ![n] = m.term]
    /\ m_votedFor' =
         [m_votedFor EXCEPT ![n] = IF m.term > m_curTerm[n] THEN None ELSE @]
    /\ UNCHANGED m_state
FollowLeader(m) ==
    LET n == m.to IN
    /\ m.term >= m_curTerm[n]
    /\ m_state' = [m_state EXCEPT ![n] = "FOLLOWER"]
    /\ m_curTerm' = [m_curTerm EXCEPT ![n] = m.term]
    /\ m_votedFor' =
         [m_votedFor EXCEPT ![n] = IF m.term > m_curTerm[n] THEN None ELSE @]

FirstSave(m) ==
    LET n == m.to IN
    IF m.term > m_curTerm[n]
    THEN [file EXCEPT ![n] = Written(@, m_curTerm[n], None, m_logs[n])]
    ELSE file

MissesPrev(m) ==
    LET log == m_logs[m.to] IN m.prevLogIndex \notin 0..Len(log)

ConflictsAtPrev(m) ==
    LET log == m_logs[m.to] IN
    /\ m.prevLogIndex \in 1..Len(log)
    /\ log[m.prevLogIndex].term # m.prevLogTerm

(* appendEntries at a log that ends before prevLogIndex (-1 compares as a  *)
(* huge unsigned): the conflict is the node's size.  The term is not saved.*)
ReportShortLog(m) ==
    LET n == m.to IN
    /\ FollowLeader(m)
    /\ m_logs[n] # <<>> /\ MissesPrev(m)
    /\ file' = FirstSave(m)
    /\ Reply(m, AppendReply(m, m_curTerm[n], FALSE, -1, Len(m_logs[n])))
    /\ UNCHANGED <<m_logs, leaderVars, commitVars, ballotVars, cur_peerId,
                   voteNet, processVars>>

(* The first index of the term a log has at prev: a set of one number.     *)
FirstIndexes(log, prev) ==
    {i \in 1..prev : /\ log[i].term = log[prev].term
                     /\ \A j \in 1..(i - 1) : log[j].term # log[prev].term}

(* appendEntries at a log with another term at prevLogIndex: the reply     *)
(* names that term and its first index.                                    *)
ReportConflict(m) ==
    LET n == m.to IN
    /\ FollowLeader(m)
    /\ m_logs[n] # <<>> /\ ConflictsAtPrev(m)
    /\ file' = FirstSave(m)
    /\ \E first \in FirstIndexes(m_logs[n], m.prevLogIndex) :
         Reply(m, AppendReply(m, m_curTerm[n], FALSE,
                              m_logs[n][m.prevLogIndex].term, first))
    /\ UNCHANGED <<m_logs, leaderVars, commitVars, ballotVars, cur_peerId,
                   voteNet, processVars>>

(* The log appendEntries leaves: an empty one takes the entries wherever   *)
(* they belong; another is cut at prevLogIndex first.                      *)
AcceptedShort(m) ==                             \* variant: off by one
    LET log == m_logs[m.to] IN
    IF log = <<>> THEN m.entries
    ELSE SubSeq(log, 1, m.prevLogIndex - 1) \o m.entries
Accepted(m) ==
    LET log == m_logs[m.to] IN
    IF log = <<>> THEN m.entries
    ELSE SubSeq(log, 1, m.prevLogIndex) \o m.entries

(* The file after an appendEntries that took the entries: the second save. *)
NoSecondSave(m) == FirstSave(m)                 \* variant: entries not saved
SecondSave(m) ==
    LET n == m.to
        vote == IF m.term > m_curTerm[n] THEN None ELSE m_votedFor[n]
    IN [FirstSave(m) EXCEPT ![n] = Written(@, m.term, vote, Accepted(m))]

(* appendEntries that takes the entries, saves and advances the commit     *)
(* index to the leader's, as far as the log goes.                          *)
AcceptEntries(m) ==
    LET n == m.to
        size == Len(Accepted(m))
        known == IF m.leaderCommit < size THEN m.leaderCommit ELSE size
    IN /\ FollowLeader(m)
       /\ m_logs[n] = <<>> \/ ~(MissesPrev(m) \/ ConflictsAtPrev(m))
       /\ m_logs' = [m_logs EXCEPT ![n] = Accepted(m)]
       /\ file' = SecondSave(m)
       /\ m_commitIndex' = [m_commitIndex EXCEPT ![n] =
                              IF @ < m.leaderCommit THEN known ELSE @]
       /\ Reply(m, AppendReply(m, m_curTerm[n], TRUE, -1, -1))
       /\ UNCHANGED <<leaderVars, m_lastApplied, ballotVars, cur_peerId,
                      voteNet, processVars>>
-----------------------------------------------------------------------------
HandleReply(r) ==
    /\ appendReplies' = BagRemove(appendReplies, r)
    /\ sendThreads' = [sendThreads EXCEPT ![r.to] = @ - 1]
    /\ UNCHANGED <<sendSpawned, appendReqs>>

LaterTerm(r) == r.term > m_curTerm[r.to]

(* sendAppendEntries after its call: a reply of a later term.              *)
StepDown(r) ==
    LET n == r.to IN
    /\ HandleReply(r)
    /\ LaterTerm(r)
    /\ m_state' = [m_state EXCEPT ![n] = "FOLLOWER"]
    /\ m_curTerm' = [m_curTerm EXCEPT ![n] = r.term]
    /\ m_votedFor' = [m_votedFor EXCEPT ![n] = None]
    /\ saveRaftState(n, r.term, None, m_logs[n])
    /\ UNCHANGED <<m_logs, leaderVars, commitVars, ballotVars, cur_peerId,
                   voteNet, processVars>>

(* The middle of the sorted match indexes, the node's own 0 among them: a  *)
(* set of one number.                                                      *)
FirstMatch(match) ==                            \* variant: the first of them
    {v \in {match[p] : p \in Peer} : \A p \in Peer : v <= match[p]}
MiddleMatch(match) ==
    {v \in {match[p] : p \in Peer} :
        /\ Cardinality({p \in Peer : match[p] < v}) <= NumPeers \div 2
        /\ Cardinality({p \in Peer : match[p] <= v}) > NumPeers \div 2}

(* nextIndex after a success moves on by what was sent, from wherever the  *)
(* other replies have left it.                                             *)
NextPastLog(r) == Len(m_logs[r.to]) + 1         \* variant: today's log
NextAfterSuccess(r) == m_nextIndex[r.to][r.from] + r.sent

(* sendAppendEntries after a success: the middle match index is committed  *)
(* if its entry is of the current term.                                    *)
HandleSuccess(r) ==
    LET n == r.to
        match == [m_matchIndex[n] EXCEPT ![r.from] = NextAfterSuccess(r) - 1]
    IN /\ HandleReply(r)
       /\ ~LaterTerm(r) /\ r.success
       /\ m_nextIndex' = [m_nextIndex EXCEPT ![n][r.from] = NextAfterSuccess(r)]
       /\ m_matchIndex' = [m_matchIndex EXCEPT ![n] = match]
       /\ \E middle \in MiddleMatch(match) :
          \E term \in TermsAt(m_logs[n], middle) :
            m_commitIndex' = [m_commitIndex EXCEPT ![n] =
                IF middle > @ /\ term = m_curTerm[n] THEN middle ELSE @]
       /\ saveRaftState(n, m_curTerm[n], m_votedFor[n], m_logs[n])
       /\ UNCHANGED <<termVars, m_logs, m_lastApplied, ballotVars, cur_peerId,
                      voteNet, processVars>>

(* The indexes the search for the last entry of a term at or before prev   *)
(* can stop at, -1 for none: what lies past the end of the log may match.  *)
LastIndexes(log, prev, term) ==
    LET found == {i \in 1..prev : i <= Len(log) /\ log[i].term = term} IN
    (IF found = {} THEN {-1} ELSE {i \in found : \A j \in found : j <= i})
        \cup ((Len(log) + 1)..prev)

(* sendAppendEntries after a failure: nextIndex follows the conflict.      *)
HandleFailure(r) ==
    LET n == r.to IN
    /\ HandleReply(r)
    /\ ~LaterTerm(r) /\ ~r.success
    /\ \E last \in IF r.conflictTerm = -1 THEN {r.conflictIndex}
                   ELSE LastIndexes(m_logs[n], r.prevLogIndex, r.conflictTerm) :
         m_nextIndex' = [m_nextIndex EXCEPT ![n][r.from] =
             IF r.conflictTerm # -1 /\ last = -1 THEN r.conflictIndex
             ELSE last + 1]
    /\ saveRaftState(n, m_curTerm[n], m_votedFor[n], m_logs[n])
    /\ UNCHANGED <<termVars, m_logs, m_matchIndex, commitVars, ballotVars,
                   cur_peerId, voteNet, processVars>>

(* applyLogLoop: everything committed counts as applied.                   *)
ApplyLog(n) ==
    /\ "apply" \in loops[n]
    /\ m_lastApplied[n] # m_commitIndex[n]
    /\ m_lastApplied' = [m_lastApplied EXCEPT ![n] = m_commitIndex[n]]
    /\ loops' = [loops EXCEPT ![n] = IF dead[n] THEN @ \ {"apply"} ELSE @]
    /\ UNCHANGED <<termVars, m_logs, leaderVars, m_commitIndex, ballotVars,
                   cur_peerId, file, voteNet, appendNet, dead, mainVars>>
=============================================================================

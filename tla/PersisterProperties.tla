------------------------ MODULE PersisterProperties ------------------------
(***************************************************************************)
(* What is checked of the file of a node.                                  *)
(***************************************************************************)
EXTENDS Persister

Read(beyond) == deserialize(content \o beyond)

(* No write() was cut short so far.                                        *)
WritesWhole == shorts = 0

(* While writes are whole a node has in memory only what nodes write:      *)
(* terms, votes that were given, entries, also after it has read a file    *)
(* that several saves of different lengths have left, with anything behind *)
(* the buffer.  A save cut short can make any number a vote, and what was  *)
(* an entry is still one of some term.                                     *)
TypeOK ==
    /\ pc \in {"down", "running", "opened", "undefined", "thrown"}
    /\ m_curTerm \in Nat
    /\ m_votedFor \in Int
    /\ m_logs \in Seq([term: Int, cmd: Seq(Nat)])
    /\ WritesWhole =>
         /\ m_votedFor \in Voted \cup {None}
         /\ \A i \in DOMAIN m_logs : m_logs[i].term \in Nat
    /\ Len(m_logs) <= MaxLog
    /\ exists \in BOOLEAN
    /\ content \in Seq(Nat)
    /\ shorts \in 0..MaxShort

(* What was saved last, if its write() was not cut short, is what          *)
(* deserialize() gives first, with whatever behind its buffer and whatever *)
(* was cut short before: term, vote and the whole log, and then what the   *)
(* file still had or memory has.  It may only throw, and never reads past  *)
(* its parts.                                                              *)
SavedStateLeads ==
    \A k \in DOMAIN saved : \A beyond \in Beyond :
        LET read == Read(beyond) IN
        \/ read.outcome = "thrown"
        \/ /\ read.outcome = "running"
           /\ read.term = saved[k].term
           /\ read.votedFor = saved[k].votedFor
           /\ IsPrefix(saved[k].logs, read.logs)

(* The file is empty, so that the node cannot be started on it, only while *)
(* no write() has taken anything: the process was lost between open() and  *)
(* write() of its first save.  In a later one the file stays as it was.    *)
EmptyBeforeFirst == content = <<>> => headers = {} /\ shorts = 0

(* The saves so far had entries of one width, and terms and votes that     *)
(* together differed by no more than a character.                          *)
EqualWidths ==
    /\ Cardinality(widths) <= 1
    /\ \A h, k \in headers : h - k <= 1

(* With these widths, while writes are whole, the file parses to as many   *)
(* entries as RaftState takes it for, with the same terms; but when the    *)
(* term or vote has become one character longer, the first entry past the  *)
(* log saved has lost the first character of its command.                  *)
TailAsWritten ==
    WritesWhole /\ EqualWidths /\ saved # <<>> =>
        LET read == Read(<<>>) IN
        /\ read.outcome = "running"
        /\ Len(read.logs) = Len(kept.logs)
        /\ \A i \in DOMAIN kept.logs :
             /\ read.logs[i].term = kept.logs[i].term
             /\ read.logs[i].cmd \in {kept.logs[i].cmd, Tail(kept.logs[i].cmd)}

(* deserialize() throws, and the process ends, only on a file in which     *)
(* saves with entries of different widths, or with more digits in the term *)
(* and vote, or a write() that was cut short have left a fragment.         *)
ThrowsOnFragments == pc = "thrown" => ~EqualWidths \/ ~WritesWhole

(* A node that is started on a state it has saved runs.  The comment at    *)
(* leaderElection.cpp:180 says that the state is persisted so that it is   *)
(* not lost when the node is restarted; over longer entries that were cut  *)
(* from the log, as with the keys of main.cpp:30-34 from 10 on, a save     *)
(* leaves a fragment on which deserialize() throws.                        *)
StartsAgain == [][pc = "down" /\ saved # <<>> => pc' = "running"]_vars

(* The characters after a and up to b of a text are between dots or        *)
(* semicolons, and a dot ends them: deserialize() takes them for an entry, *)
(* if they are in its third field.                                         *)
EntryLies(s, a, b) ==
    /\ a < b /\ b < Len(s) /\ s[b + 1] = Dot
    /\ a = 0 \/ s[a] \in {Dot, Semicolon}
    /\ \A i \in (a + 1)..b : s[i] \notin {Dot, Semicolon}

(* What lies behind the buffer, up to a NUL, is never taken for a term, a  *)
(* vote and entries when the file is empty; what ends with a dot in it is  *)
(* an entry with a command; and no term in it has a sign.  Nothing in the  *)
(* code sees to this: with other memory a node may start with anything, or *)
(* not at all.                                                             *)
HarmlessMemory ==
    \A beyond \in Beyond :
        LET s == CString(beyond) IN
        /\ deserialize(beyond).outcome = "undefined"
        /\ \A i \in 1..(Len(s) - 1) : s[i] = Comma => s[i + 1] # Minus
        /\ \A a, b \in 0..Len(s) : EntryLies(s, a, b) =>
             s[a + 1] # Comma /\ \E i \in (a + 1)..b : s[i] = Comma
=============================================================================

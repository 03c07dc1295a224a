----------------------------- MODULE Persister -----------------------------
(***************************************************************************)
(* The file persister-<id> of one node, character by character: serialize, *)
(* deserialize, the loss of the process between their system calls, and a  *)
(* write() that is cut short.                                              *)
(*                                                                         *)
(* The rest of the node is what it may have in memory when it saves: a     *)
(* term no earlier than before, its vote or any other, and a log that was  *)
(* cut and added to.  The name of the operation is one letter; keys and    *)
(* terms keep their digits, since their widths are what the file depends   *)
(* on.                                                                     *)
(***************************************************************************)
EXTENDS SavedState, FiniteSets, SequencesExt

CONSTANTS
    Voted,         \* the nodes that get votes
    Terms,         \* terms a node is in when it saves
    Keys,          \* keys of commands
    Beyond,        \* what may follow the buffer of deserialize() in memory
    MaxLog,        \* bound: entries of a log
    MaxAdded,      \* bound: entries added between two saves
    MaxSaves,      \* bound: saves
    MaxShort       \* bound: saves of which write() is cut short

ASSUME FileAssumption ==
    /\ Voted \subseteq Nat /\ Terms \subseteq Nat /\ Keys \subseteq Nat
    /\ Beyond \subseteq Seq(Nat) /\ MaxLog \in Nat /\ MaxAdded \in Nat
    /\ MaxSaves \in Nat /\ MaxShort \in Nat

(* Characters are their codes.                                             *)
NUL == 0
Space == 32
Comma == 44
Minus == 45
Dot == 46
Zero == 48
Semicolon == 59
Put == 112

VARIABLES
    pc,            \* "down", "running", "opened", or how deserialize() failed
    m_curTerm, m_votedFor, m_logs,
    exists,        \* whether there is a file
    content,       \* its characters
    saved,         \* the state of the last save, unless it was cut short
    kept,          \* what RaftState takes the file for
    widths,        \* widths of the entries saved so far
    headers,       \* widths of the term and vote saved so far
    saves,         \* saves so far
    shorts         \* saves of which write() was cut short so far

memory == <<m_curTerm, m_votedFor, m_logs>>
history == <<saved, kept, widths, headers, saves, shorts>>
vars == <<pc, memory, exists, content, history>>
-----------------------------------------------------------------------------
Digit == Zero..(Zero + 9)

(* The digits of a number, by repeated division.                           *)
Digits(n) ==
    LET left[k \in 0..(n + 1)] == IF k = 0 THEN n ELSE left[k - 1] \div 10
        width == CHOOSE w \in 1..(n + 1) :
                    left[w] = 0 /\ (w > 1 => left[w - 1] # 0)
    IN [i \in 1..width |-> Zero + (left[width - i] % 10)]

unsigned_string(n) == Digits(IF n < 0 THEN -n ELSE n)   \* variant: no sign
to_string(n) == IF n < 0 THEN <<Minus>> \o Digits(-n) ELSE Digits(n)

(* How far a text goes before a character of a set.                        *)
Before(s, C) ==
    CHOOSE d \in 0..Len(s) :
        /\ \A i \in 1..d : s[i] \notin C
        /\ d < Len(s) => s[d + 1] \in C

(* The number that leading digits make, 0 without any.                     *)
Number(digits) ==
    LET upTo[i \in 0..Len(digits)] ==
            IF i = 0 THEN 0 ELSE 10 * upTo[i - 1] + (digits[i] - Zero)
    IN upTo[Len(digits)]

NoDigit == Nat \ Digit
Unsigned(s) == Number(SubSeq(s, 1, Before(s, NoDigit)))
atoi(s) ==
    IF s # <<>> /\ s[1] = Minus THEN -Unsigned(Tail(s)) ELSE Unsigned(s)

getCmd(key) == <<Put>> \o to_string(key) \o <<Space>> \o to_string(key)

(* The loops of deserialize() over a text: the parts that a character has  *)
(* ended so far, without the empty ones, and what follows the last, tmp.   *)
PushedAlways(parts, tmp) == Append(parts, tmp)  \* variant: the empty ones too
Pushed(parts, tmp) == IF tmp = <<>> THEN parts ELSE Append(parts, tmp)

Scanned(loop, char, ends) ==
    IF char # ends THEN [loop EXCEPT !.tmp = Append(@, char)]
    ELSE [parts |-> Pushed(loop.parts, loop.tmp), tmp |-> <<>>]
Scan(s, ends) ==
    LET upTo[i \in 0..Len(s)] ==
            IF i = 0 THEN [parts |-> <<>>, tmp |-> <<>>]
            ELSE Scanned(upTo[i - 1], s[i], ends)
    IN upTo[Len(s)]
-----------------------------------------------------------------------------
EntryUnended(e) ==                              \* variant: no dot after an entry
    e.cmd \o <<Comma>> \o to_string(e.term)
EntryText(e) == e.cmd \o <<Comma>> \o to_string(e.term) \o <<Dot>>

Header(term, vote) ==
    to_string(term) \o <<Semicolon>> \o to_string(vote) \o <<Semicolon>>

Entries(log) ==
    LET upTo[i \in 0..Len(log)] ==
            IF i = 0 THEN <<>> ELSE upTo[i - 1] \o EntryText(log[i])
    IN upTo[Len(log)]

Text(term, vote, log) == Header(term, vote) \o Entries(log)

(* The file after open(O_WRONLY | O_CREAT), and after write(): what was    *)
(* longer keeps its tail.                                                  *)
OpenedTruncated(old) == <<>>                    \* variant: O_TRUNC
Opened(old) == old
OverwrittenWithNul(old, text) ==                \* variant: the NUL as well
    text \o <<NUL>> \o SubSeq(old, Len(text) + 2, Len(old))
Overwritten(old, text) == text \o SubSeq(old, Len(text) + 1, Len(old))

(* string(buf): up to the first NUL, which may lie beyond the buffer.      *)
CString(s) == SubSeq(s, 1, Before(s, {NUL}))

HasComma(entry) == \E i \in DOMAIN entry : entry[i] = Comma
ParsedEntry(entry) ==
    LET j == Before(entry, {Comma}) IN
    [term |-> atoi(SubSeq(entry, j + 2, Len(entry))),
     cmd |-> SubSeq(entry, 1, j)]

(* deserialize() of a file that exists.  With fewer than three parts it    *)
(* reads past the end of its vector; from an entry without a comma it      *)
(* makes a string whose begin is after its end, which throws.              *)
deserialize(buffer) ==
    LET fields == Scan(CString(buffer), Semicolon)
        persist == Append(fields.parts, fields.tmp)
    IN IF Len(persist) < 3 THEN [outcome |-> "undefined"]
       ELSE LET entries == Scan(persist[3], Dot).parts IN
            IF \E k \in DOMAIN entries : ~HasComma(entries[k])
            THEN [outcome |-> "thrown"]
            ELSE [outcome |-> "running",
                  term |-> atoi(persist[1]),
                  votedFor |-> atoi(persist[2]),
                  logs |-> [k \in DOMAIN entries |-> ParsedEntry(entries[k])]]
-----------------------------------------------------------------------------
Entry == [term: Terms, cmd: {getCmd(key) : key \in Keys}]

Init ==
    /\ pc = "down"
    /\ m_curTerm = 0 /\ m_votedFor = None /\ m_logs = <<>>
    /\ exists = FALSE /\ content = <<>>
    /\ saved = <<>> /\ kept = NoFile
    /\ widths = {} /\ headers = {} /\ saves = 0 /\ shorts = 0

(* A node has changed its state and calls saveRaftState(), which opens the *)
(* file.                                                                   *)
Open(term, vote, cut, added) ==
    /\ pc = "running" /\ saves < MaxSaves
    /\ term >= m_curTerm
    /\ \A i \in DOMAIN added : added[i].term <= term
    /\ cut + Len(added) <= MaxLog
    /\ m_curTerm' = term
    /\ m_votedFor' = vote
    /\ m_logs' = SubSeq(m_logs, 1, cut) \o added
    /\ exists' = TRUE
    /\ content' = Opened(content)
    /\ pc' = "opened"
    /\ saves' = saves + 1
    /\ UNCHANGED <<saved, kept, widths, headers, shorts>>

(* write() and close().                                                    *)
Write ==
    /\ pc = "opened"
    /\ content' = Overwritten(content, Text(m_curTerm, m_votedFor, m_logs))
    /\ pc' = "running"
    /\ saved' = <<[term |-> m_curTerm, votedFor |-> m_votedFor, logs |-> m_logs]>>
    /\ kept' = Written(kept, m_curTerm, m_votedFor, m_logs)
    /\ widths' = widths \cup {Len(EntryText(m_logs[i])) : i \in DOMAIN m_logs}
    /\ headers' = headers \cup {Len(Header(m_curTerm, m_votedFor))}
    /\ UNCHANGED <<memory, exists, saves, shorts>>

Stop ==
    /\ pc' = "down"
    /\ m_curTerm' = 0 /\ m_votedFor' = None /\ m_logs' = <<>>

(* write() takes some of the text and no more, and the process ends: what  *)
(* it took is in the file, over the beginning of what was there.           *)
WriteShort ==
    /\ pc = "opened" /\ shorts < MaxShort
    /\ LET text == Text(m_curTerm, m_votedFor, m_logs) IN
       \E n \in 1..(Len(text) - 1) :
            content' = Overwritten(content, SubSeq(text, 1, n))
    /\ Stop
    /\ saved' = <<>>
    /\ shorts' = shorts + 1
    /\ UNCHANGED <<exists, kept, widths, headers, saves>>

(* The process is lost, or ends because write() took nothing.              *)
Crash ==
    /\ pc \in {"running", "opened"}
    /\ Stop
    /\ UNCHANGED <<exists, content, history>>

(* readRaftState(): what the file has comes after the log in memory.       *)
readRaftState(beyond) ==
    LET read == deserialize(content \o beyond) IN
    IF read.outcome # "running"
    THEN pc' = read.outcome /\ UNCHANGED memory
    ELSE /\ Len(m_logs \o read.logs) <= MaxLog
         /\ pc' = "running"
         /\ m_curTerm' = read.term
         /\ m_votedFor' = read.votedFor
         /\ m_logs' = m_logs \o read.logs

(* Make(), with the file if there is one.                                  *)
Start(beyond) ==
    /\ pc = "down"
    /\ IF exists THEN readRaftState(beyond) ELSE pc' = "running" /\ UNCHANGED memory
    /\ UNCHANGED <<exists, content, history>>

(* callRequestVote() reads the file back into the running node.            *)
ReadBack(beyond) ==
    /\ pc = "running" /\ exists
    /\ readRaftState(beyond)
    /\ UNCHANGED <<exists, content, history>>

Next ==
    \/ \E term \in Terms \cup {m_curTerm},
          vote \in Voted \cup {None, m_votedFor}, cut \in 0..Len(m_logs),
          added \in SeqOf(Entry, MaxAdded) :
            Open(term, vote, cut, added)
    \/ Write
    \/ WriteShort
    \/ Crash
    \/ \E beyond \in Beyond : Start(beyond) \/ ReadBack(beyond)

Spec == Init /\ [][Next]_vars
=============================================================================

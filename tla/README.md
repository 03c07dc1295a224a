# A verification of the 6.824 labs

The repository holds two programs: a Raft cluster (`src/RAFT/src`) and a MapReduce
(`src/mapreduce`), both over a small RPC library on ZeroMQ (`src/RAFT/buttonrpc_edit`).
This directory models all three in TLA+, down to the bytes of messages and of a node's
file where properties depend on them, checks them on small instances with TLC, and
proves with TLAPS, for every instance: the invariants of Raft that always hold; that
with one leader and timely calls the cluster is a replicated log; that a node reads back
what it saved last if that was written whole, down to the characters of its file; what
the RPC library promises its clients, down to the bytes of messages; and that the
MapReduce counts every word once where work is timely. *Plan* says what comes next.

    tlasany RaftProperties.tla
    tlc -workers 2 -config RaftTerms.cfg RaftProperties
    tlapm RaftProofs.tla
    tlapm RaftCallProofs.tla
    tlapm RaftLogProofs.tla
    tlc -workers 2 -config Persister.cfg PersisterMC
    tlapm PersisterProofs.tla
    tlc -workers 2 -config MapReduceTimely.cfg MapReduceProperties
    tlapm MapReduceProofs.tla
    tlapm MapReduceOnce.tla
    tlc -workers 2 -config ButtonRpc.cfg ButtonRpcMC
    tlapm ButtonRpcProofs.tla
    tlapm RpcValueProofs.tla

Each proof takes a minute or two, `RaftLogProofs` and `RpcValueProofs` up to five,
`PersisterProofs` up to ten.

## The system

### Raft (`src/RAFT/src`)

`main.cpp` makes three `Raft` nodes in ONE process, starts commands at any node it
finds leading, kills one leader, and goes on sleeping. Each node is a set of threads
that share its members under one lock, `m_lock`:

| part | code | threads | state |
|---|---|---|---|
| election | `leaderElection.cpp` | `electionLoop`, its `callRequestVote` threads, `listenForVote` (serves `requestVote`) | `m_state`, `m_curTerm`, `m_votedFor`, `recvVotes`, `finishedVote`, `cur_peerId`, `m_cond` |
| replication | `logEntriesAppend.cpp` | `processEntriesLoop`, its `sendAppendEntries` threads, `listenForAppend` (serves `appendEntries`) | `m_logs`, `m_nextIndex`, `m_matchIndex`, `m_commitIndex`, `cur_peerId` |
| applying | `raft.cpp` | `applyLogLoop` | `m_lastApplied` |
| persistence | `statePersistence.cpp` | whoever calls it | the file `persister-<id>` |
| the process | `main.cpp`, `raft.cpp` | `main` | the nodes, the key of the next command, `dead` |

The parts meet in three ways. Nodes call each other by RPC: a thread per call, blocked
in `client.call()` with no timeout, so a call is neither lost nor repeated, but calls
of different threads overtake each other. Threads of a node share its members, and
several operations unlock in the middle (`requestVote` around its comparison of logs,
every call of an RPC). And the file outlives the process, while everything else is
lost with it.

What is hard here: a write may be cut short, over a file that was whole; `requestVote`
tests its vote, unlocks, and casts it later; the threads of votes and of entries take
their callee from the same cursor `cur_peerId`; votes are counted for the election in
progress, whichever they were asked for; a vote reply of a later term reads the file
back into a running node; `appendEntries` saves twice; `start` saves nothing; the file
is written over without being truncated; `electionLoop` waits with no timeout.

What makes it correct: one leader per term; logs that match; `matchIndex` claims only
what followers hold; what is committed is on a majority of disks and stays; terms on
disk cover the logs, so that a restart cannot fall behind its entries; each round
reaches each node once; an election ends; a command that was taken is applied. The
first of these does not hold, and others hold only where calls are timely (see *What
the runs show*).

### MapReduce (`src/mapreduce`)

| part | code | threads | state |
|---|---|---|---|
| master | `master.cpp` | the RPC server, one timer thread per task handed out | the lists `m_list` and `reduceIndex` of tasks to hand out, the vectors `runningMapWork` and `runningReduceWork` of tasks handed out with a cursor into each, the maps of finished tasks |
| worker | `worker.cpp` | map threads, reduce threads, `main` | intermediate files `mr-<map id>-<bucket>`, output files `output/mr-out-<bucket>`, the counters by which some threads stop on purpose |
| functions | `map_reduceFun.cpp` | whoever calls them | none |

Threads ask the master for tasks by RPC until all are done. A map thread appends the
words of its file to the intermediate files of its id; `main` waits on a condition
variable for the first map thread that finds all maps done, then creates the reduce
threads, which read the files of their bucket and append to its output; at last `main`
removes the intermediate files. When a task's timer ends and the task is not finished,
the master lists it again.

What is hard: a worker that was only slow and one that has its task anew both append
their words; a timer tests the task at the cursor, not its own; a broadcast nobody
waits for yet is lost; the wait tests no predicate; files are removed that someone may
still write or read; a worker process that starts again removes files of tasks the
master counts as finished.

What makes it correct: no unfinished task is lost, reduces start when maps are
complete, each word is counted once, nothing is left behind, the worker does not exit
before every output is written, the job ends.

### RPC library (`src/RAFT/buttonrpc_edit`)

A ZeroMQ request/reply pair with an optional receive timeout. A call is a message of
the function's name and arguments, an answer one of an error code, a text and a value;
`Serializer.hpp` writes and reads them. Raft and the MapReduce threads set no timeout;
only the worker's `main` does (5 s). After a timeout, the next call sends nothing and
takes the late answer of the call before it (`buttonrpc_imp1.hpp:124`). The state is a
ZeroMQ socket and the error code of the last call, by which `net_call` knows whether
to send; the two must agree, or ZeroMQ throws.

What is hard: a late answer is read as what another call returns, an int as a bool or
a string as an int; a read looks only whether the cursor is at the end of the buffer,
and never whether enough bytes follow; lengths are passed on that are a few bytes too
long (`buttonrpc.cpp:66`, `buttonrpc_imp1.hpp:122`); the length of a string wraps at
16 bits; a value that was not received stays uninitialized, and `main` uses it without
a look at the error code.

What makes it correct: a call without timeouts before it gets its own answer, a call
is executed once at most, arguments and results arrive as they were passed, every call
returns, and `main` leaves when the job is done.

`raft_origin.cpp` is the one-file version that `src/RAFT/src` was split from and is
not built.

## The modules

| module | models |
|---|---|
| `SavedState` | what a node's file parses to, and `Written`, a save over it: what the nodes take the file for |
| `RaftState` | the members of class `Raft`, the files, threads and RPCs in flight; `Init`; helpers both halves use: `Callee` and `AdvanceCursor` (the shared cursor), `saveRaftState` |
| `RaftElection` | `electionLoop`, `callRequestVote`, `requestVote`, `checkLogUptodate` |
| `RaftReplication` | `start`, `processEntriesLoop`, `sendAppendEntries`, `appendEntries`, `applyLogLoop` |
| `Raft` | `main` and `kill`, crash and restart of the process, `Next`, fairness |
| `ReplicatedLog` | what the cluster promises: one log that grows, a committed part that grows, nodes that apply a prefix of it |
| `RaftProperties` | the invariants, action and liveness properties, and the refinement mapping to `ReplicatedLog` |
| `RaftProofs` | the theorems about Raft that hold whatever its calls do |
| `RaftCallProofs` | those that count its threads and their calls: votes, waits, rounds |
| `RaftLogProofs` | those about logs with one leader and timely calls, and the refinement |
| `Persister` | `statePersistence.cpp` character by character: `serialize`, `deserialize`, the system calls of a save and crashes between them |
| `PersisterProperties`, `PersisterMC` | what holds of the file and what `SavedState` relies on; the terms, keys and memory it is checked with |
| `PersisterProofs` | the theorems about the file, for any states saved and anything behind the buffer |
| `MapReduceMaster` | class `Master`: tasks listed, handed out and finished, timers |
| `MapReduce` | the worker against the master: map and reduce threads, files, `main`, loss and restart of the worker process, `Next`, fairness |
| `WordCount` | what the worker promises: outputs written once and complete, and no exit before |
| `MapReduceProperties` | the invariants and the liveness property of the MapReduce, and the refinement mapping to `WordCount` |
| `MapReduceProofs` | the theorems about the MapReduce that hold however slow its threads are |
| `MapReduceOnce` | those that need timely work: words are counted once, files are removed, `WordCount` is implemented |
| `Serializer` | `Serializer.hpp`: values and strings as bytes, and reads at a cursor |
| `ButtonRpc` | `call` and `net_call` of each client with its timeout and error code, `run`, `call_` and `callproxy_` of the server |
| `WorkerMain` | the calls of the worker's `main` over the library, and of its threads; fairness |
| `RemoteCalls` | what the library promises: calls made, served, answered or given up |
| `ButtonRpcProperties`, `ButtonRpcMC` | the invariants and the liveness property of library and `main`, and the refinement mapping to `RemoteCalls`; the functions, names and memory they are checked with |
| `ButtonRpcProofs` | the theorems about the RPC library that hold whatever its messages contain |
| `RpcValueProofs` | those about values: `Serializer`, arguments, results, and the numbers of `main` |

`MapReduce` extends `MapReduceMaster` and makes its calls steps of the threads that
call. `RaftElection` and `RaftReplication` extend `RaftState`, and `Raft` composes the
two. `RaftState` and `Persister` extend `SavedState`. `ButtonRpc` extends
`Serializer`, and `WorkerMain` extends `ButtonRpc`.

### How the Raft modules follow the code

Variables keep the names of the code. An action is one critical section of one thread,
since nothing that happens inside one is visible outside of it:

- `StartElection`, `LoseElection`, `LeaveDeposed`, `FinishElection` are the passes of
  `electionLoop`; `electionPc` says where it stands. A timer that runs down is a step
  that may happen.
- `SendVoteRequest` and `SendEntries` are the first critical section of an RPC thread,
  up to `client.call()`; `voteSpawned` and `sendSpawned` count the threads that have
  not come to it. The request carries the state of that moment, not of the moment the
  thread was spawned.
- `RejectVote`, `RefuseVote`, `ConsiderVote`, `checkLogUptodate`, `GrantVote` are the
  ways through `requestVote`; `voteSrv` holds the call while the node is unlocked. A
  server handles one call at a time, as the library does.
- `RejectEntries`, `ReportShortLog`, `ReportConflict`, `AcceptEntries` are the ways
  through `appendEntries`, each one critical section with its one or two saves.
- `HandleVoteReply`, `StepDown`, `HandleSuccess`, `HandleFailure` are what an RPC
  thread does after its call.
- `Restart` loses the process and makes every node from its file;
  `RestartBetweenSaves` loses it between the two saves of an `appendEntries`.

Requests and replies are bags. A reply keeps what its caller's thread still knows of the
request. A read past the end of `m_logs` (undefined) yields any term in `AnyTerm`. A
command is its key. The file is what it parses to: `Written` keeps the tail of a longer
file in whole entries. `Persister` has the file itself and checks when this is so
(`TailAsWritten`): while saves are written whole, entries are of equal width and the
header of term and vote does not grow by more than a character; when it grows by one,
the first entry of the tail loses the first character of its command, which no Raft
property reads. Saves in `RaftState` are whole; a write that is cut short, after which
the process ends, is in `Persister` only. The commands of `main` have equal width while
keys have one digit; from key 10 on the file can hold fragments, and reading it back can
throw (`ThrowsOnFragments`).

### How `Persister` follows the code

One node and its file. `Open` is a call of `saveRaftState` up to `open`, with whatever
the node may have in memory by then: a term no earlier than its last, any vote, a log
that was cut and added to. `Write` is `write` and `close`, `Crash` the loss of the
process in between or at any time, `Start` the part of `Make` that looks for a file,
`ReadBack` the read of `callRequestVote` into the running node. `WriteShort` is a
`write` that takes some of the text and no more: those characters lie over the old file,
and the process ends (`perror`, `exit`); `shorts` counts them. It forgets what was saved
last (`saved`), since neither the old state nor the new one is in the file then. `Text`
is what `serialize` makes: term and vote, each ended by a semicolon, and entries of a
command, a comma, a term and a dot. `Opened` and `Overwritten` are the file after `open`
without `O_TRUNC` and after `write`: what was longer keeps its tail. `deserialize` reads
up to the first NUL, which may be anywhere behind its buffer (`Beyond`): `string(buf)`
is of a buffer without one. `Scan` is its two loops over characters: `tmp` collects
them, and a semicolon or a dot pushes `tmp` unless it is empty (`Pushed`). The parts are
converted as the code does, and there are three outcomes: the state it read, an
exception (`string(begin, end)` of an entry without a comma), or a read past the end of
the vector of parts, which is undefined. After the last two there is no next step.
Numbers are their decimal digits and `atoi` reads leading digits, since widths are what
the file depends on; they are unbounded, as terms stay small. After a write cut short,
digits of two numbers can stand side by side, and a node may read a term, a vote or an
entry nobody wrote. A write that takes nothing is a crash before it.

### How the MapReduce modules follow the code

Map and reduce tasks go through the same actions, with the kind as a parameter, since
the code of one is that of the other with other names. A map task is the index of its
file.

- `TakeTask` is `assignTask` (`assignReduceTask`) up to its first unlock, `waitTask`
  the rest of it: the task is put in the vector and a timer is started. Between the
  two, `serving` holds the task. The server handles one call at a time, so only timers
  run in between.
- `TimerEnds` is a timer thread after its sleep: it tests the task at the cursor,
  `Watched`. Which timer ends makes no difference, so `timers` only counts them.
- `SetStat` is `setMapStat` and `setReduceStat`; `AllFinished` is `isMapDone` and
  `Done`, which compare numbers.
- `FindUnfinished`, `FindMapsDone`, `FindReducesDone`, `FindNoTask`, `RequestTask`,
  `ReceiveTask` and `PickUp` are a pass of a worker thread up to its work. At the
  pickups in `Disabled` a thread stops for ever, as the code does at 1, 3 and 5.
- `WriteWords` is `writeInDisk` for one bucket, `ReadWords` is `Myshuffle` for one
  file of those listed when the reduce began, `WriteOutput` is `myWrite`.
- `MainWaits`, `StartReduces`, `SeeDone`, `RemoveRow` and `Exit` are `main`;
  `SpuriousWakeup` is a return of `pthread_cond_wait` nobody asked for.
- `Restart` loses the worker process and starts it again: its files are removed, the
  master goes on, and a call the lost process made is answered to no one.

Every file has one word of every bucket. What a file holds is then, for each input
file, how often its words are in it: `mid[i][b][f]` is the number of times map id `i`
has appended the words of file `f` in bucket `b`, and a result of a reduce is the sum
over the files it read.

`master.cpp:157` reads `m_assign_lock.pthread_cond_timedwaitunlock()`, which class
`locker` does not have; it is read as the `unlock()` at the same place of
`waitMapTask`. Timer threads end without a return value; this is read as a return.

### How the RPC modules follow the code

*Messages.* `input_type` and `output_type` are the operators `<<` and `>>` of the
`Serializer`; `input_all` and `output_all` apply them to lists of values. Numbers are
bytes in little-endian order, the one the constructor sets. A `StreamBuffer` knows its
memory, which goes on behind its last byte by whatever is in `Beyond`, its size and
its cursor. The length of a string wraps at `LengthLimit` (65536 in the code).

*Calls.* `Call` is a call up to its `recv`: it makes the request (`RequestOf`) and
sends it, with the byte the message is too long, unless the last call timed out
(`Sends`). `Receive` and `TimeOut` are the two ways `recv` returns; the value is read
as what this call returns (`OutputValue`), and is any of `Uninitialized` where nothing
was read. `Accept` and `call_` are a pass of `run`, which gives `call_` a few bytes
too many (`Data`); `callproxy_` reads the arguments and executes a function that is
bound. Beside its bytes, a request has the number of its call and an answer that of
the request it answers; the code sends neither, so no action reads them. ZeroMQ is
external: a REQ socket (`socket`) must send and receive in turn and throws otherwise,
requests of several clients are taken in any order, nothing is lost between processes
of one host.

*The worker's `main`.* `MainCalls` and `MainTakes` are its calls `getMapNum`,
`getReduceNum` and `Done`, asked until it answers yes; it takes the value of the call
whatever the error code says. The threads (`ThreadCalls`, `ThreadTakes`) set no timeout
and do not ask for the numbers. `JobDone` is the report of the last bucket, after which
the master answers `Done` with yes.

*Promises.* `RemoteCalls` knows no messages, sockets or error codes: calls are made,
served at most once, answered or given up; a call made after one that was given up is
never served; answers are returned once at most and in order, and clients without
timeouts get their own. That calls return is `CallsReturn`. A call is *served* in the
mapping when its client has sent it and neither the server's socket nor `run` has its
request any more; it has *run* when it was executed; *returned* is `answered`.

The Raft and MapReduce modules do not extend `ButtonRpc`: their threads set no
timeout, and they use calls as `RemoteCalls` and `CallsReturn` leave them for such
clients, each served once and answered with its own answer.

## The runs

All Raft configurations bound the number of terms (`MaxTerm`), commands (`MaxStart`),
crashes (`MaxRestarts`) and RPC threads alive per node (`MaxThreads`). `Timers` and
`Senders` name the nodes whose election and broadcast timers can fire; the others only
answer. `Victims` are those `main` may find leading and kill; a kill only takes steps
away from a node, so that one victim is enough for what may never happen. Where
`MaxThreads` is `NumPeers - 1`, a node makes no call while others of its
own are under way: calls are *timely*, which the periods of the code (100 ms
broadcasts, 200-400 ms elections, calls within one host) make the normal case but do
not enforce. Where it is larger, rounds and elections overlap.

| run | instance | shows |
|---|---|---|
| `raft_replication` | 3 nodes, 2 candidates of 1 term, either may lead, 2 commands, timely, fair | `LogMatching`, `MatchIsStored`, `CommittedOnDisk`, `OneCallToEach`, that the cluster implements `ReplicatedLog`, that every election ends and a command that was taken is applied by all |
| `raft_terms` | 3 nodes, 2 candidates, 2 terms, 1 sender, 1 command, 1 kill, 1 crash, timely | terms on disk cover the logs, votes and calls are accounted for, a leader only appends, the wait for votes can end |
| `raft_late_vote` | 3 nodes, 3 terms, late votes | **violated**: `finishedVote` jumps over the size of the cluster and `electionLoop` waits for ever |
| `raft_empty_follower` | 3 nodes, 2 terms, 1 crash | **violated**: an index is committed that no majority holds |
| `raft_two_leaders` | 3 nodes, 2 terms | **violated**: two leaders of one term |
| `raft_reply_term` | 3 nodes, 2 candidates, 2 terms | **violated**: a node that takes the later term of a reply is in the term of its file at once |
| `persister` | 3 saves that add an entry at most to logs of up to 2, 1 of them cut short anywhere, terms and keys 9 and 10, votes -1 and 0, nothing, an entry or a separator behind the buffer, crashes | what was saved leads what is read, the file is empty only before a first write, its tail is what `SavedState` takes it for, and only other widths or a write cut short make a read throw |
| `persister_fragment` | 2 whole saves of up to 2 entries, terms 1 and 2, keys 9 and 10 | **violated**: a node cannot be started on what it has saved |
| `mr_timely` | 2 files, 2 buckets, 3 map threads, one thread of each kind stops, timely, fair | `ReduceAfterMaps`, `CountedOnce`, `CleanedUp`, that the worker implements `WordCount`, and that the job ends |
| `mr_slow` | 2 files, 1 bucket, 2 map threads, slow, 1 restart, lost and spurious wakeups | types and `NoTaskLost` |
| `mr_counted_twice` | 2 files, 2 buckets, 2 map threads, slow | **violated**: words are counted twice |
| `rpc_timeouts` | `main` with a timeout and 4 calls, a thread without and 2 calls, 6 functions of which one is not bound, strings that fit and one that wraps, two memories behind a buffer, two uninitialized values, fair | sockets are used in turn, answers are to the last request sent, calls are executed at most once and return, arguments and results arrive, the library implements `RemoteCalls`, and what `main` may do after a timeout |

In `raft_replication` the timers of two nodes may fire in the one term, so that either
may win, and each may vote for itself and neither win; two commands make entries with an
earlier one to match, and the leader may have sent the first when it takes the second.
Of three nodes, the middle match index is that of the slower follower, as the leader's
own is 0; in larger clusters it differs from both ends, which the proofs below cover
(`MiddleHeld`). Two candidates and two terms in `raft_terms` are what it takes for a
stale vote, a stale leader and a stale reply; one crash reaches every restart state,
since nothing but the files survives it. There, the broadcasts of a leader overlap the
election of another; that the two kinds of threads move one cursor is checked there, and
proved for calls of any lateness (`CursorCorrectness`). Terms run out in `raft_terms`
and the violated runs, where the system then stops and deadlock is not checked.

The MapReduce has three switches for what its code relies on and does not enforce.
`Timely`: no thread is still at work on a task when a timer for it ends (3 s for a
map, 5 s for a reduce). `LateMain`: all maps may be done before `main`, which has only
to create the map threads, comes to wait; the broadcast is then lost and `main` waits
for ever. `Spurious`: the wait may return unasked. `mr_slow` allows all three and
restarts, and checks what must hold even then; `mr_timely` allows none of them.
`MaxHandouts` bounds how often tasks of a kind are handed out: 3 is each of two tasks
once and one of them again, which is all that one stopped thread needs (in `mr_timely`
the job ends within the bound) and all that a repeated execution needs. Three map
threads in `mr_timely` leave two at work, so that a task that is listed again meets
both a thread that has worked and one that has not; two files and two buckets are what
it takes for some tasks to be finished and others not. A worker that has exited stops
the system, and so does a lost broadcast: deadlock is not checked.

Three saves in `persister` are the least that leave a tail of a save before the last:
one that writes, one that writes less, one that writes in between. Two widths of keys,
of terms and of votes are all ways in which a part can outgrow what it is written over
by one character and by two. One of the saves may be cut short, after any of its
characters and in any order with the others: the state before it is then lost, and the
next save lies over what it left. A second would lie over the same kinds of file. What
is behind the buffer is nothing, a text that parses as an entry, and one that ends a
field. A file that cannot be read stops the node.

Four calls of `main` in `rpc_timeouts` are its three questions and one of them again,
so that each answer can come one call late and be read as each other type, and `main`
can be two calls behind. The thread's two calls have strings as arguments and results,
void, and a name nothing is bound to. `LengthLimit` 4 makes one string fit and another
wrap. Calls run out, so the system stops.

**Fairness of Raft** (`FairSpec`, `raft_replication` only). Each thread is scheduled
(weak fairness of each of its steps): a thread waits only for `m_lock`, which no one
holds for long, and for its call, which the server answers. An election timer must
fire only where there is no leader (`Leaderless`), since a leader's broadcasts keep
setting it back; nothing makes a client call `start`, and neither the kill nor the
crash has to happen.

**Fairness of the MapReduce** (`FairSpec`, `mr_timely` only). Every thread of the
worker is scheduled, the server answers the call it has taken, every sleep of a timer
ends, and `main` goes on: nothing blocks but the sleeps, `map_mutex`, which is held
only for a pickup, and the wait for the broadcast, which is a guard and not assumed to
end. Weak fairness is of a thread's step as a whole: it may be any of those it can
take. A stopped thread has none.

**Fairness of the RPC library** (`FairMainSpec`, `rpc_timeouts`). `run` goes on, and
`recv` returns once an answer is there or a timeout is set. It is weak fairness of
`MasterRuns` and of the action of each client, with what enables them written as a
state predicate (`MasterHasWork`, `CanReturn`): whether a message is there never
depends on its bytes. The number of calls is bounded, so no client is starved by the
other. No client has to make a call.

### What the runs show

With timely calls and one leader the cluster is the replicated log it means to be.
With timely work the MapReduce counts every word once, exits with every output
written, and ends, though threads stop with tasks in hand. A node's file gives back
first what was saved last, whatever it held before and whatever memory follows, if it
was written whole and unless the read throws; with entries of several widths it can. A
`write` that is cut short loses the state before it as well as the new one: a header
`10` over `9;0;` is the term `100`. The RPC library gives a client without
timeouts its own answers; after a timeout, a call is not sent and returns the answer
to an earlier one. `main` has then numbers that were never set or that answer another
question (`NumbersOfMaster`), and may leave before the job is done, but only after a
timeout (`LeavesWhenDone`): the number of threads, read as a `bool`, is a yes. The
violated runs are disagreements of the code with its own comments and documentation:

- *Two votes in a term* (`leaderElection.cpp:163-168`). `requestVote` clears its vote
  on a later term, unlocks to compare logs, and casts the vote without looking again.
  In between, the node's own timer or an `appendEntries` moves it on, and it votes in
  a term it has voted in. `raft.md:65` says that the locks make shared data safe.
- *A wait with no end* (`leaderElection.cpp:58`). The loop leaves when exactly all
  calls have finished; a call of an earlier election that returns late is counted too,
  and the count passes the number. The comment says it leaves when all nodes have
  finished.
- *A commit nobody holds* (`logEntriesAppend.cpp:197`). A follower with an empty log
  takes entries for any `prevLogIndex` and answers success; the leader then believes
  it holds what comes before.
- *A term taken and dropped* (`leaderElection.cpp:126-130`). A vote reply of a later
  term makes the node a follower in that term, says the comment and do the lines after
  it; `readRaftState()` then puts the term and vote on disk in their place, and the
  entries on disk behind the log, though its own comment says that it is only called
  when a node is made. The node is a follower of the old term. How far it falls is
  `TermFallsToDisk`, which is proved.
- *A state that cannot be read* (`statePersistence.cpp:113`). A save over wider entries
  leaves a fragment without a comma, and the restart throws (`StartsAgain`). The keys
  of `main` have up to three digits.
- *Words counted twice* (`worker.cpp:265` and `330`). A task is handed out again when
  it has not finished in time, but nothing tells the first worker. If it was slow and
  not stopped, both append their words to the intermediate files (under different map
  ids, or the same file in append mode), or their result to the same output. The
  comment in `map_reduceFun.cpp:26` says that the total of each word is computed.

## What is proved

### Raft

`RaftProofs` proves, for every number of nodes, every bound and every interleaving,
that `Spec` implies

- `TypeCorrectness`: `[]TypeOK`;
- `CursorCorrectness`: `[]CalleeValid`, the shared cursor names a node other than the
  caller;
- `TermsOnDisk`: `[]TermCoversLog`, terms on disk cover memory, disk and entries in
  flight;
- `TermsFallToDisk`: `TermFallsToDisk`, a term goes back only to the one on disk, and
  the node then follows (that it goes back without a restart is the finding of
  `raft_reply_term`);
- `LeadersAppendOnly`: `LeaderAppendOnly`, a node that goes on leading only appends to
  its log.

`CalleeValid` and `TermFallsToDisk` are not checked by a run: the one is a part of what
makes `TypeOK` inductive, the other what remains of a rule the code breaks.

The only assumptions are those on the constants in `RaftState` (`NumPeersAssumption`,
`TimersAssumption`, `BoundsAssumption`).

*Types and cursor.* `TypeOK` alone is not inductive: the callee of an RPC thread is
`cur_peerId` or the number after it, and a request to a node outside of `Peer` would
follow if the cursor could stand at the last node when that is the caller. `TypeInv`
adds `CalleeValid`, and for a cluster of one node `LoneNodeSilent`: it has no RPC
thread. The proof has one lemma per action (`StartElectionTypes`, ...),
`CursorLeftAlone` and `CursorAdvanced` for the two things an action does to the
cursor, and facts about bags (`AddedToBag`, `RemovedFromBag`).

*Terms.* `TermCoversLog` is inductive over `TypeInv`. Each of its parts is needed for
another: that entries in memory are no later than the term on DISK (not just in
memory) is what a crash needs; that a candidate or leader has its term on disk is what
`start`, which adds an entry and saves nothing, needs; that entries of a request are
no later than its term is what the follower that takes them needs. `Covered` states it
of one node, `OneNodeCovered` reduces an action to the node it touches, and
`UpToWritten` says what a save over a longer file leaves.

*Steps.* The last two are action properties. They need no more than `TypeInv`, by
which every action names its node: `FallsToDisk` and `AppendsOnly` state them of one
node, and each action is shown to keep them for the node it touches.

`RaftCallProofs` counts threads. It proves

- `VotesCounted`: `[]VotesAccounted`, in every cluster and however elections overlap:
  votes never exceed the calls that have finished, both of whatever election, and none
  of the calls a candidate waits for is lost (not that its votes are of its own
  election, which they need not be);
- `WaitsEnd`: `[]WaitCanEnd`, and
- `CallsToEach`: `[]OneCallToEach`, both assumed `Timely` (`MaxThreads <= NumPeers - 1`).

Without `Timely` the last two are false of the code: `raft_late_vote` is a wait that
does not end, and rounds that overlap call a node twice.

*Places of threads.* `ThreadsPlaced` says that a thread that has not returned is at
exactly one place: spawned, in a request no server has taken, in the call a server is
in the middle of, or in a reply (`VoteThreadsPlaced`; for entries, `SendThreadsPlaced`).
The bags of requests and replies are counted copy by copy (`Copies`, `Count`), so that
two equal calls count as two. `AddCounts`, `RemoveCounts`, `ServerTakes` and
`ServerAnswers` say what a step does to the counts, and a thread only moves from one
place to the next.

*Elections.* `BallotsCounted` is `VotesAccounted` over these counts: calls finished and
threads left come to the size of the cluster at least. Where calls are timely they come
to exactly that (`BallotsExact`), so that the last thread to return ends the wait.

*Rounds.* The threads of a round take their callee from a cursor that moves with each
of them. `Before(n, p)` is how many calls `n` makes before it comes to `p`;
`RoundGoesOn`, that the threads which have not called are no more than the calls before
any node that was called already, is what makes the next callee a new one. It needs
that a node is in an election or in a round and never in both (`OneRound`), for vote
threads move the same cursor.

`RaftLogProofs` proves, assumed `OneCandidate(L)`, that `Spec` implies

- `LogsMatch`: `[]LogMatching`;
- `MatchStored`: `[]MatchIsStored`, of logs in memory;
- `CommittedSurvives`: `[]CommittedOnDisk`;
- `Implementation`: `ImplementsReplicatedLog`, the cluster implements `ReplicatedLog`;

for a cluster of any size and any number of commands. `OneCandidate(L)` says that only
the election timer of `L` fires, that the process does not crash, and that calls are
timely: the world of `raft_replication`, where another timer may fire as well. The
statements are false of the code outside of it, as the violated runs show: with a crash,
a follower with an empty log takes entries that do not fit (`raft_empty_follower`), and
with two candidates, two nodes lead the same term (`raft_two_leaders`).

*Roles.* `RolesInv` says that the others follow, vote for `L` and answer its calls with
yes (`OthersFollow`, `VoteCallsOf`, `EntryCallsOf`), so that its one election is won
(`WinsElection`). It is not obvious of this code: a reply with another term would make
`L` step down and read its file back, and an election would spawn threads in the middle
of a round.

*Logs.* `LogsInv`: every other log is a start of that of `L` and on disk (`LogsBegin`);
with no call under way `L` knows how long it is (`IndexesKnow`); a request continues the
log it is sent to (`RequestsFit`) and a reply tells what the log has become
(`RepliesFit`); what is committed is held by a majority (`CommitsHeld`). That there is
one call to each node (`RoundInv`) is what keeps the two indexes and the call in step: a
second one would be for entries the first has already brought. The commit index is the
middle of the match indexes; that a majority of nodes has its entries is what a middle
value of `NumPeers` values is (`MiddleHeld`), the leader's own index counting as 0.

*Refinement.* `LeaderMaps` says that the longest log is that of `L`, and so is the
largest commit index, and that what a node has applied is a start of it. Each action is
then one of four kinds by what it does to these three (`AbstractSteps`), each of them
a step of `ReplicatedLog` or a stutter (`StepsMap`).

### MapReduce

`MapReduceProofs` proves, for every number of files, buckets and map threads and every
choice of the switches and bounds, that `Spec` implies

- `TypeCorrectness`: `[]TypeOK`, with tasks of the two kinds kept apart;
- `TasksKept`: `[]NoTaskLost`, an unfinished task is listed, on its way to a worker,
  or behind the cursor;
- `MapsComeFirst`: `[]ReduceAfterMaps`, assumed `~Spurious`, which the code needs as
  it tests nothing after its wait.

The assumptions are `TasksAssumption` and `WorkersAssumption` on the constants.
`TypeOK` and `NoTaskLost` are proved together, as `TypeInv`: a timer that ends reads
the vector at the cursor, which is inside only if `cur + timers` is the length of the
vector, the first part of `NoTaskLost`; and the same equation is why the last
unfinished task behind the cursor has a timer to list it again. `Has` and `Behind`
state what a list holds, with lemmas for the three things done to one (`Appended`,
`Shortened`, `MovedPast`); the master's actions are dealt with once per property
(`TakeTaskKeeps`, ...), and each action of the worker cites them. `MapsComeFirst` adds
`Ordered`: no reduce thread has started while `main` is still to be woken, and when it
has been, the maps are finished; that as many finished maps as files are all of them
(`AllOfThem`) is where `TypeInv` is needed.

`MapReduceOnce` proves, assumed `Timely`, `~Spurious` and `MaxRestarts = 0`, each of
which the code relies on without enforcing it, that `Spec` implies

- `EveryWordOnce`: `[]CountedOnce`;
- `NoFileLeft`: `[]CleanedUp`;
- `OutputsAsPromised`: `OutputsPromised`, the worker implements `WordCount`.

The invariant `OnceInv` has five parts, over `TypeInv` and `Ordered`. `Exclusive`: a
task is at one place of the master (listed, in the call under way, or behind the
cursor), and a thread that may still work on its task is the only one that does, with
the task neither finished nor listed. A timer that ends could break it, by listing a
task again that someone works on; that nobody does is what `Timely` says. `MainOrder`:
`main` removes files only when every bucket is finished, so that by `Exclusive` nobody
writes or reads them any more. `WordsOnce`: the words of a file are in at most one
intermediate file of each bucket, put there by a thread that is at work or has
finished it, and in exactly one when it is finished. `ReadOnce`: what a reduce has
summed up is what is not in the files it has left to read; with `WordsOnce` it reads
every word once. `OutputOnce`: an output is there, complete, exactly if its bucket is
finished or its thread is about to report. Only seven kinds of steps read, write or
report (`QuietOrNot`); each has a lemma.

### A node's file

`PersisterProofs` proves, for any terms, votes and keys, any number and lengths of
saves, losses of the process between any two steps and within a write, and any memory
behind the buffer, that `Spec` of `Persister` implies

- `SavedLeads`: `[]SavedStateLeads`, after a whole write and until one is cut short;
- `EmptyOnlyBeforeFirst`: `[]EmptyBeforeFirst`, before the first character is written;

and, when `HarmlessMemory` holds of that memory, that it implies

- `FileTypes`: `[]TypeOK`;
- `TailIsAsWritten`: `[]TailAsWritten`, while no write was cut short;
- `OnlyFragmentsThrow`: `[]ThrowsOnFragments`, on fragments of other widths or of a
  write cut short.

The only assumption is `FileAssumption`: terms, votes and keys are naturals, and what
lies in memory are characters.

`HarmlessMemory` is a hypothesis of the last three, not an assumption, since nothing in
the code sees to it: `string(buf)` reads on behind the buffer to the first NUL. It says
three things of what lies there. It is not by itself a term, a vote and entries: else a
node whose process was lost in its first save, between `open` and `write`, starts with
whatever is there. No term in it has a sign: else `TypeOK` fails, as a node has a
negative term in its log. And what ends with a dot in it has a comma, not at its
beginning: without the comma `deserialize` throws as on a fragment, and with nothing
before it a node gets an entry without a command, which may have the width of the others
when it is saved and then loses its comma to a longer header. Memory that
begins with a NUL is harmless, and so are the memories of `BeyondValues`, some of which
hold entries: TLC evaluates `MemoryIsHarmless` with the run.

The state of the program adds little. `FileInv` says that what a node has in memory are
numbers and entries whose commands have none of the characters the file uses for itself
(`CleanState`), and that the text of what was saved last begins the file
(`SavedBegins`): `open` leaves the file, `write` puts the new text first whatever tail
it leaves, and a write cut short makes `saved` empty. That memory is clean has to be
shown of reads as well, since a node saves what it read: what `deserialize` makes of
*any* file is clean (`ReadIsClean`), if it makes anything.

What remains is that `deserialize` reads, from a file that begins with the text of a
state, that state (`SavedIsRead`). It is proved in the order of the code.

*Numbers.* `atoi(to_string(n)) = n` for every integer (`NumberComesBack`): the digits
are those of repeated division, which comes to nothing (`QuotientsAre`), and summing
them up goes the same way back (`NumberOfDigits`).

*The loops.* A loop over a text is the sequence of what it has after each character
(`Turns`). Over characters that end no part, `tmp` gets them all (`RunsOn`); a text
with what ends it becomes a part (`PartScanned`); and what the loop has at one place,
it leads with at every later one (`TurnsLead`), which is where the tail of an older
save, and what lies behind the buffer, come in without harm.

*The text.* The header is two parts, the third begins with the entries
(`FieldsScanned`), of which each is a part of the second loop (`EntriesScanned`), and
each is parsed to the entry it was written from (`EntryComesBack`). The NUL at which
`string(buf)` ends is not in the text (`CStringKeeps`).

*Signs.* For `TypeOK` the terms read have to be naturals. In what nodes write no sign
follows a comma and no text ends with a comma (`Tidy`), also after a write over
something longer (`TidyRest`), so there is none where memory begins either; and a part
of a loop is a piece cut out of its text (`ScanCut`).

*Writes cut short.* `WritesWhole` is a condition, not an assumption: that a write is
whole is nothing the code sees to. What holds with it is proved by an invariant under
the condition (`TypedWhole`, `WidthWhole`), since no write was cut short before a step
if none was after it (`WholeBefore`). Without it `RunInv` still says that the file
begins with a digit: a write cut short has written one character at least, and that is
the first of a term. So a term that is read has no sign, whatever the rest is.

*Cells.* `TailAsWritten` and `ThrowsOnFragments` are about what is behind the last save,
where nothing of the state remains but what older saves have left. `Shape(s, h, w, log)`
says what this is when every header had `h` or `h + 1` characters and every entry `w`:
there is a cell of `w` characters for each entry of `log`, at a fixed place. A cell has
the text of its entry there or, behind a longer header, one character further; or it has
lost its first character, to the dot or semicolon that ended a text moved by one, and
the rest is in place. After the cells comes at most one dot. A write over a file of this
shape leaves one (`ShapeWritten`), for the log that `Written` of `SavedState` computes,
whatever the lengths of the two logs and the two headers.

`deserialize` finds the same in it (`ShapeRead`): its third field begins behind the
header, or one character later when an old header's semicolon is still there
(`ThirdBegins`); each cell is a part of the second loop, whole or without the first
character (`CellTaken`); and what comes after them is cut out of memory, with a comma in
it (`PieceBehind`).

*Widths.* `WidthInv` relates this to the history that `EqualWidths` is about. It has the
shape for every `h` and `w` that all saves so far fit (`ShapeSaved`), and, less
obviously, that no entry saved was without a command (`KeptCommands`): one would lose its
comma as its first character, and the next read would throw. A node does read
entries of which the command is gone, when it had one character. They are then
shorter than an entry that was saved (`MemoryCommands`, `ShortIs`), so that saving one
makes the widths unequal: the argument is circular but for this, which is why the
invariant is about what is in memory too.

The recursive functions in `Digits`, `Number`, `Scan` and `Entries` are dealt with as
in `RpcValueProofs` below, without an induction rule; that such a function exists is
`Recursion`.

### RPC library

`ButtonRpcProofs` proves, for any clients, functions, arguments, results and numbers
of calls, that `Spec` implies

- `SocketsInTurn`: `[]SocketInTurn`;
- `AnswersOfLastSent`: `[]AnswersLastSent`;
- `AtMostOnce`: `[]ExecutedOnce`;
- `LibraryKeepsPromise`: `CallsServed`, the library implements `RemoteCalls`;

and `WorkerUsesLibrary`, that `MainSpec` implies `Spec`: all of this holds for the
worker. The assumptions are `ClientsAssumption`, `MainAssumption` and
`MasterAssumption`. Nothing here depends on the bytes of a message: these proofs never
expand the operators of the `Serializer`.

`RpcInv` is the invariant, for each client: its calls are over one after the other,
and the error code tells whether the last one timed out (`InOrder`); a client whose
turn it is to send has nothing under way, and one whose turn it is to receive has
exactly the last request it sent, at the server's socket, in `run` or answered
(`InTurn`, `UnderWay`); a request that is not yet served has not been executed
(`Executions`); and what calls have taken is what `AnswersLastSent` says (`Taken`). A
step of one client or of the server on its behalf leaves the others' parts alone
(`ClientAlone`). The refinement has a lemma per action: a call makes, `Receive`
answers, `TimeOut` gives up, `call_` serves, and `Accept` is a stutter.

`RpcValueProofs` goes down to the bytes. It proves

- `ValuesComeBack`: what `input_all` writes, `output_all` reads back, for any list of
  values of any types, whatever memory holds behind the buffer;
- `LibraryTypes`: `[]TypeOK`;
- `ArgumentsOfCaller`: `[]ArgumentsArrive`;
- `ResultsOfFunction`: `[]ResultsArrive`;

for `Spec`, and for the worker's `MainSpec`

- `MainHasNumbers`: `[]NumbersOfMaster`;
- `MainLeavesWhenDone`: `[]LeavesWhenDone`.

It assumes `ValuesAssumption`: arguments and results are values of their types, in as
many bits as C++ gives them (`Values`), since the code passes nothing else; names are
shorter than the length field can tell, as string literals are; and memory goes on for
two bytes behind a buffer, which are those that `zmq_msg_data` buffers are read beyond
(`buttonrpc.cpp:66`, `buttonrpc_imp1.hpp:122`). `MasterAssumption` says that the master
binds the three functions `main` calls, with the results it expects.

*Numbers and strings.* A number of 16 or 32 bits is the sum of its bytes times powers
of 256, and the signed one that sum in two's complement. What recursive functions
compute is proved without an induction rule, from the well-foundedness of `<` on the
naturals: were there a number of bytes, or of values, for which the statement fails,
the least of them would contradict the step (`LeastOf`, `InductionOn`). A string comes
back as the part its wrapped length tells (`Wrapped`); a string that fits comes back
whole, which is the condition in `ArgumentsArrive` and `ResultsArrive`.

*Places.* A message is a memory in which each value has a place (`Holds`, `Laid`). A
read at the place of a value gives it and moves the cursor to the next (`ReadNext`);
that the cursor is not at the end of the buffer, all that the code looks at, follows
from the place. The extra bytes lie behind the last place and are never read.

*Messages.* `ValueInv` adds to `RpcInv`, for each client, that a request on its way is
that of the call it belongs to and an answer that of what its call has returned
(`Messages`), that calls were made with values of their types (`Called`), that what was
executed got what was passed (`Executed`), and that a result is read from the answer
taken (`Returned`): as the value if the answer is the call's own, and as something of
the type asked for if it is another's. That a late answer of another type is read as
*some* value is why `NumbersOfMaster` can say what `main` has after a timeout.

*The worker's `main`.* `MainInv` says which call is which (`MainAsked`): the first asks
for the number of maps, the second for that of reduces, and what it returns is the
answer to the first if that one timed out; later ones ask whether the job is done. A
yes that is the answer to such a call was true when it was given, and stays true
(`MainKnows`).

### Only model-checked

- Liveness, which is beyond the prover: `StartedIsApplied` and `ElectionEnds` of Raft,
  `JobEnds` of the MapReduce, `CallsReturn` of the RPC library.

## Not modelled

- Durations: a timer may fire whenever its guard holds, within the bounds.
- `printLogs` and logging. `raft_origin.cpp`, which no build names, `example/`
  (programs for Windows), `depends/` (vendored ZeroMQ headers).
- The big-endian branch of the `Serializer`, which nothing selects.
- The names of input files: a name given twice counts once as finished
  (`master.cpp:184`), and a requeued task is a pointer into a string of a vector that
  may move (`master.cpp:112`).
- The words: `mapF`, `reduceF`, `split` and `ihash` are pure; words within a bucket
  are written together.
- `getContent` of the worker reads a file into a buffer and makes a string of it
  without a NUL (`worker.cpp:88`), as `deserialize` does; what words then follow is
  not modelled.

## Plan

1. `Persister` composed with `RaftReplication`, for commands whose keys have several
widths. 2. Storage of file names in the master: the vector that moves, and names given
twice.

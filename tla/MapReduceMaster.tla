-------------------------- MODULE MapReduceMaster --------------------------
(***************************************************************************)
(* The master of mapreduce/master.cpp: the tasks it hands out, and the     *)
(* timers that list a task again when it is not finished in time.          *)
(*                                                                         *)
(* The master serves one RPC at a time, so only its timer threads run      *)
(* beside a call, and m_assign_lock makes each action a critical section.  *)
(* Map and reduce tasks are kept alike; a map task is the index of its     *)
(* file in argv.  master.cpp:157 does not compile as it stands and is read *)
(* as the unlock its twin for map tasks has.                               *)
(***************************************************************************)
EXTENDS Integers, Sequences, FiniteSets

CONSTANTS
    FileNum,       \* fileNum, the files given on the command line
    ReduceNum,     \* m_reduceNum
    MaxHandouts    \* bound: tasks of one kind handed out, repeated ones too

ASSUME TasksAssumption ==
    FileNum \in Nat \ {0} /\ ReduceNum \in Nat \ {0} /\ MaxHandouts \in Nat

Kind == {"map", "reduce"}
Task(kind) == IF kind = "map" THEN 1..FileNum ELSE 0..(ReduceNum - 1)

VARIABLES
    todo,          \* m_list and reduceIndex: tasks to hand out, last first
    running,       \* runningMapWork and runningReduceWork
    cur,           \* curMapIndex and curReduceIndex
    finished,      \* the keys of finishedMapTask and finishedReduceTask
    timers,        \* timer threads that have not ended
    serving        \* the assign call that has unlocked in the middle

masterVars == <<todo, running, cur, finished, timers, serving>>

Idle == [step |-> "idle"]

(* Master() and GetAllFile(): every task is listed, in order.              *)
MasterInit ==
    /\ todo = [kind \in Kind |->
                 IF kind = "map" THEN [i \in 1..FileNum |-> i]
                                 ELSE [i \in 1..ReduceNum |-> i - 1]]
    /\ running = [kind \in Kind |-> <<>>]
    /\ cur = [kind \in Kind |-> 0]
    /\ finished = [kind \in Kind |-> {}]
    /\ timers = [kind \in Kind |-> 0]
    /\ serving = Idle
-----------------------------------------------------------------------------
(* isMapDone() and Done() compare numbers.                                 *)
AllFinishedButOne(kind) ==                      \* variant: off by one
    Cardinality(finished[kind]) >= Cardinality(Task(kind)) - 1
AllFinished(kind) == Cardinality(finished[kind]) = Cardinality(Task(kind))

(* assignTask() and assignReduceTask() with nothing to hand out.           *)
NothingToAssign(kind) ==
    /\ serving = Idle
    /\ AllFinished(kind) \/ todo[kind] = <<>>

(* assignTask() and assignReduceTask(), up to the unlock: the last task    *)
(* listed is taken for the caller, and no timer watches it yet.            *)
TakeTask(kind, caller) ==
    /\ serving = Idle
    /\ ~AllFinished(kind) /\ todo[kind] # <<>>
    /\ Len(running[kind]) < MaxHandouts
    /\ serving' = [step |-> "taken", kind |-> kind, caller |-> caller,
                   task |-> todo[kind][Len(todo[kind])]]
    /\ todo' = [todo EXCEPT ![kind] = SubSeq(@, 1, Len(@) - 1)]
    /\ UNCHANGED <<running, cur, finished, timers>>

(* waitMap() and waitReduce(): the task is watched by a timer of its own.  *)
waitTask ==
    /\ serving # Idle
    /\ running' = [running EXCEPT ![serving.kind] = Append(@, serving.task)]
    /\ timers' = [timers EXCEPT ![serving.kind] = @ + 1]
    /\ serving' = Idle
    /\ UNCHANGED <<todo, cur, finished>>

(* The task the next timer to end looks at, whichever timer that is.       *)
Watched(kind) == running[kind][cur[kind] + 1]

RelistedAlways(kind) ==                         \* variant: finished ones too
    Append(todo[kind], Watched(kind))
RelistedWhenLast(kind) ==                       \* variant: only the newest
    IF Watched(kind) \in finished[kind] \/ timers[kind] > 1 THEN todo[kind]
    ELSE Append(todo[kind], Watched(kind))
RelistedCursor(kind) ==                         \* variant: its index
    IF Watched(kind) \in finished[kind] THEN todo[kind]
    ELSE Append(todo[kind], cur[kind])
Relisted(kind) ==
    IF Watched(kind) \in finished[kind] THEN todo[kind]
    ELSE Append(todo[kind], Watched(kind))

(* waitMapTask() and waitReduceTask() after the sleep: the task at the     *)
(* cursor is listed again if it is not finished, and the cursor moves on.  *)
TimerEnds(kind) ==
    /\ timers[kind] > 0
    /\ todo' = [todo EXCEPT ![kind] = Relisted(kind)]
    /\ cur' = [cur EXCEPT ![kind] = @ + 1]
    /\ timers' = [timers EXCEPT ![kind] = @ - 1]
    /\ UNCHANGED <<running, finished, serving>>

(* setMapStat() and setReduceStat().                                       *)
SetStat(kind, task) ==
    /\ serving = Idle
    /\ finished' = [finished EXCEPT ![kind] = @ \cup {task}]
    /\ UNCHANGED <<todo, running, cur, timers, serving>>
=============================================================================

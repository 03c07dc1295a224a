----------------------------- MODULE MapReduce -----------------------------
(***************************************************************************)
(* The worker process of mapreduce/worker.cpp against the master: its map  *)
(* and reduce threads, the intermediate and output files, and main().      *)
(*                                                                         *)
(* Each file has one word of each bucket, so that what a file holds is how *)
(* often the words of each input file are in it.                           *)
(***************************************************************************)
EXTENDS MapReduceMaster

CONSTANTS
    MapNum,        \* map_task_num, the number of map threads
    Disabled,      \* the pickups at which a thread of either kind stops
    Timely,        \* no working thread outlives the timeout of its task
    LateMain,      \* the maps may be done before main() waits for them
    Spurious,      \* the condition variable may wake main() by itself
    MaxRestarts    \* bound: crashes of the worker process

File == Task("map")
Bucket == Task("reduce")
MapId == 1..MapNum
Thread == ({"map"} \X MapId) \cup ({"reduce"} \X Bucket)
KindOf(t) == t[1]

ASSUME WorkersAssumption ==
    /\ MapNum \in Nat \ {0} /\ Disabled \subseteq Nat
    /\ Timely \in BOOLEAN /\ LateMain \in BOOLEAN /\ Spurious \in BOOLEAN
    /\ MaxRestarts \in Nat

VARIABLES
    pc,            \* where each thread is
    task,          \* the task it works on
    left,          \* buckets still to write, or intermediate files to read
    sum,           \* what a reduce has read so far
    pickups,       \* disabledMapId and disabledReduceId
    mid,           \* the intermediate files mr-<map id>-<bucket>
    out,           \* what was appended to output/mr-out-<bucket>
    mainPc,        \* where main() is
    cleaned,       \* how far removeFiles() has come
    restarts       \* crashes so far

threadVars == <<pc, task, left, sum, pickups>>
fileVars == <<mid, out>>
mainVars == <<mainPc, cleaned, restarts>>
vars == <<masterVars, threadVars, fileVars, mainVars>>

NoWords == [f \in File |-> 0]
Plus(a, b) == [f \in File |-> a[f] + b[f]]
mapF(f) == [NoWords EXCEPT ![f] = 1]            \* the words of a file
Alive == mainPc # "exited"

(* What a new worker process starts with: it has removed the files of the  *)
(* one before.                                                             *)
NewThreads == [t \in Thread |-> IF KindOf(t) = "map" THEN "asking" ELSE "new"]
AnyTask == [t \in Thread |-> IF KindOf(t) = "map" THEN 1 ELSE 0]
NoFiles == [i \in MapId |-> [b \in Bucket |-> NoWords]]

Init ==
    /\ MasterInit
    /\ pc = NewThreads
    /\ task = AnyTask
    /\ left = [t \in Thread |-> {}]
    /\ sum = [t \in Thread |-> NoWords]
    /\ pickups = [kind \in Kind |-> 0]
    /\ mid = NoFiles
    /\ out = [b \in Bucket |-> <<>>]
    /\ mainPc = "creating"
    /\ cleaned = 0
    /\ restarts = 0
-----------------------------------------------------------------------------
Goto(t, place) == pc' = [pc EXCEPT ![t] = place]

(* A thread asks isMapDone() or Done() and goes on to ask for a task.      *)
FindUnfinished(t) ==
    /\ Alive /\ pc[t] = "asking" /\ serving = Idle
    /\ ~AllFinished(KindOf(t))
    /\ Goto(t, "wanting")
    /\ UNCHANGED <<masterVars, task, left, sum, pickups, fileVars, mainVars>>

(* A map thread finds all maps done: it wakes main(), if that waits, and   *)
(* ends.  No one remembers a broadcast nobody waits for.                   *)
FindMapsDone(t) ==
    /\ Alive /\ pc[t] = "asking" /\ serving = Idle
    /\ KindOf(t) = "map" /\ AllFinished("map")
    /\ LateMain \/ mainPc # "creating"
    /\ Goto(t, "gone")
    /\ mainPc' = IF mainPc = "waiting" THEN "woken" ELSE mainPc
    /\ UNCHANGED <<masterVars, task, left, sum, pickups, fileVars, cleaned,
                   restarts>>

FindReducesDone(t) ==
    /\ Alive /\ pc[t] = "asking" /\ serving = Idle
    /\ KindOf(t) = "reduce" /\ AllFinished("reduce")
    /\ Goto(t, "gone")
    /\ UNCHANGED <<masterVars, task, left, sum, pickups, fileVars, mainVars>>

(* assignTask() answers "empty", assignReduceTask() -1: ask again.         *)
FindNoTask(t) ==
    /\ Alive /\ pc[t] = "wanting"
    /\ NothingToAssign(KindOf(t))
    /\ Goto(t, "asking")
    /\ UNCHANGED <<masterVars, task, left, sum, pickups, fileVars, mainVars>>

RequestTask(t) ==
    /\ Alive /\ pc[t] = "wanting"
    /\ TakeTask(KindOf(t), t)
    /\ Goto(t, "calling")
    /\ UNCHANGED <<task, left, sum, pickups, fileVars, mainVars>>

(* The assign call returns, to a thread that may be gone with its process. *)
ReceiveTask ==
    /\ waitTask
    /\ LET t == serving.caller IN
       IF Alive /\ pc[t] = "calling"
       THEN Goto(t, "holding") /\ task' = [task EXCEPT ![t] = serving.task]
       ELSE UNCHANGED <<pc, task>>
    /\ UNCHANGED <<left, sum, pickups, fileVars, mainVars>>

(* A thread counts its pickup, under map_mutex, and stops for ever at some *)
(* of them.  Another reads its input file, or lists the intermediate files *)
(* of its bucket.                                                          *)
PickUp(t) ==
    LET kind == KindOf(t) IN
    /\ Alive /\ pc[t] = "holding"
    /\ pickups' = [pickups EXCEPT ![kind] = @ + 1]
    /\ IF pickups[kind] \in Disabled
       THEN Goto(t, "stopped") /\ UNCHANGED <<left, sum>>
       ELSE /\ Goto(t, "working")
            /\ left' = [left EXCEPT ![t] =
                 IF kind = "map" THEN Bucket
                 ELSE {i \in MapId : mid[i][task[t]] # NoWords}]
            /\ sum' = [sum EXCEPT ![t] = NoWords]
    /\ UNCHANGED <<masterVars, task, fileVars, mainVars>>

(* writeInDisk(): the words of one bucket are appended to their file.      *)
WriteWords(t, b) ==
    /\ Alive /\ pc[t] = "working" /\ KindOf(t) = "map" /\ b \in left[t]
    /\ mid' = [mid EXCEPT ![t[2]][b] = Plus(@, mapF(task[t]))]
    /\ left' = [left EXCEPT ![t] = @ \ {b}]
    /\ UNCHANGED <<masterVars, pc, task, sum, pickups, out, mainVars>>

(* Myshuffle() reads the next of the files it has listed; one removed      *)
(* meanwhile gives nothing.                                                *)
ReadWords(t, i) ==
    /\ Alive /\ pc[t] = "working" /\ KindOf(t) = "reduce" /\ i \in left[t]
    /\ sum' = [sum EXCEPT ![t] = Plus(@, mid[i][task[t]])]
    /\ left' = [left EXCEPT ![t] = @ \ {i}]
    /\ UNCHANGED <<masterVars, pc, task, pickups, fileVars, mainVars>>

(* A reduce appends its result to the output of its bucket.                *)
WriteOutput(t) ==
    /\ Alive /\ pc[t] = "working" /\ KindOf(t) = "reduce" /\ left[t] = {}
    /\ out' = [out EXCEPT ![task[t]] = Append(@, sum[t])]
    /\ Goto(t, "reporting")
    /\ UNCHANGED <<masterVars, task, left, sum, pickups, mid, mainVars>>

(* The thread tells the master, and looks for the next task.               *)
ReportMap(t) ==
    /\ Alive /\ pc[t] = "working" /\ KindOf(t) = "map" /\ left[t] = {}
    /\ SetStat("map", task[t])
    /\ Goto(t, "asking")
    /\ UNCHANGED <<task, left, sum, pickups, fileVars, mainVars>>

ReportReduce(t) ==
    /\ Alive /\ pc[t] = "reporting" /\ KindOf(t) = "reduce"
    /\ SetStat("reduce", task[t])
    /\ Goto(t, "asking")
    /\ UNCHANGED <<task, left, sum, pickups, fileVars, mainVars>>
-----------------------------------------------------------------------------
(* main() has created the map threads and comes to pthread_cond_wait.      *)
MainWaits ==
    /\ mainPc = "creating"
    /\ mainPc' = "waiting"
    /\ UNCHANGED <<masterVars, threadVars, fileVars, cleaned, restarts>>

(* POSIX lets the wait return unasked, and no predicate is tested after it.*)
SpuriousWakeup ==
    /\ Spurious /\ mainPc = "waiting"
    /\ mainPc' = "woken"
    /\ UNCHANGED <<masterVars, threadVars, fileVars, cleaned, restarts>>

StartReduces ==
    /\ mainPc = "woken"
    /\ mainPc' = "polling"
    /\ pc' = [t \in Thread |-> IF KindOf(t) = "reduce" THEN "asking" ELSE pc[t]]
    /\ UNCHANGED <<masterVars, task, left, sum, pickups, fileVars, cleaned,
                   restarts>>

SeeMapsDone ==                                  \* variant: asks isMapDone()
    /\ mainPc = "polling" /\ serving = Idle /\ AllFinished("map")
    /\ mainPc' = "cleaning"
    /\ UNCHANGED <<masterVars, threadVars, fileVars, cleaned, restarts>>
SeeDone ==
    /\ mainPc = "polling" /\ serving = Idle /\ AllFinished("reduce")
    /\ mainPc' = "cleaning"
    /\ UNCHANGED <<masterVars, threadVars, fileVars, cleaned, restarts>>

(* removeFiles(), the files of one map id at a time.                       *)
RowsButOne == MapNum - 1                        \* variant: off by one
Rows == MapNum
RemoveRow ==
    /\ mainPc = "cleaning" /\ cleaned < Rows
    /\ cleaned' = cleaned + 1
    /\ mid' = [mid EXCEPT ![cleaned + 1] = [b \in Bucket |-> NoWords]]
    /\ UNCHANGED <<masterVars, threadVars, out, mainPc, restarts>>

(* main() returns, and every thread of the process ends with it.           *)
Exit ==
    /\ mainPc = "cleaning" /\ cleaned = Rows
    /\ mainPc' = "exited"
    /\ UNCHANGED <<masterVars, threadVars, fileVars, cleaned, restarts>>

(* The worker process is lost and started again; the master goes on.       *)
Restart ==
    /\ Alive /\ restarts < MaxRestarts
    /\ restarts' = restarts + 1
    /\ pc' = NewThreads
    /\ task' = AnyTask
    /\ left' = [t \in Thread |-> {}]
    /\ sum' = [t \in Thread |-> NoWords]
    /\ pickups' = [kind \in Kind |-> 0]
    /\ mid' = NoFiles
    /\ out' = [b \in Bucket |-> <<>>]
    /\ mainPc' = "creating"
    /\ cleaned' = 0
    /\ UNCHANGED masterVars
-----------------------------------------------------------------------------
(* A timer of a task ends.  Where work is timely, whoever has the task at  *)
(* the cursor has stopped or finished it by then.                          *)
Expire(kind) ==
    /\ TimerEnds(kind)
    /\ Timely => \A t \in Thread :
         KindOf(t) = kind /\ task[t] = Watched(kind)
             => pc[t] \notin {"holding", "working", "reporting"}
    /\ UNCHANGED <<threadVars, fileVars, mainVars>>

mapWorker(t) ==
    \/ FindMapsDone(t)
    \/ \E b \in Bucket : WriteWords(t, b)
    \/ ReportMap(t)

reduceWorker(t) ==
    \/ FindReducesDone(t)
    \/ \E i \in MapId : ReadWords(t, i)
    \/ WriteOutput(t)
    \/ ReportReduce(t)

ThreadStep(t) ==
    \/ FindUnfinished(t) \/ FindNoTask(t) \/ RequestTask(t) \/ PickUp(t)
    \/ mapWorker(t) \/ reduceWorker(t)

main == MainWaits \/ StartReduces \/ SeeDone \/ RemoveRow \/ Exit

Next ==
    \/ \E t \in Thread : ThreadStep(t)
    \/ ReceiveTask
    \/ \E kind \in Kind : Expire(kind)
    \/ main
    \/ SpuriousWakeup
    \/ Restart

Spec == Init /\ [][Next]_vars

(* Every thread of both processes is scheduled, every call is answered,    *)
(* every sleep ends.                                                       *)
Fairness ==
    /\ \A t \in Thread : WF_vars(ThreadStep(t))
    /\ WF_vars(ReceiveTask)
    /\ \A kind \in Kind : WF_vars(Expire(kind))
    /\ WF_vars(main)

FairSpec == Spec /\ Fairness
=============================================================================

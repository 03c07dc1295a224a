----------------------------- MODULE WorkerMain -----------------------------
(***************************************************************************)
(* The calls of main() of mapreduce/worker.cpp, the one client that sets a *)
(* timeout: it asks the master for the numbers of map and reduce threads,  *)
(* and then until the job is done.  The worker threads are the patient     *)
(* clients.  What main() does between its calls is in MapReduce.           *)
(***************************************************************************)
EXTENDS ButtonRpc

CONSTANTS MapNum, ReduceNum, Main

ASSUME MainAssumption == Main \in Client \ Patient

VARIABLES
    mainPc,           \* the call main() is at
    map_task_num, reduce_task_num,
    done              \* whether the reduces are done

mainVars == <<mainPc, map_task_num, reduce_task_num>>
workerVars == <<vars, mainVars, done>>

MainInit ==
    /\ Init
    /\ mainPc = "getMapNum"
    /\ map_task_num = 0
    /\ reduce_task_num = 0
    /\ done = FALSE
-----------------------------------------------------------------------------
MasterReturns(isDone) ==
    [getMapNum |-> MapNum, getReduceNum |-> ReduceNum,
     Done |-> IF isDone THEN 1 ELSE 0,
     assignTask |-> <<1, 2, 3>>, setMapStat |-> 0]

(* main() calls three functions of the master, two for an int and one for  *)
(* a bool.                                                                 *)
ASSUME MasterAssumption ==
    /\ {"getMapNum", "getReduceNum", "Done"} \subseteq Bound
    /\ Result["getMapNum"] = "int" /\ Result["getReduceNum"] = "int"
    /\ Result["Done"] = "bool"
    /\ \A f \in {"getMapNum", "getReduceNum", "Done"} : <<>> \in Arguments[f]
    /\ \A isDone \in BOOLEAN : MasterReturns(isDone) \in Returns

MainCalls ==
    /\ mainPc # "left"
    /\ \E beyond \in Beyond : Call(Main, mainPc, <<>>, beyond)
    /\ UNCHANGED <<mainVars, done>>

(* The value of the call, which main() takes whatever the error code is.   *)
LeavesOnFalse(val) == val = 0                   \* variant: the test negated
Leaves(val) == val # 0
MainTakes ==
    /\ net_call(Main)
    /\ LET val == results'[Main][Len(results'[Main])].val IN
       \/ /\ mainPc = "getMapNum"
          /\ mainPc' = "getReduceNum" /\ map_task_num' = val
          /\ UNCHANGED reduce_task_num
       \/ /\ mainPc = "getReduceNum"
          /\ mainPc' = "Done" /\ reduce_task_num' = val
          /\ UNCHANGED map_task_num
       \/ /\ mainPc = "Done"
          /\ mainPc' = IF Leaves(val) THEN "left" ELSE "Done"
          /\ UNCHANGED <<map_task_num, reduce_task_num>>
    /\ UNCHANGED done

ThreadCalls(c) ==
    /\ c # Main
    /\ \E f \in Function \ {"getMapNum", "getReduceNum"} :
         \E args \in Arguments[f], beyond \in Beyond : Call(c, f, args, beyond)
    /\ UNCHANGED <<mainVars, done>>

ThreadTakes(c) ==
    /\ c # Main
    /\ net_call(c)
    /\ UNCHANGED <<mainVars, done>>

(* The master's run().                                                     *)
MasterRuns ==
    /\ \/ \E c \in Client : Accept(c)
       \/ \E beyond \in Beyond, uninitialized \in Uninitialized :
            call_(beyond, uninitialized, MasterReturns(done))
    /\ UNCHANGED <<mainVars, done>>

(* The last bucket is reported finished.                                   *)
JobDone ==
    /\ ~done
    /\ done' = TRUE
    /\ UNCHANGED <<vars, mainVars>>

MainNext ==
    \/ MainCalls \/ MainTakes
    \/ \E c \in Client : ThreadCalls(c) \/ ThreadTakes(c)
    \/ MasterRuns
    \/ JobDone

MainSpec == MainInit /\ [][MainNext]_workerVars

(* The server runs; recv() returns when an answer has come or, where a     *)
(* timeout is set, without one.  This is weak fairness of MasterRuns and   *)
(* of the action of each client, with what enables them written out:       *)
(* ENABLED would decode the bytes of every message.                        *)
MasterHasWork == serving # Nobody \/ \E c \in Client : requests[c] # <<>>
CanReturn(c) == Calling(c) /\ (answers[c] # <<>> \/ c \notin Patient)

FairMainSpec ==
    /\ MainSpec
    /\ []<>~MasterHasWork \/ []<><<MasterRuns>>_workerVars
    /\ []<>~CanReturn(Main) \/ []<><<MainTakes>>_workerVars
    /\ \A c \in Client \ {Main} :
         []<>~CanReturn(c) \/ []<><<ThreadTakes(c)>>_workerVars
=============================================================================

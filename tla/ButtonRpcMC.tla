----------------------------- MODULE ButtonRpcMC -----------------------------
(***************************************************************************)
(* The functions of the master, with names of one byte or two, and a name  *)
(* it does not know.  Strings fit up to three bytes: one that is passed    *)
(* fits, and one wraps to a length of one.                                 *)
(***************************************************************************)
EXTENDS ButtonRpcProperties

Functions == {"getMapNum", "getReduceNum", "Done", "assignTask", "setMapStat",
              "reduceStat"}
BoundFunctions == Functions \ {"reduceStat"}

Names ==
    [getMapNum |-> <<1>>, getReduceNum |-> <<2, 2>>, Done |-> <<3>>,
     assignTask |-> <<4>>, setMapStat |-> <<5, 5>>, reduceStat |-> <<6>>]

Types ==
    [f \in Functions |-> IF f = "setMapStat" THEN <<"string">>
                         ELSE IF f = "reduceStat" THEN <<"int">> ELSE <<>>]

Results ==
    [getMapNum |-> "int", getReduceNum |-> "int", Done |-> "bool",
     assignTask |-> "string", setMapStat |-> "void", reduceStat |-> "void"]

(* What the worker threads pass.                                           *)
Passed ==
    [f \in Functions |->
        IF f = "setMapStat" THEN {<< <<1, 2, 3>> >>, << <<1, 2, 3, 4, 5>> >>}
        ELSE IF f = "reduceStat" THEN {<<-1>>}
        ELSE {<<>>}]

Returned == {MasterReturns(isDone) : isDone \in BOOLEAN}

Memory == {<<0, 0, 0, 0>>, <<255, 1, 2, 3>>}

Calls == [c \in Client |-> IF c = Main THEN 4 ELSE 2]
=============================================================================

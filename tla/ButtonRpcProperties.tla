------------------------ MODULE ButtonRpcProperties ------------------------
(***************************************************************************)
(* What is checked of the RPC library and of main() over it.               *)
(***************************************************************************)
EXTENDS WorkerMain

Sent == [call: Nat, bytes: Seq(Byte)]

(* The library holds values of their types, and of each client no more     *)
(* than one request or answer is under way.                                *)
TypeOK ==
    /\ errorCode \in [Client -> {RPC_ERR_SUCCESS, RPC_ERR_RECV_TIMEOUT}]
    /\ socket \in [Client -> {"send", "receive", "thrown"}]
    /\ requests \in [Client -> Seq(Sent)]
    /\ serving \in [step: {"call"}, client: Client, request: Sent] \cup {Nobody}
    /\ answers \in [Client -> Seq(Sent)]
    /\ \A c \in Client :
        /\ Len(requests[c]) + Len(answers[c]) <= 1
        /\ Len(results[c]) = Len(answered[c])
        /\ Len(calls[c]) - Len(results[c]) \in {0, 1}

(* A client uses its socket in turn: the error code of the last call tells *)
(* whether an answer is still to come, so that ZeroMQ never throws.        *)
SocketInTurn ==
    \A c \in Client :
        /\ socket[c] # "thrown"
        /\ ~Calling(c) => (socket[c] = "send" <=> Sends(c))

TimedOut(c, i) == answered[c][i] = 0

(* The call j is the last up to i that sent a request.                     *)
IsLastSent(c, i, j) ==
    /\ j \in 1..i
    /\ j = 1 \/ ~TimedOut(c, j - 1)
    /\ \A k \in j..(i - 1) : TimedOut(c, k)

(* A call returns the answer to the last request its client has sent: its  *)
(* own, unless calls before it have timed out.                             *)
AnswersLastSent ==
    \A c \in Client : \A i \in DOMAIN answered[c] :
        ~TimedOut(c, i) => IsLastSent(c, i, answered[c][i])

(* A call is executed once at most, and one that follows a timeout never,  *)
(* although it may return a success.                                       *)
ExecutedOnce ==
    \A c \in Client :
        /\ \A i \in DOMAIN executed[c] : Len(executed[c][i]) <= 1
        /\ \A i \in DOMAIN answered[c] :
             TimedOut(c, i) /\ i < MaxCalls[c] => executed[c][i + 1] = <<>>

(* A string whose length fits in its 16 bits.                              *)
Fits(type, val) == type = "string" => Len(val) < LengthLimit

(* A function gets the arguments its caller passed, although it is given   *)
(* bytes from beyond the message; only a string too long for its length    *)
(* does not come whole.                                                    *)
ArgumentsArrive ==
    \A c \in Client : \A i \in DOMAIN calls[c] : \A k \in DOMAIN executed[c][i] :
        LET call == calls[c][i] IN
        \A p \in DOMAIN Parameters[call.function] :
            Fits(Parameters[call.function][p], call.args[p])
                => executed[c][i][k].args[p] = call.args[p]

(* A success is of a call that was executed, and a call that gets its own  *)
(* answer returns the value the function has returned, if that is not a    *)
(* string too long for its length.                                         *)
ResultsArrive ==
    \A c \in Client : \A i \in DOMAIN results[c] :
        LET own == executed[c][i][1].val
            type == Result[calls[c][i].function]
        IN results[c][i].code = RPC_ERR_SUCCESS =>
             /\ executed[c][answered[c][i]] # <<>>
             /\ answered[c][i] = i /\ Fits(type, own) => results[c][i].val = own
-----------------------------------------------------------------------------
Serves(c) == serving # Nobody /\ serving.client = c

(* The library implements RemoteCalls: a call is served when run() is done *)
(* with its request, and one that follows a timeout has none.              *)
Asked(c, i) == i = 1 \/ ~TimedOut(c, i - 1)
Pending(c, i) ==
    \/ requests[c] # <<>> /\ requests[c][1].call = i
    \/ Serves(c) /\ serving.request.call = i
MadeBy == [c \in Client |-> Len(calls[c])]
ServedOf == [c \in Client |->
                {i \in 1..Len(calls[c]) : Asked(c, i) /\ ~Pending(c, i)}]
RanOf == [c \in Client |-> {i \in 1..MaxCalls[c] : executed[c][i] # <<>>}]

Promised == INSTANCE RemoteCalls
            WITH made <- MadeBy, served <- ServedOf, ran <- RanOf,
                 returned <- answered

(* Whatever times out, a call is served once at most, and one that follows *)
(* a timeout never; calls return the answers to calls that were served,    *)
(* each answer once and in order; clients without a timeout get their own. *)
CallsServed == Promised!Spec
-----------------------------------------------------------------------------
MainTimedOut(i) == i \in DOMAIN answered[Main] /\ TimedOut(Main, i)

(* main() has the numbers of the master, unless a call has timed out: then *)
(* the number of maps is any, and that of reduces any or that of maps.     *)
NumbersOfMaster ==
    /\ mainPc # "getMapNum" => map_task_num = MapNum \/ MainTimedOut(1)
    /\ mainPc \notin {"getMapNum", "getReduceNum"} =>
         \/ MainTimedOut(2)
         \/ reduce_task_num = IF MainTimedOut(1) THEN MapNum ELSE ReduceNum

(* main() leaves, and removes the intermediate files, when the reduces are *)
(* done, unless one of its calls has timed out since the number of maps    *)
(* was asked for.                                                          *)
LeavesWhenDone ==
    mainPc = "left" =>
        \/ done
        \/ \E i \in 2..Len(answered[Main]) : MainTimedOut(i)

(* Every call returns, that of a name nothing is bound to as well.         *)
CallsReturn == \A c \in Client : Calling(c) ~> ~Calling(c)
=============================================================================

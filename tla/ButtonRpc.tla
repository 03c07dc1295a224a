----------------------------- MODULE ButtonRpc -----------------------------
(***************************************************************************)
(* The RPC library buttonrpc_edit: clients, some of which set a timeout,   *)
(* call the functions of one server.                                       *)
(*                                                                         *)
(* Requests and answers are the bytes the Serializer makes.  Beside them a *)
(* request keeps the number of the call of its client, and an answer that  *)
(* of the call it answers; the code sends neither, and no action reads     *)
(* them.  The sockets are ZeroMQ's: a REQ socket sends and receives in     *)
(* turn and throws when used out of turn, the network loses nothing.       *)
(***************************************************************************)
EXTENDS Serializer

CONSTANTS
    Client,
    Patient,       \* the clients that set no timeout
    Function,      \* the functions that are called
    Bound,         \* those given to bind()
    Name,          \* the name of each
    Parameters,    \* the types of what each takes
    Result,        \* and of what it returns
    Arguments,     \* the argument lists each is called with
    Returns,       \* what the functions may return: from a function to its value
    Beyond,        \* what may follow a buffer in memory
    Uninitialized, \* values a variable that was never set may have
    MaxCalls       \* bound: calls of each client

ASSUME ClientsAssumption ==
    /\ Patient \subseteq Client /\ Bound \subseteq Function
    /\ \A f, g \in Function : Name[f] = Name[g] => f = g
    /\ MaxCalls \in [Client -> Nat]

(* Values are of the types of the program, names fit into their length,    *)
(* and memory goes on for a few bytes behind a buffer.                     *)
ASSUME ValuesAssumption ==
    /\ \A f \in Function :
         /\ Name[f] \in Seq(Byte) /\ Len(Name[f]) < LengthLimit
         /\ Parameters[f] \in Seq(DOMAIN Values)
         /\ Result[f] \in DOMAIN Values
         /\ \A args \in Arguments[f] :
              /\ args = [k \in DOMAIN Parameters[f] |-> args[k]]
              /\ \A k \in DOMAIN args : args[k] \in Values[Parameters[f][k]]
    /\ \A returns \in Returns : \A f \in Bound :
         returns[f] \in Values[Result[f]]
    /\ \A beyond \in Beyond : beyond \in Seq(Byte) /\ Len(beyond) >= 2

RPC_ERR_SUCCESS == 0
RPC_ERR_FUNCTIION_NOT_BIND == 1
RPC_ERR_RECV_TIMEOUT == 2

VARIABLES
    calls,         \* the functions each client has called, with arguments
    results,       \* what those of its calls that are over returned
    answered,      \* the call each took the answer to, 0 without an answer
    errorCode,     \* m_error_code
    socket,        \* whose turn it is at a client's REQ socket
    requests,      \* requests of each client at the server's socket
    serving,       \* the request that run() works on
    executed,      \* how often each call has been executed, and how
    answers        \* answers at each client's socket

clientVars == <<calls, results, answered, errorCode, socket>>
vars == <<clientVars, requests, serving, executed, answers>>

Nobody == [step |-> "receive"]

Init ==
    /\ calls = [c \in Client |-> <<>>]
    /\ results = [c \in Client |-> <<>>]
    /\ answered = [c \in Client |-> <<>>]
    /\ errorCode = [c \in Client |-> RPC_ERR_SUCCESS]
    /\ socket = [c \in Client |-> "send"]
    /\ requests = [c \in Client |-> <<>>]
    /\ serving = Nobody
    /\ executed = [c \in Client |-> [i \in 1..MaxCalls[c] |-> <<>>]]
    /\ answers = [c \in Client |-> <<>>]
-----------------------------------------------------------------------------
(* value_t: what is sent for a value, and what is read for one.            *)
InputValue(code, msg, type, val) ==
    input_all(<<>>, <<"code", "string", type>>, <<code, msg, val>>)

OutputUnskipped(bytes, beyond, type, uninitialized) ==   \* variant: no message
    LET code == output_type(StreamBuffer(bytes, beyond), "code", 0)
    IN [code |-> code.value,
        val |-> IF code.value = RPC_ERR_SUCCESS
                THEN output_type(code.stream, type, uninitialized).value
                ELSE uninitialized]
OutputValue(bytes, beyond, type, uninitialized) ==
    LET code == output_type(StreamBuffer(bytes, beyond), "code", 0)
        msg == output_type(code.stream, "string", <<>>)
    IN [code |-> code.value,
        val |-> IF code.value = RPC_ERR_SUCCESS
                THEN output_type(msg.stream, type, uninitialized).value
                ELSE uninitialized]
-----------------------------------------------------------------------------
Calling(c) == Len(calls[c]) > Len(answered[c])
CallOf(c) == calls[c][Len(calls[c])]

SendsAlways(c) == TRUE                          \* variant: after a timeout too
Sends(c) == errorCode[c] # RPC_ERR_RECV_TIMEOUT

(* call(): the name and the arguments, one after the other.                *)
RequestOf(f, args) ==
    input_all(<<>>, <<"string">> \o Parameters[f], <<Name[f]>> \o args)

(* net_call() up to recv(): a call that follows a timeout sends nothing.   *)
(* The message is one byte longer than what is written into it.  The       *)
(* socket throws if it is told to send, or then to receive, out of turn.   *)
Call(c, f, args, beyond) ==
    /\ socket[c] # "thrown" /\ ~Calling(c) /\ Len(calls[c]) < MaxCalls[c]
    /\ calls' = [calls EXCEPT ![c] = Append(@, [function |-> f, args |-> args])]
    /\ socket' = [socket EXCEPT ![c] =
                    IF Sends(c) <=> @ = "send" THEN "receive" ELSE "thrown"]
    /\ requests' = [requests EXCEPT ![c] =
                      IF Sends(c) /\ socket[c] = "send"
                      THEN Append(@, [call |-> Len(calls'[c]),
                                      bytes |-> Append(RequestOf(f, args),
                                                       Head(beyond))])
                      ELSE @]
    /\ UNCHANGED <<results, answered, errorCode, serving, executed, answers>>

(* recv() returns an answer: it is the result, whatever it answers, and    *)
(* read as what this call returns.                                         *)
Receive(c, beyond, uninitialized) ==
    /\ socket[c] = "receive" /\ Calling(c) /\ answers[c] # <<>>
    /\ LET answer == Head(answers[c])
           value == OutputValue(answer.bytes, beyond, Result[CallOf(c).function],
                                uninitialized)
       IN /\ results' = [results EXCEPT ![c] = Append(@, value)]
          /\ answered' = [answered EXCEPT ![c] = Append(@, answer.call)]
    /\ answers' = [answers EXCEPT ![c] = Tail(@)]
    /\ errorCode' = [errorCode EXCEPT ![c] = RPC_ERR_SUCCESS]
    /\ socket' = [socket EXCEPT ![c] = "send"]
    /\ UNCHANGED <<calls, requests, serving, executed>>

TimeOutForgotten(c, uninitialized) ==           \* variant: a socket that is
    /\ c \notin Patient                         \* ZMQ_REQ_RELAXED, and sends
    /\ socket[c] = "receive" /\ Calling(c) /\ answers[c] = <<>>
    /\ results' = [results EXCEPT ![c] =
                     Append(@, [code |-> RPC_ERR_RECV_TIMEOUT,
                                val |-> uninitialized])]
    /\ answered' = [answered EXCEPT ![c] = Append(@, 0)]
    /\ socket' = [socket EXCEPT ![c] = "send"]
    /\ UNCHANGED <<calls, errorCode, requests, serving, executed, answers>>

(* recv() comes back with nothing, and the result has no value.            *)
TimeOut(c, uninitialized) ==
    /\ c \notin Patient
    /\ socket[c] = "receive" /\ Calling(c) /\ answers[c] = <<>>
    /\ results' = [results EXCEPT ![c] =
                     Append(@, [code |-> RPC_ERR_RECV_TIMEOUT,
                                val |-> uninitialized])]
    /\ answered' = [answered EXCEPT ![c] = Append(@, 0)]
    /\ errorCode' = [errorCode EXCEPT ![c] = RPC_ERR_RECV_TIMEOUT]
    /\ UNCHANGED <<calls, socket, requests, serving, executed, answers>>
-----------------------------------------------------------------------------

(* run() receives the next request, of whichever client.                   *)
Accept(c) ==
    /\ serving = Nobody /\ requests[c] # <<>>
    /\ serving' = [step |-> "call", client |-> c, request |-> Head(requests[c])]
    /\ requests' = [requests EXCEPT ![c] = Tail(@)]
    /\ UNCHANGED <<clientVars, executed, answers>>

(* What run() gives call_(): the bytes after the name, and as many as the  *)
(* message less the name, the two of its length included.                  *)
DataOfAll(ds, name) ==                          \* variant: from the start
    SubSeq(ds.memory, 1, ds.size - Len(name.value))
Data(ds, name) == current(name.stream, ds.size - Len(name.value))

(* What is sent for a name nothing is bound to.                            *)
NotAnswered(i, name) == <<>>                    \* variant: nothing
NotBound(i, name) ==
    <<[call |-> i,
       bytes |-> input_all(<<>>, <<"code", "string">>,
                           <<RPC_ERR_FUNCTIION_NOT_BIND, name>>)]>>

(* callproxy_() calls the function with the arguments it reads.            *)
callproxy_(f, data, beyond, uninitialized, returns) ==
    [args |-> output_all(StreamBuffer(data, beyond), Parameters[f], uninitialized),
     val |-> returns[f]]

(* call_() executes the function of the name in the request and sends what *)
(* it returns, or that there is none.                                      *)
call_(beyond, uninitialized, returns) ==
    /\ serving # Nobody
    /\ LET c == serving.client
           i == serving.request.call
           ds == StreamBuffer(serving.request.bytes, beyond)
           name == output_type(ds, "string", <<>>)
           handlers == {f \in Bound : Name[f] = name.value}
       IN IF handlers = {}
          THEN /\ answers' = [answers EXCEPT ![c] = @ \o NotBound(i, name.value)]
               /\ UNCHANGED executed
          ELSE LET f == CHOOSE f \in handlers : TRUE
                   execution == callproxy_(f, Data(ds, name), beyond,
                                           uninitialized, returns)
               IN /\ executed' = [executed EXCEPT ![c][i] = Append(@, execution)]
                  /\ answers' = [answers EXCEPT ![c] =
                       Append(@, [call |-> i,
                                  bytes |-> InputValue(RPC_ERR_SUCCESS, <<>>,
                                              Result[f], execution.val)])]
    /\ serving' = Nobody
    /\ UNCHANGED <<clientVars, requests>>

net_call(c) ==
    \E uninitialized \in Uninitialized :
        \/ \E beyond \in Beyond : Receive(c, beyond, uninitialized)
        \/ TimeOut(c, uninitialized)

run ==
    \/ \E c \in Client : Accept(c)
    \/ \E beyond \in Beyond, uninitialized \in Uninitialized,
          returns \in Returns : call_(beyond, uninitialized, returns)

Next ==
    \/ \E c \in Client, f \in Function : \E args \in Arguments[f],
          beyond \in Beyond : Call(c, f, args, beyond)
    \/ \E c \in Client : net_call(c)
    \/ run

Spec == Init /\ [][Next]_vars
=============================================================================

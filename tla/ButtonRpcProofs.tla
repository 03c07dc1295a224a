-------------------------- MODULE ButtonRpcProofs --------------------------
(***************************************************************************)
(* Proofs about the RPC library, for any clients, functions, arguments and *)
(* numbers of calls: sockets are used in turn, answers are taken for the   *)
(* last request sent, and calls are executed once at most; and that main() *)
(* and the threads of the worker use it as its specification says.         *)
(*                                                                         *)
(* Nothing here depends on what the bytes of a message are.                *)
(***************************************************************************)
EXTENDS ButtonRpcProperties, TLAPS

(* An element in a queue of one.                                           *)
LEMMA QueueOfOne ==
    ASSUME NEW x
    PROVE  /\ Append(<<>>, x) = <<x>>
           /\ <<>> \o <<x>> = <<x>>
           /\ Tail(<<x>>) = <<>> /\ Head(<<x>>) = x
           /\ <<x>> # <<>> /\ Len(<<x>>) = 1 /\ <<x>>[1] = x
<1>1. <<x>> \in Seq({x}) /\ <<>> \in Seq({x})
    OBVIOUS
<1>2. QED  BY <1>1
-----------------------------------------------------------------------------
CallRecord == [function: Function, args: UNION {Arguments[f] : f \in Function}]

(* A sequence has exactly one element, a message of the call j.            *)
OneOf(queue, j) == queue = <<queue[1]>> /\ queue[1].call = j

(* What the variables are, but for bytes, arguments and values.            *)
Types ==
    /\ calls \in [Client -> Seq(CallRecord)]
    /\ answered \in [Client -> Seq(Nat)]
    /\ errorCode \in [Client -> {RPC_ERR_SUCCESS, RPC_ERR_RECV_TIMEOUT}]
    /\ socket \in [Client -> {"send", "receive"}]
    /\ requests = [c \in Client |-> requests[c]]
    /\ answers = [c \in Client |-> answers[c]]
    /\ serving # Nobody => serving.client \in Client
    /\ executed = [c \in Client |-> executed[c]]

(* The calls of a client are over one after the other, and the error code  *)
(* tells whether the last one timed out.                                   *)
InOrder(c) ==
    /\ Len(calls[c]) <= MaxCalls[c]
    /\ Len(calls[c]) \in {Len(answered[c]), Len(answered[c]) + 1}
    /\ errorCode[c] = RPC_ERR_RECV_TIMEOUT
         <=> answered[c] # <<>> /\ TimedOut(c, Len(answered[c]))

Unexecuted(c, i) == executed[c][i] = <<>>

(* The request of the call j is at the server's socket, being served or    *)
(* answered; until it is served, it has not been executed.                 *)
UnderWay(c, j) ==
    \/ /\ OneOf(requests[c], j) /\ ~Serves(c) /\ answers[c] = <<>>
       /\ Unexecuted(c, j)
    \/ /\ requests[c] = <<>> /\ answers[c] = <<>>
       /\ Serves(c) /\ serving.request.call = j
       /\ Unexecuted(c, j)
    \/ requests[c] = <<>> /\ ~Serves(c) /\ OneOf(answers[c], j)

(* A client whose turn it is to send has nothing under way; one whose turn *)
(* it is to receive has the last request it sent.                          *)
InTurn(c) ==
    \/ /\ socket[c] = "send" /\ ~Calling(c) /\ Sends(c)
       /\ requests[c] = <<>> /\ ~Serves(c) /\ answers[c] = <<>>
    \/ /\ socket[c] = "receive" /\ (Calling(c) \/ ~Sends(c))
       /\ \E j \in 1..Len(calls[c]) :
            IsLastSent(c, Len(calls[c]), j) /\ UnderWay(c, j)

(* A call is executed once at most, after it was made, and not if it       *)
(* follows a timeout.                                                      *)
Once(c, i) == executed[c][i] = <<executed[c][i][1]>>
Indexed(c) == executed[c] = [i \in 1..MaxCalls[c] |-> executed[c][i]]
Executions(c) ==
    /\ Indexed(c)
    /\ \A i \in 1..MaxCalls[c] :
        \/ Unexecuted(c, i)
        \/ Once(c, i) /\ i <= Len(calls[c]) /\ (i > 1 => ~TimedOut(c, i - 1))

Taken(c) ==
    \A i \in 1..Len(answered[c]) :
        ~TimedOut(c, i) => IsLastSent(c, i, answered[c][i])

ClientInv(c) == InOrder(c) /\ InTurn(c) /\ Executions(c) /\ Taken(c)

RpcInv == Types /\ \A c \in Client : ClientInv(c)
-----------------------------------------------------------------------------
(* The invariant holds at first.                                           *)
LEMMA RpcInit == Init => RpcInv
<1> SUFFICES ASSUME Init PROVE RpcInv
    OBVIOUS
<1>1. Types
    BY DEF Init, Types, Nobody
<1>2. ASSUME NEW c \in Client PROVE ClientInv(c)
    BY <1>2, ClientsAssumption
    DEF Init, ClientInv, InOrder, InTurn, Executions, Taken, Calling, Sends,
        Serves, Unexecuted, Indexed, RPC_ERR_SUCCESS, RPC_ERR_RECV_TIMEOUT
<1>3. QED  BY <1>1, <1>2 DEF RpcInv

(* What a client's invariant says depends on the client's own state alone. *)
LEMMA ClientAlone ==
    ASSUME RpcInv, NEW c \in Client, Serves(c)' <=> Serves(c),
           Serves(c) => serving' = serving,
           calls'[c] = calls[c], answered'[c] = answered[c],
           errorCode'[c] = errorCode[c], socket'[c] = socket[c],
           requests'[c] = requests[c], executed'[c] = executed[c],
           answers'[c] = answers[c]
    PROVE  ClientInv(c)'
<1>1. ClientInv(c)
    BY DEF RpcInv
<1>2. InOrder(c)' /\ Executions(c)'
    BY <1>1
    DEF ClientInv, InOrder, Executions, TimedOut, Indexed, Once, Unexecuted
<1>3. Taken(c)'
    BY <1>1 DEF ClientInv, Taken, IsLastSent, TimedOut
<1>4. \A i, j : IsLastSent(c, i, j)' <=> IsLastSent(c, i, j)
    BY DEF IsLastSent, TimedOut
<1>5. \A j : UnderWay(c, j)' <=> UnderWay(c, j)
    BY DEF UnderWay, OneOf, Unexecuted
<1>6. InTurn(c)'
    BY <1>1, <1>4, <1>5 DEF ClientInv, InTurn, Calling, Sends
<1>7. QED  BY <1>2, <1>3, <1>6 DEF ClientInv

(* A call leaves the types as they are.                                    *)
LEMMA CallTypes ==
    ASSUME RpcInv, NEW c \in Client, NEW f \in Function,
           NEW args \in Arguments[f], NEW beyond, Call(c, f, args, beyond)
    PROVE  Types' /\ socket'[c] = "receive"
<1>1. [function |-> f, args |-> args] \in CallRecord
    BY DEF CallRecord
<1>2. InTurn(c)
    BY DEF RpcInv, ClientInv
<1>3. Sends(c) <=> socket[c] = "send"
    BY <1>2 DEF InTurn, Call
<1>4. socket'[c] = "receive" /\ socket' \in [Client -> {"send", "receive"}]
    BY <1>3 DEF RpcInv, Types, Call
<1>5. requests' = [d \in Client |-> requests'[d]]
    BY DEF RpcInv, Types, Call
<1>6. calls' \in [Client -> Seq(CallRecord)]
    BY <1>1 DEF RpcInv, Types, Call
<1>7. QED  BY <1>4, <1>5, <1>6 DEF RpcInv, Types, Call

(* A call that sends puts a request under way; one that does not waits for *)
(* the answer that the call before it was waiting for.                     *)
LEMMA CallInv ==
    ASSUME RpcInv, NEW c \in Client, NEW f \in Function,
           NEW args \in Arguments[f], NEW beyond, Call(c, f, args, beyond)
    PROVE  RpcInv'
<1>1. Types /\ ClientInv(c) /\ Types' /\ socket'[c] = "receive"
    BY CallTypes DEF RpcInv
<1> DEFINE n == Len(answered[c])
<1>2. /\ n \in Nat /\ Len(calls[c]) = n /\ n < MaxCalls[c]
      /\ MaxCalls[c] \in Nat /\ answered[c] \in Seq(Nat)
    BY <1>1, ClientsAssumption DEF Types, ClientInv, InOrder, Call, Calling
<1>3. /\ Len(calls'[c]) = n + 1
      /\ answered' = answered /\ errorCode' = errorCode
      /\ serving' = serving /\ executed' = executed /\ answers' = answers
    BY <1>1, <1>2 DEF Types, Call
<1>4. InOrder(c)'
    BY <1>1, <1>2, <1>3 DEF ClientInv, InOrder, TimedOut
<1>5. Executions(c)' /\ Taken(c)'
    <2>1. Executions(c)'
        <3>1. Indexed(c)'
            BY <1>1, <1>3 DEF ClientInv, Executions, Indexed
        <3>2. ASSUME NEW i \in 1..MaxCalls[c]
              PROVE  /\ Unexecuted(c, i)' <=> Unexecuted(c, i)
                     /\ Once(c, i)' <=> Once(c, i)
                     /\ TimedOut(c, i - 1)' <=> TimedOut(c, i - 1)
            BY <1>3 DEF Unexecuted, Once, TimedOut
        <3>3. QED  BY <1>1, <1>2, <1>3, <3>1, <3>2 DEF ClientInv, Executions
    <2>2. Taken(c)'
        BY <1>1, <1>3 DEF ClientInv, Taken, IsLastSent, TimedOut
    <2>3. QED  BY <2>1, <2>2
<1>6. Calling(c)'
    BY <1>2, <1>3 DEF Calling
<1>7. InTurn(c)'
    <2>1. CASE socket[c] = "send"
        <3>1. /\ Sends(c) /\ requests[c] = <<>> /\ ~Serves(c)
              /\ answers[c] = <<>>
            BY <1>1, <2>1 DEF ClientInv, InTurn
        <3>2. OneOf(requests'[c], n + 1)
            <4> DEFINE r == [call |-> Len(calls'[c]),
                             bytes |-> Append(RequestOf(f, args), Head(beyond))]
            <4>1. requests'[c] = Append(<<>>, r)
                BY <1>1, <2>1, <3>1 DEF Types, Call
            <4>2. requests'[c] = <<r>> /\ r.call = n + 1
                BY <1>3, <4>1, QueueOfOne
            <4>3. QED  BY <4>2, QueueOfOne DEF OneOf
        <3>3. Unexecuted(c, n + 1)
            BY <1>1, <1>2 DEF ClientInv, Executions
        <3>4. UnderWay(c, n + 1)'
            BY <1>3, <3>1, <3>2, <3>3 DEF UnderWay, Serves, Unexecuted
        <3>5. IsLastSent(c, n + 1, n + 1)'
            BY <1>1, <1>2, <1>3, <3>1
            DEF ClientInv, InOrder, IsLastSent, TimedOut, Sends
        <3>6. QED  BY <1>1, <1>2, <1>3, <1>6, <3>4, <3>5 DEF InTurn
    <2>2. CASE socket[c] = "receive"
        <3>1. ~Sends(c)
            BY <1>1, <2>2 DEF ClientInv, InTurn, Call
        <3>2. PICK j \in 1..n : IsLastSent(c, n, j) /\ UnderWay(c, j)
            BY <1>1, <1>2, <2>2 DEF ClientInv, InTurn
        <3>3. n > 0 /\ TimedOut(c, n)
            BY <1>1, <1>2, <3>1 DEF ClientInv, InOrder, Sends
        <3>4. IsLastSent(c, n + 1, j)'
            BY <1>2, <1>3, <3>2, <3>3 DEF IsLastSent, TimedOut
        <3>5. requests'[c] = requests[c]
            BY <1>1, <2>2 DEF Types, Call
        <3>6. UnderWay(c, j)'
            BY <1>3, <3>2, <3>5 DEF UnderWay, Serves, OneOf, Unexecuted
        <3>7. QED  BY <1>1, <1>2, <1>3, <1>6, <3>4, <3>6 DEF InTurn
    <2>3. QED  BY <1>1, <2>1, <2>2 DEF Types
<1>8. ASSUME NEW d \in Client, d # c PROVE ClientInv(d)'
    <2>1. /\ calls'[d] = calls[d] /\ socket'[d] = socket[d]
          /\ requests'[d] = requests[d]
        BY <1>1, <1>8 DEF Types, Call
    <2>2. QED  BY <1>3, <2>1, ClientAlone DEF Serves
<1>9. QED  BY <1>1, <1>4, <1>5, <1>7, <1>8 DEF RpcInv, ClientInv

(* A call that comes to its end changes nothing about executions.          *)
LEMMA StillExecuted ==
    ASSUME NEW c \in Client, Executions(c), NEW n \in Nat,
           Len(calls[c]) = n + 1, Len(answered[c]) = n,
           calls' = calls, executed' = executed,
           \A i \in 1..n : answered'[c][i] = answered[c][i]
    PROVE  Executions(c)'
<1>1. Indexed(c)'
    BY DEF Executions, Indexed
<1>2. MaxCalls[c] \in Nat
    BY ClientsAssumption
<1>3. ASSUME NEW i \in 1..MaxCalls[c]
      PROVE  /\ Unexecuted(c, i)' <=> Unexecuted(c, i)
             /\ Once(c, i)' <=> Once(c, i)
             /\ i > 1 /\ i <= n + 1
                  => (TimedOut(c, i - 1)' <=> TimedOut(c, i - 1))
    BY <1>2 DEF Unexecuted, Once, TimedOut
<1>4. QED  BY <1>1, <1>2, <1>3 DEF Executions

(* The answers taken stay those to the last requests sent; so is that to a *)
(* call that comes to its end, if it is.                                   *)
LEMMA StillTaken ==
    ASSUME NEW c \in Client, Taken(c), NEW n \in Nat,
           Len(answered[c]) = n, Len(answered'[c]) = n + 1,
           \A i \in 1..n : answered'[c][i] = answered[c][i],
           \/ answered'[c][n + 1] = 0
           \/ IsLastSent(c, n + 1, answered'[c][n + 1])
    PROVE  Taken(c)'
<1>1. ASSUME NEW i \in 1..(n + 1), IsLastSent(c, i, answered'[c][i])
      PROVE  IsLastSent(c, i, answered[c][i])'
    BY <1>1 DEF IsLastSent, TimedOut
<1>2. ASSUME NEW i \in 1..n, ~TimedOut(c, i)'
      PROVE  IsLastSent(c, i, answered'[c][i])
    BY <1>2 DEF Taken, TimedOut
<1>3. ASSUME ~TimedOut(c, n + 1)'
      PROVE  IsLastSent(c, n + 1, answered'[c][n + 1])
    BY <1>3 DEF TimedOut
<1>4. ASSUME NEW i \in 1..(n + 1), ~TimedOut(c, i)'
      PROVE  IsLastSent(c, i, answered[c][i])'
    BY <1>1, <1>2, <1>3, <1>4
<1>5. QED  BY <1>4 DEF Taken

(* The answer a client takes is that to the last request it sent.          *)
LEMMA ReceiveInv ==
    ASSUME RpcInv, NEW c \in Client, NEW beyond, NEW uninitialized,
           Receive(c, beyond, uninitialized)
    PROVE  RpcInv'
<1>1. Types /\ ClientInv(c)
    BY DEF RpcInv
<1> DEFINE n == Len(answered[c])
<1>2. /\ n \in Nat /\ Len(calls[c]) = n + 1
      /\ answered[c] \in Seq(Nat) /\ calls[c] \in Seq(CallRecord)
    BY <1>1 DEF Types, ClientInv, InOrder, Receive, Calling
<1>3. PICK j \in 1..(n + 1) : IsLastSent(c, n + 1, j) /\ UnderWay(c, j)
    BY <1>1, <1>2 DEF ClientInv, InTurn, Receive
<1>4. requests[c] = <<>> /\ ~Serves(c) /\ OneOf(answers[c], j)
    BY <1>3 DEF UnderWay, Receive
<1>5. Head(answers[c]).call = j /\ Tail(answers[c]) = <<>>
    BY <1>4, QueueOfOne DEF OneOf
<1>6. answered' = [answered EXCEPT ![c] = Append(@, j)]
    BY <1>5 DEF Receive
<1>7. /\ answered' \in [Client -> Seq(Nat)]
      /\ answered'[c] = Append(answered[c], j)
      /\ calls' = calls /\ requests' = requests /\ serving' = serving
      /\ executed' = executed
    BY <1>1, <1>2, <1>6 DEF Types, Receive
<1>8. /\ errorCode'[c] = RPC_ERR_SUCCESS /\ socket'[c] = "send"
      /\ answers'[c] = <<>>
    BY <1>1, <1>5 DEF Types, Receive
<1>9. Types'
    BY <1>1, <1>7 DEF Types, Receive
<1>10. /\ Len(answered'[c]) = n + 1 /\ answered'[c][n + 1] = j
       /\ \A i \in 1..n : answered'[c][i] = answered[c][i]
    BY <1>2, <1>7
<1>11. InOrder(c)'
    BY <1>1, <1>2, <1>7, <1>8, <1>10
    DEF ClientInv, InOrder, TimedOut, RPC_ERR_SUCCESS, RPC_ERR_RECV_TIMEOUT
<1>12. Executions(c)'
    BY <1>1, <1>2, <1>7, <1>10, StillExecuted DEF ClientInv
<1>13. Taken(c)'
    BY <1>1, <1>2, <1>3, <1>7, <1>10, StillTaken DEF ClientInv
<1>14. InTurn(c)'
    BY <1>2, <1>4, <1>7, <1>8, <1>10
    DEF InTurn, Calling, Sends, Serves, RPC_ERR_SUCCESS, RPC_ERR_RECV_TIMEOUT
<1>15. ASSUME NEW d \in Client, d # c PROVE ClientInv(d)'
    <2>1. /\ answered'[d] = answered[d] /\ errorCode'[d] = errorCode[d]
          /\ socket'[d] = socket[d] /\ answers'[d] = answers[d]
        BY <1>1, <1>15 DEF Types, Receive
    <2>2. QED  BY <1>7, <2>1, ClientAlone DEF Serves
<1>16. QED  BY <1>9, <1>11, <1>12, <1>13, <1>14, <1>15 DEF RpcInv, ClientInv

(* A timeout leaves what is under way where it is.                         *)
LEMMA TimeOutInv ==
    ASSUME RpcInv, NEW c \in Client, NEW uninitialized,
           TimeOut(c, uninitialized)
    PROVE  RpcInv'
<1>1. Types /\ ClientInv(c)
    BY DEF RpcInv
<1> DEFINE n == Len(answered[c])
<1>2. /\ n \in Nat /\ Len(calls[c]) = n + 1
      /\ answered[c] \in Seq(Nat) /\ calls[c] \in Seq(CallRecord)
    BY <1>1 DEF Types, ClientInv, InOrder, TimeOut, Calling
<1>3. PICK j \in 1..(n + 1) : IsLastSent(c, n + 1, j) /\ UnderWay(c, j)
    BY <1>1, <1>2 DEF ClientInv, InTurn, TimeOut
<1>4. /\ answered' \in [Client -> Seq(Nat)]
      /\ answered'[c] = Append(answered[c], 0)
      /\ errorCode'[c] = RPC_ERR_RECV_TIMEOUT
      /\ calls' = calls /\ requests' = requests /\ serving' = serving
      /\ executed' = executed /\ answers' = answers /\ socket' = socket
    BY <1>1, <1>2 DEF Types, TimeOut
<1>5. /\ Len(answered'[c]) = n + 1 /\ answered'[c][n + 1] = 0
      /\ \A i \in 1..n : answered'[c][i] = answered[c][i]
    BY <1>2, <1>4
<1>6. Types'
    BY <1>1, <1>4 DEF Types, TimeOut
<1>7. InOrder(c)'
    BY <1>1, <1>2, <1>4, <1>5 DEF ClientInv, InOrder, TimedOut
<1>8. Executions(c)'
    BY <1>1, <1>2, <1>4, <1>5, StillExecuted DEF ClientInv
<1>9. Taken(c)'
    BY <1>1, <1>2, <1>4, <1>5, StillTaken DEF ClientInv
<1>10. InTurn(c)'
    <2>1. IsLastSent(c, Len(calls[c]), j)'
        <3>1. Len(calls'[c]) = n + 1 /\ n + 1 - 1 = n
            BY <1>2, <1>4
        <3>2. j \in 1..(n + 1) /\ (j = 1 \/ answered'[c][j - 1] # 0)
            <4>1. j \in 1..(n + 1) /\ (j = 1 \/ answered[c][j - 1] # 0)
                BY <1>3 DEF IsLastSent, TimedOut
            <4>2. j = 1 \/ j - 1 \in 1..n
                BY <1>2, <4>1
            <4>3. QED  BY <1>5, <4>1, <4>2
        <3>3. \A k \in j..n : answered'[c][k] = 0
            BY <1>2, <1>3, <1>5 DEF IsLastSent, TimedOut
        <3>4. QED  BY <3>1, <3>2, <3>3 DEF IsLastSent, TimedOut
    <2>2. UnderWay(c, j)'
        BY <1>3, <1>4 DEF UnderWay, Serves, OneOf, Unexecuted
    <2>3. socket'[c] = "receive" /\ ~Sends(c)'
        BY <1>4 DEF TimeOut, Sends
    <2>4. QED  BY <1>2, <1>4, <2>1, <2>2, <2>3 DEF InTurn
<1>11. ASSUME NEW d \in Client, d # c PROVE ClientInv(d)'
    <2>1. answered'[d] = answered[d] /\ errorCode'[d] = errorCode[d]
        BY <1>1, <1>11 DEF Types, TimeOut
    <2>2. QED  BY <1>4, <2>1, ClientAlone DEF Serves
<1>12. QED  BY <1>6, <1>7, <1>8, <1>9, <1>10, <1>11 DEF RpcInv, ClientInv

(* What run() works on is in place of its request, whose client waits.     *)
LEMMA AcceptInv ==
    ASSUME RpcInv, NEW c \in Client, Accept(c)
    PROVE  RpcInv'
<1>1. Types /\ ClientInv(c)
    BY DEF RpcInv
<1>2. serving = Nobody /\ \A d \in Client : ~Serves(d)
    BY DEF Accept, Serves
<1>3. socket[c] = "receive"
    BY <1>1 DEF ClientInv, InTurn, Accept
<1>4. PICK j \in 1..Len(calls[c]) :
         IsLastSent(c, Len(calls[c]), j) /\ UnderWay(c, j)
    BY <1>1, <1>3 DEF ClientInv, InTurn
<1>5. /\ OneOf(requests[c], j) /\ answers[c] = <<>> /\ Unexecuted(c, j)
    BY <1>2, <1>4 DEF UnderWay, Accept
<1>6. Head(requests[c]).call = j /\ Tail(requests[c]) = <<>>
    BY <1>5, QueueOfOne DEF OneOf
<1>7. /\ serving' = [step |-> "call", client |-> c, request |-> Head(requests[c])]
      /\ requests' = [requests EXCEPT ![c] = Tail(@)]
      /\ clientVars' = clientVars /\ executed' = executed
      /\ answers' = answers
    BY DEF Accept
<1>8. serving'.step # Nobody.step /\ serving'.client = c
    BY <1>7 DEF Nobody
<1>9. /\ Serves(c)' /\ \A d \in Client : d # c => ~Serves(d)'
      /\ serving'.request.call = j /\ requests'[c] = <<>>
    BY <1>1, <1>6, <1>7, <1>8 DEF Types, Serves
<1>10. /\ calls' = calls /\ answered' = answered
       /\ errorCode' = errorCode /\ socket' = socket
    BY <1>7 DEF clientVars
<1>11. Types'
    BY <1>1, <1>7, <1>8, <1>10 DEF Types
<1>12. InOrder(c)' /\ Taken(c)'
    BY <1>1, <1>10 DEF ClientInv, InOrder, Taken, IsLastSent, TimedOut
<1>13. Executions(c)'
    BY <1>1, <1>7, <1>10
    DEF ClientInv, Executions, Indexed, Once, Unexecuted, TimedOut
<1>14. InTurn(c)'
    <2>1. UnderWay(c, j)'
        BY <1>5, <1>7, <1>9 DEF UnderWay, Unexecuted
    <2>2. IsLastSent(c, Len(calls[c]), j)'
        BY <1>4, <1>10 DEF IsLastSent, TimedOut
    <2>3. QED
        BY <1>1, <1>3, <1>4, <1>10, <2>1, <2>2
        DEF ClientInv, InTurn, Calling, Sends
<1>15. ASSUME NEW d \in Client, d # c PROVE ClientInv(d)'
    <2>1. requests'[d] = requests[d] /\ ~Serves(d) /\ ~Serves(d)'
        BY <1>1, <1>2, <1>7, <1>9, <1>15 DEF Types
    <2>2. QED  BY <1>7, <1>10, <2>1, ClientAlone
<1>16. QED  BY <1>11, <1>12, <1>13, <1>14, <1>15 DEF RpcInv, ClientInv

(* Whether anything is bound to the name or not, one answer is sent, and   *)
(* the call is executed at most the once.                                  *)
LEMMA CallEffect ==
    ASSUME NEW beyond, NEW uninitialized, NEW returns,
           call_(beyond, uninitialized, returns)
    PROVE  LET c == serving.client
               j == serving.request.call
           IN \E bytes, execution :
                /\ answers' = [answers EXCEPT ![c] =
                                 @ \o <<[call |-> j, bytes |-> bytes]>>]
                   \/ answers' = [answers EXCEPT ![c] =
                                 Append(@, [call |-> j, bytes |-> bytes])]
                /\ executed' \in
                     {executed,
                      [executed EXCEPT ![c][j] = Append(@, execution)]}
<1> DEFINE name == output_type(StreamBuffer(serving.request.bytes, beyond),
                               "string", <<>>)
           ds == StreamBuffer(serving.request.bytes, beyond)
           f == CHOOSE g \in {h \in Bound : Name[h] = name.value} : TRUE
<1>1. CASE {h \in Bound : Name[h] = name.value} = {}
    BY <1>1 DEF call_, NotBound
<1>2. CASE {h \in Bound : Name[h] = name.value} # {}
    BY <1>2 DEF call_
<1>3. QED  BY <1>1, <1>2

(* A call that run() executes is answered.                                 *)
LEMMA ExecuteInv ==
    ASSUME RpcInv, NEW beyond, NEW uninitialized, NEW returns,
           call_(beyond, uninitialized, returns)
    PROVE  RpcInv'
<1>0. PICK c \in Client : c = serving.client
    BY DEF RpcInv, Types, call_
<1>1. Types /\ c \in Client /\ serving # Nobody /\ Serves(c)
    BY <1>0 DEF RpcInv, call_, Serves
<1>2. ClientInv(c)
    BY <1>1 DEF RpcInv
<1>3. socket[c] = "receive"
    BY <1>1, <1>2 DEF ClientInv, InTurn
<1>4. PICK j \in 1..Len(calls[c]) :
         IsLastSent(c, Len(calls[c]), j) /\ UnderWay(c, j)
    BY <1>2, <1>3 DEF ClientInv, InTurn
<1>5. /\ requests[c] = <<>> /\ answers[c] = <<>>
      /\ serving.request.call = j /\ Unexecuted(c, j)
    BY <1>1, <1>4 DEF UnderWay
<1>6. PICK bytes, execution :
        /\ \/ answers' = [answers EXCEPT ![c] =
                            @ \o <<[call |-> j, bytes |-> bytes]>>]
           \/ answers' = [answers EXCEPT ![c] =
                            Append(@, [call |-> j, bytes |-> bytes])]
        /\ executed' \in
             {executed, [executed EXCEPT ![c][j] = Append(@, execution)]}
    BY <1>0, <1>5, CallEffect
<1>7. /\ serving' = Nobody /\ clientVars' = clientVars
      /\ requests' = requests
    BY DEF call_
<1>8. /\ calls' = calls /\ answered' = answered
      /\ errorCode' = errorCode /\ socket' = socket
    BY <1>7 DEF clientVars
<1>9. /\ answers' = [d \in Client |-> answers'[d]]
      /\ OneOf(answers'[c], j)
      /\ \A d \in Client : d # c => answers'[d] = answers[d]
    <2> DEFINE r == [call |-> j, bytes |-> bytes]
    <2>1. answers' = [answers EXCEPT ![c] = <<r>>]
        BY <1>1, <1>5, <1>6, QueueOfOne DEF Types
    <2>2. <<r>>[1] = r /\ r.call = j
        BY QueueOfOne
    <2>3. QED  BY <1>1, <2>1, <2>2 DEF Types, OneOf
<1>10. /\ Len(calls[c]) \in Nat /\ MaxCalls[c] \in Nat
       /\ Len(calls[c]) <= MaxCalls[c] /\ j \in 1..MaxCalls[c]
    BY <1>1, <1>2, <1>4, ClientsAssumption DEF Types, ClientInv, InOrder
<1>11. /\ executed' = [d \in Client |-> executed'[d]] /\ Indexed(c)'
       /\ Unexecuted(c, j)' \/ Once(c, j)'
       /\ \A i \in 1..MaxCalls[c] : i # j => executed'[c][i] = executed[c][i]
       /\ \A d \in Client : d # c => executed'[d] = executed[d]
    <2>1. CASE executed' = executed
        BY <1>1, <1>2, <1>5, <2>1
        DEF Types, ClientInv, Executions, Indexed, Unexecuted
    <2>2. CASE executed' = [executed EXCEPT ![c][j] = Append(@, execution)]
        <3>1. executed[c] = [i \in 1..MaxCalls[c] |-> executed[c][i]]
            BY <1>2 DEF ClientInv, Executions, Indexed
        <3>2. executed'[c] = [executed[c] EXCEPT ![j] = <<execution>>]
            BY <1>1, <1>5, <1>10, <2>2, <3>1, QueueOfOne
            DEF Types, Unexecuted
        <3>3. executed'[c][j] = <<execution>>
            BY <1>10, <3>1, <3>2
        <3>4. Once(c, j)'
            BY <3>3, QueueOfOne DEF Once
        <3>5. QED  BY <1>1, <1>10, <2>2, <3>1, <3>2, <3>4 DEF Types, Indexed
    <2>3. QED  BY <1>6, <2>1, <2>2
<1>12. \A d \in Client : ~Serves(d)'
    BY <1>7 DEF Serves
<1>13. Types'
    BY <1>1, <1>7, <1>8, <1>9, <1>11 DEF Types
<1>14. InOrder(c)' /\ Taken(c)'
    BY <1>2, <1>8 DEF ClientInv, InOrder, Taken, IsLastSent, TimedOut
<1>15. Executions(c)'
    <2>1. j > 1 => ~TimedOut(c, j - 1)'
        BY <1>4, <1>8 DEF IsLastSent, TimedOut
    <2>2. ASSUME NEW i \in 1..MaxCalls[c], i # j
          PROVE  \/ Unexecuted(c, i)'
                 \/ /\ Once(c, i)' /\ i <= Len(calls'[c])
                    /\ i > 1 => ~TimedOut(c, i - 1)'
        BY <1>2, <1>8, <1>11, <2>2
        DEF ClientInv, Executions, Unexecuted, Once, TimedOut
    <2>3. QED  BY <1>4, <1>8, <1>10, <1>11, <2>1, <2>2 DEF Executions
<1>16. InTurn(c)'
    <2>1. UnderWay(c, j)'
        BY <1>1, <1>5, <1>7, <1>9, <1>12 DEF UnderWay
    <2>2. IsLastSent(c, Len(calls[c]), j)'
        BY <1>4, <1>8 DEF IsLastSent, TimedOut
    <2>3. QED
        BY <1>2, <1>3, <1>4, <1>8, <2>1, <2>2
        DEF ClientInv, InTurn, Calling, Sends
<1>17. ASSUME NEW d \in Client, d # c PROVE ClientInv(d)'
    <2>1. answers'[d] = answers[d] /\ executed'[d] = executed[d]
        BY <1>9, <1>11, <1>17
    <2>2. ~Serves(d) /\ ~Serves(d)'
        BY <1>0, <1>12, <1>17 DEF Serves
    <2>3. QED  BY <1>7, <1>8, <2>1, <2>2, ClientAlone
<1>18. QED
    BY <1>1, <1>13, <1>14, <1>15, <1>16, <1>17 DEF RpcInv, ClientInv
-----------------------------------------------------------------------------
(* Every step of the clients and the server keeps the invariant.           *)
LEMMA RpcStep == RpcInv /\ [Next]_vars => RpcInv'
<1> SUFFICES ASSUME RpcInv, [Next]_vars PROVE RpcInv'
    OBVIOUS
<1>1. ASSUME NEW c \in Client, NEW f \in Function, NEW args \in Arguments[f],
             NEW beyond \in Beyond, Call(c, f, args, beyond)
      PROVE  RpcInv'
    BY <1>1, CallInv
<1>2. ASSUME NEW c \in Client, net_call(c)
      PROVE  RpcInv'
    BY <1>2, ReceiveInv, TimeOutInv DEF net_call
<1>3. ASSUME run
      PROVE  RpcInv'
    BY <1>3, AcceptInv, ExecuteInv DEF run
<1>4. CASE UNCHANGED vars
    <2>1. /\ UNCHANGED <<calls, answered, errorCode, socket>>
          /\ UNCHANGED <<requests, serving, executed, answers>>
        BY <1>4 DEF vars, clientVars
    <2>2. Types'
        BY <2>1 DEF RpcInv, Types
    <2>3. ASSUME NEW c \in Client PROVE ClientInv(c)'
        BY <2>1, ClientAlone DEF Serves
    <2>4. QED  BY <2>2, <2>3 DEF RpcInv
<1>5. QED  BY <1>1, <1>2, <1>3, <1>4 DEF Next

(* The invariant holds of every behaviour.                                 *)
LEMMA RpcInvariant == Spec => []RpcInv
    BY RpcInit, RpcStep, PTL DEF Spec

(* A client's socket is used in turn, whatever has timed out: the error    *)
(* code of net_call() tells when an answer is still to come, and ZeroMQ    *)
(* never throws.                                                           *)
THEOREM SocketsInTurn == Spec => []SocketInTurn
<1>1. RpcInv => SocketInTurn
    BY DEF RpcInv, Types, ClientInv, InTurn, SocketInTurn
<1>2. QED  BY <1>1, RpcInvariant, PTL

(* A call takes the answer to the last request that was sent, of its own   *)
(* call or of the one before the timeouts.                                 *)
THEOREM AnswersOfLastSent == Spec => []AnswersLastSent
<1>1. ASSUME RpcInv, NEW c \in Client
      PROVE  DOMAIN answered[c] = 1..Len(answered[c]) /\ Taken(c)
    BY <1>1 DEF RpcInv, Types, ClientInv
<1>2. RpcInv => AnswersLastSent
    BY <1>1 DEF Taken, AnswersLastSent
<1>3. QED  BY <1>2, RpcInvariant, PTL

(* run() executes a call once at most, and never one that a timeout kept   *)
(* from being sent.                                                        *)
THEOREM AtMostOnce == Spec => []ExecutedOnce
<1>1. ASSUME RpcInv, NEW c \in Client
      PROVE  /\ \A i \in DOMAIN executed[c] : Len(executed[c][i]) <= 1
             /\ \A i \in DOMAIN answered[c] :
                  TimedOut(c, i) /\ i < MaxCalls[c] => executed[c][i + 1] = <<>>
    <2>1. Types /\ Executions(c) /\ Indexed(c) /\ MaxCalls[c] \in Nat
        BY <1>1, ClientsAssumption DEF RpcInv, ClientInv, Executions
    <2>2. DOMAIN executed[c] = 1..MaxCalls[c]
        BY <2>1 DEF Indexed
    <2>3. ASSUME NEW i \in 1..MaxCalls[c] PROVE Len(executed[c][i]) <= 1
        <3>1. executed[c][i] = <<>> \/ executed[c][i] = <<executed[c][i][1]>>
            BY <2>1 DEF Executions, Unexecuted, Once
        <3>2. Len(<<executed[c][i][1]>>) = 1 /\ Len(<<>>) = 0
            BY QueueOfOne
        <3>3. CASE executed[c][i] = <<>>
            BY <3>2, <3>3
        <3>4. CASE executed[c][i] = <<executed[c][i][1]>>
            <4> DEFINE once == <<executed[c][i][1]>>
            <4>1. Len(once) <= 1
                BY <3>2
            <4>2. executed[c][i] = once
                BY <3>4
            <4> HIDE DEF once
            <4>3. QED  BY <4>1, <4>2
        <3>5. QED  BY <3>1, <3>3, <3>4
    <2>4. ASSUME NEW i \in DOMAIN answered[c], TimedOut(c, i), i < MaxCalls[c]
          PROVE  executed[c][i + 1] = <<>>
        <3>1. i \in Nat /\ i >= 1 /\ i + 1 \in 1..MaxCalls[c] /\ i + 1 - 1 = i
            BY <2>1, <2>4 DEF Types
        <3>2. ~(i + 1 > 1 => ~TimedOut(c, i + 1 - 1))
            BY <2>4, <3>1
        <3>3. QED  BY <2>1, <3>1, <3>2 DEF Executions, Unexecuted
    <2>5. QED  BY <2>2, <2>3, <2>4
<1>2. RpcInv => ExecutedOnce
    BY <1>1 DEF ExecutedOnce
<1>3. QED  BY <1>2, RpcInvariant, PTL
-----------------------------------------------------------------------------
(* The library implements what RemoteCalls promises: every step of it is a *)
(* step of the promise, or a stutter (a request that run() takes up).      *)

(* What the promise says of one client depends on that client alone.       *)
LEMMA PendingAlone ==
    ASSUME NEW c, Serves(c)' <=> Serves(c), Serves(c) => serving' = serving,
           requests'[c] = requests[c]
    PROVE  \A i : Pending(c, i)' <=> Pending(c, i)
BY DEF Pending

(* The initial states are those of the promise.                            *)
LEMMA InitPromised == Init => Promised!Init
<1> SUFFICES ASSUME Init PROVE Promised!Init
    OBVIOUS
<1>1. ASSUME NEW c \in Client
      PROVE  MadeBy[c] = 0 /\ ServedOf[c] = {} /\ RanOf[c] = {}
    BY <1>1, ClientsAssumption DEF Init, MadeBy, ServedOf, RanOf
<1>2. MadeBy = [c \in Client |-> 0]
    BY <1>1 DEF MadeBy
<1>3. ServedOf = [c \in Client |-> {}]
    BY <1>1 DEF ServedOf
<1>4. RanOf = [c \in Client |-> {}]
    BY <1>1 DEF RanOf
<1>5. QED  BY <1>2, <1>3, <1>4 DEF Init, Promised!Init

(* A call that is made.                                                    *)
LEMMA CallPromised ==
    ASSUME RpcInv, NEW c \in Client, NEW f \in Function,
           NEW args \in Arguments[f], NEW beyond, Call(c, f, args, beyond)
    PROVE  Promised!Make(c)
<1>1. Types /\ ClientInv(c)
    BY DEF RpcInv
<1> DEFINE n == Len(answered[c])
<1>2. n \in Nat /\ Len(calls[c]) = n /\ answered[c] \in Seq(Nat)
    BY <1>1 DEF Types, ClientInv, InOrder, Call, Calling
<1>3. /\ Len(calls'[c]) = n + 1
      /\ \A d \in Client : d # c => Len(calls'[d]) = Len(calls[d])
      /\ answered' = answered /\ serving' = serving /\ executed' = executed
    BY <1>1, <1>2 DEF Types, Call
<1>4. MadeBy' = [MadeBy EXCEPT ![c] = @ + 1]
    BY <1>2, <1>3 DEF MadeBy
<1>5. ~Promised!Waits(c)
    BY <1>2 DEF Promised!Waits, MadeBy
<1>6. ASSUME NEW d \in Client, d # c PROVE ServedOf'[d] = ServedOf[d]
    <2>1. requests'[d] = requests[d]
        BY <1>1, <1>6 DEF Types, Call
    <2>2. \A i : Pending(d, i)' <=> Pending(d, i)
        BY <1>3, <2>1, PendingAlone DEF Serves
    <2>3. QED  BY <1>3, <1>6, <2>2 DEF ServedOf, Asked, TimedOut
<1>7. ServedOf'[c] = ServedOf[c]
    <2>1. CASE socket[c] = "send"
        <3>1. /\ Sends(c) /\ requests[c] = <<>> /\ ~Serves(c)
            BY <1>1, <2>1 DEF ClientInv, InTurn
        <3>2. requests'[c][1].call = n + 1 /\ requests'[c] # <<>>
            <4> DEFINE r == [call |-> Len(calls'[c]),
                             bytes |-> Append(RequestOf(f, args), Head(beyond))]
            <4>1. requests'[c] = Append(<<>>, r)
                BY <1>1, <2>1, <3>1 DEF Types, Call
            <4>2. requests'[c] = <<r>> /\ r.call = n + 1
                BY <1>3, <4>1, QueueOfOne
            <4>3. QED  BY <4>2, QueueOfOne
        <3>3. \A i : ~Pending(c, i) /\ (Pending(c, i)' <=> i = n + 1)
            BY <1>3, <3>1, <3>2 DEF Pending, Serves
        <3>4. \A i \in 1..(n + 1) : Asked(c, i)' <=> Asked(c, i)
            BY <1>3 DEF Asked, TimedOut
        <3>5. QED  BY <1>2, <1>3, <3>3, <3>4 DEF ServedOf
    <2>2. CASE socket[c] = "receive"
        <3>1. ~Sends(c)
            BY <1>1, <2>2 DEF ClientInv, InTurn, Call
        <3>2. n > 0 /\ TimedOut(c, n)
            BY <1>1, <1>2, <3>1 DEF ClientInv, InOrder, Sends
        <3>3. ~Asked(c, n + 1)
            BY <1>2, <3>2 DEF Asked
        <3>4. requests'[c] = requests[c]
            BY <1>1, <2>2 DEF Types, Call
        <3>5. \A i : Pending(c, i)' <=> Pending(c, i)
            BY <1>3, <3>4, PendingAlone DEF Serves
        <3>6. \A i \in 1..(n + 1) : Asked(c, i)' <=> Asked(c, i)
            BY <1>3 DEF Asked, TimedOut
        <3>7. QED  BY <1>2, <1>3, <3>3, <3>5, <3>6 DEF ServedOf
    <2>3. QED  BY <1>1, <2>1, <2>2 DEF Types
<1>8. ServedOf' = ServedOf
    BY <1>6, <1>7 DEF ServedOf
<1>9. RanOf' = RanOf
    BY <1>3 DEF RanOf
<1>10. QED  BY <1>3, <1>4, <1>5, <1>8, <1>9 DEF Promised!Make

(* A call that comes to its end changes nothing about what was served.     *)
LEMMA ServedStays ==
    ASSUME Types, NEW c \in Client, NEW k \in Nat,
           Len(calls[c]) = Len(answered[c]) + 1,
           answered' = [answered EXCEPT ![c] = Append(@, k)],
           calls' = calls, requests' = requests, serving' = serving
    PROVE  ServedOf' = ServedOf
<1> DEFINE n == Len(answered[c])
<1>1. n \in Nat /\ answered[c] \in Seq(Nat)
    BY DEF Types
<1>2. /\ \A i \in 1..n : answered'[c][i] = answered[c][i]
      /\ \A d \in Client : d # c => answered'[d] = answered[d]
    BY <1>1 DEF Types
<1>3. \A d, i : Pending(d, i)' <=> Pending(d, i)
    BY DEF Pending, Serves
<1>4. ASSUME NEW i \in 1..Len(calls[c]) PROVE Asked(c, i)' <=> Asked(c, i)
    <2>1. i = 1 \/ i - 1 \in 1..n
        BY <1>1
    <2>2. QED  BY <1>2, <2>1 DEF Asked, TimedOut
<1>5. ASSUME NEW d \in Client, d # c, NEW i PROVE Asked(d, i)' <=> Asked(d, i)
    BY <1>2, <1>5 DEF Asked, TimedOut
<1>6. ASSUME NEW d \in Client PROVE ServedOf'[d] = ServedOf[d]
    BY <1>3, <1>4, <1>5 DEF ServedOf
<1>7. QED  BY <1>6 DEF ServedOf

(* An answer that is taken is of a call that was served, and of a later    *)
(* one than all that were taken before.                                    *)
LEMMA ReceivePromised ==
    ASSUME RpcInv, NEW c \in Client, NEW beyond, NEW uninitialized,
           Receive(c, beyond, uninitialized)
    PROVE  \E i \in 1..MadeBy[c] : Promised!Answer(c, i)
<1>1. Types /\ ClientInv(c)
    BY DEF RpcInv
<1> DEFINE n == Len(answered[c])
<1>2. n \in Nat /\ Len(calls[c]) = n + 1 /\ answered[c] \in Seq(Nat)
    BY <1>1 DEF Types, ClientInv, InOrder, Receive, Calling
<1>3. PICK j \in 1..(n + 1) : IsLastSent(c, n + 1, j) /\ UnderWay(c, j)
    BY <1>1, <1>2 DEF ClientInv, InTurn, Receive
<1>4. requests[c] = <<>> /\ ~Serves(c) /\ OneOf(answers[c], j)
    BY <1>3 DEF UnderWay, Receive
<1>5. Head(answers[c]).call = j
    BY <1>4, QueueOfOne DEF OneOf
<1>6. answered' = [answered EXCEPT ![c] = Append(@, j)]
    BY <1>5 DEF Receive
<1>7. /\ calls' = calls /\ requests' = requests /\ serving' = serving
      /\ executed' = executed
    BY DEF Receive
<1>8. ServedOf' = ServedOf /\ MadeBy' = MadeBy /\ RanOf' = RanOf
    <2>1. j \in Nat
        BY <1>2
    <2>2. ServedOf' = ServedOf
        BY <1>1, <1>2, <1>6, <1>7, <2>1, ServedStays
    <2>3. QED  BY <1>7, <2>2 DEF MadeBy, RanOf
<1>9. j \in ServedOf[c]
    BY <1>2, <1>3, <1>4 DEF ServedOf, Asked, Pending, IsLastSent
<1>10. ASSUME NEW k \in 1..n PROVE answered[c][k] < j
    <2>1. CASE TimedOut(c, k)
        BY <1>3, <2>1 DEF TimedOut
    <2>2. CASE ~TimedOut(c, k)
        <3>1. answered[c][k] \in 1..k
            BY <1>1, <2>2 DEF ClientInv, Taken, IsLastSent
        <3>2. k < j
            BY <1>2, <1>3, <2>2 DEF IsLastSent
        <3>3. QED  BY <1>3, <3>1, <3>2
    <2>3. QED  BY <2>1, <2>2
<1>11. Promised!Waits(c) /\ MadeBy[c] = n + 1
    BY <1>2 DEF Promised!Waits, MadeBy
<1>12. Promised!Answer(c, j)
    BY <1>6, <1>8, <1>9, <1>10, <1>11 DEF Promised!Answer
<1>13. QED  BY <1>3, <1>11, <1>12

(* A timeout is given up.                                                  *)
LEMMA TimeOutPromised ==
    ASSUME RpcInv, NEW c \in Client, NEW uninitialized,
           TimeOut(c, uninitialized)
    PROVE  Promised!GiveUp(c)
<1>1. Types /\ ClientInv(c)
    BY DEF RpcInv
<1>2. Len(answered[c]) \in Nat /\ Len(calls[c]) = Len(answered[c]) + 1
    BY <1>1 DEF Types, ClientInv, InOrder, TimeOut, Calling
<1>3. /\ c \notin Patient
      /\ answered' = [answered EXCEPT ![c] = Append(@, 0)]
      /\ calls' = calls /\ requests' = requests /\ serving' = serving
      /\ executed' = executed
    BY DEF TimeOut
<1>4. ServedOf' = ServedOf /\ MadeBy' = MadeBy /\ RanOf' = RanOf
    BY <1>1, <1>2, <1>3, ServedStays DEF MadeBy, RanOf
<1>5. QED  BY <1>2, <1>3, <1>4 DEF Promised!GiveUp, Promised!Waits, MadeBy

(* To take a request up is no step of the promise.                         *)
LEMMA AcceptPromised ==
    ASSUME RpcInv, NEW c \in Client, Accept(c)
    PROVE  UNCHANGED <<MadeBy, ServedOf, RanOf, answered>>
<1>1. Types /\ ClientInv(c)
    BY DEF RpcInv
<1>2. serving = Nobody /\ \A d \in Client : ~Serves(d)
    BY DEF Accept, Serves
<1>3. socket[c] = "receive"
    BY <1>1 DEF ClientInv, InTurn, Accept
<1>4. PICK j \in 1..Len(calls[c]) : UnderWay(c, j)
    BY <1>1, <1>3 DEF ClientInv, InTurn
<1>5. OneOf(requests[c], j)
    BY <1>2, <1>4 DEF UnderWay, Accept
<1>6. /\ Head(requests[c]).call = j /\ Tail(requests[c]) = <<>>
      /\ requests[c] # <<>> /\ requests[c][1].call = j
    BY <1>5, QueueOfOne DEF OneOf
<1>7. /\ serving' = [step |-> "call", client |-> c,
                     request |-> Head(requests[c])]
      /\ requests' = [requests EXCEPT ![c] = Tail(@)]
      /\ clientVars' = clientVars /\ executed' = executed
    BY DEF Accept
<1>8. serving'.step # Nobody.step /\ serving'.client = c
    BY <1>7 DEF Nobody
<1>9. /\ Serves(c)' /\ \A d \in Client : d # c => ~Serves(d)'
      /\ serving'.request.call = j /\ requests'[c] = <<>>
      /\ \A d \in Client : d # c => requests'[d] = requests[d]
    BY <1>1, <1>6, <1>7, <1>8 DEF Types, Serves
<1>10. calls' = calls /\ answered' = answered
    BY <1>7 DEF clientVars
<1>11. ASSUME NEW d \in Client, NEW i PROVE Pending(d, i)' <=> Pending(d, i)
    <2>1. CASE d = c
        BY <1>2, <1>6, <1>9, <2>1 DEF Pending
    <2>2. CASE d # c
        BY <1>2, <1>9, <2>2 DEF Pending
    <2>3. QED  BY <2>1, <2>2
<1>12. ASSUME NEW d \in Client PROVE ServedOf'[d] = ServedOf[d]
    BY <1>10, <1>11 DEF ServedOf, Asked, TimedOut
<1>13. ServedOf' = ServedOf
    BY <1>12 DEF ServedOf
<1>14. QED  BY <1>7, <1>10, <1>13 DEF MadeBy, RanOf

(* run() serves the call whose request it works on, by executing it or     *)
(* answering that nothing is bound to the name.                            *)
LEMMA ExecutePromised ==
    ASSUME RpcInv, NEW beyond, NEW uninitialized, NEW returns,
           call_(beyond, uninitialized, returns)
    PROVE  \E c \in Client : \E i \in 1..MadeBy[c] : Promised!Serve(c, i)
<1>0. PICK c \in Client : c = serving.client
    BY DEF RpcInv, Types, call_
<1>1. Types /\ serving # Nobody /\ Serves(c)
    BY <1>0 DEF RpcInv, call_, Serves
<1>2. ClientInv(c)
    BY DEF RpcInv
<1>3. socket[c] = "receive"
    BY <1>1, <1>2 DEF ClientInv, InTurn
<1>4. PICK j \in 1..Len(calls[c]) :
         IsLastSent(c, Len(calls[c]), j) /\ UnderWay(c, j)
    BY <1>2, <1>3 DEF ClientInv, InTurn
<1>5. /\ requests[c] = <<>> /\ serving.request.call = j
      /\ Unexecuted(c, j)
    BY <1>1, <1>4 DEF UnderWay
<1>6. PICK execution :
        executed' \in
             {executed, [executed EXCEPT ![c][j] = Append(@, execution)]}
    BY <1>0, <1>5, CallEffect
<1>7. /\ serving' = Nobody /\ requests' = requests
      /\ calls' = calls /\ answered' = answered
    BY DEF call_, clientVars
<1>8. /\ \A d \in Client : ~Serves(d)'
      /\ \A d \in Client : d # c => ~Serves(d)
    BY <1>0, <1>7 DEF Serves
<1>9. /\ Len(calls[c]) \in Nat /\ MaxCalls[c] \in Nat
      /\ j \in 1..MaxCalls[c]
    BY <1>1, <1>2, <1>4, ClientsAssumption DEF Types, ClientInv, InOrder
<1>10. j \notin ServedOf[c] /\ Asked(c, j)
    BY <1>1, <1>4, <1>5 DEF ServedOf, Pending, Asked, IsLastSent
<1>11. /\ \A i : Pending(c, i) <=> i = j
       /\ \A i : ~Pending(c, i)'
       /\ \A d \in Client : d # c =>
            \A i : Pending(d, i)' <=> Pending(d, i)
    BY <1>1, <1>5, <1>7, <1>8 DEF Pending
<1>12. \A d, i : Asked(d, i)' <=> Asked(d, i)
    BY <1>7 DEF Asked, TimedOut
<1>13. /\ ServedOf'[c] = ServedOf[c] \cup {j}
       /\ \A d \in Client : d # c => ServedOf'[d] = ServedOf[d]
    BY <1>4, <1>7, <1>10, <1>11, <1>12 DEF ServedOf
<1>14. ServedOf' = [ServedOf EXCEPT ![c] = @ \cup {j}]
    BY <1>13 DEF ServedOf
<1>15. RanOf' \in {RanOf, [RanOf EXCEPT ![c] = @ \cup {j}]}
    <2>1. CASE executed' = executed
        BY <2>1 DEF RanOf
    <2>2. CASE executed' = [executed EXCEPT ![c][j] = Append(@, execution)]
        <3>1. executed[c] = [i \in 1..MaxCalls[c] |-> executed[c][i]]
            BY <1>2 DEF ClientInv, Executions, Indexed
        <3>2. executed'[c] = [executed[c] EXCEPT ![j] = <<execution>>]
            BY <1>1, <1>5, <1>9, <2>2, <3>1, QueueOfOne
            DEF Types, Unexecuted
        <3>3. /\ executed'[c][j] # <<>>
              /\ \A i \in 1..MaxCalls[c] :
                    i # j => executed'[c][i] = executed[c][i]
              /\ \A d \in Client : d # c => executed'[d] = executed[d]
            BY <1>1, <1>9, <2>2, <3>1, <3>2, QueueOfOne DEF Types
        <3>4. /\ RanOf'[c] = RanOf[c] \cup {j}
              /\ \A d \in Client : d # c => RanOf'[d] = RanOf[d]
            BY <1>9, <3>3 DEF RanOf
        <3>5. QED  BY <3>4 DEF RanOf
    <2>3. QED  BY <1>6, <2>1, <2>2
<1>16. MadeBy' = MadeBy /\ MadeBy[c] = Len(calls[c])
    BY <1>7 DEF MadeBy
<1>17. Promised!Sent(c, j)
    BY <1>10 DEF Promised!Sent, Asked, TimedOut
<1>18. Promised!Serve(c, j)
    BY <1>7, <1>10, <1>14, <1>15, <1>16, <1>17 DEF Promised!Serve
<1>19. QED  BY <1>4, <1>16, <1>18

(* Every step is one of the promise or leaves it alone.                    *)
LEMMA StepPromised == RpcInv /\ [Next]_vars => [Promised!Next]_(Promised!vars)
<1> SUFFICES ASSUME RpcInv, [Next]_vars
             PROVE  Promised!Next \/ UNCHANGED Promised!vars
    OBVIOUS
<1>1. ASSUME NEW c \in Client, NEW f \in Function, NEW args \in Arguments[f],
             NEW beyond \in Beyond, Call(c, f, args, beyond)
      PROVE  Promised!Next
    BY <1>1, CallPromised DEF Promised!Next
<1>2. ASSUME NEW c \in Client, net_call(c) PROVE Promised!Next
    BY <1>2, ReceivePromised, TimeOutPromised DEF net_call, Promised!Next
<1>3. ASSUME run PROVE Promised!Next \/ UNCHANGED Promised!vars
    BY <1>3, AcceptPromised, ExecutePromised
    DEF run, Promised!Next, Promised!vars
<1>4. CASE UNCHANGED vars
    <2>1. UNCHANGED <<calls, answered, requests, serving, executed>>
        BY <1>4 DEF vars, clientVars
    <2>2. UNCHANGED <<MadeBy, ServedOf, RanOf>>
        BY <2>1 DEF MadeBy, ServedOf, RanOf, Asked, TimedOut, Pending, Serves
    <2>3. QED  BY <2>1, <2>2 DEF Promised!vars
<1>5. QED  BY <1>1, <1>2, <1>3, <1>4 DEF Next

(* The library keeps its promise: a call is served once at most, if it was *)
(* sent, and what a call returns is, in order and no answer twice, that to *)
(* one that was served.                                                    *)
THEOREM LibraryKeepsPromise == Spec => CallsServed
    BY InitPromised, StepPromised, RpcInvariant, PTL
    DEF Spec, CallsServed, Promised!Spec
-----------------------------------------------------------------------------
(* The places of main(), and a step of the worker as one of its library.   *)
MainPlaces ==
    /\ mainPc \in {"getMapNum", "getReduceNum", "Done", "left"}
    /\ done \in BOOLEAN

LEMMA WorkerStep ==
    ASSUME MainPlaces, [MainNext]_workerVars
    PROVE  MainPlaces' /\ [Next]_vars
<1>1. CASE MainCalls
    <2>1. PICK beyond \in Beyond : Call(Main, mainPc, <<>>, beyond)
        BY <1>1 DEF MainCalls
    <2>2. /\ Main \in Client /\ mainPc \in Function
          /\ <<>> \in Arguments[mainPc]
        BY <1>1, MainAssumption, MasterAssumption, ClientsAssumption
        DEF MainCalls, MainPlaces
    <2>3. MainPlaces'
        BY <1>1 DEF MainCalls, mainVars, MainPlaces
    <2>4. QED  BY <2>1, <2>2, <2>3 DEF Next
<1>2. CASE MainTakes
    <2>1. Main \in Client /\ net_call(Main)
        BY <1>2, MainAssumption DEF MainTakes
    <2>2. MainPlaces'
        BY <1>2 DEF MainTakes, MainPlaces
    <2>3. QED  BY <2>1, <2>2 DEF Next
<1>3. CASE \E c \in Client : ThreadCalls(c) \/ ThreadTakes(c)
    <2>1. MainPlaces'
        BY <1>3 DEF ThreadCalls, ThreadTakes, mainVars, MainPlaces
    <2>2. QED  BY <1>3, <2>1 DEF ThreadCalls, ThreadTakes, Next
<1>4. CASE MasterRuns
    <2>1. MainPlaces'
        BY <1>4 DEF MasterRuns, mainVars, MainPlaces
    <2>2. CASE \E c \in Client : Accept(c)
        BY <2>1, <2>2 DEF Next, run
    <2>3. CASE \E beyond \in Beyond, uninitialized \in Uninitialized :
                 call_(beyond, uninitialized, MasterReturns(done))
        <3>1. MasterReturns(done) \in Returns
            BY MasterAssumption DEF MainPlaces
        <3>2. QED  BY <2>1, <2>3, <3>1 DEF Next, run
    <2>4. QED  BY <1>4, <2>2, <2>3 DEF MasterRuns
<1>5. CASE JobDone
    BY <1>5 DEF JobDone, mainVars, MainPlaces
<1>6. CASE UNCHANGED workerVars
    BY <1>6 DEF workerVars, mainVars, MainPlaces
<1>7. QED
    BY <1>1, <1>2, <1>3, <1>4, <1>5, <1>6 DEF MainNext

(* main() and the threads of the worker call the library as clients do, so *)
(* that what is proved of them holds for the worker.                       *)
THEOREM WorkerUsesLibrary == MainSpec => Spec
<1>1. MainInit => Init /\ MainPlaces
    BY DEF MainInit, MainPlaces
<1>2. MainPlaces /\ [MainNext]_workerVars => MainPlaces' /\ [Next]_vars
    BY WorkerStep
<1>3. QED  BY <1>1, <1>2, PTL DEF MainSpec, Spec
=============================================================================

--------------------------- MODULE MapReduceOnce ---------------------------
(***************************************************************************)
(* Proofs that the MapReduce counts every word once, for every number of   *)
(* files, buckets and threads, wherever threads stop, as long as no thread *)
(* outlives the timeout of its task.                                       *)
(***************************************************************************)
EXTENDS MapReduceProofs

USE DEF masterVars, threadVars, fileVars, mainVars

(* The thread has its task, and has neither reported it nor stopped.       *)
Active(t) == pc[t] \in {"holding", "working", "reporting"}

(* The call under way hands out the task k of a kind.                      *)
Hands(call, kind, k) == call # Idle /\ call.kind = kind /\ call.task = k

NoneTwice(s, c) == \A i, j \in (c + 1)..Len(s) : s[i] = s[j] => i = j

(* A task is at one place of the master: listed, in the call under way,    *)
(* behind the cursor, or finished; one behind the cursor may be finished.  *)
OnePlace(listed, handed, c, done, call, kind) ==
    /\ NoneTwice(listed, 0) /\ NoneTwice(handed, c)
    /\ \A k \in Task(kind) :
         /\ Has(listed, k) => /\ ~Behind(handed, c, k) /\ k \notin done
                              /\ ~Hands(call, kind, k)
         /\ Hands(call, kind, k) => ~Behind(handed, c, k) /\ k \notin done

OnePlaceOf(kind) ==
    OnePlace(todo[kind], running[kind], cur[kind], finished[kind], serving, kind)

(* The task of a thread that may still work on it is the thread's alone.   *)
Alone(t) ==
    /\ task[t] \notin finished[KindOf(t)]
    /\ ~Has(todo[KindOf(t)], task[t])
    /\ ~Hands(serving, KindOf(t), task[t])
    /\ \A u \in Thread :
         Active(u) /\ KindOf(u) = KindOf(t) /\ task[u] = task[t] => u = t

Exclusive ==
    /\ \A kind \in Kind : OnePlaceOf(kind)
    /\ \A t \in Thread : Active(t) => Alone(t)

(* main() starts the reduces once, removes files when every reduce is      *)
(* finished, and then exits.                                               *)
Early == mainPc \in {"creating", "waiting", "woken"}
Cleaning == mainPc \in {"cleaning", "exited"}
MainOrder ==
    /\ Cleaning => finished["reduce"] = Bucket
    /\ cleaned > 0 => Cleaning
    /\ mainPc = "exited" => cleaned = MapNum
    /\ Early => \A t \in Thread : KindOf(t) = "reduce" => pc[t] = "new"
    /\ \A i \in MapId, b \in Bucket : i <= cleaned => mid[i][b] = NoWords

Mapping(t, f) == KindOf(t) = "map" /\ pc[t] = "working" /\ task[t] = f
Mapper(i) == <<"map", i>>

(* The words of a file are in one intermediate file of each bucket, put    *)
(* there by the thread that finished it or by the one that is at work.     *)
WordsOnce ==
    /\ \A i \in MapId, b \in Bucket, f \in File :
         /\ mid[i][b][f] \in {0, 1}
         /\ mid[i][b][f] = 1 =>
              \/ f \in finished["map"]
              \/ Mapping(Mapper(i), f) /\ b \notin left[Mapper(i)]
         /\ \A j \in MapId : mid[i][b][f] = 1 /\ mid[j][b][f] = 1 => i = j
    /\ cleaned = 0 => \A b \in Bucket, f \in File :
         /\ f \in finished["map"] => \E i \in MapId : mid[i][b][f] = 1
         /\ \A i \in MapId : Mapping(Mapper(i), f) /\ b \notin left[Mapper(i)]
              => mid[i][b][f] = 1

(* A reduce has counted the words that are not in the files left to read.  *)
ReadOnce ==
    \A t \in Thread : KindOf(t) = "reduce" /\ pc[t] = "working" =>
        /\ left[t] \subseteq MapId
        /\ \A f \in File :
             sum[t][f] = IF \E i \in left[t] : mid[i][task[t]][f] = 1 THEN 0 ELSE 1

(* An output is written by the thread that reports it.                     *)
Reporting(b) == \E t \in Thread :
    KindOf(t) = "reduce" /\ pc[t] = "reporting" /\ task[t] = b
OutputOnce ==
    \A b \in Bucket :
        /\ out[b] \in {<<>>, <<Once>>}
        /\ b \in finished["reduce"] \/ Reporting(b) <=> out[b] = <<Once>>

OnceInv == Exclusive /\ MainOrder /\ WordsOnce /\ ReadOnce /\ OutputOnce
-----------------------------------------------------------------------------
(* What is in a sequence is behind a cursor at its start.                  *)
LEMMA HasIsBehind == \A s, k : Has(s, k) <=> Behind(s, 0, k)
BY DEF Has, Behind

(* Appending what is not behind the cursor repeats nothing.                *)
LEMMA AppendedOnce ==
    ASSUME NEW s \in Seq(Int), NEW e \in Int, NEW c \in Nat, c <= Len(s),
           NoneTwice(s, c), ~Behind(s, c, e)
    PROVE  /\ NoneTwice(Append(s, e), c)
           /\ \A k : Behind(Append(s, e), c, k) => Behind(s, c, k) \/ k = e
<1> DEFINE longer == Append(s, e)
<1>1. /\ Len(longer) = Len(s) + 1 /\ Len(s) \in Nat
      /\ longer[Len(s) + 1] = e
      /\ \A i \in 1..Len(s) : longer[i] = s[i]
    OBVIOUS
<1> HIDE DEF longer
<1>2. \A i \in (c + 1)..Len(longer) :
         \/ i \in (c + 1)..Len(s) /\ longer[i] = s[i]
         \/ i = Len(s) + 1 /\ longer[i] = e
    BY <1>1
<1>3. NoneTwice(longer, c)
    BY <1>2 DEF NoneTwice, Behind
<1>4. \A k : Behind(longer, c, k) => Behind(s, c, k) \/ k = e
    BY <1>2 DEF Behind
<1> QED
    BY <1>3, <1>4 DEF longer

(* The last element, taken off, is not in the rest.                        *)
LEMMA ShortenedOnce ==
    ASSUME NEW s \in Seq(Int), s # <<>>, NoneTwice(s, 0)
    PROVE  /\ NoneTwice(SubSeq(s, 1, Len(s) - 1), 0)
           /\ Has(s, s[Len(s)])
           /\ \A k : Has(SubSeq(s, 1, Len(s) - 1), k) => Has(s, k) /\ k # s[Len(s)]
<1> DEFINE shorter == SubSeq(s, 1, Len(s) - 1)
<1>1. /\ Len(shorter) = Len(s) - 1 /\ Len(s) \in 1..Len(s)
      /\ \A i \in 1..(Len(s) - 1) : shorter[i] = s[i]
    BY Shortened
<1>2. Len(s) \in Nat
    OBVIOUS
<1> HIDE DEF shorter
<1>3. \A i \in 1..Len(shorter) :
         i \in 1..Len(s) /\ i # Len(s) /\ shorter[i] = s[i]
    BY <1>1, <1>2
<1>4. \A i, j \in 1..Len(s) : s[i] = s[j] => i = j
    BY <1>2 DEF NoneTwice
<1>5. NoneTwice(shorter, 0)
  <2>1. (0 + 1)..Len(shorter) = 1..Len(shorter)
      OBVIOUS
  <2> QED
      BY <1>3, <1>4, <2>1 DEF NoneTwice
<1>6. \A k : Has(shorter, k) => Has(s, k) /\ k # s[Len(s)]
    BY <1>1, <1>3, <1>4 DEF Has
<1> QED
    BY <1>1, <1>5, <1>6 DEF Has, shorter

(* What the cursor moved past is not behind it any more.                   *)
LEMMA MovedPastOnce ==
    ASSUME NEW s \in Seq(Int), NEW c \in Nat, c < Len(s), NoneTwice(s, c)
    PROVE  /\ NoneTwice(s, c + 1)
           /\ Behind(s, c, s[c + 1])
           /\ \A k : Behind(s, c + 1, k) => Behind(s, c, k) /\ k # s[c + 1]
<1>1. Len(s) \in Nat /\ c + 1 \in (c + 1)..Len(s)
    OBVIOUS
<1>2. \A i \in (c + 1 + 1)..Len(s) : i \in (c + 1)..Len(s) /\ i # c + 1
    BY <1>1
<1> QED
    BY <1>1, <1>2 DEF NoneTwice, Behind
-----------------------------------------------------------------------------
(* What a thread and its task are.                                         *)
LEMMA ThreadTyped ==
    ASSUME TypeInv, NEW t \in Thread
    PROVE  /\ KindOf(t) \in Kind /\ task[t] \in Task(KindOf(t)) /\ task[t] \in Int
           /\ KindOf(t) = "map" => task[t] \in File
           /\ KindOf(t) = "reduce" => task[t] \in Bucket
BY ThreadKinds DEF TypeInv, TypeOK, ThreadTypes

(* What the master holds for a kind, and that a timer watches each task    *)
(* behind the cursor.                                                      *)
LEMMA MasterTyped ==
    ASSUME TypeInv, NEW kind \in Kind
    PROVE  /\ todo[kind] \in Seq(Int) /\ running[kind] \in Seq(Int)
           /\ Within(todo[kind], Task(kind)) /\ Within(running[kind], Task(kind))
           /\ cur[kind] \in Nat /\ timers[kind] \in Nat
           /\ cur[kind] + timers[kind] = Len(running[kind])
           /\ cur[kind] <= Len(running[kind])
<1>1. /\ todo[kind] \in Seq(Int) /\ running[kind] \in Seq(Int)
      /\ cur[kind] \in Nat /\ timers[kind] \in Nat
      /\ cur[kind] + timers[kind] = Len(running[kind])
    BY KindTyped, KeptIsNoTaskLost DEF Kept, TypeInv, TypeOK
<1>2. cur[kind] <= Len(running[kind])
    BY <1>1
<1>3. Within(todo[kind], Task(kind)) /\ Within(running[kind], Task(kind))
    BY DEF TypeInv, TypeOK, KindsApart, Within
<1> QED
    BY <1>1, <1>2, <1>3

(* What is left alone stays exclusive, when no thread becomes active.      *)
LEMMA ExclusiveLeftAlone ==
    ASSUME Exclusive, UNCHANGED <<masterVars, task>>,
           \A t \in Thread : Active(t)' => Active(t)
    PROVE  Exclusive'
BY DEF Exclusive, OnePlaceOf, Alone

(* The task of a request leaves the list for the call.                     *)
LEMMA RequestTaskExclusive ==
    ASSUME TypeInv, Exclusive, NEW t \in Thread, RequestTask(t)
    PROVE  Exclusive'
<1> DEFINE kind == KindOf(t)
           last == todo[kind][Len(todo[kind])]
           rest == SubSeq(todo[kind], 1, Len(todo[kind]) - 1)
<1>1. kind \in Kind
    BY ThreadTyped
<1>2. /\ todo[kind] \in Seq(Int) /\ todo[kind] # <<>>
      /\ NoneTwice(todo[kind], 0)
    BY <1>1, MasterTyped DEF RequestTask, TakeTask, Exclusive, OnePlaceOf, OnePlace
<1>3. /\ NoneTwice(rest, 0) /\ Has(todo[kind], last)
      /\ \A k : Has(rest, k) => Has(todo[kind], k) /\ k # last
    BY <1>2, ShortenedOnce
<1>4. last \in Task(kind)
    BY <1>1, <1>2, MasterTyped, WithinShortened
<1>5. /\ todo' = [todo EXCEPT ![kind] = rest]
      /\ serving' = [step |-> "taken", kind |-> kind, caller |-> t, task |-> last]
      /\ serving = Idle
      /\ UNCHANGED <<running, cur, finished, timers, task>>
      /\ Goto(t, "calling")
    BY DEF RequestTask, TakeTask
<1> HIDE DEF last, rest
<1>6. todo \in [Kind -> Seq(Int)] /\ pc \in [Thread -> Place]
    BY DEF TypeInv, TypeOK, MasterTypes, ThreadTypes
<1>7. \A other, k : Hands(serving', other, k) <=> other = kind /\ k = last
    BY <1>5 DEF Hands, Idle
<1>8. \A other \in Kind :
         todo'[other] = IF other = kind THEN rest ELSE todo[other]
    BY <1>5, <1>6
<1>9. ASSUME NEW other \in Kind
      PROVE  OnePlaceOf(other)'
  <2>1. OnePlaceOf(other) /\ \A k : ~Hands(serving, other, k)
      BY <1>5 DEF Exclusive, Hands
  <2> QED
      BY <1>3, <1>4, <1>5, <1>7, <1>8, <2>1 DEF OnePlaceOf, OnePlace
<1>10. ASSUME NEW u \in Thread, Active(u)'
       PROVE  Alone(u)'
  <2>1. \A v \in Thread : Active(v)' => Active(v)
      BY <1>5, <1>6 DEF Active, Goto
  <2>2. Alone(u) /\ KindOf(u) \in Kind
      BY <1>10, <2>1, ThreadTyped DEF Exclusive
  <2>3. ~Has(todo'[KindOf(u)], task[u]) /\ ~Hands(serving', KindOf(u), task[u])
      BY <1>3, <1>7, <1>8, <2>2 DEF Alone
  <2> QED
      BY <1>5, <2>1, <2>2, <2>3 DEF Alone
<1> QED
    BY <1>9, <1>10 DEF Exclusive

(* The task of the call gets behind the cursor, and to the caller alone.   *)
LEMMA ReceiveTaskExclusive ==
    ASSUME TypeInv, Exclusive, ReceiveTask
    PROVE  Exclusive'
<1> DEFINE kind == serving.kind
           t == serving.caller
           k == serving.task
           longer == Append(running[kind], k)
<1>1. /\ kind \in Kind /\ t \in Thread /\ k \in Int
      /\ k \in Task(kind) /\ KindOf(t) = kind /\ serving # Idle
    BY DEF ReceiveTask, waitTask, TypeInv, TypeOK, MasterTypes, KindsApart, Handout
<1>2. OnePlaceOf(kind) /\ Hands(serving, kind, k)
    BY <1>1 DEF Exclusive, Hands
<1>3. /\ running[kind] \in Seq(Int) /\ cur[kind] \in Nat
      /\ cur[kind] <= Len(running[kind])
    BY <1>1, MasterTyped
<1>4. /\ NoneTwice(running[kind], cur[kind]) /\ ~Behind(running[kind], cur[kind], k)
      /\ k \notin finished[kind] /\ ~Has(todo[kind], k)
    BY <1>1, <1>2 DEF OnePlaceOf, OnePlace
<1>5. /\ NoneTwice(longer, cur[kind])
      /\ \A l : Behind(longer, cur[kind], l) => Behind(running[kind], cur[kind], l) \/ l = k
    BY <1>1, <1>3, <1>4, AppendedOnce
<1>6. /\ running' = [running EXCEPT ![kind] = longer]
      /\ serving' = Idle
      /\ UNCHANGED <<todo, cur, finished>>
    BY DEF ReceiveTask, waitTask
<1>7. \/ UNCHANGED <<pc, task>>
      \/ Goto(t, "holding") /\ task' = [task EXCEPT ![t] = k]
    BY DEF ReceiveTask
<1> HIDE DEF longer, kind, t, k
<1>8. /\ running \in [Kind -> Seq(Int)] /\ pc \in [Thread -> Place]
      /\ task \in [Thread -> Int]
    BY DEF TypeInv, TypeOK, MasterTypes, ThreadTypes
<1>9. \A other, l : ~Hands(serving', other, l)
    BY <1>6 DEF Hands
<1>10. ASSUME NEW other \in Kind
       PROVE  OnePlaceOf(other)'
  <2>1. OnePlaceOf(other)
      BY DEF Exclusive
  <2>2. running'[other] = IF other = kind THEN longer ELSE running[other]
      BY <1>6, <1>8
  <2> QED
      BY <1>4, <1>5, <1>6, <1>9, <2>1, <2>2 DEF OnePlaceOf, OnePlace
<1>11. ASSUME NEW u \in Thread, Active(u)'
       PROVE  Alone(u)'
  <2>1. \A v \in Thread : v # t => (Active(v)' <=> Active(v)) /\ task'[v] = task[v]
      BY <1>7, <1>8 DEF Active, Goto
  <2>2. ASSUME NEW v \in Thread, Active(v), KindOf(v) = kind
        PROVE  task[v] # k
      BY <2>2, <1>2 DEF Exclusive, Alone
  <2>3. CASE UNCHANGED <<pc, task>>
      BY <2>3, <1>6, <1>9, <1>11 DEF Exclusive, Alone, Active
  <2>4. CASE Goto(t, "holding") /\ task' = [task EXCEPT ![t] = k]
    <3>1. task'[t] = k
        BY <2>4, <1>1, <1>8
    <3>2. CASE u = t
        BY <3>1, <3>2, <1>1, <1>4, <1>6, <1>9, <2>1, <2>2 DEF Alone
    <3>3. CASE u # t
        BY <3>1, <3>3, <1>1, <1>6, <1>9, <1>11, <2>1, <2>2 DEF Alone, Exclusive
    <3> QED
        BY <3>2, <3>3
  <2> QED
      BY <1>7, <2>3, <2>4
<1> QED
    BY <1>10, <1>11 DEF Exclusive

(* The task at the cursor is listed again only when no thread works on it. *)
LEMMA ExpireExclusive ==
    ASSUME Timely, TypeInv, Exclusive, NEW kind \in Kind, Expire(kind)
    PROVE  Exclusive'
<1> DEFINE next == running[kind][cur[kind] + 1]
           list == Relisted(kind)
<1>1. /\ running[kind] \in Seq(Int) /\ todo[kind] \in Seq(Int)
      /\ cur[kind] \in Nat /\ timers[kind] \in Nat
      /\ cur[kind] + timers[kind] = Len(running[kind])
      /\ Within(running[kind], Task(kind))
    BY MasterTyped
<1>2. timers[kind] > 0 /\ cur[kind] < Len(running[kind])
    BY <1>1 DEF Expire, TimerEnds
<1>3. OnePlaceOf(kind)
    BY DEF Exclusive
<1>4. /\ NoneTwice(running[kind], cur[kind] + 1)
      /\ Behind(running[kind], cur[kind], next)
      /\ \A k : Behind(running[kind], cur[kind] + 1, k)
                => Behind(running[kind], cur[kind], k) /\ k # next
    BY <1>1, <1>2, <1>3, MovedPastOnce DEF OnePlaceOf, OnePlace
<1>5. next \in Int /\ next \in Task(kind)
    BY <1>1, <1>2, MovedPast DEF Within
<1>6. ~Has(todo[kind], next) /\ ~Hands(serving, kind, next)
    BY <1>3, <1>4, <1>5 DEF OnePlaceOf, OnePlace
<1>7. /\ NoneTwice(list, 0)
      /\ \A k : Has(list, k) => Has(todo[kind], k) \/ k = next
      /\ next \in finished[kind] => list = todo[kind]
  <2>1. CASE next \in finished[kind]
      BY <1>3, <2>1 DEF Relisted, Watched, OnePlaceOf, OnePlace
  <2>2. CASE next \notin finished[kind]
    <3>1. list = Append(todo[kind], next)
        BY <2>2 DEF Relisted, Watched
    <3>2. 0 \in Nat /\ 0 <= Len(todo[kind]) /\ NoneTwice(todo[kind], 0)
          /\ ~Behind(todo[kind], 0, next)
        BY <1>1, <1>3, <1>6, HasIsBehind DEF OnePlaceOf, OnePlace
    <3> HIDE DEF next, list
    <3>3. /\ NoneTwice(Append(todo[kind], next), 0)
          /\ \A k : Behind(Append(todo[kind], next), 0, k)
                    => Behind(todo[kind], 0, k) \/ k = next
        BY <1>1, <1>5, <3>2, AppendedOnce
    <3> QED
        BY <2>2, <3>1, <3>3, HasIsBehind
  <2> QED
      BY <2>1, <2>2
<1>8. /\ todo' = [todo EXCEPT ![kind] = list]
      /\ cur' = [cur EXCEPT ![kind] = @ + 1]
      /\ UNCHANGED <<running, finished, serving, pc, task>>
    BY DEF Expire, TimerEnds
<1>9. \A t \in Thread : KindOf(t) = kind /\ Active(t) => task[t] # next
    BY DEF Expire, Watched, Active
<1> HIDE DEF next, list
<1>10. \A other \in Kind :
          /\ todo'[other] = IF other = kind THEN list ELSE todo[other]
          /\ cur'[other] = IF other = kind THEN cur[kind] + 1 ELSE cur[other]
    BY <1>8 DEF TypeInv, TypeOK, MasterTypes
<1>11. ASSUME NEW other \in Kind
       PROVE  OnePlaceOf(other)'
  <2>1. OnePlaceOf(other)
      BY DEF Exclusive
  <2> QED
      BY <1>4, <1>6, <1>7, <1>8, <1>10, <2>1 DEF OnePlaceOf, OnePlace
<1>12. ASSUME NEW t \in Thread, Active(t)'
       PROVE  Alone(t)'
  <2>1. Active(t) /\ Alone(t) /\ KindOf(t) \in Kind
      BY <1>8, <1>12, ThreadTyped DEF Active, Exclusive
  <2>2. ~Has(todo'[KindOf(t)], task[t])
      BY <1>7, <1>9, <1>10, <2>1 DEF Alone
  <2> QED
      BY <1>8, <2>1, <2>2 DEF Alone, Active
<1> QED
    BY <1>11, <1>12 DEF Exclusive

(* A task that was a thread's alone is finished, and nothing else.         *)
LEMMA ReportExclusive ==
    ASSUME TypeInv, Exclusive, NEW t \in Thread, ReportMap(t) \/ ReportReduce(t)
    PROVE  Exclusive'
<1> DEFINE kind == KindOf(t)
           k == task[t]
<1>1. /\ finished' = [finished EXCEPT ![kind] = @ \cup {k}]
      /\ serving = Idle
      /\ UNCHANGED <<todo, running, cur, timers, serving, task>>
      /\ Goto(t, "asking")
    BY DEF ReportMap, ReportReduce, SetStat
<1>2. Active(t) /\ Alone(t)
    BY DEF ReportMap, ReportReduce, Active, Exclusive
<1>3. pc \in [Thread -> Place] /\ finished \in [Kind -> SUBSET Int]
    BY DEF TypeInv, TypeOK, MasterTypes, ThreadTypes
<1>4. \A other \in Kind :
         finished'[other] = IF other = kind THEN finished[other] \cup {k}
                                            ELSE finished[other]
    BY <1>1, <1>3
<1>5. \A l : ~Hands(serving, kind, l)
    BY <1>1 DEF Hands
<1>6. ~Has(todo[kind], k)
    BY <1>2 DEF Alone
<1> HIDE DEF kind, k
<1>7. ASSUME NEW other \in Kind
      PROVE  OnePlaceOf(other)'
  <2>1. OnePlaceOf(other)
      BY DEF Exclusive
  <2> QED
      BY <1>1, <1>4, <1>5, <1>6, <2>1 DEF OnePlaceOf, OnePlace
<1>8. ASSUME NEW u \in Thread, Active(u)'
      PROVE  Alone(u)'
  <2>1. \A v \in Thread : Active(v)' => Active(v) /\ v # t
      BY <1>1, <1>3 DEF Active, Goto
  <2>2. Alone(u) /\ u # t /\ KindOf(u) \in Kind
      BY <1>8, <2>1, ThreadTyped DEF Exclusive
  <2>3. KindOf(u) = kind => task[u] # k
      BY <1>2, <1>8, <2>1, <2>2 DEF Alone, kind, k
  <2>4. task[u] \notin finished'[KindOf(u)]
      BY <1>4, <2>2, <2>3 DEF Alone
  <2> QED
      BY <1>1, <2>1, <2>2, <2>4 DEF Alone
<1> QED
    BY <1>7, <1>8 DEF Exclusive

(* No other step makes a thread active or changes what the master holds.   *)
LEMMA NextExclusive ==
    ASSUME Timely, MaxRestarts = 0, TypeInv, Exclusive, [Next]_vars
    PROVE  Exclusive'
<1>1. ASSUME NEW t \in Thread, ThreadStep(t)
      PROVE  Exclusive'
  <2>1. CASE RequestTask(t)
      BY <2>1, RequestTaskExclusive
  <2>2. CASE ReportMap(t) \/ ReportReduce(t)
      BY <2>2, ReportExclusive
  <2>3. CASE ~RequestTask(t) /\ ~ReportMap(t) /\ ~ReportReduce(t)
    <3>1. UNCHANGED <<masterVars, task>>
        BY <1>1, <2>3 DEF ThreadStep, mapWorker, reduceWorker, FindUnfinished,
           FindNoTask, PickUp, FindMapsDone, WriteWords, FindReducesDone,
           ReadWords, WriteOutput
    <3>2. UNCHANGED pc \/ \E place \in Place : Goto(t, place)
        BY <1>1, <2>3 DEF ThreadStep, mapWorker, reduceWorker, FindUnfinished,
           FindNoTask, PickUp, FindMapsDone, WriteWords, FindReducesDone,
           ReadWords, WriteOutput, Place
    <3>3. Active(t)' => Active(t)
        BY <1>1, <2>3 DEF ThreadStep, mapWorker, reduceWorker, FindUnfinished,
           FindNoTask, PickUp, FindMapsDone, WriteWords, FindReducesDone,
           ReadWords, WriteOutput, Goto, Active, TypeInv, TypeOK, ThreadTypes
    <3>4. \A u \in Thread : u # t => pc'[u] = pc[u]
        BY <3>2 DEF Goto, TypeInv, TypeOK, ThreadTypes
    <3> QED
        BY <3>1, <3>3, <3>4, ExclusiveLeftAlone DEF Active
  <2> QED
      BY <2>1, <2>2, <2>3
<1>2. CASE main \/ SpuriousWakeup \/ UNCHANGED vars
  <2>1. UNCHANGED <<masterVars, task>>
      BY <1>2 DEF main, MainWaits, StartReduces, SeeDone, RemoveRow, Exit,
         SpuriousWakeup, vars
  <2>2. \A t \in Thread : Active(t)' => Active(t)
      BY <1>2 DEF main, MainWaits, StartReduces, SeeDone, RemoveRow, Exit,
         SpuriousWakeup, vars, Active
  <2> QED
      BY <2>1, <2>2, ExclusiveLeftAlone
<1>3. ~Restart
    BY DEF Restart, TypeInv, TypeOK, MainTypes
<1> QED
    BY <1>1, <1>2, <1>3, ReceiveTaskExclusive, ExpireExclusive DEF Next
-----------------------------------------------------------------------------
(* As many reduces finished as there are buckets are all of them.          *)
LEMMA AllOfTheReduces ==
    ASSUME TypeInv, AllFinished("reduce")
    PROVE  finished["reduce"] = Bucket
<1>1. IsFiniteSet(Bucket)
    BY TasksAssumption, FS_Interval DEF Bucket, Task
<1>2. finished["reduce"] \in SUBSET Bucket
    BY DEF TypeInv, TypeOK, KindsApart, Kind, Bucket
<1>3. Cardinality(Bucket) = Cardinality(finished["reduce"])
    BY DEF AllFinished, Bucket
<1> QED
    BY <1>1, <1>2, <1>3, FS_Subset

(* Nobody works when everything of a kind is finished.                     *)
LEMMA NobodyWorks ==
    ASSUME TypeInv, Exclusive, NEW t \in Thread,
           finished[KindOf(t)] = Task(KindOf(t))
    PROVE  ~Active(t)
BY ThreadTyped DEF Exclusive, Alone

(* A step that is neither a report nor a restart changes no list of what   *)
(* is finished; a report adds to it.                                       *)
LEMMA FinishedMoves ==
    ASSUME TypeInv, [Next]_vars
    PROVE  \/ UNCHANGED finished
           \/ \E t \in Thread : ReportMap(t) \/ ReportReduce(t)
<1>1. ASSUME NEW t \in Thread, ThreadStep(t)
      PROVE  UNCHANGED finished \/ ReportMap(t) \/ ReportReduce(t)
    BY <1>1 DEF ThreadStep, mapWorker, reduceWorker, FindUnfinished, FindNoTask,
                RequestTask, TakeTask, PickUp, FindMapsDone, WriteWords,
                FindReducesDone, ReadWords, WriteOutput
<1>2. CASE ReceiveTask \/ main \/ SpuriousWakeup \/ Restart \/ UNCHANGED vars
    BY <1>2 DEF ReceiveTask, waitTask, main, MainWaits, StartReduces, SeeDone,
                RemoveRow, Exit, SpuriousWakeup, Restart, vars
<1>3. ASSUME NEW kind \in Kind, Expire(kind)
      PROVE  UNCHANGED finished
    BY <1>3 DEF Expire, TimerEnds
<1> QED
    BY <1>1, <1>2, <1>3 DEF Next

(* All buckets finished stay finished.                                     *)
LEMMA ReducesStayFinished ==
    ASSUME TypeInv, [Next]_vars, finished["reduce"] = Bucket
    PROVE  finished'["reduce"] = Bucket
<1>1. ASSUME NEW t \in Thread, ReportMap(t) \/ ReportReduce(t)
      PROVE  finished'["reduce"] = Bucket
  <2>1. finished' = [finished EXCEPT ![KindOf(t)] = @ \cup {task[t]}]
      BY <1>1 DEF ReportMap, ReportReduce, SetStat
  <2>2. finished \in [Kind -> SUBSET Int] /\ "reduce" \in Kind
      BY DEF TypeInv, TypeOK, MasterTypes, Kind
  <2>3. KindOf(t) = "reduce" => task[t] \in Bucket
      BY ThreadTyped
  <2> QED
      BY <2>1, <2>2, <2>3
<1> QED
    BY <1>1, FinishedMoves

(* How main() comes from one place to the next.                            *)
LEMMA MainMoves ==
    ASSUME TypeInv, MaxRestarts = 0, [Next]_vars
    PROVE  /\ ~Restart
           /\ Cleaning => Cleaning' /\ ~StartReduces
           /\ Cleaning' => Cleaning \/ SeeDone
           /\ mainPc' = "exited" => mainPc = "exited" \/ Exit
           /\ Early' => Early /\ ~StartReduces
           /\ UNCHANGED cleaned \/ RemoveRow
           /\ \/ UNCHANGED mid \/ RemoveRow
              \/ \E t \in Thread, b \in Bucket : WriteWords(t, b)
<1>1. ~Restart
    BY DEF Restart, TypeInv, TypeOK, MainTypes
<1>2. ASSUME NEW t \in Thread, ThreadStep(t)
      PROVE  /\ UNCHANGED mainPc \/ (mainPc = "waiting" /\ mainPc' = "woken")
             /\ UNCHANGED cleaned
             /\ UNCHANGED mid \/ \E b \in Bucket : WriteWords(t, b)
    BY <1>2 DEF ThreadStep, mapWorker, reduceWorker, FindUnfinished, FindNoTask,
                RequestTask, TakeTask, PickUp, FindMapsDone, WriteWords,
                FindReducesDone, ReadWords, WriteOutput, ReportMap, ReportReduce
<1>3. ASSUME \/ ReceiveTask \/ UNCHANGED vars
             \/ \E kind \in Kind : Expire(kind)
      PROVE  UNCHANGED <<mainPc, cleaned, mid>>
    BY <1>3 DEF ReceiveTask, Expire, vars
<1>4. CASE \E t \in Thread : ThreadStep(t)
    BY <1>1, <1>2, <1>4 DEF Cleaning, Early, StartReduces, SeeDone
<1>5. CASE \/ ReceiveTask \/ UNCHANGED vars
           \/ \E kind \in Kind : Expire(kind)
    BY <1>1, <1>3, <1>5 DEF Cleaning, Early, StartReduces
<1>6. CASE main \/ SpuriousWakeup
    BY <1>1, <1>6 DEF Cleaning, Early, main, MainWaits, StartReduces, SeeDone,
                      RemoveRow, Exit, SpuriousWakeup
<1> QED
    BY <1>1, <1>4, <1>5, <1>6 DEF Next

(* When main() removes files, nobody works on a task of either kind.       *)
LEMMA NobodyWorksWhenCleaning ==
    ASSUME TypeInv, Ordered, Exclusive, MainOrder, Cleaning, NEW t \in Thread
    PROVE  ~Active(t)
<1>1. finished["map"] = File /\ finished["reduce"] = Bucket
    BY DEF Ordered, Started, MainOrder, Cleaning
<1>2. KindOf(t) = "map" \/ KindOf(t) = "reduce"
    BY ThreadTyped DEF Kind
<1> QED
    BY <1>1, <1>2, NobodyWorks DEF File, Bucket

(* A step keeps MainOrder.                                                 *)
LEMMA NextMainOrder ==
    ASSUME MaxRestarts = 0, TypeInv, Ordered, Exclusive, MainOrder, [Next]_vars
    PROVE  MainOrder'
<1>1. cleaned \in 0..MapNum /\ cleaned' \in 0..MapNum /\ MapNum \in Nat
  <2>1. TypeInv'
      BY NextTypes
  <2> QED
      BY <2>1, WorkersAssumption DEF TypeInv, TypeOK, MainTypes
<1>2. Cleaning' => finished'["reduce"] = Bucket
  <2>1. SeeDone => finished["reduce"] = Bucket
      BY AllOfTheReduces DEF SeeDone
  <2> QED
      BY <2>1, MainMoves, ReducesStayFinished DEF MainOrder
<1>3. cleaned' > 0 => Cleaning'
    BY MainMoves DEF MainOrder, RemoveRow, Cleaning
<1>4. mainPc' = "exited" => cleaned' = MapNum
    BY MainMoves DEF MainOrder, RemoveRow, Exit, Rows
<1>5. Early' => \A t \in Thread : KindOf(t) = "reduce" => pc'[t] = "new"
    BY MainMoves, NewUntilStarted DEF MainOrder
<1>6. ASSUME NEW i \in MapId, NEW b \in Bucket, i <= cleaned'
      PROVE  mid'[i][b] = NoWords
  <2>1. CASE RemoveRow
    <3>1. /\ cleaned' = cleaned + 1
          /\ mid' = [mid EXCEPT ![cleaned + 1] = [c \in Bucket |-> NoWords]]
        BY <2>1 DEF RemoveRow
    <3>2. mid'[i] = IF i = cleaned + 1 THEN [c \in Bucket |-> NoWords] ELSE mid[i]
        BY <3>1 DEF TypeInv, TypeOK, FileTypes
    <3>3. i # cleaned + 1 => i <= cleaned
        BY <1>1, <1>6, <3>1 DEF MapId
    <3> QED
        BY <3>2, <3>3 DEF MainOrder
  <2>2. CASE UNCHANGED mid /\ UNCHANGED cleaned
      BY <1>6, <2>2 DEF MainOrder
  <2>3. CASE (\E t \in Thread, c \in Bucket : WriteWords(t, c)) /\ UNCHANGED cleaned
    <3>1. cleaned > 0
        BY <1>1, <1>6, <2>3 DEF MapId
    <3>2. Cleaning
        BY <3>1 DEF MainOrder
    <3> QED
        BY <2>3, <3>2, NobodyWorksWhenCleaning DEF WriteWords, Active
  <2> QED
      BY <2>1, <2>2, <2>3, MainMoves
<1> QED
    BY <1>2, <1>3, <1>4, <1>5, <1>6 DEF MainOrder
-----------------------------------------------------------------------------
(* A step of no thread that reads, writes or reports.                      *)
Busy(t) == pc[t] \in {"working", "reporting"}
Quiet ==
    /\ UNCHANGED <<mid, out, cleaned, finished>>
    /\ \A t \in Thread : Busy(t) \/ Busy(t)' =>
         /\ pc'[t] = pc[t] /\ task'[t] = task[t]
         /\ left'[t] = left[t] /\ sum'[t] = sum[t]

(* The other steps.                                                        *)
Work(t) ==
    \/ PickUp(t) \/ ReportMap(t) \/ ReportReduce(t) \/ WriteOutput(t)
    \/ \E b \in Bucket : WriteWords(t, b)
    \/ \E i \in MapId : ReadWords(t, i)

(* main() starts the reduces when none of them works, so that every step   *)
(* but these and a removal is quiet.                                       *)
LEMMA QuietOrNot ==
    ASSUME MaxRestarts = 0, TypeInv, MainOrder, [Next]_vars
    PROVE  Quiet \/ RemoveRow \/ \E t \in Thread : Work(t)
<1> USE DEF TypeInv, TypeOK, ThreadTypes
<1>1. ASSUME NEW t \in Thread, ThreadStep(t), ~Work(t)
      PROVE  Quiet
  <2>1. /\ UNCHANGED <<mid, out, cleaned, finished, task, left, sum>>
        /\ \E place \in {"wanting", "gone", "asking", "calling"} : Goto(t, place)
        /\ ~Busy(t)
      BY <1>1 DEF ThreadStep, Work, mapWorker, reduceWorker, FindUnfinished,
         FindNoTask, FindMapsDone, FindReducesDone, RequestTask, TakeTask, Busy
  <2> QED
      BY <2>1 DEF Quiet, Busy, Goto
<1>2. CASE ReceiveTask
  <2>1. /\ UNCHANGED <<mid, out, cleaned, finished, left, sum>>
        /\ \/ UNCHANGED <<pc, task>>
           \/ /\ pc[serving.caller] = "calling" /\ Goto(serving.caller, "holding")
              /\ task' = [task EXCEPT ![serving.caller] = serving.task]
      BY <1>2 DEF ReceiveTask, waitTask
  <2> QED
      BY <2>1 DEF Quiet, Busy, Goto
<1>3. ASSUME NEW kind \in Kind, Expire(kind)
      PROVE  Quiet
    BY <1>3 DEF Expire, TimerEnds, Quiet
<1>4. CASE StartReduces
  <2>1. \A t \in Thread : KindOf(t) = "reduce" => pc[t] = "new"
      BY <1>4 DEF StartReduces, MainOrder, Early
  <2> QED
      BY <1>4, <2>1 DEF StartReduces, Quiet, Busy
<1>5. CASE MainWaits \/ SeeDone \/ Exit \/ SpuriousWakeup \/ UNCHANGED vars
    BY <1>5 DEF MainWaits, SeeDone, Exit, SpuriousWakeup, vars, Quiet
<1> QED
    BY <1>1, <1>2, <1>3, <1>4, <1>5, MainMoves DEF Next, main

(* Before main() removes files no file is removed.                         *)
LEMMA WorkBeforeCleaning ==
    ASSUME TypeInv, Ordered, Exclusive, MainOrder, NEW t \in Thread, Active(t)
    PROVE  cleaned = 0
<1>1. ~Cleaning
    BY NobodyWorksWhenCleaning
<1> QED
    BY <1>1 DEF MainOrder, TypeInv, TypeOK, MainTypes

(* A reduce only works when every map is finished, so that no map works.   *)
LEMMA ReducesWorkAlone ==
    ASSUME TypeInv, Ordered, Exclusive, NEW t \in Thread, NEW u \in Thread,
           KindOf(t) = "reduce", Active(t), KindOf(u) = "map"
    PROVE  finished["map"] = File /\ ~Active(u)
<1>1. pc[t] # "new"
    BY DEF Active
<1>2. finished["map"] = File
    BY <1>1 DEF Ordered
<1> QED
    BY <1>2, NobodyWorks DEF File

(* A step that is quiet changes nothing of what is written and read.       *)
LEMMA QuietKeeps ==
    ASSUME WordsOnce, ReadOnce, OutputOnce, Quiet
    PROVE  WordsOnce' /\ ReadOnce' /\ OutputOnce'
<1>1. \A i \in MapId : Mapper(i) \in Thread
    BY DEF Mapper, Thread
<1>2. \A i \in MapId, f \in File :
         /\ Mapping(Mapper(i), f)' <=> Mapping(Mapper(i), f)
         /\ Mapping(Mapper(i), f) => left'[Mapper(i)] = left[Mapper(i)]
    BY <1>1 DEF Quiet, Busy, Mapping
<1>3. WordsOnce'
  <2>1. UNCHANGED <<mid, cleaned, finished>>
      BY DEF Quiet
  <2> QED
      BY <1>2, <2>1 DEF WordsOnce
<1>4. ReadOnce'
    BY DEF ReadOnce, Quiet, Busy
<1>5. \A b \in Bucket : Reporting(b)' <=> Reporting(b)
    BY DEF Reporting, Quiet, Busy
<1>6. OutputOnce'
    BY <1>5 DEF OutputOnce, Quiet
<1> QED
    BY <1>3, <1>4, <1>6
-----------------------------------------------------------------------------
(* A map thread is known by the number of the files it writes.             *)
LEMMA Mappers ==
    /\ \A i \in MapId : Mapper(i) \in Thread /\ KindOf(Mapper(i)) = "map"
    /\ \A t \in Thread : KindOf(t) = "map" => t[2] \in MapId /\ t = Mapper(t[2])
    /\ \A i, j \in MapId : Mapper(i) = Mapper(j) => i = j
BY DEF Mapper, Thread, KindOf

(* A thread that picks a task up has written nothing of it, and a reduce   *)
(* lists every file that has words of its bucket.                          *)
LEMMA PickUpOnce ==
    ASSUME TypeInv, Ordered, Exclusive, MainOrder, WordsOnce, ReadOnce, OutputOnce,
           NEW t \in Thread, PickUp(t)
    PROVE  WordsOnce' /\ ReadOnce' /\ OutputOnce'
<1> DEFINE files == {i \in MapId : mid[i][task[t]] # NoWords}
           chosen == IF KindOf(t) = "map" THEN Bucket ELSE files
<1>1. /\ UNCHANGED <<mid, out, cleaned, finished, task>>
      /\ pc[t] = "holding"
      /\ \/ Goto(t, "stopped") /\ UNCHANGED <<left, sum>>
         \/ /\ Goto(t, "working")
            /\ left' = [left EXCEPT ![t] = chosen]
            /\ sum' = [sum EXCEPT ![t] = NoWords]
    BY DEF PickUp
<1> HIDE DEF chosen
<1>2. /\ pc \in [Thread -> Place] /\ left \in [Thread -> SUBSET Int]
      /\ sum \in [Thread -> [File -> Nat]]
    BY DEF TypeInv, TypeOK, ThreadTypes
<1>3. CASE Goto(t, "stopped") /\ UNCHANGED <<left, sum>>
  <2>1. Quiet
      BY <1>1, <1>2, <1>3 DEF Quiet, Busy, Goto
  <2> QED
      BY <2>1, QuietKeeps
<1>4. CASE /\ Goto(t, "working")
           /\ left' = [left EXCEPT ![t] = chosen]
           /\ sum' = [sum EXCEPT ![t] = NoWords]
  <2>1. /\ pc'[t] = "working" /\ left'[t] = chosen /\ sum'[t] = NoWords
        /\ \A u \in Thread : u # t =>
             pc'[u] = pc[u] /\ left'[u] = left[u] /\ sum'[u] = sum[u]
      BY <1>2, <1>4 DEF Goto
  <2>2. \A i \in MapId, f \in File :
           IF Mapper(i) = t THEN left'[Mapper(i)] = Bucket /\ ~Mapping(Mapper(i), f)
           ELSE /\ Mapping(Mapper(i), f)' <=> Mapping(Mapper(i), f)
                /\ left'[Mapper(i)] = left[Mapper(i)]
      BY <1>1, <2>1, Mappers DEF Mapping, chosen
  <2>3. WordsOnce'
      BY <1>1, <2>2 DEF WordsOnce
  <2>4. OutputOnce'
    <3>1. \A b \in Bucket : Reporting(b)' <=> Reporting(b)
        BY <1>1, <2>1 DEF Reporting
    <3> QED
        BY <1>1, <3>1 DEF OutputOnce
  <2>5. ASSUME KindOf(t) = "reduce"
        PROVE  /\ left'[t] \subseteq MapId
               /\ \A f \in File : sum'[t][f] = 0 /\
                    \E i \in left'[t] : mid[i][task[t]][f] = 1
    <3>1. left'[t] = files
        BY <2>1, <2>5 DEF chosen
    <3>2. \A f \in File : NoWords[f] = 0
        BY DEF NoWords
    <3>3. Active(t)
        BY <1>1 DEF Active
    <3>4. finished["map"] = File
        BY <2>5, <3>3 DEF Ordered, Active
    <3>5. cleaned = 0 /\ task[t] \in Bucket
        BY <2>5, <3>3, WorkBeforeCleaning, ThreadTyped
    <3>6. ASSUME NEW f \in File
          PROVE  \E i \in MapId : mid[i][task[t]][f] = 1
        BY <3>4, <3>5 DEF WordsOnce
    <3> QED
        BY <2>1, <3>1, <3>2, <3>6
  <2>6. ReadOnce'
      BY <1>1, <2>1, <2>5 DEF ReadOnce
  <2> QED
      BY <2>3, <2>4, <2>6
<1> QED
    BY <1>1, <1>3, <1>4

(* The words that are written are in no file yet.                          *)
LEMMA WriteWordsOnce ==
    ASSUME TypeInv, Ordered, Exclusive, MainOrder, WordsOnce, ReadOnce, OutputOnce,
           NEW t \in Thread, NEW b \in Bucket, WriteWords(t, b)
    PROVE  WordsOnce' /\ ReadOnce' /\ OutputOnce'
<1> DEFINE i == t[2]
           f == task[t]
           added == Plus(mid[i][b], mapF(f))
<1>1. /\ pc[t] = "working" /\ KindOf(t) = "map" /\ b \in left[t]
      /\ mid' = [mid EXCEPT ![i][b] = added]
      /\ left' = [left EXCEPT ![t] = @ \ {b}]
      /\ UNCHANGED <<finished, pc, task, sum, out, cleaned>>
    BY DEF WriteWords
<1>2. i \in MapId /\ t = Mapper(i) /\ f \in File
    BY <1>1, Mappers, ThreadTyped
<1>3. Active(t) /\ Alone(t)
    BY <1>1 DEF Active, Exclusive
<1>4. f \notin finished["map"]
    BY <1>1, <1>3 DEF Alone
<1>5. ASSUME NEW j \in MapId
      PROVE  mid[j][b][f] = 0
  <2>1. Mapping(Mapper(j), f) => Mapper(j) = t
      BY <1>1, <1>3, Mappers DEF Mapping, Active, Alone
  <2> QED
      BY <1>1, <1>2, <1>4, <2>1 DEF WordsOnce
<1>6. \A g \in File : added[g] = IF g = f THEN 1 ELSE mid[i][b][g]
  <2>1. mid[i][b] \in [File -> Nat]
      BY <1>2 DEF TypeInv, TypeOK, FileTypes
  <2>2. \A g \in File : mapF(f)[g] = IF g = f THEN 1 ELSE 0
      BY <1>2 DEF mapF, NoWords
  <2>3. \A g \in File : added[g] = mid[i][b][g] + mapF(f)[g]
      BY DEF Plus
  <2> QED
      BY <1>2, <1>5, <2>1, <2>2, <2>3
<1> HIDE DEF added, f, i
<1>7. \A j \in MapId, c \in Bucket : mid'[j][c] =
         IF j = i /\ c = b THEN added ELSE mid[j][c]
    BY <1>1, <1>2 DEF TypeInv, TypeOK, FileTypes
<1>8. \A j \in MapId, c \in Bucket, g \in File : mid'[j][c][g] =
         IF j = i /\ c = b /\ g = f THEN 1 ELSE mid[j][c][g]
    BY <1>6, <1>7
<1>9. /\ \A j \in MapId, g \in File : Mapping(Mapper(j), g)' <=> Mapping(Mapper(j), g)
      /\ \A u \in Thread : left'[u] = IF u = t THEN left[t] \ {b} ELSE left[u]
    BY <1>1 DEF Mapping, TypeInv, TypeOK, ThreadTypes
<1>10. Mapping(Mapper(i), f)
    BY <1>1, <1>2 DEF Mapping, f
<1>11. WordsOnce'
  <2>1. ASSUME NEW j \in MapId, NEW c \in Bucket, NEW g \in File
        PROVE  /\ mid'[j][c][g] \in {0, 1}
               /\ mid'[j][c][g] = 1 =>
                    \/ g \in finished["map"]
                    \/ Mapping(Mapper(j), g)' /\ c \notin left'[Mapper(j)]
               /\ \A k \in MapId : mid'[j][c][g] = 1 /\ mid'[k][c][g] = 1 => j = k
    <3>1. CASE c = b /\ g = f
        BY <3>1, <1>2, <1>5, <1>8, <1>9, <1>10, Mappers
    <3>2. CASE ~(c = b /\ g = f)
      <4>1. \A k \in MapId : mid'[k][c][g] = mid[k][c][g]
          BY <3>2, <1>8
      <4>2. c \notin left[Mapper(j)] => c \notin left'[Mapper(j)]
          BY <1>9, Mappers
      <4> QED
          BY <4>1, <4>2, <1>9 DEF WordsOnce
    <3> QED
        BY <3>1, <3>2
  <2>2. ASSUME cleaned = 0, NEW c \in Bucket, NEW g \in File
        PROVE  /\ g \in finished["map"] => \E j \in MapId : mid'[j][c][g] = 1
               /\ \A j \in MapId : Mapping(Mapper(j), g)' /\ c \notin left'[Mapper(j)]
                    => mid'[j][c][g] = 1
    <3>1. g \in finished["map"] => \E j \in MapId : mid[j][c][g] = 1
        BY <2>2 DEF WordsOnce
    <3>2. ASSUME NEW j \in MapId, Mapping(Mapper(j), g), c \notin left'[Mapper(j)]
          PROVE  mid'[j][c][g] = 1
      <4>1. CASE c \notin left[Mapper(j)]
          BY <2>2, <3>2, <4>1, <1>8 DEF WordsOnce
      <4>2. CASE c \in left[Mapper(j)]
        <5>1. Mapper(j) = t /\ c = b
            BY <3>2, <4>2, <1>9, Mappers
        <5>2. j = i /\ g = f
            BY <5>1, <3>2, <1>2, Mappers DEF Mapping, f
        <5> QED
            BY <5>1, <5>2, <1>8
      <4> QED
          BY <4>1, <4>2
    <3> QED
        BY <3>1, <3>2, <1>8, <1>9
  <2> QED
      BY <2>1, <2>2, <1>1 DEF WordsOnce
<1>12. ReadOnce'
  <2>1. \A u \in Thread : ~(KindOf(u) = "reduce" /\ pc[u] = "working")
      BY <1>1, <1>3, ReducesWorkAlone DEF Active
  <2> QED
      BY <1>1, <2>1 DEF ReadOnce
<1>13. OutputOnce'
    BY <1>1 DEF OutputOnce, Reporting
<1> QED
    BY <1>11, <1>12, <1>13

(* No two of the files a reduce reads have words of the same file.         *)
LEMMA ReadWordsOnce ==
    ASSUME TypeInv, WordsOnce, ReadOnce, OutputOnce,
           NEW t \in Thread, NEW i \in MapId, ReadWords(t, i)
    PROVE  WordsOnce' /\ ReadOnce' /\ OutputOnce'
<1> DEFINE k == task[t]
           rest == left[t] \ {i}
           total == Plus(sum[t], mid[i][k])
<1>1. /\ pc[t] = "working" /\ KindOf(t) = "reduce" /\ i \in left[t]
      /\ sum' = [sum EXCEPT ![t] = total]
      /\ left' = [left EXCEPT ![t] = rest]
      /\ UNCHANGED <<mid, out, cleaned, finished, pc, task>>
    BY DEF ReadWords
<1>2. /\ left[t] \subseteq MapId /\ k \in Bucket
      /\ \A f \in File :
           sum[t][f] = IF \E j \in left[t] : mid[j][k][f] = 1 THEN 0 ELSE 1
    BY <1>1, ThreadTyped DEF ReadOnce
<1>3. \A f \in File : total[f] = sum[t][f] + mid[i][k][f]
    BY DEF Plus
<1>4. \A f \in File :
         /\ mid[i][k][f] \in {0, 1}
         /\ \A j \in MapId : mid[i][k][f] = 1 /\ mid[j][k][f] = 1 => i = j
    BY <1>2 DEF WordsOnce
<1>5. ASSUME NEW f \in File
      PROVE  total[f] = IF \E j \in rest : mid[j][k][f] = 1 THEN 0 ELSE 1
  <2>1. CASE mid[i][k][f] = 1
    <3>1. sum[t][f] = 0
        BY <1>1, <1>2, <2>1
    <3>2. \A j \in rest : mid[j][k][f] # 1
        BY <1>2, <1>4, <2>1
    <3> QED
        BY <1>3, <2>1, <3>1, <3>2
  <2>2. CASE mid[i][k][f] = 0
    <3>1. (\E j \in rest : mid[j][k][f] = 1) <=> \E j \in left[t] : mid[j][k][f] = 1
        BY <2>2
    <3> HIDE DEF k, rest, total
    <3>2. total[f] = sum[t][f]
        BY <1>2, <1>3, <2>2
    <3> QED
        BY <1>2, <3>1, <3>2
  <2> QED
      BY <1>4, <2>1, <2>2
<1> HIDE DEF rest, total
<1>6. /\ sum'[t] = total /\ left'[t] = rest
      /\ \A u \in Thread : u # t => sum'[u] = sum[u] /\ left'[u] = left[u]
    BY <1>1 DEF TypeInv, TypeOK, ThreadTypes
<1>7. rest \subseteq MapId
    BY <1>2 DEF rest
<1>8. ReadOnce'
    BY <1>1, <1>5, <1>6, <1>7 DEF ReadOnce
<1>9. \A j \in MapId : left'[Mapper(j)] = left[Mapper(j)]
    BY <1>1, <1>6, Mappers
<1>10. WordsOnce'
    BY <1>1, <1>9 DEF WordsOnce, Mapping
<1>11. OutputOnce'
    BY <1>1 DEF OutputOnce, Reporting
<1> QED
    BY <1>8, <1>10, <1>11

(* The output of a bucket is written once, with every word once.           *)
LEMMA WriteOutputOnce ==
    ASSUME TypeInv, Exclusive, WordsOnce, ReadOnce, OutputOnce,
           NEW t \in Thread, WriteOutput(t)
    PROVE  WordsOnce' /\ ReadOnce' /\ OutputOnce'
<1> DEFINE b == task[t]
<1>1. /\ pc[t] = "working" /\ KindOf(t) = "reduce" /\ left[t] = {}
      /\ out' = [out EXCEPT ![b] = Append(@, sum[t])]
      /\ Goto(t, "reporting")
      /\ UNCHANGED <<mid, cleaned, finished, task, left, sum>>
    BY DEF WriteOutput
<1>2. b \in Bucket /\ sum[t] \in [File -> Nat]
    BY <1>1, ThreadTyped DEF TypeInv, TypeOK, ThreadTypes
<1>3. \A u \in Thread : pc'[u] = IF u = t THEN "reporting" ELSE pc[u]
    BY <1>1 DEF Goto, TypeInv, TypeOK, ThreadTypes
<1>4. sum[t] = Once
    BY <1>1, <1>2 DEF ReadOnce, Once
<1>5. Active(t) /\ Alone(t)
    BY <1>1 DEF Active, Exclusive
<1>6. b \notin finished["reduce"] /\ ~Reporting(b)
    BY <1>1, <1>5 DEF Alone, Active, Reporting
<1>7. out[b] = <<>>
    BY <1>2, <1>6 DEF OutputOnce
<1>8. \A c \in Bucket : out'[c] = IF c = b THEN <<Once>> ELSE out[c]
    BY <1>1, <1>4, <1>7 DEF TypeInv, TypeOK, FileTypes
<1> HIDE DEF b
<1>9. \A c \in Bucket : Reporting(c)' <=> c = b \/ Reporting(c)
    BY <1>1, <1>3 DEF Reporting, b
<1>10. OutputOnce'
  <2>1. <<Once>> # <<>>
      OBVIOUS
  <2> QED
      BY <1>1, <1>6, <1>8, <1>9, <2>1 DEF OutputOnce
<1>11. WordsOnce'
  <2>1. \A i \in MapId : pc'[Mapper(i)] = pc[Mapper(i)]
      BY <1>1, <1>3, Mappers
  <2> QED
      BY <1>1, <2>1 DEF WordsOnce, Mapping
<1>12. ReadOnce'
    BY <1>1, <1>3 DEF ReadOnce
<1> QED
    BY <1>10, <1>11, <1>12

(* A finished map has its words in a file of each bucket.                  *)
LEMMA ReportMapOnce ==
    ASSUME TypeInv, Ordered, Exclusive, MainOrder, WordsOnce, ReadOnce, OutputOnce,
           NEW t \in Thread, ReportMap(t)
    PROVE  WordsOnce' /\ ReadOnce' /\ OutputOnce'
<1> DEFINE f == task[t]
<1>1. /\ pc[t] = "working" /\ KindOf(t) = "map" /\ left[t] = {}
      /\ finished' = [finished EXCEPT !["map"] = @ \cup {f}]
      /\ Goto(t, "asking")
      /\ UNCHANGED <<mid, out, cleaned, task, left, sum>>
    BY DEF ReportMap, SetStat
<1>2. t[2] \in MapId /\ t = Mapper(t[2]) /\ f \in File
    BY <1>1, Mappers, ThreadTyped
<1>3. /\ finished'["map"] = finished["map"] \cup {f}
      /\ finished'["reduce"] = finished["reduce"]
    BY <1>1 DEF TypeInv, TypeOK, MasterTypes, Kind
<1>4. \A u \in Thread : pc'[u] = IF u = t THEN "asking" ELSE pc[u]
    BY <1>1 DEF Goto, TypeInv, TypeOK, ThreadTypes
<1>5. Mapping(t, f)
    BY <1>1 DEF Mapping
<1>6. cleaned = 0 => \A b \in Bucket : mid[t[2]][b][f] = 1
    BY <1>1, <1>2, <1>5 DEF WordsOnce
<1> HIDE DEF f
<1>7. \A i \in MapId, g \in File :
         Mapping(Mapper(i), g)' <=> Mapping(Mapper(i), g) /\ Mapper(i) # t
    BY <1>1, <1>4, Mappers DEF Mapping
<1>8. \A i \in MapId, g \in File :
         Mapping(Mapper(i), g) /\ Mapper(i) = t => g = f
    BY <1>5 DEF Mapping
<1>9. WordsOnce'
    BY <1>1, <1>2, <1>3, <1>6, <1>7, <1>8 DEF WordsOnce
<1>10. ReadOnce'
    BY <1>1, <1>4 DEF ReadOnce
<1>11. \A b \in Bucket : Reporting(b)' <=> Reporting(b)
    BY <1>1, <1>4 DEF Reporting
<1>12. OutputOnce'
    BY <1>1, <1>3, <1>11 DEF OutputOnce
<1> QED
    BY <1>9, <1>10, <1>12

(* A finished bucket has its output.                                       *)
LEMMA ReportReduceOnce ==
    ASSUME TypeInv, Exclusive, WordsOnce, ReadOnce, OutputOnce,
           NEW t \in Thread, ReportReduce(t)
    PROVE  WordsOnce' /\ ReadOnce' /\ OutputOnce'
<1> DEFINE b == task[t]
<1>1. /\ pc[t] = "reporting" /\ KindOf(t) = "reduce"
      /\ finished' = [finished EXCEPT !["reduce"] = @ \cup {b}]
      /\ Goto(t, "asking")
      /\ UNCHANGED <<mid, out, cleaned, task, left, sum>>
    BY DEF ReportReduce, SetStat
<1>2. /\ finished'["reduce"] = finished["reduce"] \cup {b}
      /\ finished'["map"] = finished["map"]
    BY <1>1 DEF TypeInv, TypeOK, MasterTypes, Kind
<1>3. \A u \in Thread : pc'[u] = IF u = t THEN "asking" ELSE pc[u]
    BY <1>1 DEF Goto, TypeInv, TypeOK, ThreadTypes
<1>4. Active(t) /\ Alone(t) /\ Reporting(b)
    BY <1>1 DEF Active, Exclusive, Reporting
<1>5. \A u \in Thread :
         KindOf(u) = "reduce" /\ pc[u] = "reporting" /\ task[u] = b => u = t
    BY <1>1, <1>4 DEF Alone, Active
<1> HIDE DEF b
<1>6. \A c \in Bucket : c # b => (Reporting(c)' <=> Reporting(c))
    BY <1>1, <1>3 DEF Reporting, b
<1>7. \A c \in Bucket : c = b => ~Reporting(c)'
    BY <1>1, <1>3, <1>5 DEF Reporting
<1>8. OutputOnce'
    BY <1>1, <1>2, <1>4, <1>6, <1>7 DEF OutputOnce
<1>9. \A i \in MapId : pc'[Mapper(i)] = pc[Mapper(i)]
    BY <1>1, <1>3, Mappers
<1>10. WordsOnce'
    BY <1>1, <1>2, <1>9 DEF WordsOnce, Mapping
<1>11. ReadOnce'
    BY <1>1, <1>3 DEF ReadOnce
<1> QED
    BY <1>8, <1>10, <1>11

(* Files are removed when nobody writes or reads them.                     *)
LEMMA RemoveRowOnce ==
    ASSUME TypeInv, Ordered, Exclusive, MainOrder, WordsOnce, ReadOnce, OutputOnce,
           RemoveRow
    PROVE  WordsOnce' /\ ReadOnce' /\ OutputOnce'
<1>1. /\ cleaned' = cleaned + 1
      /\ mid' = [mid EXCEPT ![cleaned + 1] = [b \in Bucket |-> NoWords]]
      /\ UNCHANGED <<finished, out, pc, task, left, sum>>
    BY DEF RemoveRow
<1>2. cleaned' # 0
    BY <1>1 DEF TypeInv, TypeOK, MainTypes
<1>3. \A t \in Thread : ~Active(t)
    BY NobodyWorksWhenCleaning DEF RemoveRow, Cleaning
<1>4. \A i \in MapId, b \in Bucket, f \in File :
         mid'[i][b][f] = IF i = cleaned + 1 THEN 0 ELSE mid[i][b][f]
  <2>1. \A i \in MapId :
           mid'[i] = IF i = cleaned + 1 THEN [b \in Bucket |-> NoWords] ELSE mid[i]
      BY <1>1 DEF TypeInv, TypeOK, FileTypes
  <2> QED
      BY <2>1 DEF NoWords
<1>5. \A i \in MapId, f \in File : ~Mapping(Mapper(i), f) /\ ~Mapping(Mapper(i), f)'
    BY <1>1, <1>3, Mappers DEF Mapping, Active
<1>6. WordsOnce'
    BY <1>1, <1>2, <1>4, <1>5 DEF WordsOnce
<1>7. ReadOnce'
    BY <1>1, <1>3 DEF ReadOnce, Active
<1>8. OutputOnce'
    BY <1>1 DEF OutputOnce, Reporting
<1> QED
    BY <1>6, <1>7, <1>8
-----------------------------------------------------------------------------
(* The initial states satisfy the invariant.                               *)
LEMMA InitOnce == Init => OnceInv
<1> SUFFICES ASSUME Init
             PROVE  OnceInv
    OBVIOUS
<1>1. \A kind \in Kind :
         /\ running[kind] = <<>> /\ cur[kind] = 0 /\ finished[kind] = {}
         /\ serving = Idle
    BY DEF Init, MasterInit
<1>2. \A t \in Thread : pc[t] \in {"asking", "new"}
    BY DEF Init, NewThreads
<1>3. \A kind \in Kind : NoneTwice(todo[kind], 0)
  <2>1. /\ Len([i \in 1..FileNum |-> i]) = FileNum
        /\ Len([i \in 1..ReduceNum |-> i - 1]) = ReduceNum
      BY TasksAssumption
  <2>2. /\ NoneTwice([i \in 1..FileNum |-> i], 0)
        /\ NoneTwice([i \in 1..ReduceNum |-> i - 1], 0)
      BY <2>1, TasksAssumption DEF NoneTwice
  <2> QED
      BY <2>2 DEF Init, MasterInit, Kind
<1>4. Len(<<>>) = 0 /\ NoneTwice(<<>>, 0) /\ \A k : ~Behind(<<>>, 0, k)
    BY DEF NoneTwice, Behind
<1>5. \A kind, k : ~Hands(serving, kind, k)
    BY DEF Hands, Init, MasterInit
<1>6. Exclusive
    BY <1>1, <1>2, <1>3, <1>4, <1>5 DEF Exclusive, OnePlaceOf, OnePlace, Active
<1>7. mid = NoFiles /\ cleaned = 0 /\ mainPc = "creating"
      /\ out = [b \in Bucket |-> <<>>] /\ pc = NewThreads
    BY DEF Init
<1>8. MainOrder
    BY <1>7 DEF MainOrder, Cleaning, Early, NewThreads, MapId
<1>9. WordsOnce
  <2>1. \A i \in MapId, b \in Bucket, f \in File : mid[i][b][f] = 0
      BY <1>7 DEF NoFiles, NoWords
  <2>2. \A i \in MapId, f \in File : ~Mapping(Mapper(i), f)
      BY <1>2, Mappers DEF Mapping
  <2>3. finished["map"] = {}
      BY <1>1 DEF Kind
  <2> QED
      BY <2>1, <2>2, <2>3 DEF WordsOnce
<1>10. ReadOnce
    BY <1>2 DEF ReadOnce
<1>11. OutputOnce
    BY <1>1, <1>2, <1>7 DEF OutputOnce, Reporting, Kind
<1> QED
    BY <1>6, <1>8, <1>9, <1>10, <1>11 DEF OnceInv

(* Every step keeps the invariant where work is timely.                    *)
LEMMA NextOnce ==
    ASSUME Timely, MaxRestarts = 0, TypeInv, Ordered, OnceInv, [Next]_vars
    PROVE  OnceInv'
<1> USE DEF OnceInv
<1>1. Exclusive' /\ MainOrder'
    BY NextExclusive, NextMainOrder
<1>2. WordsOnce' /\ ReadOnce' /\ OutputOnce'
  <2>1. ASSUME NEW t \in Thread, Work(t)
        PROVE  WordsOnce' /\ ReadOnce' /\ OutputOnce'
      BY <2>1, PickUpOnce, WriteWordsOnce, ReadWordsOnce, WriteOutputOnce,
         ReportMapOnce, ReportReduceOnce DEF Work
  <2> QED
      BY <2>1, QuietOrNot, QuietKeeps, RemoveRowOnce
<1> QED
    BY <1>1, <1>2

(* What is counted is counted once, and no intermediate file stays, if no  *)
(* thread outlives the timeout of its task, main() is not woken unasked,   *)
(* and the worker is not started again.                                    *)
LEMMA OnceInvariance ==
    ASSUME Timely, ~Spurious, MaxRestarts = 0
    PROVE  Spec => []OnceInv
<1>1. Init => Ordered
    BY DEF Init, Ordered, Started, NewThreads
<1>2. TypeInv /\ Ordered /\ [Next]_vars => Ordered'
    BY NextOrdered
<1>3. TypeInv /\ Ordered /\ OnceInv /\ [Next]_vars => OnceInv'
    BY NextOnce
<1> QED
    BY <1>1, <1>2, <1>3, InitOnce, TypeInvariance, PTL DEF Spec

(* Every word is counted once: the output of a bucket is written once,     *)
(* complete, and before the bucket counts as finished, wherever threads    *)
(* stop, as long as none outlives the timeout of its task.                 *)
THEOREM EveryWordOnce ==
    ASSUME Timely, ~Spurious, MaxRestarts = 0
    PROVE  Spec => []CountedOnce
<1>1. OnceInv => CountedOnce
    BY DEF OnceInv, OutputOnce, CountedOnce
<1> QED
    BY <1>1, OnceInvariance, PTL

(* No intermediate file is left when the worker has exited.                *)
THEOREM NoFileLeft ==
    ASSUME Timely, ~Spurious, MaxRestarts = 0
    PROVE  Spec => []CleanedUp
<1>1. OnceInv => CleanedUp
    BY WorkersAssumption DEF OnceInv, MainOrder, CleanedUp, MapId
<1> QED
    BY <1>1, OnceInvariance, PTL
-----------------------------------------------------------------------------
(* A step writes the complete output of one bucket, or lets the worker     *)
(* exit with all of them written, or is none of the abstract worker.       *)
LEMMA StepPromisedToUser ==
    ASSUME MaxRestarts = 0, TypeInv, OnceInv, [Next]_vars
    PROVE  [Promised!Next]_(Promised!vars)
<1> USE DEF OnceInv
<1>1. ASSUME NEW t \in Thread, WriteOutput(t)
      PROVE  Promised!Write(task[t])
  <2>1. /\ pc[t] = "working" /\ KindOf(t) = "reduce" /\ left[t] = {}
        /\ out' = [out EXCEPT ![task[t]] = Append(@, sum[t])]
        /\ mainPc # "exited" /\ UNCHANGED mainPc
      BY <1>1 DEF WriteOutput, Alive
  <2>2. task[t] \in Bucket /\ sum[t] \in [File -> Nat]
      BY <2>1, ThreadTyped DEF TypeInv, TypeOK, ThreadTypes
  <2>3. sum[t] = Once
      BY <2>1, <2>2 DEF ReadOnce, Once
  <2>4. task[t] \notin finished["reduce"] /\ ~Reporting(task[t])
      BY <2>1 DEF Exclusive, Alone, Active, Reporting
  <2>5. out[task[t]] = <<>>
      BY <2>2, <2>4 DEF OutputOnce
  <2> QED
      BY <2>1, <2>3, <2>5 DEF Promised!Write
<1>2. ASSUME Exit
      PROVE  Promised!Exit
  <2>1. finished["reduce"] = Bucket
      BY <1>2 DEF Exit, MainOrder, Cleaning
  <2>2. \A b \in Bucket : out[b] = <<Once>>
      BY <2>1 DEF OutputOnce
  <2> QED
      BY <1>2, <2>2 DEF Exit, Promised!Exit
<1>3. ASSUME ~Exit, \A t \in Thread : ~WriteOutput(t)
      PROVE  UNCHANGED <<out, mainPc = "exited">>
  <2>1. ASSUME NEW t \in Thread, ThreadStep(t)
        PROVE  UNCHANGED <<out, mainPc = "exited">>
      BY <1>3, <2>1 DEF ThreadStep, mapWorker, reduceWorker, FindUnfinished,
         FindNoTask, RequestTask, PickUp, FindMapsDone, WriteWords, ReportMap,
         FindReducesDone, ReadWords, ReportReduce
  <2>2. CASE \/ ReceiveTask \/ main \/ SpuriousWakeup \/ UNCHANGED vars
             \/ \E kind \in Kind : Expire(kind)
      BY <1>3, <2>2 DEF ReceiveTask, main, MainWaits, StartReduces, SeeDone,
         RemoveRow, SpuriousWakeup, vars, Expire
  <2> QED
      BY <2>1, <2>2, MainMoves DEF Next
<1>4. \A t \in Thread : WriteOutput(t) => task[t] \in Bucket
    BY ThreadTyped DEF WriteOutput
<1> QED
    BY <1>1, <1>2, <1>3, <1>4 DEF Promised!Next, Promised!vars

(* The worker does what it promises its user: no output is written twice   *)
(* or incomplete, and it does not exit before every output is written.     *)
THEOREM OutputsAsPromised ==
    ASSUME Timely, ~Spurious, MaxRestarts = 0
    PROVE  Spec => OutputsPromised
<1>1. Init => Promised!Init
    BY DEF Init, Promised!Init
<1>2. TypeInv /\ OnceInv /\ [Next]_vars => [Promised!Next]_(Promised!vars)
    BY StepPromisedToUser
<1> QED
    BY <1>1, <1>2, OnceInvariance, TypeInvariance, PTL
       DEF Spec, OutputsPromised, Promised!Spec
=============================================================================

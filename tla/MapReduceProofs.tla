-------------------------- MODULE MapReduceProofs --------------------------
(***************************************************************************)
(* What is proved of the MapReduce, for every number of files, buckets and *)
(* threads, and however slow or stopped the threads are.                   *)
(***************************************************************************)
EXTENDS MapReduceProperties, SequenceTheorems, FiniteSetTheorems, TLAPS

USE DEF masterVars, threadVars, fileVars, mainVars

(* A task of one kind is at some place of a sequence.                      *)
Has(s, k) == \E i \in 1..Len(s) : s[i] = k

(* What waits behind the cursor.                                           *)
Behind(s, c, k) == \E i \in (c + 1)..Len(s) : s[i] = k

-----------------------------------------------------------------------------
(* Appending keeps what a sequence has and adds the new element, behind    *)
(* the cursor too.                                                         *)
LEMMA Appended ==
    ASSUME NEW s \in Seq(Int), NEW e \in Int, NEW k, NEW c \in Nat, c <= Len(s)
    PROVE  /\ Append(s, e) \in Seq(Int) /\ Len(Append(s, e)) = Len(s) + 1
           /\ Has(s, k) => Has(Append(s, e), k)
           /\ Has(Append(s, e), e)
           /\ Behind(s, c, k) => Behind(Append(s, e), c, k)
           /\ Behind(Append(s, e), c, e)
<1> DEFINE longer == Append(s, e)
<1>1. /\ longer \in Seq(Int) /\ Len(longer) = Len(s) + 1
      /\ longer[Len(s) + 1] = e
      /\ \A i \in 1..Len(s) : longer[i] = s[i]
    OBVIOUS
<1>2. Len(s) \in Nat
    OBVIOUS
<1> HIDE DEF longer
<1>3. Has(s, k) => Has(longer, k)
    BY <1>1, <1>2 DEF Has
<1>4. Has(longer, e)
  <2>1. Len(s) + 1 \in 1..Len(longer)
      BY <1>1, <1>2
  <2> QED
      BY <2>1, <1>1 DEF Has
<1>5. Behind(s, c, k) => Behind(longer, c, k)
  <2> SUFFICES ASSUME NEW i \in (c + 1)..Len(s), s[i] = k
               PROVE  Behind(longer, c, k)
      BY DEF Behind
  <2>1. i \in (c + 1)..Len(longer) /\ i \in 1..Len(s)
      BY <1>1, <1>2
  <2> QED
      BY <2>1, <1>1 DEF Behind
<1>6. Behind(longer, c, e)
  <2>1. Len(s) + 1 \in (c + 1)..Len(longer)
      BY <1>1, <1>2
  <2> QED
      BY <2>1, <1>1 DEF Behind
<1> QED
    BY <1>1, <1>3, <1>4, <1>5, <1>6 DEF longer

(* Taking off the last element loses that one only.                        *)
LEMMA Shortened ==
    ASSUME NEW s \in Seq(Int), s # <<>>, NEW k
    PROVE  /\ SubSeq(s, 1, Len(s) - 1) \in Seq(Int)
           /\ Len(SubSeq(s, 1, Len(s) - 1)) = Len(s) - 1
           /\ Len(s) \in 1..Len(s) /\ s[Len(s)] \in Int
           /\ \A i \in 1..(Len(s) - 1) : SubSeq(s, 1, Len(s) - 1)[i] = s[i]
           /\ Has(s, k) => \/ k = s[Len(s)]
                           \/ Has(SubSeq(s, 1, Len(s) - 1), k)
<1> DEFINE shorter == SubSeq(s, 1, Len(s) - 1)
<1>1. Len(s) \in Nat /\ Len(s) > 0
    OBVIOUS
<1>2. /\ shorter \in Seq(Int) /\ Len(shorter) = Len(s) - 1
      /\ \A i \in 1..(Len(s) - 1) : shorter[i] = s[i]
      /\ s[Len(s)] \in Int /\ Len(s) \in 1..Len(s)
  <2>1. Len(s) - 1 \in 0..Len(s) /\ Len(s) \in 1..Len(s)
      BY <1>1
  <2>2. /\ shorter \in Seq(Int) /\ Len(shorter) = Len(s) - 1
        /\ \A i \in 1..(Len(s) - 1) : shorter[i] = s[1 + i - 1]
    <3> DEFINE last == Len(s) - 1
    <3>1. last \in Nat /\ \A i \in 1..last : s[i] \in Int
        BY <1>1
    <3> HIDE DEF last
    <3>2. /\ SubSeq(s, 1, last) \in Seq(Int)
          /\ Len(SubSeq(s, 1, last)) = IF 1 <= last THEN last - 1 + 1 ELSE 0
          /\ \A i \in 1..(last - 1 + 1) : SubSeq(s, 1, last)[i] = s[1 + i - 1]
        BY <3>1, SubSeqProperties
    <3>3. Len(SubSeq(s, 1, last)) = last /\ last - 1 + 1 = last
        BY <3>1, <3>2
    <3> QED
        BY <3>2, <3>3 DEF last
  <2> QED
      BY <1>1, <2>1, <2>2
<1> HIDE DEF shorter
<1>3. Has(s, k) => k = s[Len(s)] \/ Has(shorter, k)
  <2> SUFFICES ASSUME NEW i \in 1..Len(s), s[i] = k, k # s[Len(s)]
               PROVE  Has(shorter, k)
      BY DEF Has
  <2>1. i \in 1..(Len(s) - 1) /\ i \in 1..Len(shorter)
      BY <1>1, <1>2
  <2> QED
      BY <2>1, <1>2 DEF Has
<1> QED
    BY <1>2, <1>3 DEF shorter

(* The cursor moves past one task only.                                    *)
LEMMA MovedPast ==
    ASSUME NEW s \in Seq(Int), NEW k, NEW c \in Nat, c < Len(s)
    PROVE  /\ c + 1 \in 1..Len(s) /\ s[c + 1] \in Int
           /\ Behind(s, c, k) => k = s[c + 1] \/ Behind(s, c + 1, k)
<1>1. Len(s) \in Nat /\ c + 1 \in 1..Len(s)
    OBVIOUS
<1>2. ASSUME NEW i \in (c + 1)..Len(s), s[i] = k, k # s[c + 1]
      PROVE  Behind(s, c + 1, k)
  <2>1. i \in (c + 1 + 1)..Len(s)
      BY <1>1, <1>2
  <2> QED
      BY <2>1, <1>2 DEF Behind
<1> QED
    BY <1>1, <1>2 DEF Behind
-----------------------------------------------------------------------------
(* NoTaskLost of one kind, of the state or of the next one.                *)
Kept(listed, handed, c, done, ending, call, kind) ==
    /\ c + ending = Len(handed)
    /\ \A k \in Task(kind) \ done :
         Has(listed, k) \/ Behind(handed, c, k)
            \/ (call # Idle /\ call.kind = kind /\ call.task = k)

(* NoTaskLost is Kept of each kind.                                        *)
LEMMA KeptIsNoTaskLost ==
    NoTaskLost <=>
        \A kind \in Kind :
            Kept(todo[kind], running[kind], cur[kind], finished[kind],
                 timers[kind], serving, kind)
BY DEF NoTaskLost, Kept, Has, Behind

(* The same of the next state.                                             *)
LEMMA KeptIsNoTaskLostNext ==
    NoTaskLost' <=>
        \A kind \in Kind :
            Kept(todo'[kind], running'[kind], cur'[kind], finished'[kind],
                 timers'[kind], serving', kind)
BY DEF NoTaskLost, Kept, Has, Behind

(* What the members of the master hold for one kind.                       *)
LEMMA KindTyped ==
    ASSUME MasterTypes, NEW kind \in Kind
    PROVE  /\ todo[kind] \in Seq(Int) /\ running[kind] \in Seq(Int)
           /\ finished[kind] \subseteq Int
           /\ cur[kind] \in Nat /\ timers[kind] \in Nat
BY DEF MasterTypes
-----------------------------------------------------------------------------
(* Taking a task: it leaves the list for the call.                         *)
LEMMA TakeTaskKeeps ==
    ASSUME MasterTypes, NoTaskLost, NEW kind \in Kind, NEW t \in Thread,
           TakeTask(kind, t)
    PROVE  MasterTypes' /\ NoTaskLost'
<1> DEFINE last == todo[kind][Len(todo[kind])]
           rest == SubSeq(todo[kind], 1, Len(todo[kind]) - 1)
<1>1. todo[kind] \in Seq(Int) /\ todo[kind] # <<>>
    BY KindTyped DEF TakeTask
<1>2. rest \in Seq(Int) /\ last \in Int
    BY <1>1, Shortened
<1>3. \A k : Has(todo[kind], k) => k = last \/ Has(rest, k)
    BY <1>1, Shortened
<1>4. /\ todo' = [todo EXCEPT ![kind] = rest]
      /\ serving' = [step |-> "taken", kind |-> kind, caller |-> t, task |-> last]
      /\ serving = Idle
      /\ UNCHANGED <<running, cur, finished, timers>>
    BY DEF TakeTask
<1> HIDE DEF last, rest
<1>5. MasterTypes'
    BY <1>2, <1>4 DEF MasterTypes, Handout
<1>6. NoTaskLost'
  <2> SUFFICES ASSUME NEW other \in Kind
               PROVE  Kept(todo'[other], running'[other], cur'[other],
                           finished'[other], timers'[other], serving', other)
      BY KeptIsNoTaskLostNext
  <2>1. Kept(todo[other], running[other], cur[other], finished[other],
             timers[other], serving, other)
      BY KeptIsNoTaskLost
  <2>2. todo'[other] = IF other = kind THEN rest ELSE todo[other]
      BY <1>4 DEF MasterTypes
  <2>3. serving' # Idle /\ serving'.kind = kind /\ serving'.task = last
      BY <1>4 DEF Idle
  <2> QED
      BY <1>3, <1>4, <2>1, <2>2, <2>3 DEF Kept
<1> QED
    BY <1>5, <1>6

(* The call ends: its task is behind the cursor.                           *)
LEMMA WaitTaskKeeps ==
    ASSUME MasterTypes, NoTaskLost, waitTask
    PROVE  MasterTypes' /\ NoTaskLost'
<1> DEFINE kind == serving.kind
           longer == Append(running[kind], serving.task)
<1>1. serving \in Handout /\ serving # Idle
    BY DEF MasterTypes, waitTask
<1>2. kind \in Kind /\ serving.task \in Int
    BY <1>1 DEF Handout
<1>3. /\ running' = [running EXCEPT ![kind] = longer]
      /\ timers' = [timers EXCEPT ![kind] = @ + 1]
      /\ serving' = Idle
      /\ UNCHANGED <<todo, cur, finished>>
    BY DEF waitTask
<1>4. /\ running[kind] \in Seq(Int) /\ cur[kind] \in Nat /\ timers[kind] \in Nat
      /\ cur[kind] + timers[kind] = Len(running[kind])
    BY <1>2, KindTyped, KeptIsNoTaskLost DEF Kept
<1>5. cur[kind] <= Len(running[kind])
    BY <1>4
<1>6. /\ longer \in Seq(Int) /\ Len(longer) = Len(running[kind]) + 1
      /\ \A k : Behind(running[kind], cur[kind], k) => Behind(longer, cur[kind], k)
      /\ Behind(longer, cur[kind], serving.task)
    BY <1>2, <1>4, <1>5, Appended
<1> HIDE DEF longer, kind
<1>7. MasterTypes'
  <2>1. timers[kind] + 1 \in Nat
      BY <1>4
  <2> QED
      BY <2>1, <1>2, <1>3, <1>6 DEF MasterTypes
<1>8. NoTaskLost'
  <2> SUFFICES ASSUME NEW other \in Kind
               PROVE  Kept(todo'[other], running'[other], cur'[other],
                           finished'[other], timers'[other], serving', other)
      BY KeptIsNoTaskLostNext
  <2>1. Kept(todo[other], running[other], cur[other], finished[other],
             timers[other], serving, other)
      BY KeptIsNoTaskLost
  <2>2. CASE other = kind
    <3>1. running'[other] = longer /\ timers'[other] = timers[kind] + 1
        BY <2>2, <1>2, <1>3 DEF MasterTypes
    <3>2. Len(longer) = Len(running[kind]) + 1
        BY <1>6
    <3>3. cur[kind] + (timers[kind] + 1) = Len(longer)
      <4>1. \A a, b, l \in Nat : a + b = l => a + (b + 1) = l + 1
          OBVIOUS
      <4>2. Len(running[kind]) \in Nat
          BY <1>4
      <4> QED
          BY <1>4, <3>2, <4>1, <4>2
    <3>4. cur'[other] = cur[kind] /\ finished'[other] = finished[other]
          /\ todo'[other] = todo[other]
        BY <1>3, <2>2
    <3>5. \A k \in Task(other) \ finished[other] :
             Has(todo[other], k) \/ Behind(longer, cur[kind], k)
        BY <1>6, <2>1, <2>2 DEF Kept, kind
    <3> QED
        BY <3>1, <3>3, <3>4, <3>5 DEF Kept
  <2>3. CASE other # kind
    <3>1. running'[other] = running[other] /\ timers'[other] = timers[other]
        BY <2>3, <1>3 DEF MasterTypes
    <3> QED
        BY <1>3, <2>1, <2>3, <3>1 DEF Kept, kind
  <2> QED
      BY <2>2, <2>3
<1> QED
    BY <1>7, <1>8

(* A timer ends: the task at the cursor is listed again, or is finished.   *)
LEMMA TimerEndsKeeps ==
    ASSUME MasterTypes, NoTaskLost, NEW kind \in Kind, TimerEnds(kind)
    PROVE  MasterTypes' /\ NoTaskLost'
<1> DEFINE next == running[kind][cur[kind] + 1]
           list == Relisted(kind)
<1>1. /\ running[kind] \in Seq(Int) /\ todo[kind] \in Seq(Int)
      /\ cur[kind] \in Nat /\ timers[kind] \in Nat
      /\ cur[kind] + timers[kind] = Len(running[kind])
    BY KindTyped, KeptIsNoTaskLost DEF Kept
<1>2. timers[kind] > 0 /\ cur[kind] < Len(running[kind])
    BY <1>1 DEF TimerEnds
<1>3. /\ next \in Int
      /\ \A k : Behind(running[kind], cur[kind], k)
                => k = next \/ Behind(running[kind], cur[kind] + 1, k)
    BY <1>1, <1>2, MovedPast
<1>4. /\ list \in Seq(Int)
      /\ \A k : Has(todo[kind], k) => Has(list, k)
      /\ next \notin finished[kind] => Has(list, next)
  <2>1. CASE next \in finished[kind]
      BY <1>1, <2>1 DEF Relisted, Watched
  <2>2. CASE next \notin finished[kind]
    <3>1. list = Append(todo[kind], next)
        BY <2>2 DEF Relisted, Watched
    <3>2. 0 \in Nat /\ 0 <= Len(todo[kind])
        BY <1>1
    <3> HIDE DEF next, list
    <3>3. \A k : /\ Append(todo[kind], next) \in Seq(Int)
                 /\ Has(todo[kind], k) => Has(Append(todo[kind], next), k)
                 /\ Has(Append(todo[kind], next), next)
        BY <1>1, <1>3, <3>2, Appended
    <3> QED
        BY <3>1, <3>3
  <2> QED
      BY <2>1, <2>2
<1>5. /\ todo' = [todo EXCEPT ![kind] = list]
      /\ cur' = [cur EXCEPT ![kind] = @ + 1]
      /\ timers' = [timers EXCEPT ![kind] = @ - 1]
      /\ UNCHANGED <<running, finished, serving>>
    BY DEF TimerEnds
<1> HIDE DEF next, list
<1>6. MasterTypes'
  <2>1. cur[kind] + 1 \in Nat /\ timers[kind] - 1 \in Nat
      BY <1>1, <1>2
  <2> QED
      BY <1>4, <1>5, <2>1 DEF MasterTypes
<1>7. NoTaskLost'
  <2> SUFFICES ASSUME NEW other \in Kind
               PROVE  Kept(todo'[other], running'[other], cur'[other],
                           finished'[other], timers'[other], serving', other)
      BY KeptIsNoTaskLostNext
  <2>1. Kept(todo[other], running[other], cur[other], finished[other],
             timers[other], serving, other)
      BY KeptIsNoTaskLost
  <2>2. CASE other = kind
    <3>1. /\ todo'[other] = list /\ cur'[other] = cur[kind] + 1
          /\ timers'[other] = timers[kind] - 1
        BY <2>2, <1>5 DEF MasterTypes
    <3>2. cur[kind] + 1 + (timers[kind] - 1) = Len(running[kind])
        BY <1>1
    <3> QED
        BY <1>3, <1>4, <1>5, <2>1, <2>2, <3>1, <3>2 DEF Kept
  <2>3. CASE other # kind
    <3>1. /\ todo'[other] = todo[other] /\ cur'[other] = cur[other]
          /\ timers'[other] = timers[other]
        BY <2>3, <1>5 DEF MasterTypes
    <3> QED
        BY <1>5, <2>1, <3>1 DEF Kept
  <2> QED
      BY <2>2, <2>3
<1> QED
    BY <1>6, <1>7

(* A task reported finished needs no keeping.                              *)
LEMMA SetStatKeeps ==
    ASSUME MasterTypes, NoTaskLost, NEW kind \in Kind, NEW k \in Int,
           SetStat(kind, k)
    PROVE  MasterTypes' /\ NoTaskLost'
<1>1. /\ finished' = [finished EXCEPT ![kind] = @ \cup {k}]
      /\ UNCHANGED <<todo, running, cur, timers, serving>>
    BY DEF SetStat
<1>2. MasterTypes'
    BY <1>1 DEF MasterTypes
<1>3. \A other \in Kind : finished[other] \subseteq finished'[other]
    BY <1>1 DEF MasterTypes
<1>4. NoTaskLost'
    BY <1>1, <1>3, KeptIsNoTaskLost, KeptIsNoTaskLostNext DEF Kept
<1> QED
    BY <1>2, <1>4
-----------------------------------------------------------------------------
(* The elements of a sequence are of a set.                                *)
Within(s, S) == \A i \in 1..Len(s) : s[i] \in S

(* Appending a member of S stays within S.                                 *)
LEMMA WithinAppended ==
    ASSUME NEW S, NEW s \in Seq(Int), NEW e \in Int, e \in S, Within(s, S)
    PROVE  Within(Append(s, e), S)
<1>1. \A i \in 1..(Len(s) + 1) : i \in 1..Len(s) \/ i = Len(s) + 1
    OBVIOUS
<1>2. /\ Len(Append(s, e)) = Len(s) + 1
      /\ \A i \in 1..Len(s) : Append(s, e)[i] = s[i]
      /\ Append(s, e)[Len(s) + 1] = e
    OBVIOUS
<1> QED
    BY <1>1, <1>2 DEF Within

(* Taking off the last element stays within S.                             *)
LEMMA WithinShortened ==
    ASSUME NEW S, NEW s \in Seq(Int), s # <<>>, Within(s, S)
    PROVE  Within(SubSeq(s, 1, Len(s) - 1), S) /\ s[Len(s)] \in S
<1>1. /\ Len(SubSeq(s, 1, Len(s) - 1)) = Len(s) - 1
      /\ Len(s) \in 1..Len(s)
      /\ \A i \in 1..(Len(s) - 1) : SubSeq(s, 1, Len(s) - 1)[i] = s[i]
    BY Shortened
<1>2. \A i \in 1..(Len(s) - 1) : i \in 1..Len(s)
    OBVIOUS
<1> QED
    BY <1>1, <1>2 DEF Within

(* KindsApart in these words, of the state or of the next one.             *)
Apart(listed, handed, done, call) ==
    /\ \A kind \in Kind :
         /\ Within(listed[kind], Task(kind))
         /\ Within(handed[kind], Task(kind))
         /\ done[kind] \subseteq Task(kind)
    /\ call # Idle => /\ call.task \in Task(call.kind)
                     /\ KindOf(call.caller) = call.kind

(* KindsApart in the words of Within.                                      *)
LEMMA ApartIsKindsApart ==
    /\ KindsApart <=> Apart(todo, running, finished, serving)
    /\ KindsApart' <=> Apart(todo', running', finished', serving')
BY DEF KindsApart, Apart, Within

(* TakeTask keeps KindsApart.                                              *)
LEMMA TakeTaskApart ==
    ASSUME MasterTypes, KindsApart, NEW t \in Thread, TakeTask(KindOf(t), t),
           KindOf(t) \in Kind
    PROVE  KindsApart'
<1> DEFINE kind == KindOf(t)
           last == todo[kind][Len(todo[kind])]
           rest == SubSeq(todo[kind], 1, Len(todo[kind]) - 1)
<1>1. todo[kind] \in Seq(Int) /\ todo[kind] # <<>> /\ Within(todo[kind], Task(kind))
    BY KindTyped, ApartIsKindsApart DEF TakeTask, Apart
<1>2. Within(rest, Task(kind)) /\ last \in Task(kind)
    BY <1>1, WithinShortened
<1>3. /\ todo' = [todo EXCEPT ![kind] = rest]
      /\ serving' = [step |-> "taken", kind |-> kind, caller |-> t, task |-> last]
      /\ UNCHANGED <<running, finished>>
    BY DEF TakeTask
<1>4. serving'.kind = kind /\ serving'.caller = t /\ serving'.task = last
    BY <1>3
<1> HIDE DEF last, rest
<1>5. \A other \in Kind : Within(todo'[other], Task(other))
    BY <1>2, <1>3, ApartIsKindsApart DEF MasterTypes, Apart
<1> QED
    BY <1>2, <1>3, <1>4, <1>5, ApartIsKindsApart DEF Apart

(* WaitTask keeps KindsApart.                                              *)
LEMMA WaitTaskApart ==
    ASSUME MasterTypes, KindsApart, waitTask
    PROVE  KindsApart'
<1> DEFINE kind == serving.kind
           longer == Append(running[kind], serving.task)
<1>1. kind \in Kind /\ serving.task \in Int /\ serving.task \in Task(kind)
    BY ApartIsKindsApart DEF MasterTypes, waitTask, Handout, Apart
<1>2. running[kind] \in Seq(Int) /\ Within(running[kind], Task(kind))
    BY <1>1, KindTyped, ApartIsKindsApart DEF Apart
<1>3. Within(longer, Task(kind))
    BY <1>1, <1>2, WithinAppended
<1>4. /\ running' = [running EXCEPT ![kind] = longer]
      /\ serving' = Idle /\ UNCHANGED <<todo, finished>>
    BY DEF waitTask
<1> HIDE DEF longer, kind
<1>5. \A other \in Kind : Within(running'[other], Task(other))
    BY <1>3, <1>4, ApartIsKindsApart DEF MasterTypes, Apart
<1> QED
    BY <1>4, <1>5, ApartIsKindsApart DEF Apart

(* TimerEnds keeps KindsApart.                                             *)
LEMMA TimerEndsApart ==
    ASSUME MasterTypes, KindsApart, NoTaskLost, NEW kind \in Kind,
           TimerEnds(kind)
    PROVE  KindsApart'
<1>1. /\ running[kind] \in Seq(Int) /\ todo[kind] \in Seq(Int)
      /\ cur[kind] \in Nat /\ timers[kind] \in Nat
      /\ cur[kind] + timers[kind] = Len(running[kind])
      /\ timers[kind] > 0
    BY KindTyped, KeptIsNoTaskLost DEF Kept, TimerEnds
<1>2. /\ Within(running[kind], Task(kind)) /\ Within(todo[kind], Task(kind))
    BY ApartIsKindsApart DEF Apart
<1>3. cur[kind] + 1 \in 1..Len(running[kind])
    BY <1>1
<1>4. Watched(kind) \in Task(kind) /\ Watched(kind) \in Int
    BY <1>1, <1>2, <1>3 DEF Watched, Within
<1>5. Within(Relisted(kind), Task(kind))
    BY <1>1, <1>2, <1>4, WithinAppended DEF Relisted
<1>6. /\ todo' = [todo EXCEPT ![kind] = Relisted(kind)]
      /\ UNCHANGED <<running, finished, serving>>
    BY DEF TimerEnds
<1>7. \A other \in Kind : Within(todo'[other], Task(other))
    BY <1>5, <1>6, ApartIsKindsApart DEF MasterTypes, Apart
<1> QED
    BY <1>6, <1>7, ApartIsKindsApart DEF Apart

(* SetStat keeps KindsApart.                                               *)
LEMMA SetStatApart ==
    ASSUME MasterTypes, KindsApart, NEW kind \in Kind, NEW k \in Task(kind),
           SetStat(kind, k)
    PROVE  KindsApart'
BY ApartIsKindsApart DEF MasterTypes, SetStat, Apart
-----------------------------------------------------------------------------
(* The whole state: types are kept only with the timers accounted for, by  *)
(* which the cursor of a timer that ends is inside the vector.             *)
TypeInv == TypeOK /\ NoTaskLost

(* What a thread is.                                                       *)
LEMMA ThreadKinds ==
    /\ \A t \in Thread : KindOf(t) \in Kind
    /\ \A t \in Thread : KindOf(t) = "map" => t[2] \in MapId
    /\ \A t \in Thread : KindOf(t) = "map" => Task(KindOf(t)) = File
    /\ \A t \in Thread : KindOf(t) = "reduce" => Task(KindOf(t)) = Bucket
    /\ File \subseteq Int /\ Bucket \subseteq Int /\ MapId \subseteq Int
BY TasksAssumption, WorkersAssumption
   DEF Thread, KindOf, Kind, File, Bucket, MapId, Task

(* A file without words counts none of any input.                          *)
LEMMA NoWordsTyped == NoWords \in [File -> Nat]
BY DEF NoWords

(* A step that leaves the master alone leaves what is said of it alone.    *)
LEMMA MasterLeftAlone ==
    ASSUME TypeInv, UNCHANGED masterVars
    PROVE  MasterTypes' /\ KindsApart' /\ NoTaskLost'
BY DEF TypeInv, TypeOK, MasterTypes, KindsApart, NoTaskLost

(* A thread that moves to another place.                                   *)
LEMMA GotoTyped ==
    ASSUME ThreadTypes, NEW t \in Thread, NEW place \in Place, Goto(t, place),
           UNCHANGED <<task, left, sum, pickups>>
    PROVE  ThreadTypes'
BY DEF ThreadTypes, Goto

(* The steps of a thread that only move it keep TypeInv.                   *)
LEMMA AskingTypes ==
    ASSUME TypeInv, NEW t \in Thread,
           FindUnfinished(t) \/ FindReducesDone(t) \/ FindNoTask(t)
    PROVE  TypeInv'
<1>1. \/ Goto(t, "wanting") \/ Goto(t, "gone") \/ Goto(t, "asking")
    BY DEF FindUnfinished, FindReducesDone, FindNoTask
<1>2. UNCHANGED <<masterVars, task, left, sum, pickups, fileVars, mainVars>>
    BY DEF FindUnfinished, FindReducesDone, FindNoTask
<1>3. {"wanting", "gone", "asking"} \subseteq Place
    BY DEF Place
<1>4. ThreadTypes'
    BY <1>1, <1>2, <1>3, GotoTyped DEF TypeInv, TypeOK
<1>5. FileTypes' /\ MainTypes'
    BY <1>2 DEF TypeInv, TypeOK, FileTypes, MainTypes
<1> QED
    BY <1>2, <1>4, <1>5, MasterLeftAlone DEF TypeInv, TypeOK

(* FindMapsDone keeps TypeInv.                                             *)
LEMMA FindMapsDoneTypes ==
    ASSUME TypeInv, NEW t \in Thread, FindMapsDone(t)
    PROVE  TypeInv'
<1>1. /\ Goto(t, "gone") /\ "gone" \in Place
      /\ UNCHANGED <<masterVars, task, left, sum, pickups, fileVars>>
    BY DEF FindMapsDone, Place
<1>2. ThreadTypes'
    BY <1>1, GotoTyped DEF TypeInv, TypeOK
<1>3. FileTypes' /\ MainTypes'
    BY DEF TypeInv, TypeOK, FileTypes, MainTypes, FindMapsDone
<1> QED
    BY <1>1, <1>2, <1>3, MasterLeftAlone DEF TypeInv, TypeOK

(* RequestTask keeps TypeInv.                                              *)
LEMMA RequestTaskTypes ==
    ASSUME TypeInv, NEW t \in Thread, RequestTask(t)
    PROVE  TypeInv'
<1>1. /\ Goto(t, "calling") /\ "calling" \in Place /\ TakeTask(KindOf(t), t)
      /\ UNCHANGED <<task, left, sum, pickups, fileVars, mainVars>>
    BY DEF RequestTask, Place
<1>2. MasterTypes' /\ NoTaskLost' /\ KindsApart'
    BY <1>1, ThreadKinds, TakeTaskKeeps, TakeTaskApart DEF TypeInv, TypeOK
<1>3. ThreadTypes'
    BY <1>1, GotoTyped DEF TypeInv, TypeOK
<1>4. FileTypes' /\ MainTypes'
    BY <1>1 DEF TypeInv, TypeOK, FileTypes, MainTypes
<1> QED
    BY <1>2, <1>3, <1>4 DEF TypeInv, TypeOK

(* ReceiveTask keeps TypeInv.                                              *)
LEMMA ReceiveTaskTypes ==
    ASSUME TypeInv, ReceiveTask
    PROVE  TypeInv'
<1>1. waitTask /\ UNCHANGED <<left, sum, pickups, fileVars, mainVars>>
    BY DEF ReceiveTask
<1>2. MasterTypes' /\ NoTaskLost' /\ KindsApart'
    BY <1>1, WaitTaskKeeps, WaitTaskApart DEF TypeInv, TypeOK
<1>3. ThreadTypes'
  <2>1. /\ serving.task \in Int /\ serving.caller \in Thread
        /\ serving.task \in Task(KindOf(serving.caller))
      BY <1>1 DEF TypeInv, TypeOK, MasterTypes, KindsApart, Handout, waitTask
  <2>2. "holding" \in Place
      BY DEF Place
  <2> QED
      BY <1>1, <2>1, <2>2 DEF TypeInv, TypeOK, ThreadTypes, ReceiveTask, Goto
<1>4. FileTypes' /\ MainTypes'
    BY <1>1 DEF TypeInv, TypeOK, FileTypes, MainTypes
<1> QED
    BY <1>2, <1>3, <1>4 DEF TypeInv, TypeOK

(* PickUp keeps TypeInv.                                                   *)
LEMMA PickUpTypes ==
    ASSUME TypeInv, NEW t \in Thread, PickUp(t)
    PROVE  TypeInv'
<1>1. UNCHANGED <<masterVars, task, fileVars, mainVars>>
    BY DEF PickUp
<1>2. ThreadTypes'
  <2>1. /\ pickups' \in [Kind -> Nat]
        /\ pc' \in [Thread -> Place]
      BY ThreadKinds DEF TypeInv, TypeOK, ThreadTypes, PickUp, Goto, Place
  <2>2. left' \in [Thread -> SUBSET Int] /\ sum' \in [Thread -> [File -> Nat]]
    <3>1. {i \in MapId : mid[i][task[t]] # NoWords} \subseteq Int /\ Bucket \subseteq Int
        BY ThreadKinds
    <3> QED
        BY <3>1, NoWordsTyped DEF TypeInv, TypeOK, ThreadTypes, PickUp
  <2> QED
      BY <1>1, <2>1, <2>2 DEF TypeInv, TypeOK, ThreadTypes
<1>3. FileTypes' /\ MainTypes'
    BY <1>1 DEF TypeInv, TypeOK, FileTypes, MainTypes
<1> QED
    BY <1>1, <1>2, <1>3, MasterLeftAlone DEF TypeInv, TypeOK

(* WriteWords keeps TypeInv.                                               *)
LEMMA WriteWordsTypes ==
    ASSUME TypeInv, NEW t \in Thread, NEW b \in Bucket, WriteWords(t, b)
    PROVE  TypeInv'
<1> DEFINE more == Plus(mid[t[2]][b], mapF(task[t]))
<1>1. /\ mid' = [mid EXCEPT ![t[2]][b] = more]
      /\ left' = [left EXCEPT ![t] = @ \ {b}]
      /\ UNCHANGED <<masterVars, pc, task, sum, pickups, out, mainVars>>
    BY DEF WriteWords
<1>2. t[2] \in MapId /\ task[t] \in File
    BY ThreadKinds DEF TypeInv, TypeOK, ThreadTypes, WriteWords
<1>3. more \in [File -> Nat]
  <2>1. mid[t[2]][b] \in [File -> Nat]
      BY <1>2 DEF TypeInv, TypeOK, FileTypes
  <2>2. mapF(task[t]) \in [File -> Nat]
      BY <1>2, NoWordsTyped DEF mapF
  <2> QED
      BY <2>1, <2>2 DEF Plus
<1> HIDE DEF more
<1>4. ThreadTypes' /\ FileTypes'
    BY <1>1, <1>2, <1>3 DEF TypeInv, TypeOK, ThreadTypes, FileTypes
<1>5. MainTypes'
    BY <1>1 DEF TypeInv, TypeOK, MainTypes
<1> QED
    BY <1>1, <1>4, <1>5, MasterLeftAlone DEF TypeInv, TypeOK

(* ReadWords keeps TypeInv.                                                *)
LEMMA ReadWordsTypes ==
    ASSUME TypeInv, NEW t \in Thread, NEW i \in MapId, ReadWords(t, i)
    PROVE  TypeInv'
<1> DEFINE total == Plus(sum[t], mid[i][task[t]])
<1>1. /\ sum' = [sum EXCEPT ![t] = total]
      /\ left' = [left EXCEPT ![t] = @ \ {i}]
      /\ UNCHANGED <<masterVars, pc, task, pickups, fileVars, mainVars>>
    BY DEF ReadWords
<1>2. task[t] \in Bucket
    BY ThreadKinds DEF TypeInv, TypeOK, ThreadTypes, ReadWords
<1>3. total \in [File -> Nat]
  <2>1. sum[t] \in [File -> Nat] /\ mid[i][task[t]] \in [File -> Nat]
      BY <1>2 DEF TypeInv, TypeOK, ThreadTypes, FileTypes
  <2> QED
      BY <2>1 DEF Plus
<1> HIDE DEF total
<1>4. ThreadTypes'
    BY <1>1, <1>3 DEF TypeInv, TypeOK, ThreadTypes
<1>5. FileTypes' /\ MainTypes'
    BY <1>1 DEF TypeInv, TypeOK, FileTypes, MainTypes
<1> QED
    BY <1>1, <1>4, <1>5, MasterLeftAlone DEF TypeInv, TypeOK

(* WriteOutput keeps TypeInv.                                              *)
LEMMA WriteOutputTypes ==
    ASSUME TypeInv, NEW t \in Thread, WriteOutput(t)
    PROVE  TypeInv'
<1>1. /\ out' = [out EXCEPT ![task[t]] = Append(@, sum[t])]
      /\ Goto(t, "reporting") /\ "reporting" \in Place
      /\ UNCHANGED <<masterVars, task, left, sum, pickups, mid, mainVars>>
    BY DEF WriteOutput, Place
<1>2. task[t] \in Bucket /\ sum[t] \in [File -> Nat]
    BY ThreadKinds DEF TypeInv, TypeOK, ThreadTypes, WriteOutput
<1>3. ThreadTypes'
    BY <1>1, GotoTyped DEF TypeInv, TypeOK
<1>4. FileTypes' /\ MainTypes'
    BY <1>1, <1>2 DEF TypeInv, TypeOK, FileTypes, MainTypes
<1> QED
    BY <1>1, <1>3, <1>4, MasterLeftAlone DEF TypeInv, TypeOK

(* ReportMap and ReportReduce keep TypeInv.                                *)
LEMMA ReportTypes ==
    ASSUME TypeInv, NEW t \in Thread, ReportMap(t) \/ ReportReduce(t)
    PROVE  TypeInv'
<1>1. /\ SetStat(KindOf(t), task[t])
      /\ Goto(t, "asking") /\ "asking" \in Place
      /\ UNCHANGED <<task, left, sum, pickups, fileVars, mainVars>>
    BY DEF ReportMap, ReportReduce, Place
<1>2. KindOf(t) \in Kind /\ task[t] \in Int /\ task[t] \in Task(KindOf(t))
    BY ThreadKinds DEF TypeInv, TypeOK, ThreadTypes
<1>3. MasterTypes' /\ NoTaskLost' /\ KindsApart'
    BY <1>1, <1>2, SetStatKeeps, SetStatApart DEF TypeInv, TypeOK
<1>4. ThreadTypes'
    BY <1>1, GotoTyped DEF TypeInv, TypeOK
<1>5. FileTypes' /\ MainTypes'
    BY <1>1 DEF TypeInv, TypeOK, FileTypes, MainTypes
<1> QED
    BY <1>3, <1>4, <1>5 DEF TypeInv, TypeOK

(* Expire keeps TypeInv.                                                   *)
LEMMA ExpireTypes ==
    ASSUME TypeInv, NEW kind \in Kind, Expire(kind)
    PROVE  TypeInv'
<1>1. TimerEnds(kind) /\ UNCHANGED <<threadVars, fileVars, mainVars>>
    BY DEF Expire
<1>2. MasterTypes' /\ NoTaskLost' /\ KindsApart'
    BY <1>1, TimerEndsKeeps, TimerEndsApart DEF TypeInv, TypeOK
<1>3. ThreadTypes' /\ FileTypes' /\ MainTypes'
    BY <1>1 DEF TypeInv, TypeOK, ThreadTypes, FileTypes, MainTypes
<1> QED
    BY <1>2, <1>3 DEF TypeInv, TypeOK

(* The steps of main(), spurious wakeups too, keep TypeInv.                *)
LEMMA MainTypesKept ==
    ASSUME TypeInv, main \/ SpuriousWakeup
    PROVE  TypeInv'
<1>1. UNCHANGED masterVars
    BY DEF main, MainWaits, SpuriousWakeup, StartReduces, SeeDone, RemoveRow, Exit
<1>2. ThreadTypes'
    BY DEF TypeInv, TypeOK, ThreadTypes, Place, main, MainWaits, SpuriousWakeup,
           StartReduces, SeeDone, RemoveRow, Exit
<1>3. FileTypes'
  <2>1. [b \in Bucket |-> NoWords] \in [Bucket -> [File -> Nat]]
      BY NoWordsTyped
  <2> QED
      BY <2>1 DEF TypeInv, TypeOK, FileTypes, main, MainWaits, SpuriousWakeup,
                  StartReduces, SeeDone, RemoveRow, Exit
<1>4. MainTypes'
    BY WorkersAssumption
       DEF TypeInv, TypeOK, MainTypes, main, MainWaits, SpuriousWakeup,
           StartReduces, SeeDone, RemoveRow, Exit, Rows
<1> QED
    BY <1>1, <1>2, <1>3, <1>4, MasterLeftAlone DEF TypeInv, TypeOK

(* A new worker process holds values of their types.                       *)
LEMMA NewWorkerTyped ==
    /\ NewThreads \in [Thread -> Place]
    /\ AnyTask \in [Thread -> Int]
    /\ \A t \in Thread : AnyTask[t] \in Task(KindOf(t))
    /\ [t \in Thread |-> {}] \in [Thread -> SUBSET Int]
    /\ [t \in Thread |-> NoWords] \in [Thread -> [File -> Nat]]
    /\ [kind \in Kind |-> 0] \in [Kind -> Nat]
    /\ NoFiles \in [MapId -> [Bucket -> [File -> Nat]]]
    /\ [b \in Bucket |-> <<>>] \in [Bucket -> Seq([File -> Nat])]
    /\ 0 \in 0..MapNum
<1>1. \A t \in Thread : AnyTask[t] \in Task(KindOf(t))
    BY TasksAssumption DEF AnyTask, Task, Thread, KindOf, MapId, Bucket
<1>2. NoFiles \in [MapId -> [Bucket -> [File -> Nat]]]
    BY NoWordsTyped DEF NoFiles
<1> QED
    BY <1>1, <1>2, NoWordsTyped, WorkersAssumption DEF NewThreads, AnyTask, Place

(* Restart keeps TypeInv.                                                  *)
LEMMA RestartTypes ==
    ASSUME TypeInv, Restart
    PROVE  TypeInv'
<1>1. UNCHANGED masterVars
    BY DEF Restart
<1>2. ThreadTypes'
    BY NewWorkerTyped DEF ThreadTypes, Restart
<1>3. FileTypes' /\ MainTypes'
    BY NewWorkerTyped DEF TypeInv, TypeOK, FileTypes, MainTypes, Restart
<1> QED
    BY <1>1, <1>2, <1>3, MasterLeftAlone DEF TypeInv, TypeOK

(* The initial states satisfy TypeInv.                                     *)
LEMMA InitTypes == Init => TypeInv
<1> SUFFICES ASSUME Init
             PROVE  TypeInv
    OBVIOUS
<1> DEFINE first(kind) == IF kind = "map" THEN [i \in 1..FileNum |-> i]
                                         ELSE [i \in 1..ReduceNum |-> i - 1]
<1>1. \A kind \in Kind :
         /\ first(kind) \in Seq(Int) /\ Within(first(kind), Task(kind))
         /\ \A k \in Task(kind) : Has(first(kind), k)
  <2>1. /\ [i \in 1..FileNum |-> i] \in Seq(Int)
        /\ Len([i \in 1..FileNum |-> i]) = FileNum
        /\ [i \in 1..ReduceNum |-> i - 1] \in Seq(Int)
        /\ Len([i \in 1..ReduceNum |-> i - 1]) = ReduceNum
      BY TasksAssumption
  <2>2. /\ Within([i \in 1..FileNum |-> i], 1..FileNum)
        /\ Within([i \in 1..ReduceNum |-> i - 1], 0..(ReduceNum - 1))
      BY <2>1, TasksAssumption DEF Within
  <2>3. \A k \in 1..FileNum : Has([i \in 1..FileNum |-> i], k)
      BY <2>1 DEF Has
  <2>4. \A k \in 0..(ReduceNum - 1) : Has([i \in 1..ReduceNum |-> i - 1], k)
    <3> SUFFICES ASSUME NEW k \in 0..(ReduceNum - 1)
                 PROVE  Has([i \in 1..ReduceNum |-> i - 1], k)
        OBVIOUS
    <3>1. k + 1 \in 1..ReduceNum /\ [i \in 1..ReduceNum |-> i - 1][k + 1] = k
        BY TasksAssumption
    <3> QED
        BY <2>1, <3>1 DEF Has
  <2> QED
      BY <2>1, <2>2, <2>3, <2>4 DEF Task, Kind
<1>2. /\ todo = [kind \in Kind |-> first(kind)]
      /\ running = [kind \in Kind |-> <<>>] /\ cur = [kind \in Kind |-> 0]
      /\ finished = [kind \in Kind |-> {}] /\ timers = [kind \in Kind |-> 0]
      /\ serving = Idle
    BY DEF Init, MasterInit
<1> HIDE DEF first
<1>3. <<>> \in Seq(Int) /\ Len(<<>>) = 0 /\ \A S : Within(<<>>, S)
    BY DEF Within
<1>4. MasterTypes
    BY <1>1, <1>2, <1>3 DEF MasterTypes
<1>5. KindsApart
    BY <1>1, <1>2, <1>3, ApartIsKindsApart DEF Apart
<1>6. NoTaskLost
    BY <1>1, <1>2, <1>3, KeptIsNoTaskLost DEF Kept
<1>7. ThreadTypes /\ FileTypes /\ MainTypes
    BY NewWorkerTyped DEF ThreadTypes, FileTypes, MainTypes, Init
<1> QED
    BY <1>4, <1>5, <1>6, <1>7 DEF TypeInv, TypeOK

(* Every step keeps TypeInv, a step that changes nothing too.              *)
LEMMA NextTypes == TypeInv /\ [Next]_vars => TypeInv'
<1> SUFFICES ASSUME TypeInv, [Next]_vars
             PROVE  TypeInv'
    OBVIOUS
<1>1. ASSUME NEW t \in Thread, ThreadStep(t)
      PROVE  TypeInv'
    BY <1>1, AskingTypes, FindMapsDoneTypes, RequestTaskTypes, PickUpTypes,
       WriteWordsTypes, ReadWordsTypes, WriteOutputTypes, ReportTypes
       DEF ThreadStep, mapWorker, reduceWorker
<1>2. CASE ReceiveTask
    BY <1>2, ReceiveTaskTypes
<1>3. ASSUME NEW kind \in Kind, Expire(kind)
      PROVE  TypeInv'
    BY <1>3, ExpireTypes
<1>4. CASE main \/ SpuriousWakeup
    BY <1>4, MainTypesKept
<1>5. CASE Restart
    BY <1>5, RestartTypes
<1>6. CASE UNCHANGED vars
  <2>1. ThreadTypes' /\ FileTypes' /\ MainTypes'
      BY <1>6 DEF vars, TypeInv, TypeOK, ThreadTypes, FileTypes, MainTypes
  <2> QED
      BY <1>6, <2>1, MasterLeftAlone DEF vars, TypeInv, TypeOK
<1> QED
    BY <1>1, <1>2, <1>3, <1>4, <1>5, <1>6 DEF Next

(* TypeInv holds in every reachable state.                                 *)
LEMMA TypeInvariance == Spec => []TypeInv
BY InitTypes, NextTypes, PTL DEF Spec

(* Every reachable state of master and worker is well typed, and no task   *)
(* of one kind is ever taken for one of the other.                         *)
THEOREM TypeCorrectness == Spec => []TypeOK
BY TypeInvariance, PTL DEF TypeInv

(* No unfinished task is ever lost, whatever threads stop or are slow,     *)
(* however timers end, and whenever the worker process is started again.   *)
THEOREM TasksKept == Spec => []NoTaskLost
BY TypeInvariance, PTL DEF TypeInv
-----------------------------------------------------------------------------
(* While main() creates the map threads or waits no reduce thread has been *)
(* started, and it is only woken when every map is finished.               *)
Started == mainPc \notin {"creating", "waiting"}
Ordered ==
    /\ Started => finished["map"] = File
    /\ \A t \in Thread : KindOf(t) = "reduce" /\ pc[t] # "new" => Started

(* As many maps finished as there are files are all of them.               *)
LEMMA AllOfThem ==
    ASSUME TypeInv, AllFinished("map")
    PROVE  finished["map"] = File
<1>1. IsFiniteSet(File)
    BY TasksAssumption, FS_Interval DEF File, Task
<1>2. finished["map"] \in SUBSET File
    BY DEF TypeInv, TypeOK, KindsApart, Kind, File
<1>3. Cardinality(File) = Cardinality(finished["map"])
    BY DEF AllFinished, File
<1> QED
    BY <1>1, <1>2, <1>3, FS_Subset

(* A finished map stays finished.                                          *)
LEMMA MapsStayFinished ==
    ASSUME TypeInv, [Next]_vars, finished["map"] = File
    PROVE  finished'["map"] = File
<1>1. CASE UNCHANGED finished
    BY <1>1
<1>2. ASSUME NEW t \in Thread, ReportMap(t) \/ ReportReduce(t)
      PROVE  finished'["map"] = File
  <2>1. finished' = [finished EXCEPT ![KindOf(t)] = @ \cup {task[t]}]
      BY <1>2 DEF ReportMap, ReportReduce, SetStat
  <2>2. finished \in [Kind -> SUBSET Int] /\ "map" \in Kind
      BY DEF TypeInv, TypeOK, MasterTypes, Kind
  <2>3. KindOf(t) = "map" => task[t] \in File
      BY ThreadKinds DEF TypeInv, TypeOK, ThreadTypes
  <2> QED
      BY <2>1, <2>2, <2>3
<1>3. UNCHANGED finished \/ \E t \in Thread : ReportMap(t) \/ ReportReduce(t)
  <2>1. ASSUME NEW t \in Thread, ThreadStep(t)
        PROVE  UNCHANGED finished \/ ReportMap(t) \/ ReportReduce(t)
      BY <2>1 DEF ThreadStep, mapWorker, reduceWorker, FindUnfinished, FindNoTask,
                  RequestTask, TakeTask, PickUp, FindMapsDone, WriteWords,
                  FindReducesDone, ReadWords, WriteOutput
  <2>2. CASE ReceiveTask \/ main \/ SpuriousWakeup \/ Restart \/ UNCHANGED vars
      BY <2>2 DEF ReceiveTask, waitTask, main, MainWaits, StartReduces, SeeDone,
                  RemoveRow, Exit, SpuriousWakeup, Restart, vars
  <2>3. ASSUME NEW kind \in Kind, Expire(kind)
        PROVE  UNCHANGED finished
      BY <2>3 DEF Expire, TimerEnds
  <2> QED
      BY <2>1, <2>2, <2>3 DEF Next
<1> QED
    BY <1>1, <1>2, <1>3

(* A thread only leaves "new" when main() starts the reduces.              *)
LEMMA NewUntilStarted ==
    ASSUME TypeInv, [Next]_vars, ~StartReduces, ~Restart
    PROVE  \A t \in Thread : pc[t] = "new" => pc'[t] = "new"
<1> SUFFICES ASSUME NEW u \in Thread, pc[u] = "new"
             PROVE  pc'[u] = "new"
    OBVIOUS
<1>1. ASSUME NEW t \in Thread, ThreadStep(t)
      PROVE  pc'[u] = "new"
  <2>1. pc[t] # "new"
      BY <1>1 DEF ThreadStep, mapWorker, reduceWorker, FindUnfinished, FindNoTask,
                  RequestTask, PickUp, FindMapsDone, WriteWords, ReportMap,
                  FindReducesDone, ReadWords, WriteOutput, ReportReduce
  <2>2. UNCHANGED pc \/ \E place \in Place : Goto(t, place)
      BY <1>1 DEF ThreadStep, mapWorker, reduceWorker, FindUnfinished, FindNoTask,
                  RequestTask, PickUp, FindMapsDone, WriteWords, ReportMap,
                  FindReducesDone, ReadWords, WriteOutput, ReportReduce, Place
  <2> QED
      BY <2>1, <2>2 DEF Goto, TypeInv, TypeOK, ThreadTypes
<1>2. CASE ReceiveTask
  <2>1. serving.caller = u => pc[serving.caller] # "calling"
      OBVIOUS
  <2> QED
      BY <1>2, <2>1 DEF ReceiveTask, Goto, TypeInv, TypeOK, ThreadTypes
<1>3. CASE main \/ SpuriousWakeup \/ UNCHANGED vars \/ \E kind \in Kind : Expire(kind)
    BY <1>3 DEF main, MainWaits, SeeDone, RemoveRow, Exit, SpuriousWakeup, vars,
                Expire
<1> QED
    BY <1>1, <1>2, <1>3 DEF Next

(* Without spurious wakeups main() is only woken with all maps finished.   *)
LEMMA WokenWhenFinished ==
    ASSUME ~Spurious, TypeInv, Ordered, [Next]_vars, Started'
    PROVE  finished["map"] = File
<1>1. CASE Started
    BY <1>1 DEF Ordered
<1>2. CASE ~Started
  <2>1. \E t \in Thread : FindMapsDone(t)
    <3>1. ASSUME NEW t \in Thread, ThreadStep(t), ~FindMapsDone(t)
          PROVE  UNCHANGED mainPc
        BY <3>1 DEF ThreadStep, mapWorker, reduceWorker, FindUnfinished, FindNoTask,
                    RequestTask, PickUp, WriteWords, ReportMap, FindReducesDone,
                    ReadWords, WriteOutput, ReportReduce
    <3>2. CASE ReceiveTask \/ UNCHANGED vars \/ \E kind \in Kind : Expire(kind)
        BY <1>2, <3>2 DEF Started, ReceiveTask, vars, Expire
    <3>3. CASE main \/ SpuriousWakeup \/ Restart
        BY <1>2, <3>3 DEF Started, main, MainWaits, StartReduces, SeeDone,
                          RemoveRow, Exit, SpuriousWakeup, Restart
    <3> QED
        BY <1>2, <3>1, <3>2, <3>3 DEF Next, Started
  <2> QED
      BY <2>1, AllOfThem DEF FindMapsDone
<1> QED
    BY <1>1, <1>2

(* A step keeps Ordered.                                                   *)
LEMMA NextOrdered ==
    ASSUME ~Spurious, TypeInv, Ordered, [Next]_vars
    PROVE  Ordered'
<1>1. Started' => finished'["map"] = File
    BY WokenWhenFinished, MapsStayFinished
<1>2. ASSUME NEW t \in Thread, KindOf(t) = "reduce", pc'[t] # "new"
      PROVE  Started'
  <2>1. CASE StartReduces
      BY <2>1 DEF StartReduces, Started
  <2>2. CASE Restart
      BY <1>2, <2>2 DEF Restart, NewThreads
  <2>3. CASE ~StartReduces /\ ~Restart
    <3>1. Started
        BY <1>2, <2>3, NewUntilStarted DEF Ordered
    <3>2. ASSUME NEW u \in Thread, ThreadStep(u)
          PROVE  Started'
        BY <3>1, <3>2 DEF Started, ThreadStep, mapWorker, reduceWorker,
               FindUnfinished, FindNoTask, RequestTask, PickUp, FindMapsDone,
               WriteWords, ReportMap, FindReducesDone, ReadWords, WriteOutput,
               ReportReduce
    <3>3. CASE \/ ReceiveTask \/ main \/ SpuriousWakeup \/ UNCHANGED vars
               \/ \E kind \in Kind : Expire(kind)
        BY <3>1, <3>3 DEF Started, ReceiveTask, vars, Expire, main, MainWaits,
               StartReduces, SeeDone, RemoveRow, Exit, SpuriousWakeup
    <3> QED
        BY <2>3, <3>2, <3>3 DEF Next
  <2> QED
      BY <2>1, <2>2, <2>3
<1> QED
    BY <1>1, <1>2 DEF Ordered

(* No reduce reads before every map is finished, if the condition variable *)
(* does not wake main() by itself: main() tests nothing after its wait.    *)
THEOREM MapsComeFirst ==
    ASSUME ~Spurious
    PROVE  Spec => []ReduceAfterMaps
<1>1. Init => Ordered
    BY DEF Init, Ordered, Started, NewThreads
<1>2. TypeInv /\ Ordered /\ [Next]_vars => Ordered'
    BY NextOrdered
<1>3. Ordered => ReduceAfterMaps
    BY DEF Ordered, ReduceAfterMaps
<1> QED
    BY <1>1, <1>2, <1>3, TypeInvariance, PTL DEF Spec
=============================================================================

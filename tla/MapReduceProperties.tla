------------------------ MODULE MapReduceProperties ------------------------
(***************************************************************************)
(* What is checked of the MapReduce.                                       *)
(***************************************************************************)
EXTENDS MapReduce

Handout == [step: {"taken"}, kind: Kind, caller: Thread, task: Int]

MasterTypes ==
    /\ todo \in [Kind -> Seq(Int)] /\ running \in [Kind -> Seq(Int)]
    /\ finished \in [Kind -> SUBSET Int]
    /\ cur \in [Kind -> Nat] /\ timers \in [Kind -> Nat]
    /\ serving \in Handout \cup {Idle}

(* The master keeps tasks of each kind apart from those of the other.      *)
KindsApart ==
    /\ \A kind \in Kind :
         /\ \A i \in 1..Len(todo[kind]) : todo[kind][i] \in Task(kind)
         /\ \A i \in 1..Len(running[kind]) : running[kind][i] \in Task(kind)
         /\ finished[kind] \subseteq Task(kind)
    /\ serving # Idle => /\ serving.task \in Task(serving.kind)
                        /\ KindOf(serving.caller) = serving.kind

Place == {"new", "asking", "wanting", "calling", "holding", "working",
          "reporting", "stopped", "gone"}

ThreadTypes ==
    /\ pc \in [Thread -> Place]
    /\ task \in [Thread -> Int]
    /\ \A t \in Thread : task[t] \in Task(KindOf(t))
    /\ left \in [Thread -> SUBSET Int]
    /\ sum \in [Thread -> [File -> Nat]]
    /\ pickups \in [Kind -> Nat]

FileTypes ==
    /\ mid \in [MapId -> [Bucket -> [File -> Nat]]]
    /\ out \in [Bucket -> Seq([File -> Nat])]

MainTypes ==
    /\ mainPc \in {"creating", "waiting", "woken", "polling", "cleaning", "exited"}
    /\ cleaned \in 0..MapNum /\ restarts \in Nat

(* The master and the worker hold values of their types, and no task is    *)
(* taken for one of the other kind.                                        *)
TypeOK == MasterTypes /\ KindsApart /\ ThreadTypes /\ FileTypes /\ MainTypes

(* An unfinished task is always listed, on its way to a worker, or behind  *)
(* the cursor with a timer for every task there is behind it: whoever      *)
(* stops, and however slow, it is handed out again.                        *)
NoTaskLost ==
    \A kind \in Kind :
        /\ cur[kind] + timers[kind] = Len(running[kind])
        /\ \A k \in Task(kind) \ finished[kind] :
             \/ \E i \in 1..Len(todo[kind]) : todo[kind][i] = k
             \/ \E i \in (cur[kind] + 1)..Len(running[kind]) : running[kind][i] = k
             \/ serving # Idle /\ serving.kind = kind /\ serving.task = k

(* No reduce reads before every map is finished.                           *)
ReduceAfterMaps ==
    \A t \in Thread :
        KindOf(t) = "reduce" /\ pc[t] # "new" => finished["map"] = File

(* Where work is timely, every word is counted once: a bucket's output is  *)
(* written once, complete, and before the bucket counts as finished.       *)
Once == [f \in File |-> 1]
CountedOnce ==
    \A b \in Bucket :
        /\ out[b] \in {<<>>, <<Once>>}
        /\ b \in finished["reduce"] => out[b] = <<Once>>

(* The intermediate files are removed when the worker is done.             *)
CleanedUp ==
    mainPc = "exited" => \A i \in MapId, b \in Bucket : mid[i][b] = NoWords

(* Where work is timely, the worker does what WordCount promises of it: in *)
(* particular it does not exit before every output is written.             *)
Promised == INSTANCE WordCount
    WITH output <- out, exited <- mainPc = "exited", Complete <- Once
OutputsPromised == Promised!Spec

(* The job ends.                                                           *)
JobEnds == <>(mainPc = "exited")
=============================================================================

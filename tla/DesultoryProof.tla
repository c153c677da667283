--------------------------- MODULE DesultoryProof ---------------------------
(* Proofs about Desultory, for any tasks, programs and answers.             *)
EXTENDS Desultory, FiniteSetTheorems, TLAPS

Runs       == Nat \X Nat
Remainings == UNION {[1 .. n -> Int] : n \in Nat}

TaskType ==
  [items : Programs, action : FinishedActions,
   at : {"new", "reserve", "reserved", "dispatch", "dispatched", "tryRemove",
         "removed"},
   id : IDs \cup {Free}, index : Nat, pending : Int, failed : BOOLEAN,
   done : BOOLEAN, remaining : Remainings, started : SUBSET Runs,
   running : SUBSET Runs, finished : Nat, errors : Nat, thrown : BOOLEAN,
   loops : Nat]

Before(rec) == rec.at \in {"new", "reserve", "reserved", "dispatch"}

(* What is pending counts at least the runs that have begun, until an error *)
(* is reported: with nothing pending nothing runs.                          *)
CountInv(rec) ==
  /\ IsFiniteSet(rec.running)
  /\ ~rec.failed => Cardinality(rec.running) <= rec.pending /\ rec.errors = 0

(* The finished item is executed by a task that is over.                    *)
EndInv(rec) ==
  /\ rec.finished = IF rec.done THEN 1 ELSE 0
  /\ rec.done => /\ ~rec.failed /\ rec.running = {}
                 /\ rec.index = Len(rec.items)

PlaceInv(rec) ==
  IF Before(rec)
  THEN /\ rec.running = {} /\ rec.pending = 0
       /\ ~rec.done /\ ~rec.failed
  ELSE rec.index \in 1 .. Len(rec.items)

TaskInv(rec) ==
  rec \in TaskType /\ CountInv(rec) /\ EndInv(rec) /\ PlaceInv(rec)

Inv == task \in [Tasks -> TaskType] /\ \A t \in Tasks : TaskInv(task[t])

(* The invariant says more than the property.                               *)
LEMMA InvImplies == Inv => FinishedWhenOver
<1> SUFFICES ASSUME Inv, NEW t \in Tasks, task[t].finished > 0
             PROVE  /\ task[t].finished = 1 /\ Last(t)
                    /\ ~task[t].failed /\ task[t].errors = 0
                    /\ task[t].running = {}
  BY DEF FinishedWhenOver
<1>1. CountInv(task[t]) /\ EndInv(task[t])
  BY DEF Inv, TaskInv
<1>2. task[t].done
  BY <1>1 DEF EndInv
<1> QED BY <1>1, <1>2 DEF EndInv, CountInv, Last

-----------------------------------------------------------------------------
(* The runs that an item starts are finitely many.                          *)
LEMMA ToStartFinite ==
  ASSUME NEW item, item.runs \in Nat, NEW runState,
         NEW runs \in ToStart(item, runState)
  PROVE  runs \in SUBSET Nat /\ IsFiniteSet(runs)
<1>1. runs \in SUBSET (1 .. item.runs) \/ runs = {1} \/ runs = {2}
  BY DEF ToStart, Nobody
<1>2. IsFiniteSet(1 .. item.runs)
  BY FS_Interval
<1>3. IsFiniteSet({1}) /\ IsFiniteSet({2})
  BY FS_Singleton
<1>4. CASE runs \in SUBSET (1 .. item.runs)
  <2>1. IsFiniteSet(runs)
    BY <1>2, <1>4, FS_Subset
  <2> QED BY <1>4, <2>1
<1> QED BY <1>1, <1>3, <1>4

(* The runs that a task starts are counted before they begin.               *)
LEMMA StartKeeps ==
  ASSUME NEW rec, TaskInv(rec), ~Before(rec), ~rec.done,
         NEW runs \in SUBSET Nat, IsFiniteSet(runs)
  PROVE  TaskInv(Start(rec, runs))
<1> DEFINE new == {<<rec.index, r>> : r \in runs}
<1>1. rec \in TaskType
  BY DEF TaskInv
<1>2. new \in SUBSET Runs
  BY <1>1 DEF TaskType, Runs
<1>3. IsFiniteSet(new) /\ Cardinality(new) <= Cardinality(runs)
  <2> DEFINE f == [r \in runs |-> <<rec.index, r>>]
  <2>1. f \in Surjection(runs, new)
    BY DEF Surjection
  <2> HIDE DEF f, new
  <2> QED BY <2>1, FS_Surjection
<1>4. Cardinality(runs) \in Nat
  BY FS_CardinalityType
<1> HIDE DEF new
<1>5. CASE Start(rec, runs) = [rec EXCEPT !.thrown = TRUE]
  <2>1. Start(rec, runs) \in TaskType
    BY <1>1, <1>5 DEF TaskType
  <2> QED
    BY <1>1, <1>5, <2>1
    DEF TaskInv, CountInv, EndInv, PlaceInv, Before, TaskType
<1>6. CASE Start(rec, runs) =
             [rec EXCEPT !.running = @ \cup new, !.started = @ \cup new,
                         !.pending = @ + Cardinality(runs)]
  <2> DEFINE s == Start(rec, runs)
  <2>0. /\ rec.running \cup new \in SUBSET Runs
        /\ rec.started \cup new \in SUBSET Runs
        /\ rec.pending + Cardinality(runs) \in Int
    BY <1>1, <1>2, <1>4 DEF TaskType
  <2>1. s \in TaskType
    BY <1>1, <1>6, <2>0 DEF TaskType
  <2>2. /\ s.running = rec.running \cup new
        /\ s.pending = rec.pending + Cardinality(runs)
        /\ s.failed = rec.failed /\ s.errors = rec.errors /\ s.done = rec.done
        /\ s.finished = rec.finished /\ s.index = rec.index
        /\ s.items = rec.items /\ s.at = rec.at
    BY <1>1, <1>6 DEF TaskType
  <2>3. rec.pending \in Int
    BY <1>1 DEF TaskType
  <2> HIDE DEF s
  <2>4. IsFiniteSet(rec.running) /\ Cardinality(rec.running) \in Nat
    BY FS_CardinalityType DEF TaskInv, CountInv
  <2>5. /\ IsFiniteSet(s.running)
        /\ Cardinality(s.running) <= Cardinality(rec.running) + Cardinality(new)
    <3>1. Cardinality(rec.running \cap new) \in Nat /\ Cardinality(new) \in Nat
      BY <1>3, <2>4, FS_Intersection, FS_CardinalityType
    <3> QED BY <1>3, <2>2, <2>4, <3>1, FS_Union
  <2>6. Cardinality(s.running) \in Nat /\ Cardinality(new) \in Nat
    BY <1>3, <2>5, FS_CardinalityType
  <2>7. CountInv(s)
    BY <1>3, <1>4, <2>2, <2>3, <2>4, <2>5, <2>6 DEF TaskInv, CountInv
  <2>8. EndInv(s) /\ PlaceInv(s)
    BY <2>2 DEF TaskInv, EndInv, PlaceInv, Before
  <2> QED BY <2>1, <2>7, <2>8 DEF TaskInv, s
<1> QED BY <1>5, <1>6 DEF Start, new

(* A run that is over is not counted any more.                              *)
LEMMA OverKeeps ==
  ASSUME NEW rec, TaskInv(rec), NEW run \in rec.running
  PROVE  TaskInv([rec EXCEPT !.running = @ \ {run}, !.pending = @ - 1])
<1> DEFINE s == [rec EXCEPT !.running = @ \ {run}, !.pending = @ - 1]
<1>1. rec \in TaskType
  BY DEF TaskInv
<1>0. rec.running \ {run} \in SUBSET Runs /\ rec.pending - 1 \in Int
  BY <1>1 DEF TaskType
<1>2. s \in TaskType
  BY <1>0, <1>1 DEF TaskType
<1>3. /\ s.running = rec.running \ {run} /\ s.pending = rec.pending - 1
      /\ s.failed = rec.failed /\ s.errors = rec.errors /\ s.done = rec.done
      /\ s.finished = rec.finished /\ s.index = rec.index
      /\ s.items = rec.items /\ s.at = rec.at
  BY <1>1 DEF TaskType
<1>4. rec.pending \in Int
  BY <1>1 DEF TaskType
<1> HIDE DEF s
<1>5. IsFiniteSet(rec.running) /\ Cardinality(rec.running) \in Nat
  BY FS_CardinalityType DEF TaskInv, CountInv
<1>6. /\ IsFiniteSet(s.running)
      /\ Cardinality(s.running) = Cardinality(rec.running) - 1
  BY <1>3, <1>5, FS_RemoveElement
<1>7. CountInv(s)
  BY <1>3, <1>4, <1>5, <1>6 DEF TaskInv, CountInv
<1>8. EndInv(s) /\ PlaceInv(s)
  BY <1>3 DEF TaskInv, EndInv, PlaceInv, Before
<1>9. TaskInv(s)
  BY <1>2, <1>7, <1>8 DEF TaskInv
<1> QED BY <1>9 DEF s

(* What the current item answers changes only what it counts itself.        *)
LEMMA CanNextKeeps ==
  ASSUME NEW rec, TaskInv(rec), NEW result
  PROVE  /\ TaskInv(CanNext(rec, result).rec)
         /\ CanNext(rec, result).rec.done = rec.done
         /\ CanNext(rec, result).rec.at = rec.at
         /\ CanNext(rec, result).rec.index = rec.index
         /\ CanNext(rec, result).rec.items = rec.items
         /\ CanNext(rec, result).rec.failed = rec.failed
         /\ CanNext(rec, result).rec.running = rec.running
<1> DEFINE i == rec.index
           left == rec.remaining[i] - 1
           s == [rec EXCEPT !.remaining[i] = left]
<1>1. rec \in TaskType
  BY DEF TaskInv
<1>2. CanNext(rec, result).rec = rec \/ CanNext(rec, result).rec = s
  BY DEF CanNext
<1>3. [rec.remaining EXCEPT ![i] = left] \in Remainings
  <2>1. PICK n \in Nat : rec.remaining \in [1 .. n -> Int]
    BY <1>1 DEF TaskType, Remainings
  <2>2. i \in 1 .. n => left \in Int
    BY <2>1
  <2>3. [rec.remaining EXCEPT ![i] = left] \in [1 .. n -> Int]
    BY <2>1, <2>2
  <2> QED BY <2>3 DEF Remainings
<1>4. s \in TaskType
  BY <1>1, <1>3 DEF TaskType
<1>5. /\ s.running = rec.running /\ s.pending = rec.pending
      /\ s.failed = rec.failed /\ s.errors = rec.errors /\ s.done = rec.done
      /\ s.finished = rec.finished /\ s.index = rec.index
      /\ s.items = rec.items /\ s.at = rec.at
  BY <1>1 DEF TaskType
<1> HIDE DEF s
<1>6. TaskInv(s)
  BY <1>4, <1>5 DEF TaskInv, CountInv, EndInv, PlaceInv, Before
<1> QED BY <1>2, <1>5, <1>6

(* The finished item is executed when nothing is pending, thus nothing runs.*)
LEMMA FinishKeeps ==
  ASSUME NEW rec, TaskInv(rec), ~Before(rec), ~rec.failed,
         rec.index = Len(rec.items)
  PROVE  TaskInv(Finish(rec))
<1>1. rec \in TaskType /\ rec.pending \in Int /\ rec.finished \in Nat
  BY DEF TaskInv, TaskType
<1>2. CASE rec.done \/ rec.pending # 0
  BY <1>2 DEF Finish
<1>3. CASE ~rec.done /\ rec.pending = 0
  <2> DEFINE s == [rec EXCEPT !.done = TRUE, !.finished = @ + 1]
  <2>0. rec.finished + 1 \in Nat
    BY <1>1
  <2>1. s \in TaskType
    BY <1>1, <2>0 DEF TaskType
  <2>2. /\ s.running = rec.running /\ s.pending = rec.pending
        /\ s.failed = rec.failed /\ s.errors = rec.errors /\ s.done = TRUE
        /\ s.finished = rec.finished + 1 /\ s.index = rec.index
        /\ s.items = rec.items /\ s.at = rec.at
    BY <1>1 DEF TaskType
  <2> HIDE DEF s
  <2>3. rec.running = {}
    <3>1. Cardinality(rec.running) \in Nat /\ Cardinality(rec.running) <= 0
      BY <1>3, FS_CardinalityType DEF TaskInv, CountInv
    <3>2. Cardinality(rec.running) = 0
      BY <3>1
    <3> QED BY <3>2, FS_EmptySet DEF TaskInv, CountInv
  <2>4. EndInv(s)
    BY <1>3, <2>2, <2>3 DEF TaskInv, EndInv
  <2>5. CountInv(s) /\ PlaceInv(s)
    BY <2>2 DEF TaskInv, CountInv, PlaceInv, Before
  <2>6. TaskInv(s)
    BY <2>1, <2>4, <2>5 DEF TaskInv
  <2> QED BY <1>3, <2>6 DEF Finish, s
<1> QED BY <1>2, <1>3

-----------------------------------------------------------------------------
(* A call of Run() at the end of a run.                                     *)
LEMMA RunAgainKeeps ==
  ASSUME Inv, NEW t \in Tasks, ~task[t].failed, NEW run \in task[t].running,
         NEW result, RunAgain(t, run, result)
  PROVE  \E rec : TaskInv(rec) /\ Set(t, rec)
<1> DEFINE over == [task[t] EXCEPT !.running = @ \ {run}, !.pending = @ - 1]
           next == CanNext(over, result)
           runState == IF task[t].items[run[1]].kind = "parallel"
                       THEN run[2] ELSE Nobody
           step == [next.rec EXCEPT !.index = @ + 1]
           again == [next.rec EXCEPT !.loops = @ + 1]
<1>1. TaskInv(task[t]) /\ task[t] \in TaskType
  BY DEF Inv
<1>2. ~Before(task[t]) /\ ~task[t].done
  BY <1>1 DEF TaskInv, PlaceInv, EndInv
<1>3. /\ over.at = task[t].at /\ over.index = task[t].index
      /\ over.items = task[t].items /\ over.failed = task[t].failed
      /\ over.done = task[t].done
  BY <1>1 DEF TaskType
<1>4. TaskInv(over)
  BY <1>1, OverKeeps
<1> HIDE DEF over
<1>5. /\ TaskInv(next.rec) /\ next.rec.done = over.done
      /\ next.rec.at = over.at /\ next.rec.index = over.index
      /\ next.rec.items = over.items /\ next.rec.failed = over.failed
  BY <1>4, CanNextKeeps
<1>6. \/ next.fn = "Next" /\ Last(t) /\ Set(t, Finish(next.rec))
      \/ /\ next.fn = "Next" /\ ~Last(t)
         /\ \E runs \in ToStart(step.items[step.index], runState) :
              Set(t, Start(step, runs))
      \/ \E runs \in ToStart(again.items[again.index], runState) :
           Set(t, Start(again, runs))
      \/ Set(t, next.rec)
  BY Zenon DEF RunAgain, over
<1> HIDE DEF next
<1> DEFINE n == next.rec
<1>7. /\ TaskInv(n) /\ ~Before(n) /\ ~n.done /\ ~n.failed
      /\ n.index = task[t].index /\ n.items = task[t].items
  BY <1>2, <1>3, <1>5 DEF Before
<1>8. /\ n \in TaskType /\ n.index \in 1 .. Len(n.items)
      /\ n.items \in Programs /\ Len(n.items) \in Nat
      /\ n.index \in Nat /\ n.loops \in Nat
  BY <1>7, ProgramsAllowed DEF TaskInv, PlaceInv, TaskType
<1> HIDE DEF n
<1>9. ASSUME NEW s \in TaskType, NEW i \in 1 .. Len(n.items), NEW l \in Nat,
             s = [n EXCEPT !.index = i] \/ s = [n EXCEPT !.loops = l],
             NEW runs \in ToStart(s.items[s.index], runState)
      PROVE  TaskInv(Start(s, runs))
  <2>1. /\ s.running = n.running /\ s.pending = n.pending
        /\ s.failed = n.failed /\ s.errors = n.errors /\ s.done = n.done
        /\ s.finished = n.finished /\ s.index \in 1 .. Len(n.items)
        /\ s.items = n.items /\ s.at = n.at
    BY <1>8, <1>9 DEF TaskType
  <2>2. TaskInv(s) /\ ~Before(s) /\ ~s.done
    BY <1>7, <2>1 DEF TaskInv, CountInv, EndInv, PlaceInv, Before
  <2>3. s.items[s.index].runs \in Nat
    BY <1>8, <2>1, ProgramsAllowed
  <2>4. runs \in SUBSET Nat /\ IsFiniteSet(runs)
    BY <1>9, <2>3, ToStartFinite
  <2> QED BY <2>2, <2>4, StartKeeps
<1>10. CASE Last(t) /\ Set(t, Finish(n))
  BY <1>7, <1>10, FinishKeeps DEF Last
<1>11. CASE /\ ~Last(t)
            /\ \E runs \in ToStart(step.items[step.index], runState) :
                 Set(t, Start(step, runs))
  <2>1. n.index + 1 \in 1 .. Len(n.items)
    BY <1>7, <1>8, <1>11 DEF Last
  <2>2. step = [n EXCEPT !.index = n.index + 1]
    BY DEF n
  <2>3. step \in TaskType
    BY <1>8, <2>2 DEF TaskType
  <2> HIDE DEF step
  <2>4. PICK runs \in ToStart(step.items[step.index], runState) :
          Set(t, Start(step, runs))
    BY <1>11
  <2>5. TaskInv(Start(step, runs))
    BY <1>9, <2>1, <2>2, <2>3
  <2> QED BY <2>4, <2>5
<1>12. CASE \E runs \in ToStart(again.items[again.index], runState) :
              Set(t, Start(again, runs))
  <2>1. n.loops + 1 \in Nat
    BY <1>8
  <2>2. again = [n EXCEPT !.loops = n.loops + 1]
    BY DEF n
  <2>3. again \in TaskType
    BY <1>8, <2>2 DEF TaskType
  <2> HIDE DEF again
  <2>4. PICK runs \in ToStart(again.items[again.index], runState) :
          Set(t, Start(again, runs))
    BY <1>12
  <2>5. TaskInv(Start(again, runs))
    BY <1>8, <1>9, <2>1, <2>2, <2>3
  <2> QED BY <2>4, <2>5
<1>13. CASE Set(t, n)
  BY <1>7, <1>13
<1> QED BY <1>6, <1>10, <1>11, <1>12, <1>13 DEF n

(* Every step of a task leaves it as the invariant says.                    *)
LEMMA StepKeeps ==
  ASSUME Inv, NEW t \in Tasks, NextID(t) \/ Step(t)
  PROVE  UNCHANGED task \/ \E rec : TaskInv(rec) /\ Set(t, rec)
<1> DEFINE old == task[t]
<1>1. TaskInv(old) /\ old \in TaskType
  BY DEF Inv
<1>2. ASSUME NEW step \in {"reserved", "dispatch", "tryRemove", "removed"},
             Go(t, step),
             old.at \in IF step \in {"reserved", "dispatch"}
                        THEN {"reserve", "reserved"}
                        ELSE {"dispatched", "tryRemove"}
      PROVE  \E rec : TaskInv(rec) /\ Set(t, rec)
  <2> DEFINE s == [old EXCEPT !.at = step]
  <2>1. s \in TaskType
    BY <1>1 DEF TaskType
  <2>2. /\ s.running = old.running /\ s.pending = old.pending
        /\ s.failed = old.failed /\ s.errors = old.errors /\ s.done = old.done
        /\ s.finished = old.finished /\ s.index = old.index
        /\ s.items = old.items /\ s.at = step
    BY <1>1 DEF TaskType
  <2>3. Set(t, s)
    BY <1>2 DEF Go, Set
  <2> HIDE DEF s, old
  <2>4. Before(s) <=> Before(old)
    BY <1>2, <2>2 DEF Before
  <2>5. CountInv(s) /\ EndInv(s) /\ PlaceInv(s)
    BY <1>1, <2>2, <2>4 DEF TaskInv, CountInv, EndInv, PlaceInv
  <2> QED BY <2>1, <2>3, <2>5 DEF TaskInv
<1>3. CASE NextID(t)
  <2>1. PICK i \in IDs : Set(t, [old EXCEPT !.id = i, !.at = "reserve"])
    BY <1>3 DEF NextID
  <2> DEFINE s == [old EXCEPT !.id = i, !.at = "reserve"]
  <2>2. s \in TaskType
    BY <1>1 DEF TaskType
  <2>3. /\ s.running = old.running /\ s.pending = old.pending
        /\ s.failed = old.failed /\ s.errors = old.errors /\ s.done = old.done
        /\ s.finished = old.finished /\ s.index = old.index
        /\ s.items = old.items /\ s.at = "reserve" /\ old.at = "new"
    BY <1>1, <1>3 DEF TaskType, NextID, At
  <2> HIDE DEF s, old
  <2>4. TaskInv(s)
    BY <1>1, <2>2, <2>3 DEF TaskInv, CountInv, EndInv, PlaceInv, Before
  <2> QED BY <2>1, <2>4 DEF s
<1>4. CASE Reserve(t)
  BY <1>2, <1>4 DEF Reserve, At
<1>5. CASE Add(t)
  BY <1>2, <1>5 DEF Add, At
<1>6. CASE FirstRun(t)
  <2> DEFINE s == [old EXCEPT !.index = 1, !.at = "dispatched"]
  <2>1. PICK runs \in ToStart(s.items[1], Nobody) : Set(t, Start(s, runs))
    BY <1>6, Zenon DEF FirstRun
  <2>2. s \in TaskType
    BY <1>1 DEF TaskType
  <2>3. /\ s.running = old.running /\ s.pending = old.pending
        /\ s.failed = old.failed /\ s.errors = old.errors /\ s.done = old.done
        /\ s.finished = old.finished /\ s.index = 1
        /\ s.items = old.items /\ s.at = "dispatched" /\ old.at = "dispatch"
    BY <1>1, <1>6 DEF TaskType, FirstRun, At
  <2>4. old.items \in Programs
    BY <1>1 DEF TaskType
  <2> HIDE DEF s, old
  <2>5. 1 \in DOMAIN s.items /\ 1 \in 1 .. Len(s.items)
    BY <2>3, <2>4, ProgramsAllowed
  <2>6. ~old.done /\ Before(old)
    BY <1>1, <2>3 DEF TaskInv, PlaceInv, Before
  <2>7. TaskInv(s) /\ ~Before(s) /\ ~s.done
    BY <1>1, <2>2, <2>3, <2>5, <2>6
    DEF TaskInv, CountInv, EndInv, PlaceInv, Before
  <2>8. runs \in SUBSET Nat /\ IsFiniteSet(runs)
    BY <2>3, <2>4, <2>5, ProgramsAllowed, ToStartFinite
  <2>9. TaskInv(Start(s, runs))
    BY <2>7, <2>8, StartKeeps
  <2> QED BY <2>1, <2>9
<1>7. CASE Report(t)
  BY <1>7, RunAgainKeeps DEF Report
<1>8. CASE ReportError(t)
  <2>1. PICK run \in old.running :
          Set(t, [old EXCEPT !.running = @ \ {run}, !.failed = TRUE,
                             !.errors = @ + 1])
    BY <1>8 DEF ReportError
  <2> DEFINE s == [old EXCEPT !.running = @ \ {run}, !.failed = TRUE,
                              !.errors = @ + 1]
  <2> HIDE DEF old
  <2>0. old.running \ {run} \in SUBSET Runs /\ old.errors + 1 \in Nat
    BY <1>1 DEF TaskType
  <2>2. s \in TaskType
    BY <1>1, <2>0 DEF TaskType
  <2>3. /\ s.running = old.running \ {run} /\ s.failed = TRUE
        /\ s.done = old.done /\ s.finished = old.finished
        /\ s.index = old.index /\ s.items = old.items /\ s.at = old.at
    BY <1>1 DEF TaskType
  <2> HIDE DEF s
  <2>4. ~old.done /\ ~Before(old)
    BY <1>1 DEF TaskInv, EndInv, PlaceInv
  <2>5. IsFiniteSet(s.running)
    BY <1>1, <2>3, FS_Subset DEF TaskInv, CountInv
  <2>6. TaskInv(s)
    BY <1>1, <2>2, <2>3, <2>4, <2>5
    DEF TaskInv, CountInv, EndInv, PlaceInv, Before
  <2> QED BY <2>1, <2>6 DEF s
<1>9. CASE ReportAfterError(t)
  <2>1. PICK run \in old.running :
          Set(t, [old EXCEPT !.running = @ \ {run}, !.pending = @ - 1])
    BY <1>9 DEF ReportAfterError
  <2> QED BY <1>1, <2>1, OverKeeps
<1>10. CASE Contains(t)
  BY <1>2, <1>10 DEF Contains, At
<1>11. CASE TryRemove(t)
  BY <1>2, <1>11 DEF TryRemove, At
<1> QED
  BY <1>3, <1>4, <1>5, <1>6, <1>7, <1>8, <1>9, <1>10, <1>11 DEF Step, Remove

LEMMA InvHolds == (Init => Inv) /\ (Inv /\ [Next]_vars => Inv')
<1>1. ASSUME Init PROVE Inv
  <2>1. PICK p \in [Tasks -> Programs], action \in [Tasks -> FinishedActions] :
          task = [t \in Tasks |-> New(p[t], action[t])]
    BY <1>1 DEF Init
  <2>2. ASSUME NEW t \in Tasks PROVE TaskInv(task[t])
    <3> DEFINE q == p[t]
               rem == [i \in DOMAIN q |-> q[i].runs]
    <3>1. q \in Programs /\ action[t] \in FinishedActions
      OBVIOUS
    <3>2. rem \in Remainings
      <4>1. /\ DOMAIN q = 1 .. Len(q) /\ Len(q) \in Nat
            /\ \A i \in DOMAIN q : q[i].runs \in Nat
        BY <3>1, ProgramsAllowed
      <4>2. rem \in [1 .. Len(q) -> Int]
        BY <4>1
      <4> QED BY <4>1, <4>2 DEF Remainings
    <3> HIDE DEF rem, q
    <3>3. task[t] = [items |-> q, action |-> action[t], at |-> "new",
             id |-> Free, index |-> 0, pending |-> 0, failed |-> FALSE,
             done |-> FALSE, remaining |-> rem, started |-> {},
             running |-> {}, finished |-> 0, errors |-> 0, thrown |-> FALSE,
             loops |-> 0]
      BY <2>1 DEF New, rem, q
    <3>4. task[t] \in TaskType
      BY <3>1, <3>2, <3>3 DEF TaskType
    <3>5. IsFiniteSet({}) /\ Cardinality({}) = 0
      BY FS_EmptySet
    <3>6. CountInv(task[t]) /\ EndInv(task[t]) /\ PlaceInv(task[t])
      BY <3>3, <3>5 DEF CountInv, EndInv, PlaceInv, Before
    <3> QED BY <3>4, <3>6 DEF TaskInv
  <2>3. task \in [Tasks -> TaskType]
    BY <2>1, <2>2 DEF TaskInv
  <2> QED BY <2>2, <2>3 DEF Inv
<1>2. ASSUME Inv, [Next]_vars PROVE Inv'
  <2>1. CASE UNCHANGED task
    BY <1>2, <2>1 DEF Inv
  <2>2. ASSUME NEW t \in Tasks, NEW rec, TaskInv(rec), Set(t, rec)
        PROVE  Inv'
    <3>1. rec \in TaskType /\ task' = [task EXCEPT ![t] = rec]
      BY <2>2 DEF Set, TaskInv
    <3> QED BY <1>2, <2>2, <3>1 DEF Inv
  <2> QED BY <1>2, <2>1, <2>2, StepKeeps DEF Next, vars
<1> QED BY <1>1, <1>2

(* The finished item of a task is executed once, when its last item is done,*)
(* nothing of it runs and no error was reported (DesultoryTask.Run()), for  *)
(* any tasks, programs and answers of the NextConditions.                   *)
THEOREM FinishedItemIsLast == Spec => []FinishedWhenOver
BY InvHolds, InvImplies, PTL DEF Spec
=============================================================================

----------------------------- MODULE Desultory ------------------------------
(* DesultoryTask and DesultoryTaskManager (DesultoryTask.cs).  A task runs  *)
(* its items one after the other; an item starts one or more runs on the    *)
(* thread pool, and each of them ends with a call of Run(), which decides   *)
(* what comes next.  Run() holds _syncRoot and is one step; the manager's   *)
(* dictionary is concurrent, and each access to it is a step.               *)
EXTENDS Integers, Sequences, FiniteSets

CONSTANTS
  Tasks,
  IDs,        \* what rand.Next(100, 999999) can draw
  Programs,   \* what the tasks can be made of: sequences of items
  FinishedActions, \* whether Dispatch() is given a finishedAction
  MayFail,    \* whether a run may report an error
  MaxLoops    \* bound: how often the runs of a task can ask for one more

VARIABLES
  task,       \* the task, or what the application knows of it
  registered, \* DesultoryTaskManager.Tasks: what is stored under an ID, if any
  shared      \* history: tasks that had the ID of another one in use

vars == <<task, registered, shared>>

(* An item: a DesultoryBlock, a DesultoryIf of two blocks whose IfCondition *)
(* is set after its constructor, which forgets it, a DesultoryParallel of   *)
(* blocks, or one of them whose runs the application has made repeatable.   *)
(* results is what the NextConditions may answer.                           *)
Item(kind, runs, results) ==
  [kind |-> kind, runs |-> runs, results |-> results, repeatable |-> FALSE,
   early |-> FALSE]
Block       == Item("block", 1, {"Next"})
If          == Item("if", 2, {"Next", "Done"})
Parallel(n) == Item("parallel", n, {"Done"})
(* A parallel item whose own NextCondition does not wait for the others.    *)
Race(n)     == [Parallel(n) EXCEPT !.early = TRUE]
Repeatable(item) ==
  [item EXCEPT !.repeatable = TRUE, !.results = @ \cup {"Current"}]

(* A task has at least one item, and an item a number of runs.              *)
ASSUME ProgramsAllowed ==
  \A p \in Programs : /\ DOMAIN p = 1 .. Len(p) /\ Len(p) \in Nat \ {0}
                      /\ \A i \in DOMAIN p : p[i].runs \in Nat

Nobody   == 0
Reserved == 0
Free     == -1

New(p, action) ==
  [items |-> p, action |-> action, at |-> "new", id |-> Free, index |-> 0, pending |-> 0,
   failed |-> FALSE, done |-> FALSE,
   remaining |-> [i \in DOMAIN p |-> p[i].runs],
   started |-> {}, running |-> {}, finished |-> 0, errors |-> 0,
   thrown |-> FALSE, loops |-> 0]

Init ==
  /\ \E p \in [Tasks -> Programs], action \in [Tasks -> FinishedActions] :
       task = [t \in Tasks |-> New(p[t], action[t])]
  /\ registered = [i \in IDs |-> Free]
  /\ shared = {}

At(t, step)  == task[t].at = step
ID(t)        == task[t].id
Last(t)      == task[t].index = Len(task[t].items)
Set(t, rec)  == task' = [task EXCEPT ![t] = rec]
Go(t, step)  == task' = [task EXCEPT ![t].at = step]

-----------------------------------------------------------------------------
(* NewTask() and Dispatch()                                                 *)

InUse(u) == task[u].id # Free /\ ~At(u, "removed")

NextID(t) ==
  /\ At(t, "new")
  /\ \E i \in IDs :
       /\ registered[i] = Free
       /\ Set(t, [task[t] EXCEPT !.id = i, !.at = "reserve"])
       /\ shared' = shared \cup
            LET same == {u \in Tasks : u # t /\ InUse(u) /\ ID(u) = i}
            IN IF same = {} THEN {} ELSE same \cup {t}
  /\ UNCHANGED registered

(* An entry that is there by now stays, and the ID is given out twice.      *)
Reserve(t) ==
  /\ At(t, "reserve")
  /\ registered' = [registered EXCEPT ![ID(t)] = IF @ = Free THEN Reserved ELSE @]
  /\ Go(t, "reserved")
  /\ UNCHANGED shared

Add(t) ==
  /\ At(t, "reserved")
  /\ registered' = [registered EXCEPT ![ID(t)] = t]
  /\ Go(t, "dispatch")
  /\ UNCHANGED shared

-----------------------------------------------------------------------------
(* Run()                                                                    *)

(* The runs that an item starts: one of a DesultoryIf as its condition is,  *)
(* all of a DesultoryParallel without a runState, else the one it names.    *)
ToStart(item, runState) ==
  CASE item.kind = "block" -> {{1}}
    [] item.kind = "if" -> {{1}, {2}}
    [] OTHER -> {IF runState = Nobody THEN 1 .. item.runs
                 ELSE {runState} \cap 1 .. item.runs}

StartMistake(rec, runs) ==
  [rec EXCEPT !.running = @ \cup {<<rec.index, r>> : r \in runs},
              !.started = @ \cup {<<rec.index, r>> : r \in runs}]

(* A System.Threading.Tasks.Task starts once; a second Start() throws, and  *)
(* nothing is counted.                                                      *)
Start(rec, runs) ==
  LET new == {<<rec.index, r>> : r \in runs}
  IN IF new \cap rec.started # {} /\ ~rec.items[rec.index].repeatable
     THEN [rec EXCEPT !.thrown = TRUE]
     ELSE [rec EXCEPT !.running = @ \cup new, !.started = @ \cup new,
                      !.pending = @ + Cardinality(runs)]

FinishMistake(rec) ==
  IF rec.done THEN rec
  ELSE [rec EXCEPT !.done = TRUE, !.finished = @ + 1]

(* After the last item: the finished item, unless other runs are pending.   *)
Finish(rec) ==
  IF rec.done \/ rec.pending # 0 THEN rec
  ELSE [rec EXCEPT !.done = TRUE, !.finished = @ + 1]

(* What the current item answers to a run that is over.  A parallel item    *)
(* counts the runs that are done; an answer of Done ends a DesultoryIf.     *)
CanNext(rec, result) ==
  LET i    == rec.index
      left == rec.remaining[i] - 1
  IN CASE rec.items[i].kind = "block" -> [fn |-> result, rec |-> rec]
       [] rec.items[i].kind = "if" ->
            [fn |-> IF result = "Done" THEN "Next" ELSE result, rec |-> rec]
       [] result = "Done" ->
            [fn |-> IF left = 0 \/ rec.items[i].early THEN "Next" ELSE "Done",
             rec |-> [rec EXCEPT !.remaining[i] = left]]
       [] OTHER -> [fn |-> "Current", rec |-> rec]

(* The call that Dispatch() makes.                                          *)
FirstRun(t) ==
  LET rec == [task[t] EXCEPT !.index = 1, !.at = "dispatched"]
  IN /\ At(t, "dispatch")
     /\ \E runs \in ToStart(rec.items[1], Nobody) : Set(t, Start(rec, runs))
     /\ UNCHANGED <<registered, shared>>

(* The call at the end of a run; a sub-item of a parallel item passes its   *)
(* ID as the runState, which is also what the next item gets.               *)
RunAgain(t, run, result) ==
  LET over == [task[t] EXCEPT !.running = @ \ {run}, !.pending = @ - 1]
      next == CanNext(over, result)
      runState == IF task[t].items[run[1]].kind = "parallel" THEN run[2] ELSE Nobody
      step == [next.rec EXCEPT !.index = @ + 1]
  IN \/ /\ next.fn = "Next" /\ Last(t)
        /\ Set(t, Finish(next.rec))
     \/ /\ next.fn = "Next" /\ ~Last(t)
        /\ \E runs \in ToStart(step.items[step.index], runState) :
             Set(t, Start(step, runs))
     \/ /\ next.fn = "Current" /\ task[t].loops < MaxLoops
        /\ LET rec == [next.rec EXCEPT !.loops = @ + 1]
           IN \E runs \in ToStart(rec.items[rec.index], runState) :
                Set(t, Start(rec, runs))
     \/ /\ next.fn \in {"Stop", "Done"}
        /\ Set(t, next.rec)

Report(t) ==
  /\ ~task[t].failed
  /\ \E run \in task[t].running :
       \E result \in task[t].items[task[t].index].results : RunAgain(t, run, result)
  /\ UNCHANGED <<registered, shared>>

(* The first error starts the error item; the count is left as it is.       *)
ReportError(t) ==
  /\ MayFail /\ ~task[t].failed
  /\ \E run \in task[t].running :
       Set(t, [task[t] EXCEPT !.running = @ \ {run}, !.failed = TRUE,
                              !.errors = @ + 1])
  /\ UNCHANGED <<registered, shared>>

ReportAfterError(t) ==
  /\ task[t].failed
  /\ \E run \in task[t].running :
       Set(t, [task[t] EXCEPT !.running = @ \ {run}, !.pending = @ - 1])
  /\ UNCHANGED <<registered, shared>>

-----------------------------------------------------------------------------
(* What follows the finishedAction removes the task: ContainsKey(), then    *)
(* TryRemove() and a sleep until it succeeds.  The default finished item    *)
(* was to do that itself, but nobody tells it which task it belongs to: it  *)
(* throws, and that is all.                                                 *)

Contains(t) ==
  /\ At(t, "dispatched") /\ task[t].finished > 0 /\ task[t].action
  /\ Go(t, IF registered[ID(t)] = Free THEN "removed" ELSE "tryRemove")
  /\ UNCHANGED <<registered, shared>>

TryRemove(t) ==
  /\ At(t, "tryRemove") /\ registered[ID(t)] # Free
  /\ registered' = [registered EXCEPT ![ID(t)] = Free]
  /\ Go(t, "removed")
  /\ UNCHANGED shared

Remove(t) == Contains(t) \/ TryRemove(t)
Step(t)   == \/ Reserve(t) \/ Add(t) \/ FirstRun(t) \/ Report(t) \/ ReportError(t)
             \/ ReportAfterError(t) \/ Remove(t)
Next      == \E t \in Tasks : NextID(t) \/ Step(t)

(* The threads of the pool, and one that has begun NewTask(), go on.        *)
Fairness  == \A t \in Tasks : WF_vars(Step(t))
Spec      == Init /\ [][Next]_vars /\ Fairness

-----------------------------------------------------------------------------
(* "Finished-item is executed when every item of task has been finished and *)
(* no-error was happened": it is executed once, by a task that is at its    *)
(* last item, that has not failed and none of whose runs is still running,  *)
(* whatever the NextConditions answer and whoever calls Run() late.         *)
FinishedWhenOver ==
  \A t \in Tasks :
    task[t].finished > 0 =>
      /\ task[t].finished = 1 /\ Last(t)
      /\ ~task[t].failed /\ task[t].errors = 0
      /\ task[t].running = {}

(* Two parallel items in a row need not end, as the second is told the ID   *)
(* of a run of the first and starts that one only; nor need a task whose    *)
(* late runs are counted for an item that comes after theirs.               *)
Stumbles(items) ==
  \E i \in 1 .. Len(items) - 1 :
    /\ items[i].kind = "parallel"
    /\ items[i + 1].kind = "parallel" \/ items[i].early

(* A task that is dispatched with a finishedAction, whose runs all report   *)
(* and none of them an error, executes its finished item and is removed     *)
(* from the manager.  (Tasks that share an ID may wait for good in Remove().*)
TaskEnds ==
  \A t \in Tasks :
    At(t, "dispatched") /\ task[t].action /\ ~Stumbles(task[t].items)
      ~> At(t, "removed") \/ task[t].failed \/ t \in shared

(* "If task's constructor has no finished-item, this class create a default *)
(* one to clear resources": a finished task is removed from the manager.    *)
ResourcesCleared ==
  \A t \in Tasks : task[t].finished > 0 ~> At(t, "removed") \/ t \in shared
============================================================================

----------------------------- MODULE Dispatcher -----------------------------
(***************************************************************************)
(* I_IODispatcher of the Windows build: IO threads take completions off the *)
(* completion port and push contexts on a work list; worker threads sleep   *)
(* in an alertable wait and are woken with an APC; Close() ends both.       *)
(*                                                                          *)
(* A step is one critical section, one kernel call or one atomic operation, *)
(* so that everything the code leaves unlocked interleaves.  The spec       *)
(* starts after Create() has returned.                                      *)
(***************************************************************************)
EXTENDS Integers, Sequences, FiniteSets, Functions

CONSTANTS
  Workers,           (* the worker threads (and their handles)              *)
  IOThreads,         (* the threads of the completion port                  *)
  Jobs,              (* completions that end in PushWork; a job that has    *)
                     (* been run may complete again (the code reuses its    *)
                     (* contexts), so Jobs bounds how many are pending      *)
  NoJob, NoWorker    (* the null pointers                                   *)

ASSUME DispatcherAssumption ==
  /\ IsFiniteSet(Workers) /\ Workers # {}
  /\ IsFiniteSet(IOThreads) /\ IOThreads # {}
  /\ NoJob \notin Jobs
  /\ NoWorker \notin Workers

VARIABLES
  listWork,          (* m_listWork                                          *)
  idleWorkers,       (* m_idleWorkers                                       *)
  busyWorkers,       (* m_busyWorkers; its order is never observed          *)
  apc,               (* per worker, the user APCs queued to it              *)
  done,              (* m_hevtDone is signalled                             *)
  nulls,             (* the null completions waiting in the port            *)
  sufWorker, sufIO,  (* m_sufWorker and m_sufIO                             *)
  worker, context,   (* per worker, where it is and its pContext            *)
  io, pushed, hWorker,(* per IO thread, where it is, the context it pushes  *)
                     (* and its local hWorker                               *)
  closer             (* where the caller of Close() is                      *)

queueVars  == <<listWork, idleWorkers, busyWorkers, apc>>
workerVars == <<worker, context>>
ioVars     == <<io, pushed, hWorker>>
closeVars  == <<done, nulls, closer>>
sufVars    == <<sufWorker, sufIO>>
vars == <<queueVars, workerVars, ioVars, closeVars, sufVars>>

SW == INSTANCE Sufficer WITH Threads <- Workers, suf <- sufWorker
SI == INSTANCE Sufficer WITH Threads <- IOThreads, suf <- sufIO

WorkerPlaces == {"wait", "pop", "work", "unbusy", "idle", "leave", "gave"}
IOPlaces     == {"get", "append", "dispatch", "busy", "wake", "leave", "gave"}
CloserPlaces == {"open", "waitWorkers", "clearIdle", "clearBusy",
                 "closeHandles", "postNulls", "checkIO", "sleep",
                 "closePort", "closed"}

TypeOK ==
  /\ listWork \in Seq(Jobs)
  /\ idleWorkers \in Seq(Workers)
  /\ busyWorkers \in SUBSET Workers
  /\ apc \in [Workers -> Nat]
  /\ done \in BOOLEAN
  /\ nulls \in 0 .. Cardinality(IOThreads)
  /\ sufWorker \in SW!SufficerType
  /\ sufIO \in SI!SufficerType
  /\ worker \in [Workers -> WorkerPlaces]
  /\ context \in [Workers -> Jobs \cup {NoJob}]
  /\ io \in [IOThreads -> IOPlaces]
  /\ pushed \in [IOThreads -> Jobs \cup {NoJob}]
  /\ hWorker \in [IOThreads -> Workers \cup {NoWorker}]
  /\ closer \in CloserPlaces

(* The workers are created in some order, each idle and in its wait; both   *)
(* sufficers have had SetMax() with the number of their threads.            *)
CreatedIdle == Bijection(1 .. Cardinality(Workers), Workers)

Created(n, Threads) ==
  [max |-> n, current |-> 0, evt |-> FALSE,
   at |-> [t \in Threads |-> "out"], seen |-> [t \in Threads |-> 0]]

Init ==
  /\ listWork = <<>>
  /\ idleWorkers \in CreatedIdle
  /\ busyWorkers = {}
  /\ apc = [w \in Workers |-> 0]
  /\ done = FALSE
  /\ nulls = 0
  /\ sufWorker = Created(Cardinality(Workers), Workers)
  /\ sufIO = Created(Cardinality(IOThreads), IOThreads)
  /\ worker = [w \in Workers |-> "wait"]
  /\ context = [w \in Workers |-> NoJob]
  /\ io = [i \in IOThreads |-> "get"]
  /\ pushed = [i \in IOThreads |-> NoJob]
  /\ hWorker = [i \in IOThreads |-> NoWorker]
  /\ closer = "open"

At(w, p)   == worker[w] = p
Go(w, p)   == worker' = [worker EXCEPT ![w] = p]
IOAt(i, p) == io[i] = p
IOGo(i, p) == io' = [io EXCEPT ![i] = p]

(* The definitions whose names end in Mistake are not in Next.  Each is a   *)
(* plausible slip in the action that follows it, and each property below is *)
(* violated when one of them takes the place of that action.                *)

-----------------------------------------------------------------------------
(* ThreadWorker                                                            *)

(* The alertable wait returns for an APC; all queued APCs are delivered.   *)
WaitAPC(w) ==
  /\ At(w, "wait") /\ apc[w] > 0
  /\ apc' = [apc EXCEPT ![w] = 0]
  /\ Go(w, "pop")
  /\ UNCHANGED <<listWork, idleWorkers, busyWorkers, context, ioVars,
                 closeVars, sufVars>>

(* m_hevtDone is created as an auto-reset event.                           *)
WaitDoneMistake(w) ==
  /\ At(w, "wait") /\ done
  /\ done' = FALSE
  /\ Go(w, "leave")
  /\ UNCHANGED <<queueVars, context, ioVars, nulls, closer, sufVars>>

(* ... or because m_hevtDone is signalled, which ends the loop.            *)
WaitDone(w) ==
  /\ At(w, "wait") /\ done
  /\ Go(w, "leave")
  /\ UNCHANGED <<queueVars, context, ioVars, closeVars, sufVars>>

(* front() without pop_front().                                            *)
PopWorkMistake(w) ==
  /\ At(w, "pop") /\ listWork # <<>>
  /\ context' = [context EXCEPT ![w] = Head(listWork)]
  /\ Go(w, "work")
  /\ UNCHANGED <<queueVars, ioVars, closeVars, sufVars>>

(* PopWork() under m_csWork finds a context ...                            *)
PopWork(w) ==
  /\ At(w, "pop") /\ listWork # <<>>
  /\ context' = [context EXCEPT ![w] = Head(listWork)]
  /\ listWork' = Tail(listWork)
  /\ Go(w, "work")
  /\ UNCHANGED <<idleWorkers, busyWorkers, apc, ioVars, closeVars, sufVars>>

(* ... or none, and the worker is on its way to idleness.                  *)
PopNothing(w) ==
  /\ At(w, "pop") /\ listWork = <<>>
  /\ Go(w, "unbusy")
  /\ UNCHANGED <<queueVars, context, ioVars, closeVars, sufVars>>

(* pContext->Work() returns.                                               *)
Work(w) ==
  /\ At(w, "work")
  /\ context' = [context EXCEPT ![w] = NoJob]
  /\ Go(w, "pop")
  /\ UNCHANGED <<queueVars, ioVars, closeVars, sufVars>>

(* MakeWorkerIdle(): out of the busy list under m_csBusyWorker ...         *)
Unbusy(w) ==
  /\ At(w, "unbusy")
  /\ busyWorkers' = busyWorkers \ {w}
  /\ Go(w, "idle")
  /\ UNCHANGED <<listWork, idleWorkers, apc, context, ioVars, closeVars,
                 sufVars>>

(* The worker returns to its wait without push_back().                     *)
MakeIdleMistake(w) ==
  /\ At(w, "idle")
  /\ Go(w, "wait")
  /\ UNCHANGED <<queueVars, context, ioVars, closeVars, sufVars>>

(* ... and, later, on the idle list under m_csWorker.                      *)
MakeIdle(w) ==
  /\ At(w, "idle")
  /\ idleWorkers' = Append(idleWorkers, w)
  /\ Go(w, "wait")
  /\ UNCHANGED <<listWork, busyWorkers, apc, context, ioVars, closeVars,
                 sufVars>>

(* The worker returns without m_sufWorker.Give().                          *)
GiveWorkerMistake(w) ==
  /\ At(w, "leave")
  /\ Go(w, "gave")
  /\ UNCHANGED <<queueVars, context, ioVars, closeVars, sufVars>>

GiveWorker(w) ==
  /\ At(w, "leave")
  /\ SW!Give(w)
  /\ Go(w, "gave")
  /\ UNCHANGED <<queueVars, context, ioVars, closeVars, sufIO>>

SufficeWorker(w) ==
  /\ SW!Suffice(w)
  /\ UNCHANGED <<queueVars, workerVars, ioVars, closeVars, sufIO>>

WorkerStep(w) ==
  \/ WaitAPC(w)
  \/ WaitDone(w)
  \/ PopWork(w)
  \/ PopNothing(w)
  \/ Work(w)
  \/ Unbusy(w)
  \/ MakeIdle(w)
  \/ GiveWorker(w)
  \/ SufficeWorker(w)

-----------------------------------------------------------------------------
(* ThreadIO                                                                *)

Pending(j) ==
  \/ j \in Range(listWork)
  \/ \E w \in Workers : context[w] = j
  \/ \E i \in IOThreads : pushed[i] = j

(* A completion whose handling ends in PushWork().                         *)
Complete(i, j) ==
  /\ IOAt(i, "get") /\ ~Pending(j)
  /\ pushed' = [pushed EXCEPT ![i] = j]
  /\ IOGo(i, "append")
  /\ UNCHANGED <<queueVars, workerVars, hWorker, closeVars, sufVars>>

(* push_front() for push_back().                                           *)
AppendWorkMistake(i) ==
  /\ IOAt(i, "append")
  /\ listWork' = <<pushed[i]>> \o listWork
  /\ pushed' = [pushed EXCEPT ![i] = NoJob]
  /\ IOGo(i, "dispatch")
  /\ UNCHANGED <<idleWorkers, busyWorkers, apc, workerVars, hWorker,
                 closeVars, sufVars>>

(* PushWork(): on the list under m_csWork ...                              *)
AppendWork(i) ==
  /\ IOAt(i, "append")
  /\ listWork' = Append(listWork, pushed[i])
  /\ pushed' = [pushed EXCEPT ![i] = NoJob]
  /\ IOGo(i, "dispatch")
  /\ UNCHANGED <<idleWorkers, busyWorkers, apc, workerVars, hWorker,
                 closeVars, sufVars>>

(* ... then DispatchWorker(): under m_csWorker, no idle worker: return ... *)
NobodyIdle(i) ==
  /\ IOAt(i, "dispatch") /\ idleWorkers = <<>>
  /\ IOGo(i, "get")
  /\ UNCHANGED <<queueVars, workerVars, pushed, hWorker, closeVars, sufVars>>

(* front() without pop_front().                                            *)
TakeIdleMistake(i) ==
  /\ IOAt(i, "dispatch") /\ idleWorkers # <<>>
  /\ hWorker' = [hWorker EXCEPT ![i] = Head(idleWorkers)]
  /\ IOGo(i, "busy")
  /\ UNCHANGED <<queueVars, workerVars, pushed, closeVars, sufVars>>

(* A second hWorker in the inner block shadows the one that is used.       *)
ShadowedMistake(i) ==
  /\ IOAt(i, "dispatch") /\ idleWorkers # <<>>
  /\ idleWorkers' = Tail(idleWorkers)
  /\ IOGo(i, "busy")
  /\ UNCHANGED <<listWork, busyWorkers, apc, workerVars, pushed, hWorker,
                 closeVars, sufVars>>

(* ... or take the first one, ...                                          *)
TakeIdle(i) ==
  /\ IOAt(i, "dispatch") /\ idleWorkers # <<>>
  /\ hWorker' = [hWorker EXCEPT ![i] = Head(idleWorkers)]
  /\ idleWorkers' = Tail(idleWorkers)
  /\ IOGo(i, "busy")
  /\ UNCHANGED <<listWork, busyWorkers, apc, workerVars, pushed, closeVars,
                 sufVars>>

(* ... put it on the busy list under m_csBusyWorker ...                    *)
MakeBusy(i) ==
  /\ IOAt(i, "busy")
  /\ busyWorkers' = busyWorkers \cup {hWorker[i]}
  /\ IOGo(i, "wake")
  /\ UNCHANGED <<listWork, idleWorkers, apc, workerVars, pushed, hWorker,
                 closeVars, sufVars>>

(* The handles are closed together, by Close().                            *)
HandlesOpen ==
  closer \in {"open", "waitWorkers", "clearIdle", "clearBusy", "closeHandles"}

(* The busy list is updated and QueueUserAPC() forgotten.                  *)
QueueAPCMistake(i) ==
  /\ IOAt(i, "wake")
  /\ hWorker' = [hWorker EXCEPT ![i] = NoWorker]
  /\ IOGo(i, "get")
  /\ UNCHANGED <<queueVars, workerVars, pushed, closeVars, sufVars>>

(* ... and queue the APC.  On a closed handle the call fails.              *)
QueueAPC(i) ==
  /\ IOAt(i, "wake")
  /\ apc' = IF HandlesOpen THEN [apc EXCEPT ![hWorker[i]] = @ + 1] ELSE apc
  /\ hWorker' = [hWorker EXCEPT ![i] = NoWorker]
  /\ IOGo(i, "get")
  /\ UNCHANGED <<listWork, idleWorkers, busyWorkers, workerVars, pushed,
                 closeVars, sufVars>>

(* A completion without a key is skipped.                                  *)
GetNullMistake(i) ==
  /\ IOAt(i, "get") /\ nulls > 0
  /\ nulls' = nulls - 1
  /\ UNCHANGED <<queueVars, workerVars, ioVars, done, closer, sufVars>>

(* A null completion ends the loop.                                        *)
GetNull(i) ==
  /\ IOAt(i, "get") /\ nulls > 0
  /\ nulls' = nulls - 1
  /\ IOGo(i, "leave")
  /\ UNCHANGED <<queueVars, workerVars, pushed, hWorker, done, closer,
                 sufVars>>

GiveIO(i) ==
  /\ IOAt(i, "leave")
  /\ SI!Give(i)
  /\ IOGo(i, "gave")
  /\ UNCHANGED <<queueVars, workerVars, pushed, hWorker, closeVars, sufWorker>>

SufficeIO(i) ==
  /\ SI!Suffice(i)
  /\ UNCHANGED <<queueVars, workerVars, ioVars, closeVars, sufWorker>>

Push(i) == AppendWork(i) \/ NobodyIdle(i) \/ TakeIdle(i) \/ MakeBusy(i)
             \/ QueueAPC(i)

IOStep(i) == Push(i) \/ GetNull(i) \/ GiveIO(i) \/ SufficeIO(i)

-----------------------------------------------------------------------------
(* Close()                                                                 *)

CloserGo(from, to) == closer = from /\ closer' = to

SignalDone ==
  /\ CloserGo("open", "waitWorkers")
  /\ done' = TRUE
  /\ UNCHANGED <<queueVars, workerVars, ioVars, nulls, sufVars>>

(* The result of a Wait() with a time limit is not looked at.              *)
WaitWorkersMistake ==
  /\ CloserGo("waitWorkers", "clearIdle")
  /\ UNCHANGED <<queueVars, workerVars, ioVars, done, nulls, sufVars>>

WaitWorkers ==
  /\ CloserGo("waitWorkers", "clearIdle")
  /\ SW!Signalled
  /\ UNCHANGED <<queueVars, workerVars, ioVars, done, nulls, sufVars>>

(* The lists are cleared with no lock held: against an IO thread that is    *)
(* in DispatchWorker() this is a data race on std::list.  The step stands   *)
(* for the outcome in which the clear takes effect at once.                 *)
ClearIdle ==
  /\ CloserGo("clearIdle", "clearBusy")
  /\ idleWorkers' = <<>>
  /\ UNCHANGED <<listWork, busyWorkers, apc, workerVars, ioVars, done, nulls,
                 sufVars>>

ClearBusy ==
  /\ CloserGo("clearBusy", "closeHandles")
  /\ busyWorkers' = {}
  /\ UNCHANGED <<listWork, idleWorkers, apc, workerVars, ioVars, done, nulls,
                 sufVars>>

CloseHandles ==
  /\ CloserGo("closeHandles", "postNulls")
  /\ UNCHANGED <<queueVars, workerVars, ioVars, done, nulls, sufVars>>

(* One null completion per IO thread.  A thread takes at most one, so more  *)
(* than Cardinality(IOThreads) waiting ones make no difference.             *)
PostNulls ==
  /\ CloserGo("postNulls", "checkIO")
  /\ nulls' = Cardinality(IOThreads)
  /\ UNCHANGED <<queueVars, workerVars, ioVars, done, sufVars>>

(* The comparison is inverted.                                             *)
CheckIOMistake ==
  /\ \/ CloserGo("checkIO", "closePort") /\ ~SI!IsEqual
     \/ CloserGo("checkIO", "sleep") /\ SI!IsEqual
  /\ UNCHANGED <<queueVars, workerVars, ioVars, done, nulls, sufVars>>

CheckIO ==
  /\ \/ CloserGo("checkIO", "closePort") /\ SI!IsEqual
     \/ CloserGo("checkIO", "sleep") /\ ~SI!IsEqual
  /\ UNCHANGED <<queueVars, workerVars, ioVars, done, nulls, sufVars>>

Slept ==
  /\ CloserGo("sleep", "postNulls")
  /\ UNCHANGED <<queueVars, workerVars, ioVars, done, nulls, sufVars>>

ClosePort ==
  /\ CloserGo("closePort", "closed")
  /\ UNCHANGED <<queueVars, workerVars, ioVars, done, nulls, sufVars>>

CloserStep ==
  \/ WaitWorkers
  \/ ClearIdle
  \/ ClearBusy
  \/ CloseHandles
  \/ PostNulls
  \/ CheckIO
  \/ Slept
  \/ ClosePort

-----------------------------------------------------------------------------
Next ==
  \/ \E w \in Workers : WorkerStep(w)
  \/ \E i \in IOThreads : IOStep(i) \/ \E j \in Jobs : Complete(i, j)
  \/ SignalDone
  \/ CloserStep

Spec == Init /\ [][Next]_vars

(* Threads that can run do run.  A waiting null completion is not passed    *)
(* over for ever, because the port is first in, first out.  Nothing obliges *)
(* the network to complete an operation or the application to call Close(). *)
Fairness ==
  /\ \A w \in Workers : WF_vars(WorkerStep(w))
  /\ \A i \in IOThreads :
       /\ WF_vars(Push(i) \/ GiveIO(i) \/ SufficeIO(i))
       /\ SF_vars(GetNull(i))
  /\ WF_vars(CloserStep)

FairSpec == Spec /\ Fairness

-----------------------------------------------------------------------------
(* Properties of the lists of workers                                      *)

Awake(w)  == worker[w] \in {"pop", "work", "unbusy", "idle"}
Handed(w) == \E i \in IOThreads : hWorker[i] = w

(* DispatchWorker() picks a worker that sleeps and wakes it once: a worker  *)
(* is on the idle list at most once; while it is there, and while an IO     *)
(* thread holds its handle, it is not awake and no APC is queued to it; no  *)
(* two IO threads hold the same handle.                                     *)
IdleIsAsleep ==
  /\ IsInjective(idleWorkers)
  /\ \A w \in Workers :
       (w \in Range(idleWorkers) \/ Handed(w)) => ~Awake(w) /\ apc[w] = 0
  /\ \A w \in Workers : w \in Range(idleWorkers) => ~Handed(w)
  /\ \A i, k \in IOThreads :
       hWorker[i] = hWorker[k] /\ hWorker[i] # NoWorker => i = k
  /\ \A w \in Workers : Awake(w) => apc[w] = 0
  /\ \A w \in Workers : apc[w] \in {0, 1}

(* No worker is lost: until Close() clears the lists, a worker that sleeps  *)
(* is on the idle list, or an IO thread is about to wake it, or its APC is  *)
(* queued.  So work that was left on the list because nobody was idle when  *)
(* it was pushed is picked up after a later push.                           *)
NoWorkerLost ==
  closer \in {"open", "waitWorkers", "clearIdle"} =>
    \A w \in Workers :
      At(w, "wait") => w \in Range(idleWorkers) \/ Handed(w) \/ apc[w] = 1

-----------------------------------------------------------------------------
(* Properties of the work                                                  *)

(* A pushed context is in one place: with the IO thread that pushes it, on  *)
(* the list once, or with the one worker that runs it.                      *)
JobInOnePlace ==
  /\ IsInjective(listWork)
  /\ \A v, w \in Workers :
       context[v] = context[w] /\ context[v] # NoJob => v = w
  /\ \A i, k \in IOThreads :
       pushed[i] = pushed[k] /\ pushed[i] # NoJob => i = k
  /\ \A w \in Workers : context[w] \notin Range(listWork)
  /\ \A i \in IOThreads : pushed[i] \notin Range(listWork)
  /\ \A i \in IOThreads, w \in Workers :
       pushed[i] = context[w] => pushed[i] = NoJob

(* PushWork() and PopWork() implement the queue of WorkQueue: first in,     *)
(* first out, every context run by exactly one worker, none dropped or      *)
(* duplicated, whatever the wake-ups and Close() do.                        *)
WQ == INSTANCE WorkQueue WITH queue <- listWork, running <- context

ImplementsWorkQueue == WQ!Spec

-----------------------------------------------------------------------------
(* Properties of Close()                                                   *)

(* Close() clears the lists and closes the handles of the workers only when *)
(* every worker has left its loop ...                                       *)
WorkersLeftFirst ==
  closer \notin {"open", "waitWorkers"} => \A w \in Workers : At(w, "gave")

(* ... and closes the port, and returns, only when every IO thread has.     *)
IOThreadsLeftFirst ==
  closer \in {"closePort", "closed"} => \A i \in IOThreads : IOAt(i, "gave")

-----------------------------------------------------------------------------
(* What the proofs need besides: a thread's locals fit its place, and the   *)
(* sufficers count the threads that have left.                              *)

LocalsMatch ==
  /\ \A w \in Workers : context[w] # NoJob <=> At(w, "work")
  /\ \A i \in IOThreads :
       /\ pushed[i] # NoJob <=> IOAt(i, "append")
       /\ hWorker[i] # NoWorker <=> io[i] \in {"busy", "wake"}

GoneWorkers == {w \in Workers : At(w, "gave")}
GoneIO      == {i \in IOThreads : IOAt(i, "gave")}

SufficersCount ==
  /\ SW!CountsLeavers(GoneWorkers, Cardinality(GoneWorkers),
                      Cardinality(Workers))
  /\ SI!CountsLeavers(GoneIO, Cardinality(GoneIO), Cardinality(IOThreads))

-----------------------------------------------------------------------------
(* Liveness, under FairSpec                                                *)

Quiet == \A i \in IOThreads : io[i] \in {"get", "leave", "gave"}

(* Somebody is about to look at the work list: an IO thread holds the       *)
(* handle of a worker, an APC is queued, or a worker is in its pop loop.    *)
OnTheWay ==
  \E w \in Workers : Handed(w) \/ apc[w] > 0 \/ worker[w] \in {"pop", "work"}

(* Until Close() is called, everything on the list is run once a worker is  *)
(* on its way to it, also what an earlier DispatchWorker() found nobody for *)
(* and what is pushed while the worker runs.  (When the last worker has     *)
(* found the list empty but is not idle yet, nobody is on the way to a      *)
(* context that is pushed then: it waits for a later push, see the README.) *)
ServedOnceWoken ==
  [](closer = "open") =>
    \A j \in Jobs :
      j \in Range(listWork) /\ OnTheWay ~> \E w \in Workers : context[w] = j

(* Once m_hevtDone is set and the traffic stops, every worker leaves.       *)
WorkersLeave == <>[]Quiet => (done ~> \A w \in Workers : At(w, "gave"))

(* From the first null completion on Close() returns, for any number of IO  *)
(* threads: it polls IsEqual() and does not depend on the event of m_sufIO. *)
IOPhaseEnds == closer = "postNulls" ~> closer = "closed"

(* The event is lost: two of several workers gave themselves back at the    *)
(* same time, and the Suffice() of the slower one reset what was set.       *)
EventLost ==
  /\ \A w \in Workers : At(w, "gave")
  /\ Cardinality(Workers) > 1
  /\ SW!IsEqual /\ ~SW!Signalled

(* Once the traffic stops Close() returns, unless the event of m_sufWorker  *)
(* is lost, which takes two workers that leave at the same time: nothing    *)
(* else in Close() waits without end.                                       *)
CloseReturns == <>[]Quiet => (done ~> closer = "closed" \/ EventLost)
=============================================================================

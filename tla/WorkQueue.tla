----------------------------- MODULE WorkQueue ------------------------------
(***************************************************************************)
(* What the dispatcher promises of its work list: a pushed context is       *)
(* queued behind the ones pushed before it, the oldest one is started by    *)
(* exactly one worker, and a worker runs one context at a time.             *)
(***************************************************************************)
EXTENDS Sequences

CONSTANTS
  Jobs,              (* one pending completion of some BIOContext each      *)
  NoJob,             (* not a job                                           *)
  Workers            (* the worker threads                                  *)

VARIABLES
  queue,             (* the jobs waiting, oldest first                      *)
  running            (* the job each worker runs, or NoJob                  *)

vars == <<queue, running>>

Waiting(j) == \E k \in DOMAIN queue : queue[k] = j

Running(j) == \E w \in Workers : running[w] = j

Init ==
  /\ queue = <<>>
  /\ running = [w \in Workers |-> NoJob]

Submit(j) ==
  /\ ~Waiting(j) /\ ~Running(j)
  /\ queue' = Append(queue, j)
  /\ UNCHANGED running

Start(w) ==
  /\ running[w] = NoJob
  /\ queue # <<>>
  /\ running' = [running EXCEPT ![w] = Head(queue)]
  /\ queue' = Tail(queue)

Finish(w) ==
  /\ running[w] # NoJob
  /\ running' = [running EXCEPT ![w] = NoJob]
  /\ UNCHANGED queue

Next ==
  \/ \E j \in Jobs : Submit(j)
  \/ \E w \in Workers : Start(w) \/ Finish(w)

Spec == Init /\ [][Next]_vars
=============================================================================

------------------------------ MODULE Sufficer ------------------------------
(***************************************************************************)
(* BCountedSufficer (src/Thread/sufficer.cpp): two atomic counters and a    *)
(* manual-reset event that is meant to be set exactly while they are equal. *)
(* Every mutator changes one counter and then runs Suffice(), which takes   *)
(* no lock: it loads m_max, loads m_current, probes the event and then sets *)
(* or resets it.  Each of these is a step of the calling thread.            *)
(*                                                                          *)
(* The module only defines the steps of a caller; Sufficing composes them   *)
(* with callers, and Dispatcher with the threads of I_IODispatcher.         *)
(***************************************************************************)
EXTENDS Integers

CONSTANT Threads     (* the threads that call the sufficer                 *)

VARIABLE suf         (* the sufficer, and where each caller is inside it   *)

(* The program counters of a caller inside the class. "out": not inside.   *)
Places == {"out", "load", "compare", "probeEqual", "set",
           "probeUnequal", "reset", "clearCurrent", "clearSet"}

SufficerType ==
  [max : Int, current : Int, evt : BOOLEAN,
   at : [Threads -> Places], seen : [Threads -> Int]]

(* BCountedSufficer(0, 0): the event starts unset although 0 = 0.          *)
SufInit ==
  suf = [max |-> 0, current |-> 0, evt |-> FALSE,
         at |-> [t \in Threads |-> "out"], seen |-> [t \in Threads |-> 0]]

Outside(t) == suf.at[t] = "out"

-----------------------------------------------------------------------------
(* The mutators: one atomic operation on a counter, then Suffice().        *)

Give(t) ==
  /\ Outside(t)
  /\ suf' = [suf EXCEPT !.current = @ + 1, !.at[t] = "load"]

Take(t) ==
  /\ Outside(t)
  /\ suf' = [suf EXCEPT !.current = @ - 1, !.at[t] = "load"]

(* IncMax(n), IncMax() and DecMax(): the max moves by n, 1 or -1.          *)
AddMax(t, n) ==
  /\ Outside(t)
  /\ suf' = [suf EXCEPT !.max = @ + n, !.at[t] = "load"]

SetMax(t, n) ==
  /\ Outside(t)
  /\ suf' = [suf EXCEPT !.max = n, !.at[t] = "load"]

(* Clear() stores both counters and sets the event, in three steps.        *)
ClearMax(t) ==
  /\ Outside(t)
  /\ suf' = [suf EXCEPT !.max = 0, !.at[t] = "clearCurrent"]

ClearCurrent(t) ==
  /\ suf.at[t] = "clearCurrent"
  /\ suf' = [suf EXCEPT !.current = 0, !.at[t] = "clearSet"]

ClearSet(t) ==
  /\ suf.at[t] = "clearSet"
  /\ suf' = [suf EXCEPT !.evt = TRUE, !.at[t] = "out"]

-----------------------------------------------------------------------------
(* Suffice().  seen is the local copy of m_max; Compare drops it.          *)

LoadMax(t) ==
  /\ suf.at[t] = "load"
  /\ suf' = [suf EXCEPT !.seen[t] = suf.max, !.at[t] = "compare"]

(* A slip that the runs must notice: the operands are the same variable.   *)
CompareMistake(t) ==
  /\ suf.at[t] = "compare"
  /\ suf' = [suf EXCEPT !.seen[t] = 0, !.at[t] = "probeEqual"]

Compare(t) ==
  /\ suf.at[t] = "compare"
  /\ suf' = [suf EXCEPT !.seen[t] = 0,
                         !.at[t] = IF suf.seen[t] = suf.current
                                     THEN "probeEqual" ELSE "probeUnequal"]

(* m_max == m_current: set the event unless TryWait() finds it set.        *)
ProbeEqual(t) ==
  /\ suf.at[t] = "probeEqual"
  /\ suf' = [suf EXCEPT !.at[t] = IF suf.evt THEN "out" ELSE "set"]

SetEvt(t) ==
  /\ suf.at[t] = "set"
  /\ suf' = [suf EXCEPT !.evt = TRUE, !.at[t] = "out"]

(* Unequal: reset the event if TryWait() finds it set.                     *)
ProbeUnequal(t) ==
  /\ suf.at[t] = "probeUnequal"
  /\ suf' = [suf EXCEPT !.at[t] = IF suf.evt THEN "reset" ELSE "out"]

ResetEvt(t) ==
  /\ suf.at[t] = "reset"
  /\ suf' = [suf EXCEPT !.evt = FALSE, !.at[t] = "out"]

Suffice(t) ==
  \/ LoadMax(t)
  \/ Compare(t)
  \/ ProbeEqual(t)
  \/ SetEvt(t)
  \/ ProbeUnequal(t)
  \/ ResetEvt(t)

(* What Wait() and TryWait() test, and IsEqual().                          *)
Signalled == suf.evt

IsEqual == suf.max = suf.current

-----------------------------------------------------------------------------
(* The way I_IODispatcher uses it: the max is the number of threads and     *)
(* every thread calls Give() once, when it leaves.  Gone are those that     *)
(* have, gone their number, all the number of threads.  The event, and a    *)
(* decision to set it, then mean that all have left.                        *)
CountsLeavers(Gone, gone, all) ==
  /\ suf.max = all
  /\ suf.current = gone
  /\ \A t \in Threads :
       /\ suf.at[t] \notin {"clearCurrent", "clearSet"}
       /\ suf.at[t] = "compare" => suf.seen[t] = all
       /\ suf.at[t] \in {"probeEqual", "set"} => Gone = Threads
  /\ suf.evt => Gone = Threads
=============================================================================

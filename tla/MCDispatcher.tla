---------------------------- MODULE MCDispatcher ----------------------------
(* Small instances of Dispatcher: threads and jobs are model values; the    *)
(* threads of a kind, and the jobs, are interchangeable in the safety runs. *)
EXTENDS Dispatcher, TLC

ThreadSymmetry ==
  Permutations(Workers) \cup Permutations(IOThreads) \cup Permutations(Jobs)
=============================================================================

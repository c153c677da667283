---------------------------- MODULE MCDesultory -----------------------------
(* Tasks of up to three items: every kind of item before and after another  *)
(* one.                                                                     *)
EXTENDS Desultory

Mixed ==
  {<<Block, Parallel(2), If>>,
   <<Parallel(2), Repeatable(Block), Race(2)>>,
   <<Race(2), Block, Repeatable(Parallel(2))>>}
=============================================================================

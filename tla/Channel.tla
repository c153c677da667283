------------------------------ MODULE Channel ------------------------------
(***************************************************************************)
(* What one direction of a connection promises its handlers: an object that *)
(* arrives is one that was sent, unchanged; objects arrive in the order of  *)
(* sending, none of them twice; some may be lost.                           *)
(***************************************************************************)
EXTENDS Naturals, Sequences

CONSTANTS
  Contents           (* the objects that may be sent                        *)

VARIABLES
  queue,             (* the objects on their way, oldest first              *)
  last,              (* the object that arrived last, or the empty sequence *)
  arrived            (* how many have arrived                               *)

vars == <<queue, last, arrived>>

Init == queue = <<>> /\ last = <<>> /\ arrived = 0

Send(c) ==
  /\ queue' = Append(queue, c)
  /\ UNCHANGED <<last, arrived>>

(* An object arrives; those sent before it and not arrived yet are lost *)
Arrive(k) ==
  /\ last' = queue[k]
  /\ arrived' = arrived + 1
  /\ queue' = SubSeq(queue, k + 1, Len(queue))

Lose ==
  /\ queue' = <<>>
  /\ UNCHANGED <<last, arrived>>

Next ==
  \/ \E c \in Contents : Send(c)
  \/ \E k \in DOMAIN queue : Arrive(k)
  \/ Lose

Spec == Init /\ [][Next]_vars
=============================================================================

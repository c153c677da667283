----------------------------- MODULE Sufficing ------------------------------
(***************************************************************************)
(* Callers that use every mutator of a BCountedSufficer, in any overlap.    *)
(* Suffice() is not atomic, so while calls overlap the event may be wrong   *)
(* and may stay wrong; a call that ran alone must leave it right.           *)
(***************************************************************************)
EXTENDS Sufficer

CONSTANT Bound       (* the counters stay in -Bound .. Bound: bounds TLC    *)

ASSUME SufficingAssumption == Bound \in Nat

VARIABLES
  lone,              (* {t}: t is inside and has been alone since it began; *)
                     (* {} otherwise                                        *)
  settled            (* the last thing that happened was the return of a    *)
                     (* call that ran alone                                 *)

vars == <<suf, lone, settled>>

TypeOK ==
  /\ suf \in SufficerType
  /\ lone \in SUBSET Threads
  /\ settled \in BOOLEAN

Init ==
  /\ SufInit
  /\ lone = {}
  /\ settled = FALSE

Within(n) == n \in -Bound .. Bound

(* A caller enters one of the mutators.                                    *)
Enter(t) ==
  /\ \/ Within(suf.current + 1) /\ Give(t)
     \/ Within(suf.current - 1) /\ Take(t)
     \/ \E n \in -1 .. 2 : Within(suf.max + n) /\ AddMax(t, n)
     \/ \E n \in 0 .. Bound : SetMax(t, n)
     \/ ClearMax(t)
  /\ lone' = IF \A u \in Threads : Outside(u) THEN {t} ELSE {}
  /\ settled' = FALSE

(* A caller takes a further step, which may be its return.                 *)
Step(t) ==
  /\ \/ ClearCurrent(t)
     \/ ClearSet(t)
     \/ Suffice(t)
  /\ IF suf'.at[t] = "out"
       THEN settled' = (lone = {t}) /\ lone' = {}
       ELSE UNCHANGED <<lone, settled>>

Next == \E t \in Threads : Enter(t) \/ Step(t)

Spec == Init /\ [][Next]_vars

-----------------------------------------------------------------------------
(* After a mutator that no other call overlapped, the event is set exactly  *)
(* when m_max = m_current, whatever the event was before: a wrong event     *)
(* left by overlapping calls of Suffice() (sufficer.cpp:70-88) is repaired  *)
(* by the next lone call.                                                   *)
LoneCallSettles == settled => (Signalled <=> IsEqual)

-----------------------------------------------------------------------------
(* Why LoneCallSettles is inductive: what a lone caller already knows.      *)
LoneCallerKnows ==
  \A t \in lone :
    /\ suf.at[t] # "out"
    /\ \A u \in Threads \ {t} : Outside(u)
    /\ suf.at[t] = "compare" => suf.seen[t] = suf.max
    /\ suf.at[t] \in {"probeEqual", "set"} => IsEqual
    /\ suf.at[t] \in {"probeUnequal", "reset"} => ~IsEqual
    /\ suf.at[t] \in {"clearCurrent", "clearSet"} => suf.max = 0
    /\ suf.at[t] = "clearSet" => suf.current = 0

NobodyInsideWhenSettled == settled => \A t \in Threads : Outside(t)

SettleInv ==
  /\ TypeOK
  /\ LoneCallerKnows
  /\ NobodyInsideWhenSettled
  /\ LoneCallSettles
=============================================================================

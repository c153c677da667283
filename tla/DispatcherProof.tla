-------------------------- MODULE DispatcherProof ---------------------------
(***************************************************************************)
(* Proofs about I_IODispatcher, for every number of threads and of pending  *)
(* completions.                                                             *)
(***************************************************************************)
EXTENDS Dispatcher, SequenceTheorems, FiniteSetTheorems, TLAPS

-----------------------------------------------------------------------------
(* The lists: what push_back and pop_front do to what is on a list, and to  *)
(* its having no duplicates.                                                *)
LEMMA AppendRange ==
  ASSUME NEW S, NEW s \in Seq(S), NEW x \in S
  PROVE  /\ Append(s, x) \in Seq(S)
         /\ Range(Append(s, x)) = Range(s) \cup {x}
         /\ IsInjective(s) /\ x \notin Range(s) => IsInjective(Append(s, x))
<1> DEFINE a == Append(s, x)
<1>1. /\ a \in Seq(S) /\ Len(a) = Len(s) + 1
      /\ \A k \in 1 .. Len(s) : a[k] = s[k]
      /\ a[Len(s) + 1] = x
  BY AppendProperties
<1>2. /\ Len(s) \in Nat
      /\ DOMAIN s = 1 .. Len(s)
      /\ DOMAIN a = 1 .. Len(s) + 1
  BY <1>1, LenProperties
<1> HIDE DEF a
<1>3. Range(a) = Range(s) \cup {x}
  <2>1. ASSUME NEW y \in Range(a) PROVE y \in Range(s) \cup {x}
    <3>1. PICK k \in 1 .. Len(s) + 1 : y = a[k]
      BY <1>2 DEF Range
    <3>2. CASE k = Len(s) + 1 BY <1>1, <3>1, <3>2
    <3>3. CASE k \in 1 .. Len(s) BY <1>1, <1>2, <3>1, <3>3 DEF Range
    <3> QED BY <1>2, <3>1, <3>2, <3>3
  <2>2. ASSUME NEW y \in Range(s) PROVE y \in Range(a)
    <3>1. PICK k \in 1 .. Len(s) : y = s[k]
      BY <1>2 DEF Range
    <3>2. k \in 1 .. Len(s) + 1
      BY <1>2
    <3> QED BY <1>1, <1>2, <3>1, <3>2 DEF Range
  <2>3. x \in Range(a)
    <3>1. Len(s) + 1 \in DOMAIN a
      BY <1>2
    <3> QED BY <1>1, <3>1 DEF Range
  <2> QED BY <2>1, <2>2, <2>3
<1>4. ASSUME IsInjective(s), x \notin Range(s) PROVE IsInjective(a)
  <2> SUFFICES ASSUME NEW k \in DOMAIN a, NEW l \in DOMAIN a, a[k] = a[l]
               PROVE  k = l
    BY DEF IsInjective
  <2>1. \A n \in 1 .. Len(s) : a[n] # x
    BY <1>1, <1>2, <1>4 DEF Range
  <2>2. CASE k = Len(s) + 1 \/ l = Len(s) + 1
    BY <1>1, <1>2, <2>1, <2>2
  <2>3. CASE k \in 1 .. Len(s) /\ l \in 1 .. Len(s)
    BY <1>1, <1>2, <1>4, <2>3 DEF IsInjective
  <2> QED BY <1>2, <2>2, <2>3
<1> QED BY <1>1, <1>3, <1>4 DEF a

(* pop_front() of a list that is not empty.                                 *)
LEMMA TailRange ==
  ASSUME NEW S, NEW s \in Seq(S), s # <<>>
  PROVE  /\ Head(s) \in S
         /\ Tail(s) \in Seq(S)
         /\ Range(s) = Range(Tail(s)) \cup {Head(s)}
         /\ IsInjective(s) => /\ IsInjective(Tail(s))
                              /\ Head(s) \notin Range(Tail(s))
<1> DEFINE b == Tail(s)
<1>1. /\ Head(s) \in S /\ b \in Seq(S) /\ Len(b) = Len(s) - 1
      /\ \A k \in 1 .. Len(b) : b[k] = s[k + 1]
      /\ Head(s) = s[1]
  BY HeadTailProperties
<1>2. /\ Len(s) \in Nat \ {0}
      /\ DOMAIN s = 1 .. Len(s)
      /\ DOMAIN b = 1 .. Len(s) - 1
  BY <1>1, LenProperties, EmptySeq
<1> HIDE DEF b
<1>3. Range(s) = Range(b) \cup {Head(s)}
  <2>1. ASSUME NEW y \in Range(s) PROVE y \in Range(b) \cup {Head(s)}
    <3>1. PICK k \in 1 .. Len(s) : y = s[k]
      BY <1>2 DEF Range
    <3>2. CASE k = 1 BY <1>1, <3>1, <3>2
    <3>3. CASE k # 1
      <4>1. k - 1 \in 1 .. Len(s) - 1 /\ (k - 1) + 1 = k
        BY <1>2, <3>3
      <4>2. b[k - 1] = y /\ k - 1 \in DOMAIN b
        BY <1>1, <1>2, <3>1, <4>1
      <4> QED BY <4>2, Zenon DEF Range
    <3> QED BY <3>2, <3>3
  <2>2. ASSUME NEW y \in Range(b) PROVE y \in Range(s)
    <3>1. PICK k \in 1 .. Len(s) - 1 : y = b[k]
      BY <1>2 DEF Range
    <3>2. k + 1 \in 1 .. Len(s)
      BY <1>2
    <3> QED BY <1>1, <1>2, <3>1, <3>2 DEF Range
  <2>3. Head(s) \in Range(s)
    <3>1. 1 \in DOMAIN s
      BY <1>2
    <3> QED BY <1>1, <3>1 DEF Range
  <2> QED BY <2>1, <2>2, <2>3
<1>4. ASSUME IsInjective(s) PROVE IsInjective(b) /\ Head(s) \notin Range(b)
  <2>1. \A k \in 1 .. Len(s) - 1 : k + 1 \in 1 .. Len(s) /\ k + 1 # 1
    BY <1>2
  <2>2. ASSUME NEW k \in DOMAIN b, NEW l \in DOMAIN b, b[k] = b[l]
        PROVE  k = l
    <3>1. s[k + 1] = s[l + 1]
      BY <1>1, <1>2, <2>2
    <3>2. k + 1 = l + 1
      BY <1>2, <1>4, <2>1, <3>1 DEF IsInjective
    <3> QED BY <1>2, <3>2
  <2>3. ASSUME NEW k \in DOMAIN b PROVE b[k] # s[1]
    <3>1. b[k] = s[k + 1] /\ k + 1 \in DOMAIN s /\ 1 \in DOMAIN s /\ k + 1 # 1
      BY <1>1, <1>2, <2>1
    <3> QED BY <1>4, <3>1 DEF IsInjective
  <2> QED BY <1>1, <2>2, <2>3 DEF IsInjective, Range
<1> QED BY <1>1, <1>3, <1>4 DEF b

-----------------------------------------------------------------------------
(* Types, and what the place of a thread says about its locals.             *)

TypeInv == TypeOK /\ LocalsMatch

(* What the assumptions on the constants give.                              *)
LEMMA Constants ==
  /\ Cardinality(Workers) \in Nat
  /\ Cardinality(IOThreads) \in Nat
  /\ NoJob \notin Jobs
  /\ NoWorker \notin Workers
BY DispatcherAssumption, FS_CardinalityType

(* Create() leaves every variable well typed.                               *)
LEMMA TypeInit == Init => TypeInv
<1> SUFFICES ASSUME Init PROVE TypeInv
  OBVIOUS
<1> USE Constants DEF Init
<1>1. idleWorkers \in Seq(Workers)
  BY SeqDef DEF CreatedIdle, Bijection, Injection, Surjection
<1>2. listWork \in Seq(Jobs)
  BY EmptySeq
<1>3. sufWorker \in SW!SufficerType
  BY DEF Created, SW!SufficerType, SW!Places
<1>4. sufIO \in SI!SufficerType
  BY DEF Created, SI!SufficerType, SI!Places
<1>5. /\ worker \in [Workers -> WorkerPlaces]
      /\ context \in [Workers -> Jobs \cup {NoJob}]
      /\ io \in [IOThreads -> IOPlaces]
      /\ pushed \in [IOThreads -> Jobs \cup {NoJob}]
      /\ hWorker \in [IOThreads -> Workers \cup {NoWorker}]
      /\ apc \in [Workers -> Nat]
      /\ closer \in CloserPlaces
      /\ nulls \in 0 .. Cardinality(IOThreads)
  BY DEF WorkerPlaces, IOPlaces, CloserPlaces
<1>6. LocalsMatch
  BY DEF LocalsMatch, At, IOAt
<1> QED BY <1>1, <1>2, <1>3, <1>4, <1>5, <1>6 DEF TypeInv, TypeOK

(* The steps of a sufficer keep the type of its state: those of            *)
(* m_sufWorker ...                                                          *)
LEMMA WorkerSufficerTyped ==
  ASSUME TypeOK, NEW w \in Workers, SW!Give(w) \/ SW!Suffice(w)
  PROVE  sufWorker' \in SW!SufficerType
<1> USE DEF SW!SufficerType, SW!Places
<1>0. sufWorker \in SW!SufficerType /\ 0 \in Int
  BY DEF TypeOK
<1>1. CASE SW!Give(w)
  <2>1. sufWorker.current + 1 \in Int BY <1>0
  <2> QED BY <1>0, <1>1, <2>1 DEF SW!Give
<1>2. CASE SW!LoadMax(w) BY <1>0, <1>2 DEF SW!LoadMax
<1>3. CASE SW!Compare(w) BY <1>0, <1>3 DEF SW!Compare
<1>4. CASE SW!ProbeEqual(w) BY <1>0, <1>4 DEF SW!ProbeEqual
<1>5. CASE SW!SetEvt(w) BY <1>0, <1>5 DEF SW!SetEvt
<1>6. CASE SW!ProbeUnequal(w) BY <1>0, <1>6 DEF SW!ProbeUnequal
<1>7. CASE SW!ResetEvt(w) BY <1>0, <1>7 DEF SW!ResetEvt
<1> QED BY <1>1, <1>2, <1>3, <1>4, <1>5, <1>6, <1>7 DEF SW!Suffice

(* ... and those of m_sufIO.                                                *)
LEMMA IOSufficerTyped ==
  ASSUME TypeOK, NEW i \in IOThreads, SI!Give(i) \/ SI!Suffice(i)
  PROVE  sufIO' \in SI!SufficerType
<1> USE DEF SI!SufficerType, SI!Places
<1>0. sufIO \in SI!SufficerType /\ 0 \in Int
  BY DEF TypeOK
<1>1. CASE SI!Give(i)
  <2>1. sufIO.current + 1 \in Int BY <1>0
  <2> QED BY <1>0, <1>1, <2>1 DEF SI!Give
<1>2. CASE SI!LoadMax(i) BY <1>0, <1>2 DEF SI!LoadMax
<1>3. CASE SI!Compare(i) BY <1>0, <1>3 DEF SI!Compare
<1>4. CASE SI!ProbeEqual(i) BY <1>0, <1>4 DEF SI!ProbeEqual
<1>5. CASE SI!SetEvt(i) BY <1>0, <1>5 DEF SI!SetEvt
<1>6. CASE SI!ProbeUnequal(i) BY <1>0, <1>6 DEF SI!ProbeUnequal
<1>7. CASE SI!ResetEvt(i) BY <1>0, <1>7 DEF SI!ResetEvt
<1> QED BY <1>1, <1>2, <1>3, <1>4, <1>5, <1>6, <1>7 DEF SI!Suffice

(* A step of a worker keeps the types.                                      *)
LEMMA TypeWorkerStep ==
  ASSUME TypeInv, NEW w \in Workers, WorkerStep(w)
  PROVE  TypeInv'
<1> USE Constants DEF TypeInv, TypeOK, LocalsMatch, WorkerPlaces, At, IOAt, Go,
                      queueVars, workerVars, ioVars, closeVars, sufVars
<1>1. CASE WaitAPC(w) BY <1>1 DEF WaitAPC
<1>2. CASE WaitDone(w) BY <1>2 DEF WaitDone
<1>3. CASE PopWork(w)
  <2>1. Head(listWork) \in Jobs /\ Tail(listWork) \in Seq(Jobs)
    BY <1>3, TailRange DEF PopWork
  <2> QED BY <1>3, <2>1 DEF PopWork
<1>4. CASE PopNothing(w) BY <1>4 DEF PopNothing
<1>5. CASE Work(w) BY <1>5 DEF Work
<1>6. CASE Unbusy(w) BY <1>6 DEF Unbusy
<1>7. CASE MakeIdle(w)
  <2>1. Append(idleWorkers, w) \in Seq(Workers)
    BY AppendRange
  <2> QED BY <1>7, <2>1 DEF MakeIdle
<1>8. CASE GiveWorker(w)
  <2>1. sufWorker' \in SW!SufficerType
    BY <1>8, WorkerSufficerTyped DEF GiveWorker
  <2> QED BY <1>8, <2>1 DEF GiveWorker
<1>9. CASE SufficeWorker(w)
  <2>1. sufWorker' \in SW!SufficerType
    BY <1>9, WorkerSufficerTyped DEF SufficeWorker
  <2> QED BY <1>9, <2>1 DEF SufficeWorker
<1> QED
  BY <1>1, <1>2, <1>3, <1>4, <1>5, <1>6, <1>7, <1>8, <1>9 DEF WorkerStep

(* A step of an IO thread keeps the types.                                  *)
LEMMA TypeIOStep ==
  ASSUME TypeInv, NEW i \in IOThreads,
         IOStep(i) \/ \E j \in Jobs : Complete(i, j)
  PROVE  TypeInv'
<1> USE Constants DEF TypeInv, TypeOK, LocalsMatch, IOPlaces, At, IOAt, IOGo,
                      queueVars, workerVars, ioVars, closeVars, sufVars
<1>1. ASSUME NEW j \in Jobs, Complete(i, j) PROVE TypeInv'
  BY <1>1 DEF Complete
<1>2. CASE AppendWork(i)
  <2>1. pushed[i] \in Jobs
    BY <1>2 DEF AppendWork
  <2>2. Append(listWork, pushed[i]) \in Seq(Jobs)
    BY <2>1, AppendRange
  <2> QED BY <1>2, <2>2 DEF AppendWork
<1>3. CASE NobodyIdle(i) BY <1>3 DEF NobodyIdle
<1>4. CASE TakeIdle(i)
  <2>1. Head(idleWorkers) \in Workers /\ Tail(idleWorkers) \in Seq(Workers)
    BY <1>4, TailRange DEF TakeIdle
  <2> QED BY <1>4, <2>1 DEF TakeIdle
<1>5. CASE MakeBusy(i)
  <2>1. hWorker[i] \in Workers
    BY <1>5 DEF MakeBusy
  <2> QED BY <1>5, <2>1 DEF MakeBusy
<1>6. CASE QueueAPC(i)
  <2>1. apc' \in [Workers -> Nat]
    BY <1>6 DEF QueueAPC
  <2> QED BY <1>6, <2>1 DEF QueueAPC
<1>7. CASE GetNull(i)
  <2>1. nulls - 1 \in 0 .. Cardinality(IOThreads)
    BY <1>7 DEF GetNull
  <2> QED BY <1>7, <2>1 DEF GetNull
<1>8. CASE GiveIO(i)
  <2>1. sufIO' \in SI!SufficerType
    BY <1>8, IOSufficerTyped DEF GiveIO
  <2> QED BY <1>8, <2>1 DEF GiveIO
<1>9. CASE SufficeIO(i)
  <2>1. sufIO' \in SI!SufficerType
    BY <1>9, IOSufficerTyped DEF SufficeIO
  <2> QED BY <1>9, <2>1 DEF SufficeIO
<1> QED
  BY <1>1, <1>2, <1>3, <1>4, <1>5, <1>6, <1>7, <1>8, <1>9 DEF IOStep, Push

(* A step of Close() keeps the types.                                       *)
LEMMA TypeCloserStep ==
  ASSUME TypeInv, SignalDone \/ CloserStep
  PROVE  TypeInv'
<1> USE Constants DEF TypeInv, TypeOK, LocalsMatch, CloserPlaces, CloserGo, At,
                      IOAt, queueVars, workerVars, ioVars, sufVars
<1>1. CASE SignalDone BY <1>1 DEF SignalDone
<1>2. CASE WaitWorkers BY <1>2 DEF WaitWorkers
<1>3. CASE ClearIdle
  <2>1. <<>> \in Seq(Workers)
    BY EmptySeq
  <2> QED BY <1>3, <2>1 DEF ClearIdle
<1>4. CASE ClearBusy BY <1>4 DEF ClearBusy
<1>5. CASE CloseHandles BY <1>5 DEF CloseHandles
<1>6. CASE PostNulls BY <1>6 DEF PostNulls
<1>7. CASE CheckIO BY <1>7 DEF CheckIO
<1>8. CASE Slept BY <1>8 DEF Slept
<1>9. CASE ClosePort BY <1>9 DEF ClosePort
<1> QED
  BY <1>1, <1>2, <1>3, <1>4, <1>5, <1>6, <1>7, <1>8, <1>9 DEF CloserStep

(* The types do not depend on anything but the variables.                   *)
LEMMA TypeStutter ==
  ASSUME TypeInv, UNCHANGED vars
  PROVE  TypeInv'
BY DEF TypeInv, TypeOK, LocalsMatch, At, IOAt, vars, queueVars, workerVars,
       ioVars, closeVars, sufVars

(* Every variable keeps its type.                                           *)
THEOREM TypeCorrect == Spec => []TypeOK
<1>1. TypeInv /\ [Next]_vars => TypeInv'
  BY TypeWorkerStep, TypeIOStep, TypeCloserStep, TypeStutter DEF Next
<1>2. TypeInv => TypeOK
  BY DEF TypeInv
<1> QED BY TypeInit, <1>1, <1>2, PTL DEF Spec

(* The types, and the agreement of each thread's locals with its place.     *)
THEOREM TypeInvariant == Spec => []TypeInv
<1>1. TypeInv /\ [Next]_vars => TypeInv'
  BY TypeWorkerStep, TypeIOStep, TypeCloserStep, TypeStutter DEF Next
<1> QED BY TypeInit, <1>1, PTL DEF Spec

-----------------------------------------------------------------------------
(* Where the workers are.  IdleIsAsleep and NoWorkerLost are inductive      *)
(* together with the types.                                                 *)

PlaceInv == IdleIsAsleep /\ NoWorkerLost

(* Create() puts every worker on the idle list once.                        *)
LEMMA PlaceInit == Init => PlaceInv
<1> SUFFICES ASSUME Init PROVE PlaceInv
  OBVIOUS
<1>1. IsInjective(idleWorkers) /\ \A w \in Workers : w \in Range(idleWorkers)
  BY DEF Init, CreatedIdle, Bijection, Injection, Surjection, Range
<1> QED
  BY <1>1, Constants DEF Init, PlaceInv, IdleIsAsleep, NoWorkerLost, Awake,
                         Handed, At

(* A worker goes on the idle list only when it is about to sleep.           *)
LEMMA PlaceWorkerStep ==
  ASSUME TypeInv, PlaceInv, NEW w \in Workers, WorkerStep(w)
  PROVE  PlaceInv'
<1> USE DEF TypeInv, TypeOK, PlaceInv, IdleIsAsleep, NoWorkerLost, Awake,
            Handed, At, Go, queueVars, workerVars, ioVars, closeVars, sufVars
<1>1. CASE WaitAPC(w) BY <1>1 DEF WaitAPC
<1>2. CASE WaitDone(w) BY <1>2 DEF WaitDone
<1>3. CASE PopWork(w) BY <1>3 DEF PopWork
<1>4. CASE PopNothing(w) BY <1>4 DEF PopNothing
<1>5. CASE Work(w) BY <1>5 DEF Work
<1>6. CASE Unbusy(w) BY <1>6 DEF Unbusy
<1>7. CASE MakeIdle(w)
  <2>1. w \notin Range(idleWorkers) /\ ~Handed(w) /\ apc[w] = 0
    BY <1>7 DEF MakeIdle
  <2>2. /\ Range(idleWorkers') = Range(idleWorkers) \cup {w}
        /\ IsInjective(idleWorkers')
    BY <1>7, <2>1, AppendRange DEF MakeIdle
  <2> QED BY <1>7, <2>1, <2>2 DEF MakeIdle
<1>8. CASE GiveWorker(w) BY <1>8 DEF GiveWorker
<1>9. CASE SufficeWorker(w) BY <1>9 DEF SufficeWorker
<1> QED
  BY <1>1, <1>2, <1>3, <1>4, <1>5, <1>6, <1>7, <1>8, <1>9 DEF WorkerStep

(* DispatchWorker() takes a worker off the list before it wakes it.         *)
LEMMA PlaceIOStep ==
  ASSUME TypeInv, PlaceInv, NEW i \in IOThreads,
         IOStep(i) \/ \E j \in Jobs : Complete(i, j)
  PROVE  PlaceInv'
<1> USE Constants DEF TypeInv, TypeOK, LocalsMatch, PlaceInv, IdleIsAsleep,
      NoWorkerLost, Awake, Handed, At, IOAt, IOGo, queueVars, workerVars,
      ioVars, closeVars, sufVars
<1>1. ASSUME NEW j \in Jobs, Complete(i, j) PROVE PlaceInv'
  BY <1>1 DEF Complete
<1>2. CASE AppendWork(i) BY <1>2 DEF AppendWork
<1>3. CASE NobodyIdle(i) BY <1>3 DEF NobodyIdle
<1>4. CASE TakeIdle(i)
  <2> DEFINE w == Head(idleWorkers)
  <2>1. /\ w \in Workers
        /\ Range(idleWorkers) = Range(idleWorkers') \cup {w}
        /\ IsInjective(idleWorkers')
        /\ w \notin Range(idleWorkers')
    BY <1>4, TailRange DEF TakeIdle
  <2>2. hWorker' = [hWorker EXCEPT ![i] = w]
    BY <1>4 DEF TakeIdle
  <2> HIDE DEF w
  <2>3. ~Awake(w) /\ apc[w] = 0 /\ ~Handed(w)
    BY <2>1
  <2>4. hWorker[i] = NoWorker
    BY <1>4 DEF TakeIdle
  <2>5. \A v \in Workers : Handed(v)' <=> Handed(v) \/ v = w
    BY <2>1, <2>2, <2>4
  <2>6. UNCHANGED <<apc, worker, closer>>
    BY <1>4 DEF TakeIdle
  <2> QED BY <2>1, <2>2, <2>3, <2>5, <2>6
<1>5. CASE MakeBusy(i) BY <1>5 DEF MakeBusy
<1>6. CASE QueueAPC(i)
  <2> DEFINE w == hWorker[i]
  <2>1. /\ w \in Workers
        /\ hWorker' = [hWorker EXCEPT ![i] = NoWorker]
        /\ UNCHANGED <<idleWorkers, worker, closer>>
    BY <1>6 DEF QueueAPC
  <2>2. ~Awake(w) /\ apc[w] = 0 /\ w \notin Range(idleWorkers)
    BY <2>1
  <2>3. IF HandlesOpen THEN apc' = [apc EXCEPT ![w] = 1] ELSE apc' = apc
    BY <1>6, <2>1, <2>2 DEF QueueAPC
  <2>4. \A v \in Workers : Handed(v)' <=> Handed(v) /\ v # w
    BY <2>1
  <2> HIDE DEF w
  <2>5. IdleIsAsleep'
    BY <2>1, <2>2, <2>3, <2>4
  <2>6. ASSUME closer' \in {"open", "waitWorkers", "clearIdle"},
               NEW v \in Workers, worker'[v] = "wait"
        PROVE  v \in Range(idleWorkers') \/ Handed(v)' \/ apc'[v] = 1
    <3>1. apc' = [apc EXCEPT ![w] = 1]
      BY <2>1, <2>3, <2>6 DEF HandlesOpen
    <3>2. CASE v = w BY <2>1, <3>1, <3>2
    <3>3. CASE v # w
      <4>1. v \in Range(idleWorkers) \/ Handed(v) \/ apc[v] = 1
        BY <2>1, <2>6
      <4> HIDE DEF Handed
      <4> QED BY <2>1, <2>4, <3>1, <3>3, <4>1
    <3> QED BY <3>2, <3>3
  <2> QED BY <2>5, <2>6
<1>7. CASE GetNull(i) BY <1>7 DEF GetNull
<1>8. CASE GiveIO(i) BY <1>8 DEF GiveIO
<1>9. CASE SufficeIO(i) BY <1>9 DEF SufficeIO
<1> QED
  BY <1>1, <1>2, <1>3, <1>4, <1>5, <1>6, <1>7, <1>8, <1>9 DEF IOStep, Push

(* Close() only empties the list, and only after all workers have left.     *)
LEMMA PlaceCloserStep ==
  ASSUME TypeInv, PlaceInv, SignalDone \/ CloserStep
  PROVE  PlaceInv'
<1> USE DEF PlaceInv, IdleIsAsleep, NoWorkerLost, Awake, Handed, At, CloserGo,
            queueVars, workerVars, ioVars, sufVars
<1>1. CASE SignalDone BY <1>1 DEF SignalDone
<1>2. CASE WaitWorkers BY <1>2 DEF WaitWorkers
<1>3. CASE ClearIdle BY <1>3 DEF ClearIdle, IsInjective, Range
<1>4. CASE ClearBusy BY <1>4 DEF ClearBusy
<1>5. CASE CloseHandles BY <1>5 DEF CloseHandles
<1>6. CASE PostNulls BY <1>6 DEF PostNulls
<1>7. CASE CheckIO BY <1>7 DEF CheckIO
<1>8. CASE Slept BY <1>8 DEF Slept
<1>9. CASE ClosePort BY <1>9 DEF ClosePort
<1> QED
  BY <1>1, <1>2, <1>3, <1>4, <1>5, <1>6, <1>7, <1>8, <1>9 DEF CloserStep

(* A worker is awake, on the idle list, in an IO thread's hand or has an    *)
(* APC queued, and only one of these.                                       *)
THEOREM PlaceInvariant == Spec => []PlaceInv
<1>1. TypeInv /\ PlaceInv /\ [Next]_vars => PlaceInv'
  <2>1. PlaceInv /\ UNCHANGED vars => PlaceInv'
    BY DEF PlaceInv, IdleIsAsleep, NoWorkerLost, Awake, Handed, At, vars,
           queueVars, workerVars, ioVars, closeVars, sufVars
  <2> QED
    BY <2>1, PlaceWorkerStep, PlaceIOStep, PlaceCloserStep DEF Next
<1> QED BY TypeInvariant, PlaceInit, <1>1, PTL DEF Spec

(* DispatchWorker() only ever wakes a sleeping worker, and only once.       *)
THEOREM OnlySleepersAreWoken == Spec => []IdleIsAsleep
<1>1. PlaceInv => IdleIsAsleep
  BY DEF PlaceInv
<1> QED BY PlaceInvariant, <1>1, PTL

(* No sleeping worker is forgotten before Close() clears the lists.         *)
THEOREM NoWorkerIsLost == Spec => []NoWorkerLost
<1>1. PlaceInv => NoWorkerLost
  BY DEF PlaceInv
<1> QED BY PlaceInvariant, <1>1, PTL

-----------------------------------------------------------------------------
(* Where the work is.                                                       *)

(* No context is pending after Create().                                    *)
LEMMA JobInit == Init => JobInOnePlace
BY DEF Init, JobInOnePlace, IsInjective, Range

(* Steps that leave the work alone.                                         *)
LEMMA JobStutter ==
  ASSUME JobInOnePlace, UNCHANGED <<listWork, context, pushed>>
  PROVE  JobInOnePlace'
BY DEF JobInOnePlace

(* PushWork(), PopWork() and the return of Work() move a context, and no    *)
(* other step touches one.                                                  *)
LEMMA JobStep ==
  ASSUME TypeInv, JobInOnePlace, [Next]_vars
  PROVE  JobInOnePlace'
<1> USE Constants DEF TypeInv, TypeOK, LocalsMatch, JobInOnePlace, At, IOAt
<1>1. ASSUME NEW w \in Workers, PopWork(w) PROVE JobInOnePlace'
  <2> DEFINE j == Head(listWork)
  <2>1. /\ j \in Jobs
        /\ Range(listWork) = Range(listWork') \cup {j}
        /\ IsInjective(listWork')
        /\ j \notin Range(listWork')
    BY <1>1, TailRange DEF PopWork
  <2>2. context' = [context EXCEPT ![w] = j] /\ UNCHANGED pushed
    BY <1>1 DEF PopWork, ioVars
  <2> HIDE DEF j
  <2> QED BY <2>1, <2>2
<1>2. ASSUME NEW w \in Workers, Work(w) PROVE JobInOnePlace'
  <2>1. /\ context' = [context EXCEPT ![w] = NoJob]
        /\ UNCHANGED <<listWork, pushed>>
    BY <1>2 DEF Work, queueVars, ioVars
  <2>2. NoJob \notin Range(listWork)
    BY ElementOfSeq, LenProperties DEF Range
  <2> QED BY <2>1, <2>2
<1>3. ASSUME NEW i \in IOThreads, NEW j \in Jobs, Complete(i, j)
      PROVE  JobInOnePlace'
  BY <1>3 DEF Complete, Pending, queueVars, workerVars
<1>4. ASSUME NEW i \in IOThreads, AppendWork(i) PROVE JobInOnePlace'
  <2> DEFINE j == pushed[i]
  <2>1. j \in Jobs
    BY <1>4 DEF AppendWork
  <2>2. /\ Range(listWork') = Range(listWork) \cup {j}
        /\ IsInjective(listWork')
    BY <1>4, <2>1, AppendRange DEF AppendWork
  <2>3. /\ pushed' = [pushed EXCEPT ![i] = NoJob]
        /\ UNCHANGED context
    BY <1>4 DEF AppendWork, workerVars
  <2>4. \A k \in IOThreads : pushed'[k] \notin Range(listWork')
    <3>1. NoJob \notin Range(listWork)
      BY ElementOfSeq, LenProperties DEF Range
    <3> QED BY <2>1, <2>2, <2>3, <3>1
  <2>5. \A w \in Workers : context[w] \notin Range(listWork')
    BY <2>1, <2>2
  <2> QED BY <2>2, <2>3, <2>4, <2>5
<1>5. ASSUME NEW w \in Workers,
             \/ WaitAPC(w) \/ WaitDone(w) \/ PopNothing(w) \/ Unbusy(w)
             \/ MakeIdle(w) \/ GiveWorker(w) \/ SufficeWorker(w)
      PROVE  JobInOnePlace'
  BY <1>5, JobStutter
  DEF WaitAPC, WaitDone, PopNothing, Unbusy, MakeIdle, GiveWorker,
      SufficeWorker, queueVars, workerVars, ioVars
<1>6. ASSUME NEW i \in IOThreads,
             \/ NobodyIdle(i) \/ TakeIdle(i) \/ MakeBusy(i) \/ QueueAPC(i)
             \/ GetNull(i) \/ GiveIO(i) \/ SufficeIO(i)
      PROVE  JobInOnePlace'
  BY <1>6, JobStutter
  DEF NobodyIdle, TakeIdle, MakeBusy, QueueAPC, GetNull, GiveIO, SufficeIO,
      queueVars, workerVars, ioVars
<1>7. CASE SignalDone \/ CloserStep
  BY <1>7, JobStutter
  DEF SignalDone, CloserStep, WaitWorkers, ClearIdle, ClearBusy, CloseHandles,
      PostNulls, CheckIO, Slept, ClosePort, queueVars, workerVars, ioVars
<1>8. CASE UNCHANGED vars
  BY <1>8, JobStutter DEF vars, queueVars, workerVars, ioVars
<1> QED
  BY <1>1, <1>2, <1>3, <1>4, <1>5, <1>6, <1>7, <1>8
  DEF Next, WorkerStep, IOStep, Push

(* A pushed context is never in two places.                                 *)
THEOREM JobIsInOnePlace == Spec => []JobInOnePlace
BY TypeInvariant, JobInit, JobStep, PTL DEF Spec

-----------------------------------------------------------------------------
(* The work list implements the abstract queue.                             *)

(* The dispatcher starts with an empty queue.                               *)
LEMMA QueueInit == Init => WQ!Init
BY DEF Init, WQ!Init

(* AppendWork is Submit, PopWork is Start, Work is Finish; every other step *)
(* leaves the queue unchanged.                                              *)
LEMMA QueueStep ==
  ASSUME TypeInv, JobInOnePlace, [Next]_vars
  PROVE  [WQ!Next]_(WQ!vars)
<1> USE DEF At, IOAt, WQ!vars
<1>1. ASSUME NEW w \in Workers, PopWork(w) PROVE WQ!Next
  <2>1. context[w] = NoJob
    BY <1>1 DEF PopWork, TypeInv, LocalsMatch
  <2> QED BY <1>1, <2>1 DEF PopWork, WQ!Next, WQ!Start
<1>2. ASSUME NEW w \in Workers, Work(w) PROVE WQ!Next
  <2>1. context[w] # NoJob
    BY <1>2 DEF Work, TypeInv, LocalsMatch
  <2> QED BY <1>2, <2>1 DEF Work, queueVars, WQ!Next, WQ!Finish
<1>3. ASSUME NEW i \in IOThreads, AppendWork(i) PROVE WQ!Next
  <2>1. pushed[i] \in Jobs /\ pushed[i] # NoJob
    BY <1>3, Constants DEF AppendWork, TypeInv, TypeOK, LocalsMatch
  <2>2. ~WQ!Waiting(pushed[i]) /\ ~WQ!Running(pushed[i])
    BY <2>1 DEF JobInOnePlace, Range, WQ!Waiting, WQ!Running
  <2>3. WQ!Submit(pushed[i])
    BY <1>3, <2>2 DEF AppendWork, workerVars, WQ!Submit
  <2> QED BY <2>1, <2>3 DEF WQ!Next
<1>4. ASSUME \A w \in Workers : ~PopWork(w) /\ ~Work(w),
             \A i \in IOThreads : ~AppendWork(i)
      PROVE  UNCHANGED <<listWork, context>>
  <2>1. ASSUME NEW w \in Workers, WorkerStep(w)
        PROVE  UNCHANGED <<listWork, context>>
    BY <1>4, <2>1
    DEF WorkerStep, WaitAPC, WaitDone, PopNothing, Unbusy, MakeIdle,
        GiveWorker, SufficeWorker, queueVars, workerVars
  <2>2. ASSUME NEW i \in IOThreads,
               IOStep(i) \/ \E j \in Jobs : Complete(i, j)
        PROVE  UNCHANGED <<listWork, context>>
    BY <1>4, <2>2
    DEF IOStep, Push, Complete, NobodyIdle, TakeIdle, MakeBusy, QueueAPC,
        GetNull, GiveIO, SufficeIO, queueVars, workerVars
  <2>3. CASE SignalDone \/ CloserStep
    BY <2>3
    DEF SignalDone, CloserStep, WaitWorkers, ClearIdle, ClearBusy,
        CloseHandles, PostNulls, CheckIO, Slept, ClosePort, queueVars,
        workerVars
  <2>4. CASE UNCHANGED vars
    BY <2>4 DEF vars, queueVars, workerVars
  <2> QED BY <2>1, <2>2, <2>3, <2>4 DEF Next
<1> QED BY <1>1, <1>2, <1>3, <1>4

(* First in, first out, each context run by one worker: every behaviour of  *)
(* the dispatcher is one of the abstract queue.                             *)
THEOREM DispatcherImplementsWorkQueue == Spec => ImplementsWorkQueue
BY TypeInvariant, JobIsInOnePlace, QueueInit, QueueStep, PTL
DEF Spec, ImplementsWorkQueue, WQ!Spec

-----------------------------------------------------------------------------
(* Close(): the sufficers count the threads that have left, so the event    *)
(* of m_sufWorker, or the equality of m_sufIO, means that all have.         *)

CloseInv == SufficersCount /\ WorkersLeftFirst /\ IOThreadsLeftFirst

(* No thread has left after Create().                                       *)
LEMMA CloseInit == Init => CloseInv
<1> SUFFICES ASSUME Init PROVE CloseInv
  OBVIOUS
<1>1. GoneWorkers = {} /\ GoneIO = {}
  BY DEF Init, GoneWorkers, GoneIO, At, IOAt
<1>2. Cardinality({}) = 0
  BY FS_EmptySet
<1>3. SW!CountsLeavers({}, 0, Cardinality(Workers))
  <2>1. /\ sufWorker.max = Cardinality(Workers)
        /\ sufWorker.current = 0
        /\ ~sufWorker.evt
        /\ sufWorker.at = [w \in Workers |-> "out"]
    BY DEF Init, Created
  <2> QED BY <1>2, <2>1 DEF SW!CountsLeavers
<1>4. SI!CountsLeavers({}, 0, Cardinality(IOThreads))
  <2>1. /\ sufIO.max = Cardinality(IOThreads)
        /\ sufIO.current = 0
        /\ ~sufIO.evt
        /\ sufIO.at = [i \in IOThreads |-> "out"]
    BY DEF Init, Created
  <2> QED BY <1>2, <2>1 DEF SI!CountsLeavers
<1> QED
  BY <1>1, <1>2, <1>3, <1>4
  DEF Init, CloseInv, SufficersCount, WorkersLeftFirst, IOThreadsLeftFirst

(* A further worker leaves ...                                              *)
LEMMA WorkerGiveCounts ==
  ASSUME sufWorker \in SW!SufficerType, NEW Gone \in SUBSET Workers,
         NEW gone \in Nat, NEW all \in Nat, SW!CountsLeavers(Gone, gone, all),
         NEW w \in Workers \ Gone, SW!Give(w)
  PROVE  SW!CountsLeavers(Gone \cup {w}, gone + 1, all)'
<1>1. Gone # Workers
  OBVIOUS
<1>2. /\ sufWorker'.max = sufWorker.max
      /\ sufWorker'.current = sufWorker.current + 1
      /\ sufWorker'.evt = sufWorker.evt
      /\ sufWorker'.seen = sufWorker.seen
      /\ sufWorker'.at = [sufWorker.at EXCEPT ![w] = "load"]
  BY DEF SW!Give, SW!SufficerType
<1> QED
  BY <1>1, <1>2 DEF SW!CountsLeavers, SW!SufficerType

(* ... and Suffice() decides to set the event only when all have left.      *)
LEMMA WorkerSufficeCounts ==
  ASSUME sufWorker \in SW!SufficerType, NEW Gone \in SUBSET Workers,
         NEW gone \in Nat, NEW all \in Nat, SW!CountsLeavers(Gone, gone, all),
         gone = all => Gone = Workers,
         NEW w \in Workers, SW!Suffice(w)
  PROVE  SW!CountsLeavers(Gone, gone, all)'
<1> USE DEF SW!SufficerType, SW!CountsLeavers
<1>1. CASE SW!LoadMax(w) BY <1>1 DEF SW!LoadMax
<1>2. CASE SW!Compare(w)
  <2>1. /\ sufWorker'.max = sufWorker.max
        /\ sufWorker'.current = sufWorker.current
        /\ sufWorker'.evt = sufWorker.evt
        /\ sufWorker'.at = [sufWorker.at EXCEPT ![w] =
                           IF sufWorker.seen[w] = sufWorker.current
                             THEN "probeEqual" ELSE "probeUnequal"]
        /\ \A u \in Workers \ {w} : sufWorker'.seen[u] = sufWorker.seen[u]
    BY <1>2 DEF SW!Compare
  <2>2. sufWorker.seen[w] = all
    BY <1>2 DEF SW!Compare
  <2> QED BY <2>1, <2>2
<1>3. CASE SW!ProbeEqual(w) BY <1>3 DEF SW!ProbeEqual
<1>4. CASE SW!SetEvt(w) BY <1>4 DEF SW!SetEvt
<1>5. CASE SW!ProbeUnequal(w) BY <1>5 DEF SW!ProbeUnequal
<1>6. CASE SW!ResetEvt(w) BY <1>6 DEF SW!ResetEvt
<1> QED BY <1>1, <1>2, <1>3, <1>4, <1>5, <1>6 DEF SW!Suffice

(* A further IO thread leaves ...                                           *)
LEMMA IOGiveCounts ==
  ASSUME sufIO \in SI!SufficerType, NEW Gone \in SUBSET IOThreads,
         NEW gone \in Nat, NEW all \in Nat, SI!CountsLeavers(Gone, gone, all),
         NEW i \in IOThreads \ Gone, SI!Give(i)
  PROVE  SI!CountsLeavers(Gone \cup {i}, gone + 1, all)'
<1>1. Gone # IOThreads
  OBVIOUS
<1>2. /\ sufIO'.max = sufIO.max
      /\ sufIO'.current = sufIO.current + 1
      /\ sufIO'.evt = sufIO.evt
      /\ sufIO'.seen = sufIO.seen
      /\ sufIO'.at = [sufIO.at EXCEPT ![i] = "load"]
  BY DEF SI!Give, SI!SufficerType
<1> QED
  BY <1>1, <1>2 DEF SI!CountsLeavers, SI!SufficerType

(* ... and Suffice() decides to set the event only when all have left.      *)
LEMMA IOSufficeCounts ==
  ASSUME sufIO \in SI!SufficerType, NEW Gone \in SUBSET IOThreads,
         NEW gone \in Nat, NEW all \in Nat, SI!CountsLeavers(Gone, gone, all),
         gone = all => Gone = IOThreads,
         NEW i \in IOThreads, SI!Suffice(i)
  PROVE  SI!CountsLeavers(Gone, gone, all)'
<1> USE DEF SI!SufficerType, SI!CountsLeavers
<1>1. CASE SI!LoadMax(i) BY <1>1 DEF SI!LoadMax
<1>2. CASE SI!Compare(i)
  <2>1. /\ sufIO'.max = sufIO.max /\ sufIO'.current = sufIO.current
        /\ sufIO'.evt = sufIO.evt
        /\ sufIO'.at = [sufIO.at EXCEPT ![i] =
                           IF sufIO.seen[i] = sufIO.current
                             THEN "probeEqual" ELSE "probeUnequal"]
        /\ \A u \in IOThreads \ {i} : sufIO'.seen[u] = sufIO.seen[u]
    BY <1>2 DEF SI!Compare
  <2>2. sufIO.seen[i] = all
    BY <1>2 DEF SI!Compare
  <2> QED BY <2>1, <2>2
<1>3. CASE SI!ProbeEqual(i) BY <1>3 DEF SI!ProbeEqual
<1>4. CASE SI!SetEvt(i) BY <1>4 DEF SI!SetEvt
<1>5. CASE SI!ProbeUnequal(i) BY <1>5 DEF SI!ProbeUnequal
<1>6. CASE SI!ResetEvt(i) BY <1>6 DEF SI!ResetEvt
<1> QED BY <1>1, <1>2, <1>3, <1>4, <1>5, <1>6 DEF SI!Suffice

(* m_sufWorker counts a worker that gives ...                               *)
LEMMA WorkerCountsGive ==
  ASSUME TypeInv, SufficersCount, NEW w \in Workers \ GoneWorkers, SW!Give(w),
         GoneWorkers' = GoneWorkers \cup {w}
  PROVE  SW!CountsLeavers(GoneWorkers, Cardinality(GoneWorkers),
                          Cardinality(Workers))'
<1>1. PICK Gone \in SUBSET Workers : Gone = GoneWorkers
  BY DEF GoneWorkers
<1>2. /\ Cardinality(Gone) \in Nat
      /\ Cardinality(Gone \cup {w}) = Cardinality(Gone) + 1
  BY <1>1, DispatcherAssumption, FS_Subset, FS_AddElement, FS_CardinalityType
<1>3. SW!CountsLeavers(Gone, Cardinality(Gone), Cardinality(Workers))
  BY <1>1 DEF SufficersCount
<1>4. SW!CountsLeavers(Gone \cup {w}, Cardinality(Gone) + 1,
                       Cardinality(Workers))'
  BY <1>1, <1>2, <1>3, WorkerGiveCounts, Constants
  DEF TypeInv, TypeOK
<1> QED BY <1>1, <1>2, <1>4

(* ... and is not misled by Suffice().                                      *)
LEMMA WorkerCountsSuffice ==
  ASSUME TypeInv, SufficersCount, NEW w \in Workers, SW!Suffice(w),
         GoneWorkers' = GoneWorkers
  PROVE  SW!CountsLeavers(GoneWorkers, Cardinality(GoneWorkers),
                          Cardinality(Workers))'
<1>1. PICK Gone \in SUBSET Workers : Gone = GoneWorkers
  BY DEF GoneWorkers
<1>2. /\ Cardinality(Gone) \in Nat
      /\ Cardinality(Gone) = Cardinality(Workers) => Gone = Workers
  BY <1>1, DispatcherAssumption, FS_Subset, FS_CardinalityType
<1>3. SW!CountsLeavers(Gone, Cardinality(Gone), Cardinality(Workers))
  BY <1>1 DEF SufficersCount
<1>4. SW!CountsLeavers(Gone, Cardinality(Gone), Cardinality(Workers))'
  BY <1>1, <1>2, <1>3, WorkerSufficeCounts, Constants
  DEF TypeInv, TypeOK
<1> QED BY <1>1, <1>4

(* m_sufIO counts an IO thread that gives ...                               *)
LEMMA IOCountsGive ==
  ASSUME TypeInv, SufficersCount, NEW i \in IOThreads \ GoneIO, SI!Give(i),
         GoneIO' = GoneIO \cup {i}
  PROVE  SI!CountsLeavers(GoneIO, Cardinality(GoneIO),
                          Cardinality(IOThreads))'
<1>1. PICK Gone \in SUBSET IOThreads : Gone = GoneIO
  BY DEF GoneIO
<1>2. /\ Cardinality(Gone) \in Nat
      /\ Cardinality(Gone \cup {i}) = Cardinality(Gone) + 1
  BY <1>1, DispatcherAssumption, FS_Subset, FS_AddElement, FS_CardinalityType
<1>3. SI!CountsLeavers(Gone, Cardinality(Gone), Cardinality(IOThreads))
  BY <1>1 DEF SufficersCount
<1>4. SI!CountsLeavers(Gone \cup {i}, Cardinality(Gone) + 1,
                       Cardinality(IOThreads))'
  BY <1>1, <1>2, <1>3, IOGiveCounts, Constants
  DEF TypeInv, TypeOK
<1> QED BY <1>1, <1>2, <1>4

(* ... and is not misled by Suffice().                                      *)
LEMMA IOCountsSuffice ==
  ASSUME TypeInv, SufficersCount, NEW i \in IOThreads, SI!Suffice(i),
         GoneIO' = GoneIO
  PROVE  SI!CountsLeavers(GoneIO, Cardinality(GoneIO),
                          Cardinality(IOThreads))'
<1>1. PICK Gone \in SUBSET IOThreads : Gone = GoneIO
  BY DEF GoneIO
<1>2. /\ Cardinality(Gone) \in Nat
      /\ Cardinality(Gone) = Cardinality(IOThreads) => Gone = IOThreads
  BY <1>1, DispatcherAssumption, FS_Subset, FS_CardinalityType
<1>3. SI!CountsLeavers(Gone, Cardinality(Gone), Cardinality(IOThreads))
  BY <1>1 DEF SufficersCount
<1>4. SI!CountsLeavers(Gone, Cardinality(Gone), Cardinality(IOThreads))'
  BY <1>1, <1>2, <1>3, IOSufficeCounts, Constants
  DEF TypeInv, TypeOK
<1> QED BY <1>1, <1>4

(* A worker is counted when it leaves, and never comes back.                *)
LEMMA CloseWorkerStep ==
  ASSUME TypeInv, CloseInv, NEW w \in Workers, WorkerStep(w)
  PROVE  CloseInv'
<1> USE DEF TypeInv, CloseInv
<1>1. UNCHANGED <<io, closer, sufIO>>
  BY DEF WorkerStep, WaitAPC, WaitDone, PopWork, PopNothing, Work, Unbusy,
         MakeIdle, GiveWorker, SufficeWorker, ioVars, closeVars, sufVars
<1>2. SI!CountsLeavers(GoneIO, Cardinality(GoneIO), Cardinality(IOThreads))'
  BY <1>1 DEF SufficersCount, SI!CountsLeavers, GoneIO, IOAt
<1>3. IOThreadsLeftFirst'
  BY <1>1 DEF IOThreadsLeftFirst, IOAt
<1>4. CASE GiveWorker(w)
  <2>1. GoneWorkers' = GoneWorkers \cup {w} /\ w \notin GoneWorkers
    BY <1>4 DEF GiveWorker, GoneWorkers, At, Go, TypeOK
  <2>2. \A v \in Workers : At(v, "gave") => At(v, "gave")'
    BY <1>4 DEF GiveWorker, At, Go, TypeOK
  <2>3. SW!CountsLeavers(GoneWorkers, Cardinality(GoneWorkers),
                         Cardinality(Workers))'
    BY <1>4, <2>1, WorkerCountsGive DEF GiveWorker
  <2> QED
    BY <1>1, <1>2, <1>3, <2>2, <2>3 DEF SufficersCount, WorkersLeftFirst
<1>5. CASE SufficeWorker(w)
  <2>1. GoneWorkers' = GoneWorkers /\ UNCHANGED worker
    BY <1>5 DEF SufficeWorker, workerVars, GoneWorkers, At
  <2>2. SW!CountsLeavers(GoneWorkers, Cardinality(GoneWorkers),
                         Cardinality(Workers))'
    BY <1>5, <2>1, WorkerCountsSuffice DEF SufficeWorker
  <2> QED
    BY <1>1, <1>2, <1>3, <2>1, <2>2 DEF SufficersCount, WorkersLeftFirst, At
<1>6. CASE ~GiveWorker(w) /\ ~SufficeWorker(w)
  <2>1. /\ UNCHANGED sufWorker
        /\ ~At(w, "gave") /\ ~At(w, "gave")'
        /\ \A v \in Workers \ {w} : worker'[v] = worker[v]
    BY <1>6 DEF WorkerStep, WaitAPC, WaitDone, PopWork, PopNothing, Work,
                Unbusy, MakeIdle, At, Go, sufVars, TypeOK
  <2>2. GoneWorkers' = GoneWorkers
    BY <2>1 DEF GoneWorkers, At
  <2>3. \A v \in Workers : At(v, "gave") => At(v, "gave")'
    BY <2>1 DEF At
  <2> QED
    BY <1>1, <1>2, <1>3, <2>1, <2>2, <2>3
    DEF SufficersCount, SW!CountsLeavers, WorkersLeftFirst
<1> QED BY <1>4, <1>5, <1>6

(* So is an IO thread.                                                      *)
LEMMA CloseIOStep ==
  ASSUME TypeInv, CloseInv, NEW i \in IOThreads,
         IOStep(i) \/ \E j \in Jobs : Complete(i, j)
  PROVE  CloseInv'
<1> USE DEF TypeInv, CloseInv
<1>1. UNCHANGED <<worker, closer, sufWorker>>
  BY DEF IOStep, Push, Complete, AppendWork, NobodyIdle, TakeIdle, MakeBusy,
         QueueAPC, GetNull, GiveIO, SufficeIO, workerVars, closeVars, sufVars
<1>2. SW!CountsLeavers(GoneWorkers, Cardinality(GoneWorkers),
                       Cardinality(Workers))'
  BY <1>1 DEF SufficersCount, SW!CountsLeavers, GoneWorkers, At
<1>3. WorkersLeftFirst'
  BY <1>1 DEF WorkersLeftFirst, At
<1>4. CASE GiveIO(i)
  <2>1. GoneIO' = GoneIO \cup {i} /\ i \notin GoneIO
    BY <1>4 DEF GiveIO, GoneIO, IOAt, IOGo, TypeOK
  <2>2. \A k \in IOThreads : IOAt(k, "gave") => IOAt(k, "gave")'
    BY <1>4 DEF GiveIO, IOAt, IOGo, TypeOK
  <2>3. SI!CountsLeavers(GoneIO, Cardinality(GoneIO), Cardinality(IOThreads))'
    BY <1>4, <2>1, IOCountsGive DEF GiveIO
  <2> QED
    BY <1>1, <1>2, <1>3, <2>2, <2>3 DEF SufficersCount, IOThreadsLeftFirst
<1>5. CASE SufficeIO(i)
  <2>1. GoneIO' = GoneIO /\ UNCHANGED io
    BY <1>5 DEF SufficeIO, ioVars, GoneIO, IOAt
  <2>2. SI!CountsLeavers(GoneIO, Cardinality(GoneIO), Cardinality(IOThreads))'
    BY <1>5, <2>1, IOCountsSuffice DEF SufficeIO
  <2> QED
    BY <1>1, <1>2, <1>3, <2>1, <2>2 DEF SufficersCount, IOThreadsLeftFirst, IOAt
<1>6. CASE ~GiveIO(i) /\ ~SufficeIO(i)
  <2>1. /\ UNCHANGED sufIO
        /\ ~IOAt(i, "gave") /\ ~IOAt(i, "gave")'
        /\ \A k \in IOThreads \ {i} : io'[k] = io[k]
    BY <1>6 DEF IOStep, Push, Complete, AppendWork, NobodyIdle, TakeIdle,
                MakeBusy, QueueAPC, GetNull, IOAt, IOGo, sufVars, TypeOK
  <2>2. GoneIO' = GoneIO
    BY <2>1 DEF GoneIO, IOAt
  <2>3. \A k \in IOThreads : IOAt(k, "gave") => IOAt(k, "gave")'
    BY <2>1 DEF IOAt
  <2> QED
    BY <1>1, <1>2, <1>3, <2>1, <2>2, <2>3
    DEF SufficersCount, SI!CountsLeavers, IOThreadsLeftFirst
<1> QED BY <1>4, <1>5, <1>6

(* Close() passes its two waits only when the counts are complete.          *)
LEMMA CloseCloserStep ==
  ASSUME TypeInv, CloseInv, SignalDone \/ CloserStep
  PROVE  CloseInv'
<1> USE DEF CloseInv, CloserGo
<1>1. UNCHANGED <<worker, io, sufWorker, sufIO>>
  BY DEF SignalDone, CloserStep, WaitWorkers, ClearIdle, ClearBusy,
         CloseHandles, PostNulls, CheckIO, Slept, ClosePort, workerVars,
         ioVars, sufVars
<1>2. SufficersCount'
  BY <1>1
  DEF SufficersCount, SW!CountsLeavers, SI!CountsLeavers, GoneWorkers, GoneIO,
      At, IOAt
<1>3. WorkersLeftFirst'
  <2>1. CASE WaitWorkers
    <3>1. GoneWorkers = Workers
      BY <2>1 DEF WaitWorkers, SW!Signalled, SufficersCount, SW!CountsLeavers
    <3> QED BY <1>1, <3>1 DEF WorkersLeftFirst, GoneWorkers, At
  <2>2. CASE ~WaitWorkers
    BY <1>1, <2>2
    DEF WorkersLeftFirst, At, SignalDone, CloserStep, ClearIdle, ClearBusy,
        CloseHandles, PostNulls, CheckIO, Slept, ClosePort
  <2> QED BY <2>1, <2>2
<1>4. IOThreadsLeftFirst'
  <2>1. CASE CheckIO /\ SI!IsEqual
    <3>1. Cardinality(GoneIO) = Cardinality(IOThreads)
      BY <2>1 DEF SI!IsEqual, SufficersCount, SI!CountsLeavers
    <3>2. GoneIO = IOThreads
      BY <3>1, DispatcherAssumption, FS_Subset DEF GoneIO
    <3> QED BY <1>1, <3>2 DEF IOThreadsLeftFirst, GoneIO, IOAt
  <2>2. CASE ~(CheckIO /\ SI!IsEqual)
    BY <1>1, <2>2
    DEF IOThreadsLeftFirst, IOAt, SignalDone, CloserStep, WaitWorkers,
        ClearIdle, ClearBusy, CloseHandles, PostNulls, CheckIO, Slept,
        ClosePort
  <2> QED BY <2>1, <2>2
<1> QED BY <1>2, <1>3, <1>4

(* The sufficers count the threads that have left, in every reachable state. *)
THEOREM CloseInvariant == Spec => []CloseInv
<1>1. TypeInv /\ CloseInv /\ [Next]_vars => CloseInv'
  <2>1. CloseInv /\ UNCHANGED vars => CloseInv'
    BY DEF CloseInv, SufficersCount, WorkersLeftFirst, IOThreadsLeftFirst,
           SW!CountsLeavers, SI!CountsLeavers, GoneWorkers, GoneIO, At, IOAt,
           vars, workerVars, ioVars, closeVars, sufVars
  <2> QED
    BY <2>1, CloseWorkerStep, CloseIOStep, CloseCloserStep DEF Next
<1> QED BY TypeInvariant, CloseInit, <1>1, PTL DEF Spec

(* Close() clears the lists and closes the workers' handles only when every *)
(* worker has left its loop: the unlocked Suffice() can lose the event but  *)
(* never raise it early.                                                    *)
THEOREM CloseWaitsForWorkers == Spec => []WorkersLeftFirst
<1>1. CloseInv => WorkersLeftFirst
  BY DEF CloseInv
<1> QED BY CloseInvariant, <1>1, PTL

(* It closes the port, and returns, only when every IO thread has left.     *)
THEOREM CloseWaitsForIOThreads == Spec => []IOThreadsLeftFirst
<1>1. CloseInv => IOThreadsLeftFirst
  BY DEF CloseInv
<1> QED BY CloseInvariant, <1>1, PTL
=============================================================================

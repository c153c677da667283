------------------------------ MODULE PeerProof ------------------------------
(***************************************************************************)
(* What holds of a peer for any number of threads, messages and failures.   *)
(*                                                                          *)
(* TypeOK /\ HandsFit is inductive: the types need to know who has a brick  *)
(* in hand.  Unsent follows the bricks that are not yet sent.  ReadInv      *)
(* follows the chain of reads through EndRead(), the work list, Craft() and *)
(* BeginRead(), also while its thread closes the peer.  CalmFits /\ Counted  *)
(* follows the reference counts while nothing fails.                        *)
(*                                                                          *)
(* For each of them there is one lemma for each function of the peer, with  *)
(* one case for each of its steps, and the theorems are at the end.         *)
(***************************************************************************)
EXTENDS Peer, FiniteSetTheorems, TLAPS

-----------------------------------------------------------------------------
(* The invariants the proofs rest on.                                       *)

(* A thread has a brick in hand exactly where the code has one in pBrick;   *)
(* the bricks that are not yet sent are in one place each.                  *)
Carries == {"Send.push", "Craft.return", "Craft.push", "BeginWrite.again",
            "BeginWrite.unpop", "BeginWrite.send", "BeginWrite.unsent"}

HandsFit ==
  /\ \A t \in Threads :
       /\ at[t] \in Carries \cup {"BeginWrite.last"} => hand[t] \in made
       /\ hand[t] # NoBrick =>
            at[t] \in Carries \cup {"BeginWrite.last", "EndWrite.null",
                                    "EndWrite.done"}
  /\ \A i \in DOMAIN queue : queue[i] \in made

Unsent ==
  /\ \A i \in DOMAIN queue : queue[i] \notin sent
  /\ \A i, j \in DOMAIN queue : i # j => queue[i] # queue[j]
  /\ \A t \in Threads : at[t] \in Carries =>
       /\ hand[t] \notin sent
       /\ \A i \in DOMAIN queue : queue[i] # hand[t]
       /\ \A u \in Threads \ {t} : at[u] \in Carries => hand[u] # hand[t]

(* The modes a peer was made with, as long as it is not cleared; and where  *)
(* DestroyUnavailability() was called.                                      *)
ModeFits ==
  /\ mode \in {kind.mode, "Serial"} /\ (server => kind.accepted)
  /\ ~cleared => /\ mode = kind.mode /\ server = kind.accepted
                 /\ readOp = "Read"
  /\ \A t \in Threads :
       /\ at[t] = "Reclaim.peer" => cleared
       /\ at[t] \in {"Unavailable", "Unavailable.flag"} =>
            back[t] \in {"idle", "EndRead.exit"}

(* A peer that reads in one mode only, the server's and its own.            *)
OnlyParallel ==
  kind.mode = "Parallel" /\ (kind.accepted => kind.serverMode = "Parallel")
Unmixed == OnlySerial \/ OnlyParallel

(* The chain of reads has one end: the pending read, in serial mode the     *)
(* work list, or one thread; in serial mode no IO thread reads on.          *)
Chained == Unmixed /\ (OnlySerial \/ ~cleared)
Pending == recvs + (IF OnlySerial THEN listWork ELSE 0)

OneChain ==
  Chained =>
    /\ Pending <= 1
    /\ \A t \in Threads : Rereads(t) => Pending = 0
    /\ \A t, u \in Threads : Rereads(t) /\ Rereads(u) => t = u
    /\ OnlySerial => \A t \in IOThreads : Place(t) \notin Reads

(* From the write of what came in to the next read m_bReading is off, so    *)
(* BeginRead() does not take another thread for the reader.                 *)
Writing == {"EndRead", "EndRead.minus", "EndRead.test", "EndRead.write",
            "EndRead.wrote", "BeginRead.compare", "BeginRead.recv"}

ReadingOff ==
  Chained =>
    /\ \A t \in Threads : Rereads(t) /\ at[t] \notin Writing => ~reading
    /\ OnlySerial /\ listWork > 0 => ~reading
    /\ \A t \in Threads :
         at[t] \in {"BeginRead.switch", "BeginRead.compare"} => ~seen[t]

(* As long as nobody has set m_closeFlag, nobody is on the way to Close()   *)
(* and the socket is connected.                                             *)
Open    == closeFlag = {} /\ ~cleared
Closers == (Retires \ {"zero"})
             \cup {"Retire.load", "Retire.compare", "EndDisconnect",
                   "EndDisconnect.minus"}

OpenFits ==
  /\ Open => /\ connected /\ writeOp = "Write"
             /\ \A t \in Threads : at[t] \notin Closers
  /\ failures = 0 =>
       \A t \in Threads :
         at[t] \in {"EndRead", "EndRead.minus", "EndRead.test"} => seen[t]

GoesOn ==
  Unmixed /\ Open /\ failures = 0 =>
    Pending > 0 \/ \E t \in Threads : Rereads(t)

-----------------------------------------------------------------------------
(* The counters stay in the range of their type.                            *)
LEMMA CountersStay ==
  ASSUME NEW n \in 0..(Modulus - 1)
  PROVE  /\ Inc(n) \in 0..(Modulus - 1)
         /\ Dec(n) \in 0..(Modulus - 1)
         /\ DecIf(n) \in 0..(Modulus - 1)
<1>1. Modulus \in Nat /\ Modulus > 0
  BY PeerAssumption
<1> QED BY <1>1 DEF Inc, Dec, DecIf

LEMMA ZeroCounts == 0 \in 0..(Modulus - 1)
BY PeerAssumption

LEMMA CountersCount ==
  ASSUME NEW n \in 0..(Modulus - 1)
  PROVE  /\ n + 1 < Modulus => Inc(n) = n + 1
         /\ n > 0 => Dec(n) = n - 1
<1>1. Modulus \in Nat /\ Modulus > 0
  BY PeerAssumption
<1> QED BY <1>1 DEF Inc, Dec

LEMMA KindTyped ==
  ASSUME kind \in Kinds
  PROVE  /\ kind.arrivals \in Nat /\ kind.failures \in Nat
         /\ kind.threads \subseteq Threads /\ kind.bricks \subseteq Bricks
         /\ kind.accepted \in BOOLEAN
         /\ kind.mode \in Modes /\ kind.serverMode \in Modes
BY PeerAssumption

(* What begins, and the steps that belong to no function in particular.     *)
Rest(t) ==
  \/ Zero(t) \/ Timeout(t) \/ PushBrick(t) \/ TakeRecv(t, TRUE)
  \/ TakeRecv(t, FALSE) \/ TakeFailure(t) \/ TakeSend(t) \/ TakeDisc(t)
  \/ TakeWork(t) \/ SendTest(t) \/ CloseClient(t)

(* The end of a guard: back to the caller, or to where the count is zero.   *)
LEMMA LeaveSteps ==
  ASSUME NEW t, NEW from, NEW to, NEW reads, Leave(t, from, to, reads)
  PROVE  /\ at[t] = from
         /\ \/ /\ refIO' = 0 /\ at' = [at EXCEPT ![t] = "zero"]
               /\ back' = [back EXCEPT ![t] = to]
            \/ /\ refIO' # 0 /\ at' = [at EXCEPT ![t] = to]
               /\ back' = [back EXCEPT ![t] = "idle"]
         /\ refIO' = Dec(refIO)
         /\ refReadIO' = IF reads THEN Dec(refReadIO) ELSE refReadIO
         /\ seen' = [seen EXCEPT ![t] = FALSE]
         /\ UNCHANGED <<kind, flags, bricks, calls, listWork, pool, failures,
                        seenIO, hand>>
BY DEF Leave, Step

LEMMA LeaveMoves ==
  ASSUME NEW t \in Threads, NEW from, NEW to, NEW reads, RolesFit,
         Leave(t, from, to, reads)
  PROVE  /\ at[t] = from /\ at'[t] \in {"zero", to}
         /\ \A u \in Threads \ {t} : at'[u] = at[u]
         /\ UNCHANGED <<kind, flags, bricks, calls, listWork, pool, failures,
                        seenIO, hand>>
BY LeaveSteps DEF RolesFit

(* Where a thread goes on after Close(), or after it was at zero.           *)
LEMMA ReturnPlaces ==
  ASSUME RolesFit, NEW t \in Threads
  PROVE  back[t] \in IOReturns \cup WorkerReturns \cup UserReturns
BY DEF RolesFit, Threads

(* A step of a thread that has no brick in hand, before and after.          *)
LEMMA EmptyHanded ==
  ASSUME HandsFit, NEW t \in Threads,
         at[t] \notin Carries \cup {"BeginWrite.last", "EndWrite.null",
                                    "EndWrite.done"},
         at'[t] \notin Carries \cup {"BeginWrite.last"},
         \A u \in Threads \ {t} : at'[u] = at[u],
         UNCHANGED <<hand, made, queue, sent>>, sends' \subseteq sends
  PROVE  HandsFit' /\ (Unsent => Unsent')
<1>1. hand[t] = NoBrick
  BY DEF HandsFit
<1>2. HandsFit'
  BY <1>1 DEF HandsFit
<1>3. ASSUME Unsent PROVE Unsent'
  BY <1>3 DEF Unsent
<1> QED BY <1>2, <1>3

LEMMA AfterPlaces ==
  ASSUME NEW t \in Threads
  PROVE  /\ AfterRead(t) \in {"EndRead.count", "Craft.exit"}
         /\ AfterWrite(t) \in {"EndWrite.exit", "Craft.join", "idle"}
BY PeerAssumption DEF AfterRead, AfterWrite, Threads

(* A thread keeps the brick it has in hand ...                              *)
LEMMA StillInHand ==
  ASSUME HandsFit, NEW t \in Threads, at[t] \in Carries, at'[t] \in Carries,
         \A u \in Threads \ {t} : at'[u] = at[u],
         UNCHANGED <<hand, made, queue, sent, sends>>
  PROVE  HandsFit' /\ (Unsent => Unsent')
<1>1. HandsFit'
  BY DEF HandsFit, Carries
<1>2. ASSUME Unsent PROVE Unsent'
  BY <1>2 DEF Unsent
<1> QED BY <1>1, <1>2

(* ... or is done with it, or holds one that was sent ...                   *)
LEMMA Released ==
  ASSUME HandsFit, NEW t \in Threads,
         at'[t] \notin Carries \cup {"BeginWrite.last"},
         \A u \in Threads \ {t} : at'[u] = at[u] /\ hand'[u] = hand[u],
         hand'[t] = NoBrick \/ at'[t] \in {"EndWrite.null", "EndWrite.done"},
         UNCHANGED <<made, queue, sent, sends>>
  PROVE  HandsFit' /\ (Unsent => Unsent')
<1>1. HandsFit'
  BY DEF HandsFit
<1>2. ASSUME Unsent PROVE Unsent'
  BY <1>2 DEF Unsent
<1> QED BY <1>1, <1>2

(* ... or has a new one.                                                    *)
LEMMA NewInHand ==
  ASSUME TypeOK, HandsFit, NEW t \in Threads, NEW b, b \notin made,
         at'[t] \in Carries, hand'[t] = b, made' = made \cup {b},
         \A u \in Threads \ {t} : at'[u] = at[u] /\ hand'[u] = hand[u],
         UNCHANGED <<queue, sent, sends>>
  PROVE  HandsFit' /\ (Unsent => Unsent')
<1>1. HandsFit'
  BY DEF HandsFit
<1>2. b \notin sent
  BY DEF TypeOK, BricksTyped
<1>3. ASSUME Unsent PROVE Unsent'
  BY <1>2, <1>3 DEF Unsent, HandsFit
<1> QED BY <1>1, <1>3

-----------------------------------------------------------------------------
(* The chain of reads.                                                      *)

ReadInv == ModeFits /\ OneChain /\ ReadingOff /\ OpenFits /\ GoesOn

(* A step of t moves no other thread.                                       *)
Alone(t) ==
  /\ UNCHANGED kind
  /\ \A u \in Threads \ {t} :
       at'[u] = at[u] /\ back'[u] = back[u] /\ seen'[u] = seen[u]

(* A step that does nothing to the mode of the peer, and nothing to the     *)
(* connection but, perhaps, to close it.                                    *)
Quiet ==
  /\ UNCHANGED <<mode, server, cleared>>
  /\ readOp' \in {readOp, "Read"}
  /\ failures' = failures \/ failures' # 0
  /\ closeFlag' = closeFlag \/ closeFlag' # {} \/ cleared
  /\ ~Open \/ (connected' = connected /\ writeOp' \in {writeOp, "Write"})

(* A step that puts no read on the end of the chain.                        *)
NoRead ==
  /\ listWork' = listWork \/ ~OnlySerial
  /\ reading' \in {reading, FALSE}

(* Where t goes, the invariants do not look at more than the place ...      *)
Plain(t) ==
  /\ at'[t] \in Closers => at[t] \in Closers \/ closeFlag' # {} \/ cleared
  /\ at'[t] \in {"Unavailable", "Unavailable.flag"} =>
       back'[t] \in {"idle", "EndRead.exit"}
  /\ at'[t] = "Reclaim.peer" => cleared
  /\ t \in IOThreads /\ Place(t)' \in Reads =>
       Place(t) \in Reads \/ ~OnlySerial

(* ... or what they look for is there.                                      *)
Ready(t) ==
  /\ at'[t] \in {"BeginRead.switch", "BeginRead.compare"} /\ Chained =>
       ~seen'[t]
  /\ at'[t] \in {"EndRead", "EndRead.minus", "EndRead.test"} =>
       seen'[t] \/ failures' # 0

LEMMA ReturnsReadOn ==
  ASSUME NEW t \in Threads
  PROVE  /\ AfterRead(t) = IF t \in IOThreads THEN "EndRead.count"
                                              ELSE "Craft.exit"
         /\ t \in IOThreads => AfterWrite(t) = "EndWrite.exit"
         /\ t \in Workers => /\ AfterWrite(t) = "Craft.join"
                             /\ t \notin IOThreads
         /\ t \in Users => /\ AfterWrite(t) = "idle"
                           /\ t \notin Workers /\ t \notin IOThreads
         /\ t \in IOThreads \/ t \in Workers \/ t \in Users
BY PeerAssumption DEF AfterRead, AfterWrite, Threads

LEMMA LeaveQuiet ==
  ASSUME TypeOK, NEW t \in Threads, NEW from, NEW to, NEW reads,
         Leave(t, from, to, reads)
  PROVE  /\ at[t] = from
         /\ \/ at'[t] = to /\ back'[t] = "idle"
            \/ at'[t] = "zero" /\ back'[t] = to
         /\ Alone(t) /\ Quiet /\ NoRead /\ recvs' = recvs
         /\ OnlySerial' <=> OnlySerial
<1> USE DEF flags, calls, pool
<1>0. /\ at \in [Threads -> Places] /\ back \in [Threads -> Places]
      /\ seen \in [Threads -> BOOLEAN]
  BY DEF TypeOK, RolesFit, FlagsTyped
<1>1. /\ at[t] = from
      /\ \/ at'[t] = to /\ back'[t] = "idle"
         \/ at'[t] = "zero" /\ back'[t] = to
  BY <1>0, LeaveSteps
<1>2. Alone(t)
  BY <1>0, LeaveSteps DEF Alone
<1>3. Quiet /\ NoRead /\ recvs' = recvs /\ (OnlySerial' <=> OnlySerial)
  BY LeaveSteps DEF Quiet, NoRead, Open, OnlySerial
<1> QED BY <1>1, <1>2, <1>3

LEMMA ModesRead ==
  ASSUME TypeOK, ReadInv
  PROVE  /\ OnlySerial => SerialRead /\ ~ParallelRead
         /\ OnlyParallel /\ ~cleared => ParallelRead /\ ~SerialRead
BY DEF ReadInv, ModeFits, OnlySerial, OnlyParallel, SerialRead, ParallelRead

LEMMA KindsChain ==
  ASSUME NEW t \in Threads, Alone(t), Quiet
  PROVE  /\ Chained' <=> Chained
         /\ Unmixed' <=> Unmixed
         /\ OnlySerial' <=> OnlySerial
         /\ Chained <=> Unmixed /\ (OnlySerial \/ ~cleared)
         /\ \A u \in Threads \ {t} : /\ Rereads(u)' <=> Rereads(u)
                                     /\ Place(u)' = Place(u)
<1>1. /\ OnlySerial' <=> OnlySerial
      /\ Unmixed' <=> Unmixed
  BY DEF Unmixed, OnlySerial, OnlyParallel, Alone
<1>2. \A u \in Threads \ {t} : Place(u)' = Place(u)
  BY DEF Place, Alone
<1>3. \A u \in Threads \ {t} : Rereads(u)' <=> Rereads(u)
  BY <1>1, <1>2 DEF Rereads
<1>4. Chained' <=> Chained
  BY <1>1 DEF Chained, Quiet
<1> QED BY <1>1, <1>2, <1>3, <1>4 DEF Chained

LEMMA ModesStay ==
  ASSUME ModeFits, NEW t \in Threads, Alone(t), Quiet, Plain(t)
  PROVE  ModeFits'
BY DEF ModeFits, Alone, Quiet, Plain

LEMMA OpenStays ==
  ASSUME OpenFits, NEW t \in Threads, Alone(t), Quiet, Plain(t), Ready(t)
  PROVE  OpenFits'
BY DEF OpenFits, Open, Alone, Quiet, Plain, Ready

LEMMA SerialStays ==
  ASSUME OneChain, Chained, NEW t \in Threads, Alone(t), Quiet, Plain(t)
  PROVE  (OnlySerial => \A u \in IOThreads : Place(u) \notin Reads)'
<1>1. IOThreads \subseteq Threads
  BY DEF Threads
<1> QED BY <1>1, KindsChain DEF OneChain, Plain

(* A step that leaves the chain where it is.                                *)
LEMMA Aside ==
  ASSUME ReadInv, NEW t \in Threads, Alone(t), Quiet, Plain(t), Ready(t),
         NoRead, recvs' = recvs, Rereads(t)' <=> Rereads(t),
         at[t] \in Writing => at'[t] \in Writing \/ ~Rereads(t)
  PROVE  ReadInv'
<1>1. /\ \A u \in Threads : Rereads(u)' <=> Rereads(u)
      /\ Pending' = Pending
  BY KindsChain DEF NoRead, Pending
<1>2. OneChain'
  BY <1>1, KindsChain, SerialStays DEF ReadInv, OneChain
<1>3. ReadingOff'
  BY <1>1, KindsChain DEF ReadInv, ReadingOff, Alone, Ready, NoRead
<1>4. GoesOn'
  BY <1>1, KindsChain DEF ReadInv, GoesOn, Open, Quiet
<1> QED BY <1>2, <1>3, <1>4, ModesStay, OpenStays DEF ReadInv

LEMMA SumsGrow ==
  ASSUME NEW m \in Nat, NEW n \in Nat, NEW k \in Nat, m <= n
  PROVE  m + k \in Nat /\ n + k \in Nat /\ m + k <= n + k
OBVIOUS

(* A step that ends the chain: the peer is closing, or something failed.    *)
LEMMA Ends ==
  ASSUME TypeOK, ReadInv, NEW t \in Threads, Alone(t), Quiet, Plain(t),
         NoRead, recvs' \in 0..recvs, ~Rereads(t)', at'[t] \notin Writing,
         at'[t] \notin {"BeginRead.switch", "BeginRead.compare"},
         closeFlag' # {} \/ failures' # 0 \/ cleared \/ ~Unmixed
  PROVE  ReadInv'
<1> USE DEF Writing
<1>0. recvs \in Nat /\ listWork \in Nat
  BY DEF TypeOK, CountsTyped
<1>a. \A u \in Threads : Rereads(u)' => Rereads(u)
  BY KindsChain
<1>b. Pending' \in Nat /\ Pending \in Nat /\ Pending' <= Pending
  <2>0. recvs' \in Nat /\ recvs' <= recvs
    BY <1>0
  <2>1. CASE OnlySerial
    <3>1. Pending' = recvs' + listWork /\ Pending = recvs + listWork
      BY <2>1, KindsChain DEF NoRead, Pending
    <3>2. /\ recvs' + listWork \in Nat /\ recvs + listWork \in Nat
          /\ recvs' + listWork <= recvs + listWork
      BY <1>0, <2>0, SumsGrow
    <3> QED BY <3>1, <3>2, Zenon
  <2>2. CASE ~OnlySerial
    <3>1. Pending' = recvs' + 0 /\ Pending = recvs + 0
      BY <2>2, KindsChain DEF NoRead, Pending
    <3>2. /\ recvs' + 0 \in Nat /\ recvs + 0 \in Nat
          /\ recvs' + 0 <= recvs + 0
      BY <1>0, <2>0, 0 \in Nat, SumsGrow
    <3> QED BY <3>1, <3>2, Zenon
  <2> QED BY <2>1, <2>2
<1>1. /\ \A u \in Threads : Rereads(u)' => Rereads(u)
      /\ Pending' \in Nat /\ Pending \in Nat /\ Pending' <= Pending
  BY <1>a, <1>b
<1>2. OneChain'
  BY <1>1, KindsChain, SerialStays DEF ReadInv, OneChain
<1>3. ReadingOff'
  BY <1>1, KindsChain DEF ReadInv, ReadingOff, Alone, NoRead
<1>4. GoesOn'
  BY KindsChain DEF ReadInv, GoesOn, Open, Quiet
<1>5. Ready(t)
  BY DEF Ready
<1> QED BY <1>2, <1>3, <1>4, <1>5, ModesStay, OpenStays DEF ReadInv

(* A step of a peer with no chain: it was cleared, or it mixes the modes.   *)
LEMMA Unchained ==
  ASSUME ReadInv, ~Chained, NEW t \in Threads, Alone(t), Quiet, Plain(t),
         Ready(t)
  PROVE  ReadInv'
<1>1. OneChain' /\ ReadingOff'
  BY KindsChain DEF OneChain, ReadingOff
<1>2. GoesOn'
  BY KindsChain DEF GoesOn, Open, Quiet
<1> QED BY <1>1, <1>2, ModesStay, OpenStays DEF ReadInv

(* A step of the thread that is the end of the chain.                       *)
LEMMA ReadsOn ==
  ASSUME TypeOK, ReadInv, NEW t \in Threads, Alone(t), Quiet, Plain(t),
         Ready(t), Rereads(t), Rereads(t)', recvs' = recvs,
         listWork' = listWork,
         at'[t] \notin Writing /\ Chained => ~reading'
  PROVE  ReadInv'
<1>1. /\ \A u \in Threads : Rereads(u)' => Rereads(u)
      /\ Pending' = Pending
  BY KindsChain DEF Pending
<1>2. OneChain'
  BY <1>1, KindsChain, SerialStays DEF ReadInv, OneChain
<1>3. ReadingOff'
  <2>1. Chained /\ OnlySerial => listWork = 0
    BY DEF ReadInv, OneChain, Pending, TypeOK, CountsTyped
  <2>2. Chained => \A u \in Threads \ {t} : ~Rereads(u)'
    BY <1>1 DEF ReadInv, OneChain
  <2> QED BY <2>1, <2>2, KindsChain DEF ReadInv, ReadingOff, Alone, Ready
<1>4. GoesOn'
  BY DEF GoesOn
<1> QED BY <1>2, <1>3, <1>4, ModesStay, OpenStays DEF ReadInv

(* The end of the chain passes from a thread to a read or the work list ... *)
LEMMA Passes ==
  ASSUME TypeOK, ReadInv, NEW t \in Threads, Alone(t), Quiet, Plain(t),
         Rereads(t), ~Rereads(t)', at'[t] \notin Writing,
         at'[t] \notin {"BeginRead.switch", "BeginRead.compare"},
         reading' = reading,
         \/ recvs' = recvs + 1 /\ listWork' = listWork
         \/ /\ recvs' = recvs /\ listWork' = listWork + 1
            /\ OnlySerial /\ at[t] \notin Writing
  PROVE  ReadInv'
<1> USE DEF Writing
<1>0. recvs \in Nat /\ listWork \in Nat
  BY DEF TypeOK, CountsTyped
<1>1. /\ \A u \in Threads : Rereads(u)' => Rereads(u) /\ u # t
      /\ Pending' = Pending + 1 /\ Pending \in Nat
  BY <1>0, KindsChain DEF Pending
<1>2. OneChain'
  <2>1. Chained => Pending' = 1 /\ \A u \in Threads : ~Rereads(u)'
    BY <1>1 DEF ReadInv, OneChain
  <2> QED BY <2>1, KindsChain, SerialStays DEF ReadInv, OneChain
<1>3. ReadingOff'
  <2>1. Chained => \A u \in Threads : ~Rereads(u)'
    BY <1>1 DEF ReadInv, OneChain
  <2> QED BY <2>1, KindsChain DEF ReadInv, ReadingOff, Alone
<1>4. GoesOn'
  BY <1>1 DEF GoesOn
<1>5. Ready(t)
  BY DEF Ready
<1> QED BY <1>2, <1>3, <1>4, <1>5, ModesStay, OpenStays DEF ReadInv

(* ... and from those to a thread.                                          *)
LEMMA Takes ==
  ASSUME TypeOK, ReadInv, NEW t \in Threads, Alone(t), Quiet, Plain(t),
         Ready(t), Rereads(t)', reading' = reading,
         \/ recvs > 0 /\ recvs' = recvs - 1 /\ listWork' = listWork
              /\ at'[t] \in Writing
         \/ /\ recvs' = recvs /\ listWork > 0 /\ listWork' = listWork - 1
            /\ OnlySerial
  PROVE  ReadInv'
<1>0. recvs \in Nat /\ listWork \in Nat
  BY DEF TypeOK, CountsTyped
<1>1. Pending' = Pending - 1 /\ Pending \in Nat \ {0}
  BY <1>0, KindsChain DEF Pending
<1>2. Chained => /\ Pending' = 0
                 /\ \A u \in Threads : Rereads(u)' => u = t
  BY <1>1, KindsChain DEF ReadInv, OneChain
<1>3. OneChain'
  BY <1>2, KindsChain, SerialStays DEF ReadInv, OneChain
<1>4. ReadingOff'
  <2>1. Chained /\ OnlySerial => ~(listWork' > 0)
    BY <1>0, <1>1, <1>2 DEF ReadInv, OneChain, Pending
  <2> QED BY <1>2, <2>1, KindsChain DEF ReadInv, ReadingOff, Alone, Ready
<1>5. GoesOn'
  BY DEF GoesOn
<1> QED BY <1>3, <1>4, <1>5, ModesStay, OpenStays DEF ReadInv

(* What the invariants say of one thread.                                   *)
LEMMA ReadFacts ==
  ASSUME TypeOK, ReadInv, NEW t \in Threads
  PROVE  /\ OnlySerial /\ Place(t) \in Reads => t \notin IOThreads
         /\ Rereads(t) /\ at[t] \notin Writing /\ reading =>
              cleared \/ ~Unmixed
         /\ at[t] \in {"BeginRead.switch", "BeginRead.compare"} /\ seen[t] =>
              cleared \/ ~Unmixed
         /\ at[t] \in {"BeginRead.switch", "BeginRead.compare"} /\ seen[t] =>
              ~Chained
         /\ Rereads(t) /\ at[t] \notin Writing /\ reading => ~Chained
         /\ at[t] \in Closers \/ ~connected \/ writeOp # "Write" =>
              closeFlag # {} \/ cleared
         /\ failures = 0
              /\ at[t] \in {"EndRead", "EndRead.minus", "EndRead.test"}
              => seen[t]
         /\ readOp # "Read" => cleared
         /\ at[t] = "Reclaim.peer" => cleared
         /\ at[t] \in {"Unavailable", "Unavailable.flag"} =>
              back[t] \in {"idle", "EndRead.exit"}
<1>1. Chained <=> Unmixed /\ (OnlySerial \/ ~cleared)
  BY DEF Chained
<1>2. OnlySerial => Unmixed
  BY DEF Unmixed
<1>3. OnlySerial /\ Place(t) \in Reads => t \notin IOThreads
  BY <1>1, <1>2 DEF ReadInv, OneChain
<1>4. /\ at[t] \in {"BeginRead.switch", "BeginRead.compare"} /\ seen[t] =>
           ~Chained
      /\ Rereads(t) /\ at[t] \notin Writing /\ reading => ~Chained
  BY DEF ReadInv, ReadingOff
<1>5. ~Chained => cleared \/ ~Unmixed
  BY <1>1
<1>6. /\ at[t] \in Closers \/ ~connected \/ writeOp # "Write" =>
           closeFlag # {} \/ cleared
      /\ failures = 0
           /\ at[t] \in {"EndRead", "EndRead.minus", "EndRead.test"}
           => seen[t]
  BY DEF ReadInv, OpenFits, Open
<1>7. /\ readOp # "Read" => cleared
      /\ at[t] = "Reclaim.peer" => cleared
      /\ at[t] \in {"Unavailable", "Unavailable.flag"} =>
           back[t] \in {"idle", "EndRead.exit"}
  BY DEF ReadInv, ModeFits
<1> QED BY <1>3, <1>4, <1>5, <1>6, <1>7

(* The threads that can be at a place.                                      *)
LEMMA WhoIsThere ==
  ASSUME RolesFit, NEW t \in Threads
  PROVE  /\ at[t] \in InCraft => t \in Workers /\ t \notin IOThreads
         /\ at[t] \in InEndWrite \cup InEndRead =>
              t \in IOThreads /\ t \notin Workers
         /\ at[t] = "Send.push" => t \in Users /\ t \notin Workers
<1> USE PeerAssumption
    DEF RolesFit, IOPlaces, WorkerPlaces, UserPlaces, Reads, Writes, Retires,
        InBeginRead, PostedRead, LeavesRead, InEndRead, InBeginWrite,
        PostedWrite, LeavesWrite, InEndWrite, InCraft
<1>1. t \in IOThreads \/ t \in Workers \/ t \in Users
  BY DEF Threads
<1>2. CASE t \in IOThreads
  BY <1>2
<1>3. CASE t \in Workers
  BY <1>3
<1>4. CASE t \in Users
  BY <1>4
<1> QED BY <1>1, <1>2, <1>3, <1>4

LEMMA RecvsStay == TypeOK /\ recvs' = recvs => recvs' \in 0..recvs
BY DEF TypeOK, CountsTyped

(* As long as nothing failed and the socket is connected, nobody is on a    *)
(* way that follows a failure or Reclaim(), and a count that reaches zero   *)
(* is the last guard of its thread.                                         *)
Calm == Intact /\ connected
Failing ==
  {"crash", "Timeout", "Unavailable", "Unavailable.flag", "BeginRead.error",
   "BeginRead.failed", "HandleError.read", "BeginWrite.unsent",
   "BeginWrite.error", "BeginWrite.failed", "HandleError.write", "Reclaim",
   "Reclaim.disp", "Reclaim.peer", "BeginDisconnect", "BeginDisconnect.op",
   "BeginDisconnect.call", "BeginDisconnect.count", "BeginDisconnect.exit",
   "EndDisconnect", "EndDisconnect.minus", "EndDisconnect.exit"}

CalmFits ==
  Calm =>
    /\ "Reuse" \notin closeFlag /\ writeOp = "Write" /\ discs = 0
    /\ \A t \in Threads : /\ at[t] \notin Failing
                          /\ at[t] = "zero" => back[t] = "idle"

Counted == Calm => refIO = HeldIO /\ refReadIO = HeldReadIO
Roomy == HeldIO < Modulus /\ HeldReadIO < Modulus

-----------------------------------------------------------------------------
(* The reference counts.                                                    *)

(* The pairs of a thread and a number up to the one the thread has.         *)
Pairs(f) == {r \in Threads \X {1, 2} : r[2] <= f[r[1]]}

LEMMA PairsFinite ==
  ASSUME NEW f
  PROVE  IsFiniteSet(Pairs(f)) /\ Cardinality(Pairs(f)) \in Nat
<1>1. IsFiniteSet({1, 2})
  <2>1. {1, 2} = 1..2
    OBVIOUS
  <2>2. 1 \in Int /\ 2 \in Int
    OBVIOUS
  <2>3. IsFiniteSet(1..2)
    BY <2>2, FS_Interval
  <2> QED BY <2>1, <2>3
<1>2. IsFiniteSet(Threads \X {1, 2})
  BY <1>1, FS_Product, PeerAssumption
<1>3. Pairs(f) \in SUBSET (Threads \X {1, 2})
  BY DEF Pairs
<1> QED BY <1>2, <1>3, FS_Subset, FS_CardinalityType

LEMMA PairsGrow ==
  ASSUME NEW f \in [Threads -> 0..2], NEW g \in [Threads -> 0..2],
         NEW t \in Threads, g = [f EXCEPT ![t] = f[t] + 1]
  PROVE  Cardinality(Pairs(g)) = Cardinality(Pairs(f)) + 1
<1>1. g[t] = f[t] + 1 /\ g[t] \in {1, 2}
  OBVIOUS
<1>2. <<t, g[t]>> \notin Pairs(f)
  BY <1>1 DEF Pairs
<1>3. Pairs(g) = Pairs(f) \cup {<<t, g[t]>>}
  <2>1. ASSUME NEW u \in Threads, NEW n \in {1, 2}
        PROVE  n <= g[u] <=> n <= f[u] \/ <<u, n>> = <<t, g[t]>>
    <3>1. CASE u = t
      BY <1>1, <3>1
    <3>2. CASE u # t
      BY <3>2
    <3> QED BY <3>1, <3>2
  <2>2. <<t, g[t]>> \in Threads \X {1, 2}
    BY <1>1
  <2> QED BY <2>1, <2>2 DEF Pairs
<1> QED BY <1>2, <1>3, PairsFinite, FS_AddElement

(* What is counted differs where one thread does.                           *)
LEMMA PairsDiffer ==
  ASSUME NEW f \in [Threads -> 0..2], NEW g \in [Threads -> 0..2],
         NEW t \in Threads, \A u \in Threads \ {t} : g[u] = f[u]
  PROVE  Cardinality(Pairs(g)) - g[t] = Cardinality(Pairs(f)) - f[t]
<1> DEFINE h(n) == [f EXCEPT ![t] = n]
<1>1. ASSUME NEW n \in 0..2
      PROVE  /\ h(n) \in [Threads -> 0..2]
             /\ Cardinality(Pairs(h(n))) \in Nat
  BY PairsFinite
<1>2. ASSUME NEW n \in {0, 1}
      PROVE  Cardinality(Pairs(h(n + 1))) = Cardinality(Pairs(h(n))) + 1
  <2>1. h(n + 1) = [h(n) EXCEPT ![t] = h(n)[t] + 1]
    OBVIOUS
  <2>2. n \in 0..2 /\ n + 1 \in 0..2
    OBVIOUS
  <2> QED BY <1>1, <2>1, <2>2, PairsGrow
<1>3. ASSUME NEW n \in 0..2
      PROVE  Cardinality(Pairs(h(n))) = Cardinality(Pairs(h(0))) + n
  <2>1. /\ Cardinality(Pairs(h(0 + 1))) = Cardinality(Pairs(h(0))) + 1
        /\ Cardinality(Pairs(h(1 + 1))) = Cardinality(Pairs(h(1))) + 1
    BY <1>2
  <2>2. Cardinality(Pairs(h(0))) \in Nat
    BY <1>1
  <2> HIDE DEF h
  <2> QED BY <2>1, <2>2
<1>4. f = h(f[t]) /\ g = h(g[t]) /\ f[t] \in 0..2 /\ g[t] \in 0..2
  OBVIOUS
<1>5. Cardinality(Pairs(h(0))) \in Nat
  BY <1>1
<1> HIDE DEF h
<1>6. /\ Cardinality(Pairs(f)) = Cardinality(Pairs(h(0))) + f[t]
      /\ Cardinality(Pairs(g)) = Cardinality(Pairs(h(0))) + g[t]
  BY <1>3, <1>4
<1> QED BY <1>4, <1>5, <1>6

LEMMA ReferencesTyped ==
  ASSUME NEW t \in Threads
  PROVE  /\ References(t) \in 0..2 /\ ReadReferences(t) \in 0..2
         /\ References(t)' \in 0..2 /\ ReadReferences(t)' \in 0..2
BY DEF References, ReadReferences, Calls

LEMMA HeldPairs ==
  /\ Held = Pairs([u \in Threads |-> References(u)])
  /\ ReadHeld = Pairs([u \in Threads |-> ReadReferences(u)])
  /\ Held' = Pairs([u \in Threads |-> References(u)'])
  /\ ReadHeld' = Pairs([u \in Threads |-> ReadReferences(u)'])
BY DEF Held, ReadHeld, Pairs

(* What is held, after a step of t: the difference is in what t holds.      *)
LEMMA HeldDiffers ==
  ASSUME NEW t \in Threads, Alone(t)
  PROVE  /\ Cardinality(Held) \in Nat /\ Cardinality(ReadHeld) \in Nat
         /\ Cardinality(Held') - References(t)'
              = Cardinality(Held) - References(t)
         /\ Cardinality(ReadHeld') - ReadReferences(t)'
              = Cardinality(ReadHeld) - ReadReferences(t)
<1> DEFINE f  == [u \in Threads |-> References(u)]
           g  == [u \in Threads |-> References(u)']
           fr == [u \in Threads |-> ReadReferences(u)]
           gr == [u \in Threads |-> ReadReferences(u)']
<1>1. /\ f \in [Threads -> 0..2] /\ g \in [Threads -> 0..2]
      /\ fr \in [Threads -> 0..2] /\ gr \in [Threads -> 0..2]
  BY ReferencesTyped
<1>2. \A u \in Threads \ {t} : /\ References(u)' = References(u)
                               /\ ReadReferences(u)' = ReadReferences(u)
  BY DEF References, ReadReferences, ClosesInCraft, Alone
<1>3. \A u \in Threads \ {t} : g[u] = f[u] /\ gr[u] = fr[u]
  BY <1>2
<1>4. /\ f[t] = References(t) /\ g[t] = References(t)'
      /\ fr[t] = ReadReferences(t) /\ gr[t] = ReadReferences(t)'
  OBVIOUS
<1>5. /\ Held = Pairs(f) /\ Held' = Pairs(g)
      /\ ReadHeld = Pairs(fr) /\ ReadHeld' = Pairs(gr)
  BY HeldPairs
<1> HIDE DEF f, g, fr, gr
<1>6. /\ Cardinality(Pairs(g)) - g[t] = Cardinality(Pairs(f)) - f[t]
      /\ Cardinality(Pairs(gr)) - gr[t] = Cardinality(Pairs(fr)) - fr[t]
  BY <1>1, <1>3, PairsDiffer
<1> QED BY <1>4, <1>5, <1>6, PairsFinite

(* A thread holds no more than all threads do.                              *)
LEMMA HeldByOne ==
  ASSUME NEW t \in Threads
  PROVE  /\ Cardinality(Held) >= References(t)
         /\ Cardinality(ReadHeld) >= ReadReferences(t)
<1> DEFINE Without(f) == [f EXCEPT ![t] = 0]
<1>1. ASSUME NEW f \in [Threads -> 0..2]
      PROVE  Cardinality(Pairs(f)) >= f[t]
  <2>1. /\ Without(f) \in [Threads -> 0..2] /\ Without(f)[t] = 0
        /\ \A u \in Threads \ {t} : f[u] = Without(f)[u]
    OBVIOUS
  <2>2. /\ Cardinality(Pairs(f)) \in Nat
        /\ Cardinality(Pairs(Without(f))) \in Nat
    BY PairsFinite
  <2> HIDE DEF Without
  <2>3. Cardinality(Pairs(f)) - f[t]
          = Cardinality(Pairs(Without(f))) - Without(f)[t]
    BY <2>1, PairsDiffer
  <2> QED BY <2>1, <2>2, <2>3
<1> DEFINE f  == [u \in Threads |-> References(u)]
           fr == [u \in Threads |-> ReadReferences(u)]
<1>2. f \in [Threads -> 0..2] /\ fr \in [Threads -> 0..2]
  BY ReferencesTyped
<1>3. Cardinality(Pairs(f)) >= f[t] /\ Cardinality(Pairs(fr)) >= fr[t]
  BY <1>1, <1>2
<1>4. f[t] = References(t) /\ fr[t] = ReadReferences(t)
  OBVIOUS
<1> QED BY <1>3, <1>4, HeldPairs

(* What is posted or waits for a worker.                                    *)
Posted == recvs + Cardinality(sends) + listWork

LEMMA PostedTyped ==
  ASSUME TypeOK, TypeOK'
  PROVE  /\ Posted \in Nat /\ Posted' \in Nat
         /\ recvs \in Nat /\ recvs' \in Nat
         /\ IsFiniteSet(sends) /\ Cardinality(sends) \in Nat
<1>1. /\ sends \in SUBSET Bricks /\ sends' \in SUBSET Bricks
      /\ IsFiniteSet(Bricks)
  BY PeerAssumption DEF TypeOK, BricksTyped
<1>2. /\ IsFiniteSet(sends) /\ IsFiniteSet(sends')
  BY <1>1, FS_Subset
<1>3. Cardinality(sends) \in Nat /\ Cardinality(sends') \in Nat
  BY <1>2, FS_CardinalityType
<1>4. ASSUME NEW m \in Nat, NEW n \in Nat, NEW k \in Nat
      PROVE  m + n + k \in Nat
  OBVIOUS
<1>5. /\ recvs \in Nat /\ recvs' \in Nat /\ listWork \in Nat
      /\ listWork' \in Nat
  BY DEF TypeOK, CountsTyped
<1>6. Posted \in Nat
  BY <1>3, <1>4, <1>5 DEF Posted
<1>7. Posted' \in Nat
  BY <1>3, <1>4, <1>5 DEF Posted
<1> QED BY <1>2, <1>3, <1>5, <1>6, <1>7

(* A counter n of what is posted, p, and held, c, of which one thread holds *)
(* r: the thread posts or takes what it holds, or enters or leaves.         *)
Balances(n, n2, p, p2, c, c2, r, r2) ==
  /\ n \in 0..(Modulus - 1) /\ p \in Nat /\ p2 \in Nat
  /\ c \in Nat /\ c2 \in Nat /\ r \in 0..2 /\ r2 \in 0..2
  /\ n = p + c /\ c2 - r2 = c - r /\ p2 + c2 < Modulus
  /\ \/ n2 = n /\ p2 + r2 = p + r
     \/ n2 = Inc(n) /\ p2 = p /\ r2 = r + 1
     \/ n2 = Dec(n) /\ p2 = p /\ r2 = r - 1

LEMMA Balance ==
  ASSUME NEW n, NEW n2, NEW p, NEW p2, NEW c, NEW c2, NEW r, NEW r2,
         Balances(n, n2, p, p2, c, c2, r, r2)
  PROVE  n2 = p2 + c2
<1> USE DEF Balances
<1>1. CASE n2 = n /\ p2 + r2 = p + r
  BY <1>1
<1>2. CASE n2 = Inc(n) /\ p2 = p /\ r2 = r + 1
  <2>1. c2 = c + 1
    BY <1>2
  <2>2. n + 1 < Modulus
    BY <1>2, <2>1
  <2> QED BY <1>2, <2>1, <2>2, CountersCount
<1>3. CASE n2 = Dec(n) /\ p2 = p /\ r2 = r - 1
  <2>1. c2 = c - 1
    BY <1>3
  <2>2. n > 0
    BY <1>3, <2>1
  <2> QED BY <1>3, <2>1, <2>2, CountersCount
<1> QED BY <1>1, <1>2, <1>3

(* A step of t that keeps both counters true.                               *)
LEMMA CalmMoves ==
  ASSUME TypeOK, TypeOK', Calm, CalmFits, Counted, Roomy',
         NEW t \in Threads, Alone(t),
         "Reuse" \notin closeFlag', writeOp' = "Write", discs' = 0,
         at'[t] \notin Failing, at'[t] = "zero" => back'[t] = "idle",
         \/ /\ refIO' = refIO
            /\ Posted' + References(t)' = Posted + References(t)
         \/ /\ refIO' = Inc(refIO) /\ Posted' = Posted
            /\ References(t)' = References(t) + 1
         \/ /\ refIO' = Dec(refIO) /\ Posted' = Posted
            /\ References(t)' = References(t) - 1,
         \/ /\ refReadIO' = refReadIO
            /\ recvs' + ReadReferences(t)' = recvs + ReadReferences(t)
         \/ /\ refReadIO' = Inc(refReadIO) /\ recvs' = recvs
            /\ ReadReferences(t)' = ReadReferences(t) + 1
         \/ /\ refReadIO' = Dec(refReadIO) /\ recvs' = recvs
            /\ ReadReferences(t)' = ReadReferences(t) - 1
  PROVE  CalmFits' /\ Counted'
<1>1. CalmFits'
  BY DEF CalmFits, Alone
<1>2. /\ Cardinality(Held) \in Nat /\ Cardinality(ReadHeld) \in Nat
      /\ Cardinality(Held') \in Nat /\ Cardinality(ReadHeld') \in Nat
      /\ Cardinality(Held') - References(t)'
           = Cardinality(Held) - References(t)
      /\ Cardinality(ReadHeld') - ReadReferences(t)'
           = Cardinality(ReadHeld) - ReadReferences(t)
  BY HeldDiffers, HeldPairs, PairsFinite
<1>3. /\ HeldIO = Posted + Cardinality(Held)
      /\ HeldReadIO = recvs + Cardinality(ReadHeld)
      /\ HeldIO' = Posted' + Cardinality(Held')
      /\ HeldReadIO' = recvs' + Cardinality(ReadHeld')
  BY DEF HeldIO, HeldReadIO, Posted
<1>4. /\ refIO \in 0..(Modulus - 1) /\ refReadIO \in 0..(Modulus - 1)
      /\ refIO = Posted + Cardinality(Held)
      /\ refReadIO = recvs + Cardinality(ReadHeld)
  BY <1>3 DEF TypeOK, CountsTyped, Counted
<1>5. /\ Posted' + Cardinality(Held') < Modulus
      /\ recvs' + Cardinality(ReadHeld') < Modulus
  BY <1>3 DEF Roomy
<1>6. refIO' = Posted' + Cardinality(Held')
  <2>1. /\ Posted \in Nat /\ Posted' \in Nat
        /\ References(t) \in 0..2 /\ References(t)' \in 0..2
    BY PostedTyped, ReferencesTyped
  <2>2. \/ refIO' = refIO /\ Posted' + References(t)' = Posted + References(t)
        \/ /\ refIO' = Inc(refIO) /\ Posted' = Posted
           /\ References(t)' = References(t) + 1
        \/ /\ refIO' = Dec(refIO) /\ Posted' = Posted
           /\ References(t)' = References(t) - 1
    OBVIOUS
  <2>3. Balances(refIO, refIO', Posted, Posted', Cardinality(Held),
                 Cardinality(Held'), References(t), References(t)')
    BY <1>2, <1>4, <1>5, <2>1, <2>2 DEF Balances
  <2> QED BY <2>3, Balance
<1>7. refReadIO' = recvs' + Cardinality(ReadHeld')
  <2>1. /\ recvs \in Nat /\ recvs' \in Nat
        /\ ReadReferences(t) \in 0..2 /\ ReadReferences(t)' \in 0..2
    BY PostedTyped, ReferencesTyped
  <2>2. \/ /\ refReadIO' = refReadIO
           /\ recvs' + ReadReferences(t)' = recvs + ReadReferences(t)
        \/ /\ refReadIO' = Inc(refReadIO) /\ recvs' = recvs
           /\ ReadReferences(t)' = ReadReferences(t) + 1
        \/ /\ refReadIO' = Dec(refReadIO) /\ recvs' = recvs
           /\ ReadReferences(t)' = ReadReferences(t) - 1
    OBVIOUS
  <2>3. Balances(refReadIO, refReadIO', recvs, recvs', Cardinality(ReadHeld),
                 Cardinality(ReadHeld'), ReadReferences(t),
                 ReadReferences(t)')
    BY <1>2, <1>4, <1>5, <2>1, <2>2 DEF Balances
  <2> QED BY <2>3, Balance
<1> QED BY <1>1, <1>3, <1>6, <1>7 DEF Counted

(* The counters are not zero while a thread is inside, and the last guard   *)
(* but one does not bring them there.                                       *)
LEMMA HoldersCount ==
  ASSUME TypeOK, TypeOK', Calm, Counted, NEW t \in Threads
  PROVE  /\ References(t) > 0 => refIO # 0 /\ DecIf(refIO) = Dec(refIO)
         /\ ReadReferences(t) > 0 =>
              refReadIO # 0 /\ DecIf(refReadIO) = Dec(refReadIO)
         /\ References(t) > 1 => Dec(refIO) # 0
<1>1. /\ refIO = Posted + Cardinality(Held)
      /\ refReadIO = recvs + Cardinality(ReadHeld)
  BY DEF Counted, HeldIO, HeldReadIO, Posted
<1>2. /\ Cardinality(Held) >= References(t) /\ Cardinality(Held) \in Nat
      /\ Cardinality(ReadHeld) >= ReadReferences(t)
      /\ Cardinality(ReadHeld) \in Nat
  BY HeldByOne, HeldPairs, PairsFinite
<1>3. Posted \in Nat /\ recvs \in Nat
  BY PostedTyped
<1>4. References(t) \in 0..2 /\ ReadReferences(t) \in 0..2
  BY ReferencesTyped
<1>5. refIO >= References(t) /\ refReadIO >= ReadReferences(t)
  BY <1>1, <1>2, <1>3, <1>4
<1>6. refIO \in 0..(Modulus - 1) /\ refReadIO \in 0..(Modulus - 1)
  BY DEF TypeOK, CountsTyped
<1>7. References(t) > 1 => Dec(refIO) # 0
  BY <1>4, <1>5, <1>6, CountersCount
<1>8. refIO = 0 \/ refIO # 0
  OBVIOUS
<1> QED BY <1>4, <1>5, <1>6, <1>7 DEF DecIf

LEMMA ReadersAreNoUsers ==
  ASSUME RolesFit, NEW t \in Threads
  PROVE  at[t] \in Reads \cup InCraft => t \notin Users
<1> USE PeerAssumption
    DEF RolesFit, UserPlaces, Reads, Writes, Retires, InBeginRead,
        PostedRead, LeavesRead, InBeginWrite, PostedWrite, LeavesWrite,
        InCraft
<1>1. t \in Users => at[t] \in UserPlaces
  OBVIOUS
<1> QED BY <1>1

(* The last guard of a thread may bring the count to zero, no other does.   *)
LEMMA LeaveGoes ==
  ASSUME TypeOK, NEW t \in Threads, NEW from, NEW to, NEW reads,
         Leave(t, from, to, reads)
  PROVE  /\ Alone(t) /\ at[t] = from /\ refIO' = Dec(refIO)
         /\ \/ at'[t] = to /\ back'[t] = "idle"
            \/ at'[t] = "zero" /\ back'[t] = to /\ Dec(refIO) = 0
<1>1. /\ at \in [Threads -> Places] /\ back \in [Threads -> Places]
  BY DEF TypeOK, RolesFit
<1>2. Alone(t) /\ at[t] = from /\ refIO' = Dec(refIO)
  BY LeaveQuiet, LeaveSteps
<1>3. CASE refIO' = 0
  <2>1. /\ at' = [at EXCEPT ![t] = "zero"]
        /\ back' = [back EXCEPT ![t] = to]
    BY <1>3, LeaveSteps
  <2> QED BY <1>1, <1>2, <1>3, <2>1
<1>4. CASE refIO' # 0
  <2>1. /\ at' = [at EXCEPT ![t] = to]
        /\ back' = [back EXCEPT ![t] = "idle"]
    BY <1>4, LeaveSteps
  <2> QED BY <1>1, <1>2, <2>1
<1> QED BY <1>3, <1>4

-----------------------------------------------------------------------------
(* The counters keep to their type.                                         *)

LEMMA CountsTypedBeginRead ==
  ASSUME TypeOK, NEW t \in Threads, BeginRead(t)
  PROVE  CountsTyped'
<1> USE DEF TypeOK, CountsTyped, FlagsTyped, Step, counts, flags, bricks,
            calls, pool, locals, Branch, SetFlags, Count, Note, Enter, Fail
<1>1. CASE BeginReadEnter(t)
  BY <1>1, CountersStay, KindTyped DEF BeginReadEnter
<1>2. CASE BeginReadTest(t)
  BY <1>2, CountersStay, KindTyped DEF BeginReadTest
<1>3. CASE BeginReadLoad(t)
  BY <1>3, CountersStay, KindTyped DEF BeginReadLoad
<1>4. CASE BeginReadSwitch(t)
  BY <1>4, CountersStay, KindTyped DEF BeginReadSwitch
<1>5. CASE BeginReadCompare(t)
  BY <1>5, CountersStay, KindTyped DEF BeginReadCompare
<1>6. CASE BeginReadRecv(t)
  BY <1>6, CountersStay, KindTyped DEF BeginReadRecv
<1>7. CASE BeginReadOff(t)
  BY <1>7, CountersStay, KindTyped DEF BeginReadOff
<1>8. CASE BeginReadCount(t)
  BY <1>8, CountersStay, KindTyped DEF BeginReadCount
<1>9. CASE BeginReadExit(t)
  BY <1>9, CountersStay, KindTyped, LeaveSteps DEF BeginReadExit, AfterRead
<1> QED BY <1>1, <1>2, <1>3, <1>4, <1>5, <1>6, <1>7, <1>8, <1>9 DEF BeginRead

LEMMA CountsTypedEndRead ==
  ASSUME TypeOK, NEW t \in Threads, EndRead(t)
  PROVE  CountsTyped'
<1> USE DEF TypeOK, CountsTyped, FlagsTyped, Step, counts, flags, bricks,
            calls, pool, locals, Branch, SetFlags, Count, Enter
<1>1. CASE EndReadEnter(t)
  BY <1>1, CountersStay, KindTyped DEF EndReadEnter
<1>2. CASE EndReadMinus(t)
  BY <1>2, CountersStay, KindTyped DEF EndReadMinus
<1>3. CASE EndReadTest(t)
  BY <1>3, CountersStay, KindTyped DEF EndReadTest
<1>4. CASE EndReadWrite(t)
  BY <1>4, CountersStay, KindTyped DEF EndReadWrite
<1>5. CASE EndReadWrote(t)
  BY <1>5, CountersStay, KindTyped DEF EndReadWrote
<1>6. CASE EndReadMode(t)
  BY <1>6, CountersStay, KindTyped DEF EndReadMode, ParallelRead
<1>7. CASE EndReadCount(t)
  BY <1>7, CountersStay, KindTyped DEF EndReadCount
<1>8. CASE EndReadPush(t)
  BY <1>8, CountersStay, KindTyped DEF EndReadPush
<1>9. CASE EndReadExit(t)
  BY <1>9, CountersStay, KindTyped, LeaveSteps DEF EndReadExit
<1> QED BY <1>1, <1>2, <1>3, <1>4, <1>5, <1>6, <1>7, <1>8, <1>9 DEF EndRead

LEMMA CountsTypedBeginWrite ==
  ASSUME TypeOK, NEW t \in Threads, BeginWrite(t)
  PROVE  CountsTyped'
<1> USE DEF TypeOK, CountsTyped, FlagsTyped, Step, counts, flags, bricks,
            calls, pool, locals, Branch, SetFlags, Count, Note, Enter, Fail
<1>1. CASE BeginWriteEnter(t)
  BY <1>1, CountersStay, KindTyped DEF BeginWriteEnter
<1>2. CASE BeginWriteTest(t)
  BY <1>2, CountersStay, KindTyped DEF BeginWriteTest
<1>3. CASE BeginWriteLoad(t)
  BY <1>3, CountersStay, KindTyped DEF BeginWriteLoad
<1>4. CASE BeginWriteSwitch(t)
  BY <1>4, CountersStay, KindTyped DEF BeginWriteSwitch
<1>5. CASE BeginWriteCompare(t)
  BY <1>5, CountersStay, KindTyped DEF BeginWriteCompare
<1>6. CASE PopBrick(t)
  BY <1>6, CountersStay, KindTyped DEF PopBrick
<1>7. CASE BeginWriteAgain(t)
  BY <1>7, CountersStay, KindTyped DEF BeginWriteAgain
<1>8. CASE PushHeadBrick(t)
  BY <1>8, CountersStay, KindTyped DEF PushHeadBrick
<1>9. CASE BeginWriteSend(t)
  BY <1>9, CountersStay, KindTyped DEF BeginWriteSend
<1>10. CASE BeginWriteLast(t)
  BY <1>10, CountersStay, KindTyped DEF BeginWriteLast
<1>11. CASE BeginWriteCount(t)
  BY <1>11, CountersStay, KindTyped DEF BeginWriteCount
<1>12. CASE BeginWriteOff(t)
  BY <1>12, CountersStay, KindTyped DEF BeginWriteOff
<1>13. CASE BeginWriteExit(t)
  BY <1>13, CountersStay, KindTyped, LeaveSteps
     DEF BeginWriteExit, AfterWrite
<1> HIDE DEF TypeOK, CountsTyped, FlagsTyped
<1> QED BY <1>1, <1>2, <1>3, <1>4, <1>5, <1>6, <1>7, <1>8, <1>9, <1>10,
           <1>11, <1>12, <1>13
           DEF BeginWrite

LEMMA CountsTypedEndWrite ==
  ASSUME TypeOK, NEW t \in Threads, EndWrite(t)
  PROVE  CountsTyped'
<1> USE DEF TypeOK, CountsTyped, FlagsTyped, Step, counts, flags, bricks,
            calls, pool, locals, Branch, Count, Enter
<1>1. CASE EndWriteEnter(t)
  BY <1>1, CountersStay, KindTyped DEF EndWriteEnter
<1>2. CASE EndWriteMinus(t)
  BY <1>2, CountersStay, KindTyped DEF EndWriteMinus
<1>3. CASE EndWriteTest(t)
  BY <1>3, CountersStay, KindTyped DEF EndWriteTest
<1>4. CASE EndWriteLast(t)
  BY <1>4, CountersStay, KindTyped DEF EndWriteLast
<1>5. CASE EndWriteNull(t)
  BY <1>5, CountersStay, KindTyped DEF EndWriteNull
<1>6. CASE EndWriteDone(t)
  BY <1>6, CountersStay, KindTyped DEF EndWriteDone
<1>7. CASE EndWriteMore(t)
  BY <1>7, CountersStay, KindTyped DEF EndWriteMore
<1>8. CASE EndWriteExit(t)
  BY <1>8, CountersStay, KindTyped, LeaveSteps DEF EndWriteExit
<1> QED BY <1>1, <1>2, <1>3, <1>4, <1>5, <1>6, <1>7, <1>8 DEF EndWrite

LEMMA CountsTypedCraft ==
  ASSUME TypeOK, NEW t \in Threads, Craft(t)
  PROVE  CountsTyped'
<1> USE DEF TypeOK, CountsTyped, FlagsTyped, Step, counts, flags, bricks,
            calls, pool, locals, Branch, SetFlags, Count, Enter, DestroyNow
<1>1. CASE ExecuteWorker(t)
  BY <1>1, CountersStay, KindTyped DEF ExecuteWorker
<1>2. CASE CraftEnter(t)
  BY <1>2, CountersStay, KindTyped DEF CraftEnter
<1>3. CASE CraftTest(t)
  BY <1>3, CountersStay, KindTyped DEF CraftTest
<1>4. CASE CraftCrash(t)
  BY <1>4, CountersStay, KindTyped DEF CraftCrash
<1>5. CASE CraftRead(t)
  BY <1>5, CountersStay, KindTyped DEF CraftRead
<1>6. CASE CraftContinue(t)
  BY <1>6, CountersStay, KindTyped DEF CraftContinue
<1>7. CASE CraftReturn(t)
  BY <1>7, CountersStay, KindTyped DEF CraftReturn
<1>8. CASE CraftRetire(t)
  BY <1>8, CountersStay, KindTyped DEF CraftRetire
<1>9. CASE RetireLoad(t)
  BY <1>9, CountersStay, KindTyped DEF RetireLoad
<1>10. CASE RetireCompare(t)
  BY <1>10, ZeroCounts DEF RetireCompare
<1>11. CASE CraftClose(t)
  BY <1>11, CountersStay, KindTyped DEF CraftClose
<1>12. CASE CraftJoin(t)
  BY <1>12, CountersStay, KindTyped DEF CraftJoin, SerialRead
<1>13. CASE CraftExit(t)
  BY <1>13, CountersStay, KindTyped, LeaveSteps DEF CraftExit
<1> HIDE DEF TypeOK, CountsTyped, FlagsTyped
<1> QED BY <1>1, <1>2, <1>3, <1>4, <1>5, <1>6, <1>7, <1>8, <1>9, <1>10,
           <1>11, <1>12, <1>13
           DEF Craft

LEMMA CountsTypedClosing ==
  ASSUME TypeOK, NEW t \in Threads, Closing(t)
  PROVE  CountsTyped'
<1> USE DEF TypeOK, CountsTyped, FlagsTyped, Step, counts, flags, bricks,
            calls, pool, locals, Branch, SetFlags, Count, Enter, DestroyNow,
            Fail
<1>1. CASE HandleErrorNotify(t)
  BY <1>1, CountersStay, KindTyped
     DEF HandleErrorNotify, AfterRead, AfterWrite
<1>2. CASE HandleErrorDestroy(t)
  BY <1>2, CountersStay, KindTyped
     DEF HandleErrorDestroy, AfterRead, AfterWrite
<1>3. CASE Destroy(t)
  BY <1>3, CountersStay, KindTyped DEF Destroy
<1>4. CASE Unavailable(t)
  BY <1>4, ZeroCounts DEF Unavailable
<1>5. CASE UnavailableFlag(t)
  BY <1>5, CountersStay, KindTyped DEF UnavailableFlag
<1>6. CASE Close(t)
  BY <1>6, CountersStay, KindTyped DEF Close
<1>7. CASE Closesocket(t)
  BY <1>7, CountersStay, KindTyped DEF Closesocket
<1>8. CASE ReclaimUnlist(t)
  BY <1>8, CountersStay, KindTyped DEF ReclaimUnlist
<1>9. CASE ReclaimDisp(t)
  BY <1>9, ZeroCounts DEF ReclaimDisp
<1>10. CASE ReclaimPeer(t)
  BY <1>10, CountersStay, KindTyped DEF ReclaimPeer
<1>11. CASE BeginDisconnectEnter(t)
  BY <1>11, CountersStay, KindTyped DEF BeginDisconnectEnter
<1>12. CASE BeginDisconnectOp(t)
  BY <1>12, CountersStay, KindTyped DEF BeginDisconnectOp
<1>13. CASE BeginDisconnectCall(t)
  BY <1>13, CountersStay, KindTyped DEF BeginDisconnectCall
<1>14. CASE BeginDisconnectCount(t)
  BY <1>14, CountersStay, KindTyped DEF BeginDisconnectCount
<1>15. CASE BeginDisconnectExit(t)
  BY <1>15, CountersStay, KindTyped, LeaveSteps DEF BeginDisconnectExit
<1>16. CASE EndDisconnectEnter(t)
  BY <1>16, CountersStay, KindTyped DEF EndDisconnectEnter
<1>17. CASE EndDisconnectMinus(t)
  BY <1>17, CountersStay, KindTyped DEF EndDisconnectMinus
<1>18. CASE EndDisconnectExit(t)
  BY <1>18, CountersStay, KindTyped, LeaveSteps DEF EndDisconnectExit
<1> HIDE DEF TypeOK, CountsTyped, FlagsTyped
<1> QED BY <1>1, <1>2, <1>3, <1>4, <1>5, <1>6, <1>7, <1>8, <1>9, <1>10,
           <1>11, <1>12, <1>13, <1>14, <1>15, <1>16, <1>17, <1>18
           DEF Closing

LEMMA CountsTypedRest ==
  ASSUME TypeOK, NEW t \in Threads, Rest(t)
  PROVE  CountsTyped'
<1> USE DEF TypeOK, CountsTyped, FlagsTyped, Step, counts, flags, bricks,
            calls, pool, locals, Count, Taken, Fail
<1>1. CASE Zero(t)
  BY <1>1, CountersStay, KindTyped DEF Zero
<1>2. CASE Timeout(t)
  BY <1>2, CountersStay, KindTyped DEF Timeout
<1>3. CASE PushBrick(t)
  BY <1>3, CountersStay, KindTyped DEF PushBrick
<1>4. CASE TakeRecv(t, TRUE) \/ TakeRecv(t, FALSE)
  BY <1>4, CountersStay, KindTyped DEF TakeRecv
<1>5. CASE TakeFailure(t)
  BY <1>5, CountersStay, KindTyped DEF TakeFailure
<1>6. CASE TakeSend(t)
  BY <1>6, CountersStay, KindTyped DEF TakeSend, TakeWritten
<1>7. CASE TakeDisc(t)
  BY <1>7, CountersStay, KindTyped DEF TakeDisc, TakeWritten
<1>8. CASE TakeWork(t)
  BY <1>8, CountersStay, KindTyped DEF TakeWork
<1>9. CASE SendTest(t)
  BY <1>9, CountersStay, KindTyped DEF SendTest
<1>10. CASE CloseClient(t)
  BY <1>10, CountersStay, KindTyped DEF CloseClient
<1> QED BY <1>1, <1>2, <1>3, <1>4, <1>5, <1>6, <1>7, <1>8, <1>9, <1>10
           DEF Rest

-----------------------------------------------------------------------------
(* The flags keep to their type.                                            *)

LEMMA FlagsTypedBeginRead ==
  ASSUME TypeOK, NEW t \in Threads, BeginRead(t)
  PROVE  FlagsTyped'
<1> USE DEF TypeOK, FlagsTyped, Step, counts, flags, bricks, calls, pool,
            locals, Branch, SetFlags, Count, Note, Enter, Fail
<1>1. CASE BeginReadEnter(t)
  BY <1>1 DEF BeginReadEnter
<1>2. CASE BeginReadTest(t)
  BY <1>2 DEF BeginReadTest
<1>3. CASE BeginReadLoad(t)
  BY <1>3 DEF BeginReadLoad
<1>4. CASE BeginReadSwitch(t)
  BY <1>4 DEF BeginReadSwitch
<1>5. CASE BeginReadCompare(t)
  BY <1>5 DEF BeginReadCompare
<1>6. CASE BeginReadRecv(t)
  BY <1>6 DEF BeginReadRecv
<1>7. CASE BeginReadOff(t)
  BY <1>7 DEF BeginReadOff
<1>8. CASE BeginReadCount(t)
  BY <1>8 DEF BeginReadCount
<1>9. CASE BeginReadExit(t)
  <2>1. /\ seen' = [seen EXCEPT ![t] = FALSE]
        /\ UNCHANGED <<kind, flags, calls, pool>>
    BY <1>9, LeaveSteps DEF BeginReadExit
  <2> QED BY <2>1
<1> QED BY <1>1, <1>2, <1>3, <1>4, <1>5, <1>6, <1>7, <1>8, <1>9 DEF BeginRead

LEMMA FlagsTypedEndRead ==
  ASSUME TypeOK, NEW t \in Threads, EndRead(t)
  PROVE  FlagsTyped'
<1> USE DEF TypeOK, FlagsTyped, Step, counts, flags, bricks, calls, pool,
            locals, Branch, SetFlags, Count, Enter
<1>1. CASE EndReadEnter(t)
  BY <1>1 DEF EndReadEnter
<1>2. CASE EndReadMinus(t)
  BY <1>2 DEF EndReadMinus
<1>3. CASE EndReadTest(t)
  BY <1>3 DEF EndReadTest
<1>4. CASE EndReadWrite(t)
  BY <1>4 DEF EndReadWrite
<1>5. CASE EndReadWrote(t)
  BY <1>5 DEF EndReadWrote
<1>6. CASE EndReadMode(t)
  BY <1>6 DEF EndReadMode, ParallelRead
<1>7. CASE EndReadCount(t)
  BY <1>7 DEF EndReadCount
<1>8. CASE EndReadPush(t)
  BY <1>8 DEF EndReadPush
<1>9. CASE EndReadExit(t)
  BY <1>9, LeaveSteps DEF EndReadExit
<1> QED BY <1>1, <1>2, <1>3, <1>4, <1>5, <1>6, <1>7, <1>8, <1>9 DEF EndRead

LEMMA FlagsTypedBeginWrite ==
  ASSUME TypeOK, NEW t \in Threads, BeginWrite(t)
  PROVE  FlagsTyped'
<1> USE DEF TypeOK, FlagsTyped, Step, counts, flags, bricks, calls, pool,
            locals, Branch, SetFlags, Count, Note, Enter, Fail
<1>1. CASE BeginWriteEnter(t)
  BY <1>1 DEF BeginWriteEnter
<1>2. CASE BeginWriteTest(t)
  BY <1>2 DEF BeginWriteTest
<1>3. CASE BeginWriteLoad(t)
  BY <1>3 DEF BeginWriteLoad
<1>4. CASE BeginWriteSwitch(t)
  BY <1>4 DEF BeginWriteSwitch
<1>5. CASE BeginWriteCompare(t)
  BY <1>5 DEF BeginWriteCompare
<1>6. CASE PopBrick(t)
  BY <1>6 DEF PopBrick
<1>7. CASE BeginWriteAgain(t)
  BY <1>7 DEF BeginWriteAgain
<1>8. CASE PushHeadBrick(t)
  BY <1>8 DEF PushHeadBrick
<1>9. CASE BeginWriteSend(t)
  BY <1>9 DEF BeginWriteSend
<1>10. CASE BeginWriteLast(t)
  BY <1>10 DEF BeginWriteLast
<1>11. CASE BeginWriteCount(t)
  BY <1>11 DEF BeginWriteCount
<1>12. CASE BeginWriteOff(t)
  BY <1>12 DEF BeginWriteOff
<1>13. CASE BeginWriteExit(t)
  <2>1. /\ seen' = [seen EXCEPT ![t] = FALSE]
        /\ UNCHANGED <<kind, flags, calls, pool>>
    BY <1>13, LeaveSteps DEF BeginWriteExit
  <2> QED BY <2>1
<1> HIDE DEF TypeOK, FlagsTyped
<1> QED BY <1>1, <1>2, <1>3, <1>4, <1>5, <1>6, <1>7, <1>8, <1>9, <1>10,
           <1>11, <1>12, <1>13
           DEF BeginWrite

LEMMA FlagsTypedEndWrite ==
  ASSUME TypeOK, NEW t \in Threads, EndWrite(t)
  PROVE  FlagsTyped'
<1> USE DEF TypeOK, FlagsTyped, Step, counts, flags, bricks, calls, pool,
            locals, Branch, Count, Enter
<1>1. CASE EndWriteEnter(t)
  BY <1>1 DEF EndWriteEnter
<1>2. CASE EndWriteMinus(t)
  BY <1>2 DEF EndWriteMinus
<1>3. CASE EndWriteTest(t)
  BY <1>3 DEF EndWriteTest
<1>4. CASE EndWriteLast(t)
  BY <1>4 DEF EndWriteLast
<1>5. CASE EndWriteNull(t)
  BY <1>5 DEF EndWriteNull
<1>6. CASE EndWriteDone(t)
  BY <1>6 DEF EndWriteDone
<1>7. CASE EndWriteMore(t)
  BY <1>7 DEF EndWriteMore
<1>8. CASE EndWriteExit(t)
  BY <1>8, LeaveSteps DEF EndWriteExit
<1> QED BY <1>1, <1>2, <1>3, <1>4, <1>5, <1>6, <1>7, <1>8 DEF EndWrite

LEMMA FlagsTypedCraft ==
  ASSUME TypeOK, NEW t \in Threads, Craft(t)
  PROVE  FlagsTyped'
<1> USE DEF TypeOK, FlagsTyped, Step, counts, flags, bricks, calls, pool,
            locals, Branch, SetFlags, Count, Enter, DestroyNow
<1>1. CASE ExecuteWorker(t)
  BY <1>1 DEF ExecuteWorker
<1>2. CASE CraftEnter(t)
  BY <1>2 DEF CraftEnter
<1>3. CASE CraftTest(t)
  BY <1>3 DEF CraftTest
<1>4. CASE CraftCrash(t)
  BY <1>4 DEF CraftCrash
<1>5. CASE CraftRead(t)
  BY <1>5 DEF CraftRead
<1>6. CASE CraftContinue(t)
  BY <1>6 DEF CraftContinue
<1>7. CASE CraftReturn(t)
  BY <1>7 DEF CraftReturn
<1>8. CASE CraftRetire(t)
  BY <1>8 DEF CraftRetire
<1>9. CASE RetireLoad(t)
  BY <1>9 DEF RetireLoad
<1>10. CASE RetireCompare(t)
  BY <1>10 DEF RetireCompare
<1>11. CASE CraftClose(t)
  BY <1>11 DEF CraftClose
<1>12. CASE CraftJoin(t)
  BY <1>12 DEF CraftJoin, SerialRead
<1>13. CASE CraftExit(t)
  BY <1>13, LeaveSteps DEF CraftExit
<1> HIDE DEF TypeOK, FlagsTyped
<1> QED BY <1>1, <1>2, <1>3, <1>4, <1>5, <1>6, <1>7, <1>8, <1>9, <1>10,
           <1>11, <1>12, <1>13
           DEF Craft

LEMMA FlagsTypedClosing ==
  ASSUME TypeOK, NEW t \in Threads, Closing(t)
  PROVE  FlagsTyped'
<1> USE DEF TypeOK, FlagsTyped, Step, counts, flags, bricks, calls, pool,
            locals, Branch, SetFlags, Count, Enter, DestroyNow, Fail
<1>1. CASE HandleErrorNotify(t)
  BY <1>1 DEF HandleErrorNotify, AfterRead, AfterWrite
<1>2. CASE HandleErrorDestroy(t)
  BY <1>2 DEF HandleErrorDestroy, AfterRead, AfterWrite
<1>3. CASE Destroy(t)
  BY <1>3 DEF Destroy
<1>4. CASE Unavailable(t)
  BY <1>4 DEF Unavailable
<1>5. CASE UnavailableFlag(t)
  BY <1>5 DEF UnavailableFlag
<1>6. CASE Close(t)
  BY <1>6 DEF Close
<1>7. CASE Closesocket(t)
  BY <1>7 DEF Closesocket
<1>8. CASE ReclaimUnlist(t)
  BY <1>8 DEF ReclaimUnlist
<1>9. CASE ReclaimDisp(t)
  BY <1>9 DEF ReclaimDisp, Modes
<1>10. CASE ReclaimPeer(t)
  BY <1>10 DEF ReclaimPeer
<1>11. CASE BeginDisconnectEnter(t)
  BY <1>11 DEF BeginDisconnectEnter
<1>12. CASE BeginDisconnectOp(t)
  BY <1>12 DEF BeginDisconnectOp
<1>13. CASE BeginDisconnectCall(t)
  BY <1>13 DEF BeginDisconnectCall
<1>14. CASE BeginDisconnectCount(t)
  BY <1>14 DEF BeginDisconnectCount
<1>15. CASE BeginDisconnectExit(t)
  BY <1>15, LeaveSteps DEF BeginDisconnectExit
<1>16. CASE EndDisconnectEnter(t)
  BY <1>16 DEF EndDisconnectEnter
<1>17. CASE EndDisconnectMinus(t)
  BY <1>17 DEF EndDisconnectMinus
<1>18. CASE EndDisconnectExit(t)
  BY <1>18, LeaveSteps DEF EndDisconnectExit
<1> HIDE DEF TypeOK, FlagsTyped
<1> QED BY <1>1, <1>2, <1>3, <1>4, <1>5, <1>6, <1>7, <1>8, <1>9, <1>10,
           <1>11, <1>12, <1>13, <1>14, <1>15, <1>16, <1>17, <1>18
           DEF Closing

LEMMA FlagsTypedRest ==
  ASSUME TypeOK, NEW t \in Threads, Rest(t)
  PROVE  FlagsTyped'
<1> USE DEF TypeOK, FlagsTyped, Step, counts, flags, bricks, calls, pool,
            locals, Count, Taken, Fail
<1>1. CASE Zero(t)
  BY <1>1 DEF Zero
<1>2. CASE Timeout(t)
  BY <1>2 DEF Timeout
<1>3. CASE PushBrick(t)
  BY <1>3 DEF PushBrick
<1>4. CASE TakeRecv(t, TRUE) \/ TakeRecv(t, FALSE)
  <2>1. PICK data \in BOOLEAN : TakeRecv(t, data)
    BY <1>4
  <2> QED BY <2>1 DEF TakeRecv
<1>5. CASE TakeFailure(t)
  BY <1>5 DEF TakeFailure
<1>6. CASE TakeSend(t)
  BY <1>6 DEF TakeSend, TakeWritten
<1>7. CASE TakeDisc(t)
  BY <1>7 DEF TakeDisc, TakeWritten
<1>8. CASE TakeWork(t)
  BY <1>8 DEF TakeWork
<1>9. CASE SendTest(t)
  BY <1>9 DEF SendTest
<1>10. CASE CloseClient(t)
  BY <1>10 DEF CloseClient
<1> QED BY <1>1, <1>2, <1>3, <1>4, <1>5, <1>6, <1>7, <1>8, <1>9, <1>10
           DEF Rest

-----------------------------------------------------------------------------
(* Every thread keeps to the functions it runs.                             *)

LEMMA RolesBeginRead ==
  ASSUME TypeOK, NEW t \in Threads, BeginRead(t)
  PROVE  RolesFit'
<1>0. RolesFit
  BY DEF TypeOK
<1> USE PeerAssumption
    DEF RolesFit, Threads, Places, IOPlaces, WorkerPlaces, UserPlaces,
        IOReturns, WorkerReturns, UserReturns, Reads, Writes, Retires,
        InBeginRead, PostedRead, LeavesRead, InEndRead, InBeginWrite,
        PostedWrite, LeavesWrite, InEndWrite, InCraft, Step, counts, flags,
        bricks, calls, pool, locals, Branch, SetFlags, Count, Note, Enter,
        Fail
<1>1. CASE BeginReadEnter(t)
  BY <1>1, <1>0 DEF BeginReadEnter
<1>2. CASE BeginReadTest(t)
  BY <1>2, <1>0 DEF BeginReadTest
<1>3. CASE BeginReadLoad(t)
  BY <1>3, <1>0 DEF BeginReadLoad
<1>4. CASE BeginReadSwitch(t)
  BY <1>4, <1>0 DEF BeginReadSwitch
<1>5. CASE BeginReadCompare(t)
  BY <1>5, <1>0 DEF BeginReadCompare
<1>6. CASE BeginReadRecv(t)
  BY <1>6, <1>0 DEF BeginReadRecv
<1>7. CASE BeginReadOff(t)
  BY <1>7, <1>0 DEF BeginReadOff
<1>8. CASE BeginReadCount(t)
  BY <1>8, <1>0 DEF BeginReadCount
<1>9. CASE BeginReadExit(t)
  <2>1. CASE Leave(t, "BeginRead.exit", AfterRead(t), TRUE)
    <3>1. /\ at[t] = "BeginRead.exit"
          /\ \/ /\ at' = [at EXCEPT ![t] = "zero"]
                /\ back' = [back EXCEPT ![t] = AfterRead(t)]
             \/ /\ at' = [at EXCEPT ![t] = AfterRead(t)]
                /\ back' = [back EXCEPT ![t] = "idle"]
      BY <2>1, LeaveSteps
    <3> QED BY <3>1, <1>0 DEF AfterRead
  <2>2. CASE Leave(t, "BeginRead.failed", "HandleError.read", TRUE)
    <3>1. /\ at[t] = "BeginRead.failed"
          /\ \/ /\ at' = [at EXCEPT ![t] = "zero"]
                /\ back' = [back EXCEPT ![t] = "HandleError.read"]
             \/ /\ at' = [at EXCEPT ![t] = "HandleError.read"]
                /\ back' = [back EXCEPT ![t] = "idle"]
      BY <2>2, LeaveSteps
    <3> QED BY <3>1, <1>0 DEF AfterRead
  <2> QED BY <1>9, <2>1, <2>2 DEF BeginReadExit
<1> QED BY <1>1, <1>2, <1>3, <1>4, <1>5, <1>6, <1>7, <1>8, <1>9 DEF BeginRead

LEMMA RolesEndRead ==
  ASSUME TypeOK, NEW t \in Threads, EndRead(t)
  PROVE  RolesFit'
<1>0. RolesFit
  BY DEF TypeOK
<1> USE PeerAssumption
    DEF RolesFit, Threads, Places, IOPlaces, WorkerPlaces, UserPlaces,
        IOReturns, WorkerReturns, UserReturns, Reads, Writes, Retires,
        InBeginRead, PostedRead, LeavesRead, InEndRead, InBeginWrite,
        PostedWrite, LeavesWrite, InEndWrite, InCraft, Step, counts, flags,
        bricks, calls, pool, locals, Branch, SetFlags, Count, Enter
<1>1. CASE EndReadEnter(t)
  BY <1>1, <1>0 DEF EndReadEnter
<1>2. CASE EndReadMinus(t)
  BY <1>2, <1>0 DEF EndReadMinus
<1>3. CASE EndReadTest(t)
  BY <1>3, <1>0 DEF EndReadTest
<1>4. CASE EndReadWrite(t)
  BY <1>4, <1>0 DEF EndReadWrite
<1>5. CASE EndReadWrote(t)
  BY <1>5, <1>0 DEF EndReadWrote
<1>6. CASE EndReadMode(t)
  BY <1>6, <1>0 DEF EndReadMode, ParallelRead
<1>7. CASE EndReadCount(t)
  BY <1>7, <1>0 DEF EndReadCount
<1>8. CASE EndReadPush(t)
  BY <1>8, <1>0 DEF EndReadPush
<1>9. CASE EndReadExit(t)
  <2>1. CASE Leave(t, "EndRead.exit", "idle", TRUE)
    <3>1. /\ at[t] = "EndRead.exit"
          /\ \/ /\ at' = [at EXCEPT ![t] = "zero"]
                /\ back' = [back EXCEPT ![t] = "idle"]
             \/ /\ at' = [at EXCEPT ![t] = "idle"]
                /\ back' = [back EXCEPT ![t] = "idle"]
      BY <2>1, LeaveSteps
    <3> QED BY <3>1, <1>0
  <2> QED BY <1>9, <2>1 DEF EndReadExit
<1> QED BY <1>1, <1>2, <1>3, <1>4, <1>5, <1>6, <1>7, <1>8, <1>9 DEF EndRead

LEMMA RolesBeginWrite ==
  ASSUME TypeOK, NEW t \in Threads, BeginWrite(t)
  PROVE  RolesFit'
<1>0. RolesFit
  BY DEF TypeOK
<1> USE PeerAssumption
    DEF RolesFit, Threads, Places, IOPlaces, WorkerPlaces, UserPlaces,
        IOReturns, WorkerReturns, UserReturns, Reads, Writes, Retires,
        InBeginRead, PostedRead, LeavesRead, InEndRead, InBeginWrite,
        PostedWrite, LeavesWrite, InEndWrite, InCraft, Step, counts, flags,
        bricks, calls, pool, locals, Branch, SetFlags, Count, Note, Enter,
        Fail
<1>1. CASE BeginWriteEnter(t)
  BY <1>1, <1>0 DEF BeginWriteEnter
<1>2. CASE BeginWriteTest(t)
  BY <1>2, <1>0 DEF BeginWriteTest
<1>3. CASE BeginWriteLoad(t)
  BY <1>3, <1>0 DEF BeginWriteLoad
<1>4. CASE BeginWriteSwitch(t)
  BY <1>4, <1>0 DEF BeginWriteSwitch
<1>5. CASE BeginWriteCompare(t)
  BY <1>5, <1>0 DEF BeginWriteCompare
<1>6. CASE PopBrick(t)
  BY <1>6, <1>0 DEF PopBrick
<1>7. CASE BeginWriteAgain(t)
  BY <1>7, <1>0 DEF BeginWriteAgain
<1>8. CASE PushHeadBrick(t)
  <2>1. /\ at[t] \in {"BeginWrite.unpop", "BeginWrite.unsent"}
        /\ \/ at' = [at EXCEPT ![t] = "BeginWrite.off"]
           \/ at' = [at EXCEPT ![t] = "BeginWrite.error"]
        /\ UNCHANGED back
    BY <1>8 DEF PushHeadBrick
  <2> QED BY <2>1, <1>0
<1>9. CASE BeginWriteSend(t)
  BY <1>9, <1>0 DEF BeginWriteSend
<1>10. CASE BeginWriteLast(t)
  BY <1>10, <1>0 DEF BeginWriteLast
<1>11. CASE BeginWriteCount(t)
  BY <1>11, <1>0 DEF BeginWriteCount
<1>12. CASE BeginWriteOff(t)
  BY <1>12, <1>0 DEF BeginWriteOff
<1>13. CASE BeginWriteExit(t)
  <2>1. CASE Leave(t, "BeginWrite.exit", AfterWrite(t), FALSE)
    <3>1. /\ at[t] = "BeginWrite.exit"
          /\ \/ /\ at' = [at EXCEPT ![t] = "zero"]
                /\ back' = [back EXCEPT ![t] = AfterWrite(t)]
             \/ /\ at' = [at EXCEPT ![t] = AfterWrite(t)]
                /\ back' = [back EXCEPT ![t] = "idle"]
      BY <2>1, LeaveSteps
    <3> QED BY <3>1, <1>0 DEF AfterWrite
  <2>2. CASE Leave(t, "BeginWrite.failed", "HandleError.write", FALSE)
    <3>1. /\ at[t] = "BeginWrite.failed"
          /\ \/ /\ at' = [at EXCEPT ![t] = "zero"]
                /\ back' = [back EXCEPT ![t] = "HandleError.write"]
             \/ /\ at' = [at EXCEPT ![t] = "HandleError.write"]
                /\ back' = [back EXCEPT ![t] = "idle"]
      BY <2>2, LeaveSteps
    <3> QED BY <3>1, <1>0 DEF AfterWrite
  <2> QED BY <1>13, <2>1, <2>2 DEF BeginWriteExit
<1> HIDE DEF RolesFit, Places, IOPlaces, WorkerPlaces, UserPlaces, IOReturns,
            WorkerReturns, UserReturns, Reads, Writes, Retires, InBeginRead,
            PostedRead, LeavesRead, InEndRead, InBeginWrite, PostedWrite,
            LeavesWrite, InEndWrite, InCraft
<1> QED BY <1>1, <1>2, <1>3, <1>4, <1>5, <1>6, <1>7, <1>8, <1>9, <1>10,
           <1>11, <1>12, <1>13
           DEF BeginWrite

LEMMA RolesEndWrite ==
  ASSUME TypeOK, NEW t \in Threads, EndWrite(t)
  PROVE  RolesFit'
<1>0. RolesFit
  BY DEF TypeOK
<1> USE PeerAssumption
    DEF RolesFit, Threads, Places, IOPlaces, WorkerPlaces, UserPlaces,
        IOReturns, WorkerReturns, UserReturns, Reads, Writes, Retires,
        InBeginRead, PostedRead, LeavesRead, InEndRead, InBeginWrite,
        PostedWrite, LeavesWrite, InEndWrite, InCraft, Step, counts, flags,
        bricks, calls, pool, locals, Branch, Count, Enter
<1>1. CASE EndWriteEnter(t)
  BY <1>1, <1>0 DEF EndWriteEnter
<1>2. CASE EndWriteMinus(t)
  BY <1>2, <1>0 DEF EndWriteMinus
<1>3. CASE EndWriteTest(t)
  BY <1>3, <1>0 DEF EndWriteTest
<1>4. CASE EndWriteLast(t)
  BY <1>4, <1>0 DEF EndWriteLast
<1>5. CASE EndWriteNull(t)
  BY <1>5, <1>0 DEF EndWriteNull
<1>6. CASE EndWriteDone(t)
  BY <1>6, <1>0 DEF EndWriteDone
<1>7. CASE EndWriteMore(t)
  BY <1>7, <1>0 DEF EndWriteMore
<1>8. CASE EndWriteExit(t)
  <2>1. CASE Leave(t, "EndWrite.exit", "idle", FALSE)
    <3>1. /\ at[t] = "EndWrite.exit"
          /\ \/ /\ at' = [at EXCEPT ![t] = "zero"]
                /\ back' = [back EXCEPT ![t] = "idle"]
             \/ /\ at' = [at EXCEPT ![t] = "idle"]
                /\ back' = [back EXCEPT ![t] = "idle"]
      BY <2>1, LeaveSteps
    <3> QED BY <3>1, <1>0
  <2> QED BY <1>8, <2>1 DEF EndWriteExit
<1> QED BY <1>1, <1>2, <1>3, <1>4, <1>5, <1>6, <1>7, <1>8 DEF EndWrite

LEMMA RolesCraft ==
  ASSUME TypeOK, NEW t \in Threads, Craft(t)
  PROVE  RolesFit'
<1>0. RolesFit
  BY DEF TypeOK
<1> USE PeerAssumption
    DEF RolesFit, Threads, Places, IOPlaces, WorkerPlaces, UserPlaces,
        IOReturns, WorkerReturns, UserReturns, Reads, Writes, Retires,
        InBeginRead, PostedRead, LeavesRead, InEndRead, InBeginWrite,
        PostedWrite, LeavesWrite, InEndWrite, InCraft, Step, counts, flags,
        bricks, calls, pool, locals, Branch, SetFlags, Count, Enter,
        DestroyNow
<1>1. CASE ExecuteWorker(t)
  BY <1>1, <1>0 DEF ExecuteWorker
<1>2. CASE CraftEnter(t)
  BY <1>2, <1>0 DEF CraftEnter
<1>3. CASE CraftTest(t)
  BY <1>3, <1>0 DEF CraftTest
<1>4. CASE CraftCrash(t)
  BY <1>4, <1>0 DEF CraftCrash
<1>5. CASE CraftRead(t)
  BY <1>5, <1>0 DEF CraftRead
<1>6. CASE CraftContinue(t)
  BY <1>6, <1>0 DEF CraftContinue
<1>7. CASE CraftReturn(t)
  BY <1>7, <1>0 DEF CraftReturn
<1>8. CASE CraftRetire(t)
  BY <1>8, <1>0 DEF CraftRetire
<1>9. CASE RetireLoad(t)
  BY <1>9, <1>0 DEF RetireLoad
<1>10. CASE RetireCompare(t)
  BY <1>10, <1>0 DEF RetireCompare
<1>11. CASE CraftClose(t)
  BY <1>11, <1>0 DEF CraftClose
<1>12. CASE CraftJoin(t)
  BY <1>12, <1>0 DEF CraftJoin, SerialRead
<1>13. CASE CraftExit(t)
  <2>1. CASE Leave(t, "Craft.exit", "idle", FALSE)
    <3>1. /\ at[t] = "Craft.exit"
          /\ \/ /\ at' = [at EXCEPT ![t] = "zero"]
                /\ back' = [back EXCEPT ![t] = "idle"]
             \/ /\ at' = [at EXCEPT ![t] = "idle"]
                /\ back' = [back EXCEPT ![t] = "idle"]
      BY <2>1, LeaveSteps
    <3> QED BY <3>1, <1>0
  <2> QED BY <1>13, <2>1 DEF CraftExit
<1> HIDE DEF RolesFit, Places, IOPlaces, WorkerPlaces, UserPlaces, IOReturns,
            WorkerReturns, UserReturns, Reads, Writes, Retires, InBeginRead,
            PostedRead, LeavesRead, InEndRead, InBeginWrite, PostedWrite,
            LeavesWrite, InEndWrite, InCraft
<1> QED BY <1>1, <1>2, <1>3, <1>4, <1>5, <1>6, <1>7, <1>8, <1>9, <1>10,
           <1>11, <1>12, <1>13
           DEF Craft

LEMMA RolesClosing ==
  ASSUME TypeOK, NEW t \in Threads, Closing(t)
  PROVE  RolesFit'
<1>0. RolesFit
  BY DEF TypeOK
<1> USE PeerAssumption
    DEF RolesFit, Threads, Places, IOPlaces, WorkerPlaces, UserPlaces,
        IOReturns, WorkerReturns, UserReturns, Reads, Writes, Retires,
        InBeginRead, PostedRead, LeavesRead, InEndRead, InBeginWrite,
        PostedWrite, LeavesWrite, InEndWrite, InCraft, Step, counts, flags,
        bricks, calls, pool, locals, Branch, SetFlags, Count, Enter,
        DestroyNow, Fail
<1>1. CASE HandleErrorNotify(t)
  BY <1>1, <1>0 DEF HandleErrorNotify, AfterRead, AfterWrite
<1>2. CASE HandleErrorDestroy(t)
  BY <1>2, <1>0 DEF HandleErrorDestroy, AfterRead, AfterWrite
<1>3. CASE Destroy(t)
  BY <1>3, <1>0 DEF Destroy
<1>4. CASE Unavailable(t)
  BY <1>4, <1>0 DEF Unavailable
<1>5. CASE UnavailableFlag(t)
  BY <1>5, <1>0 DEF UnavailableFlag
<1>6. CASE Close(t)
  BY <1>6, <1>0 DEF Close
<1>7. CASE Closesocket(t)
  BY <1>7, <1>0 DEF Closesocket
<1>8. CASE ReclaimUnlist(t)
  BY <1>8, <1>0 DEF ReclaimUnlist
<1>9. CASE ReclaimDisp(t)
  BY <1>9, <1>0 DEF ReclaimDisp
<1>10. CASE ReclaimPeer(t)
  BY <1>10, <1>0 DEF ReclaimPeer
<1>11. CASE BeginDisconnectEnter(t)
  BY <1>11, <1>0 DEF BeginDisconnectEnter
<1>12. CASE BeginDisconnectOp(t)
  BY <1>12, <1>0 DEF BeginDisconnectOp
<1>13. CASE BeginDisconnectCall(t)
  BY <1>13, <1>0 DEF BeginDisconnectCall
<1>14. CASE BeginDisconnectCount(t)
  BY <1>14, <1>0 DEF BeginDisconnectCount
<1>15. CASE BeginDisconnectExit(t)
  <2>1. CASE Leave(t, "BeginDisconnect.exit", back[t], FALSE)
    <3>1. /\ at[t] = "BeginDisconnect.exit"
          /\ \/ /\ at' = [at EXCEPT ![t] = "zero"]
                /\ back' = [back EXCEPT ![t] = back[t]]
             \/ /\ at' = [at EXCEPT ![t] = back[t]]
                /\ back' = [back EXCEPT ![t] = "idle"]
      BY <2>1, LeaveSteps
    <3> QED BY <3>1, <1>0
  <2> QED BY <1>15, <2>1 DEF BeginDisconnectExit
<1>16. CASE EndDisconnectEnter(t)
  BY <1>16, <1>0 DEF EndDisconnectEnter
<1>17. CASE EndDisconnectMinus(t)
  BY <1>17, <1>0 DEF EndDisconnectMinus
<1>18. CASE EndDisconnectExit(t)
  <2>1. CASE Leave(t, "EndDisconnect.exit", "idle", FALSE)
    <3>1. /\ at[t] = "EndDisconnect.exit"
          /\ \/ /\ at' = [at EXCEPT ![t] = "zero"]
                /\ back' = [back EXCEPT ![t] = "idle"]
             \/ /\ at' = [at EXCEPT ![t] = "idle"]
                /\ back' = [back EXCEPT ![t] = "idle"]
      BY <2>1, LeaveSteps
    <3> QED BY <3>1, <1>0
  <2> QED BY <1>18, <2>1 DEF EndDisconnectExit
<1> HIDE DEF RolesFit, Places, IOPlaces, WorkerPlaces, UserPlaces, IOReturns,
            WorkerReturns, UserReturns, Reads, Writes, Retires, InBeginRead,
            PostedRead, LeavesRead, InEndRead, InBeginWrite, PostedWrite,
            LeavesWrite, InEndWrite, InCraft
<1> QED BY <1>1, <1>2, <1>3, <1>4, <1>5, <1>6, <1>7, <1>8, <1>9, <1>10,
           <1>11, <1>12, <1>13, <1>14, <1>15, <1>16, <1>17, <1>18
           DEF Closing

LEMMA RolesRest ==
  ASSUME TypeOK, NEW t \in Threads, Rest(t)
  PROVE  RolesFit'
<1>0. RolesFit
  BY DEF TypeOK
<1> USE PeerAssumption
    DEF RolesFit, Threads, Places, IOPlaces, WorkerPlaces, UserPlaces,
        IOReturns, WorkerReturns, UserReturns, Reads, Writes, Retires,
        InBeginRead, PostedRead, LeavesRead, InEndRead, InBeginWrite,
        PostedWrite, LeavesWrite, InEndWrite, InCraft, Step, counts, flags,
        bricks, calls, pool, locals, Count, Taken, Fail
<1>1. CASE Zero(t)
  BY <1>1, <1>0 DEF Zero
<1>2. CASE Timeout(t)
  BY <1>2, <1>0 DEF Timeout
<1>3. CASE PushBrick(t)
  BY <1>3, <1>0 DEF PushBrick
<1>4. CASE TakeRecv(t, TRUE) \/ TakeRecv(t, FALSE)
  BY <1>4, <1>0 DEF TakeRecv
<1>5. CASE TakeFailure(t)
  BY <1>5, <1>0 DEF TakeFailure
<1>6. CASE TakeSend(t)
  BY <1>6, <1>0 DEF TakeSend, TakeWritten
<1>7. CASE TakeDisc(t)
  BY <1>7, <1>0 DEF TakeDisc, TakeWritten
<1>8. CASE TakeWork(t)
  BY <1>8, <1>0 DEF TakeWork
<1>9. CASE SendTest(t)
  BY <1>9, <1>0 DEF SendTest
<1>10. CASE CloseClient(t)
  BY <1>10, <1>0 DEF CloseClient
<1> QED BY <1>1, <1>2, <1>3, <1>4, <1>5, <1>6, <1>7, <1>8, <1>9, <1>10
           DEF Rest

-----------------------------------------------------------------------------
(* The bricks keep to their type.                                           *)

LEMMA BricksTypedBeginRead ==
  ASSUME TypeOK, HandsFit, NEW t \in Threads, BeginRead(t)
  PROVE  BricksTyped'
<1> USE DEF TypeOK, BricksTyped, HandsFit, FlagsTyped, Carries, Step, counts,
            flags, bricks, calls, pool, locals, Branch, SetFlags, Count,
            Note, Enter, Fail
<1>1. CASE BeginReadEnter(t)
  BY <1>1, KindTyped DEF BeginReadEnter
<1>2. CASE BeginReadTest(t)
  BY <1>2, KindTyped DEF BeginReadTest
<1>3. CASE BeginReadLoad(t)
  BY <1>3, KindTyped DEF BeginReadLoad
<1>4. CASE BeginReadSwitch(t)
  BY <1>4, KindTyped DEF BeginReadSwitch
<1>5. CASE BeginReadCompare(t)
  BY <1>5, KindTyped DEF BeginReadCompare
<1>6. CASE BeginReadRecv(t)
  BY <1>6, KindTyped DEF BeginReadRecv
<1>7. CASE BeginReadOff(t)
  BY <1>7, KindTyped DEF BeginReadOff
<1>8. CASE BeginReadCount(t)
  BY <1>8, KindTyped DEF BeginReadCount
<1>9. CASE BeginReadExit(t)
  BY <1>9, KindTyped, LeaveSteps DEF BeginReadExit, AfterRead
<1> QED BY <1>1, <1>2, <1>3, <1>4, <1>5, <1>6, <1>7, <1>8, <1>9 DEF BeginRead

LEMMA BricksTypedEndRead ==
  ASSUME TypeOK, HandsFit, NEW t \in Threads, EndRead(t)
  PROVE  BricksTyped'
<1> USE DEF TypeOK, BricksTyped, HandsFit, FlagsTyped, Carries, Step, counts,
            flags, bricks, calls, pool, locals, Branch, SetFlags, Count,
            Enter
<1>1. CASE EndReadEnter(t)
  BY <1>1, KindTyped DEF EndReadEnter
<1>2. CASE EndReadMinus(t)
  BY <1>2, KindTyped DEF EndReadMinus
<1>3. CASE EndReadTest(t)
  BY <1>3, KindTyped DEF EndReadTest
<1>4. CASE EndReadWrite(t)
  BY <1>4, KindTyped DEF EndReadWrite
<1>5. CASE EndReadWrote(t)
  BY <1>5, KindTyped DEF EndReadWrote
<1>6. CASE EndReadMode(t)
  BY <1>6, KindTyped DEF EndReadMode, ParallelRead
<1>7. CASE EndReadCount(t)
  BY <1>7, KindTyped DEF EndReadCount
<1>8. CASE EndReadPush(t)
  BY <1>8, KindTyped DEF EndReadPush
<1>9. CASE EndReadExit(t)
  BY <1>9, KindTyped, LeaveSteps DEF EndReadExit
<1> QED BY <1>1, <1>2, <1>3, <1>4, <1>5, <1>6, <1>7, <1>8, <1>9 DEF EndRead

LEMMA BricksTypedBeginWrite ==
  ASSUME TypeOK, HandsFit, NEW t \in Threads, BeginWrite(t)
  PROVE  BricksTyped'
<1> USE DEF TypeOK, BricksTyped, HandsFit, FlagsTyped, Carries, Step, counts,
            flags, bricks, calls, pool, locals, Branch, SetFlags, Count,
            Note, Enter, Fail
<1>1. CASE BeginWriteEnter(t)
  BY <1>1, KindTyped DEF BeginWriteEnter
<1>2. CASE BeginWriteTest(t)
  BY <1>2, KindTyped DEF BeginWriteTest
<1>3. CASE BeginWriteLoad(t)
  BY <1>3, KindTyped DEF BeginWriteLoad
<1>4. CASE BeginWriteSwitch(t)
  BY <1>4, KindTyped DEF BeginWriteSwitch
<1>5. CASE BeginWriteCompare(t)
  BY <1>5, KindTyped DEF BeginWriteCompare
<1>6. CASE PopBrick(t)
  <2>1. CASE queue = <<>>
    BY <1>6, <2>1 DEF PopBrick
  <2>2. CASE queue # <<>>
    <3>1. Head(queue) \in Bricks /\ Tail(queue) \in Seq(Bricks)
      BY <2>2
    <3> QED BY <1>6, <2>2, <3>1 DEF PopBrick
  <2> QED BY <2>1, <2>2
<1>7. CASE BeginWriteAgain(t)
  BY <1>7, KindTyped DEF BeginWriteAgain
<1>8. CASE PushHeadBrick(t)
  BY <1>8, KindTyped DEF PushHeadBrick
<1>9. CASE BeginWriteSend(t)
  BY <1>9, KindTyped DEF BeginWriteSend
<1>10. CASE BeginWriteLast(t)
  BY <1>10, KindTyped DEF BeginWriteLast
<1>11. CASE BeginWriteCount(t)
  BY <1>11, KindTyped DEF BeginWriteCount
<1>12. CASE BeginWriteOff(t)
  BY <1>12, KindTyped DEF BeginWriteOff
<1>13. CASE BeginWriteExit(t)
  BY <1>13, KindTyped, LeaveSteps DEF BeginWriteExit, AfterWrite
<1> HIDE DEF TypeOK, BricksTyped, HandsFit, FlagsTyped, Carries
<1> QED BY <1>1, <1>2, <1>3, <1>4, <1>5, <1>6, <1>7, <1>8, <1>9, <1>10,
           <1>11, <1>12, <1>13
           DEF BeginWrite

LEMMA BricksTypedEndWrite ==
  ASSUME TypeOK, HandsFit, NEW t \in Threads, EndWrite(t)
  PROVE  BricksTyped'
<1> USE DEF TypeOK, BricksTyped, HandsFit, FlagsTyped, Carries, Step, counts,
            flags, bricks, calls, pool, locals, Branch, Count, Enter
<1>1. CASE EndWriteEnter(t)
  BY <1>1, KindTyped DEF EndWriteEnter
<1>2. CASE EndWriteMinus(t)
  BY <1>2, KindTyped DEF EndWriteMinus
<1>3. CASE EndWriteTest(t)
  BY <1>3, KindTyped DEF EndWriteTest
<1>4. CASE EndWriteLast(t)
  BY <1>4, KindTyped DEF EndWriteLast
<1>5. CASE EndWriteNull(t)
  BY <1>5, KindTyped DEF EndWriteNull
<1>6. CASE EndWriteDone(t)
  BY <1>6, KindTyped DEF EndWriteDone
<1>7. CASE EndWriteMore(t)
  BY <1>7, KindTyped DEF EndWriteMore
<1>8. CASE EndWriteExit(t)
  BY <1>8, KindTyped, LeaveSteps DEF EndWriteExit
<1> QED BY <1>1, <1>2, <1>3, <1>4, <1>5, <1>6, <1>7, <1>8 DEF EndWrite

LEMMA BricksTypedCraft ==
  ASSUME TypeOK, HandsFit, NEW t \in Threads, Craft(t)
  PROVE  BricksTyped'
<1> USE DEF TypeOK, BricksTyped, HandsFit, FlagsTyped, Carries, Step, counts,
            flags, bricks, calls, pool, locals, Branch, SetFlags, Count,
            Enter, DestroyNow
<1>1. CASE ExecuteWorker(t)
  BY <1>1, KindTyped DEF ExecuteWorker
<1>2. CASE CraftEnter(t)
  BY <1>2, KindTyped DEF CraftEnter
<1>3. CASE CraftTest(t)
  BY <1>3, KindTyped DEF CraftTest
<1>4. CASE CraftCrash(t)
  BY <1>4, KindTyped DEF CraftCrash
<1>5. CASE CraftRead(t)
  BY <1>5, KindTyped DEF CraftRead
<1>6. CASE CraftContinue(t)
  BY <1>6, KindTyped DEF CraftContinue
<1>7. CASE CraftReturn(t)
  BY <1>7, KindTyped DEF CraftReturn
<1>8. CASE CraftRetire(t)
  BY <1>8, KindTyped DEF CraftRetire
<1>9. CASE RetireLoad(t)
  BY <1>9, KindTyped DEF RetireLoad
<1>10. CASE RetireCompare(t)
  BY <1>10, KindTyped DEF RetireCompare
<1>11. CASE CraftClose(t)
  BY <1>11, KindTyped DEF CraftClose
<1>12. CASE CraftJoin(t)
  BY <1>12, KindTyped DEF CraftJoin, SerialRead
<1>13. CASE CraftExit(t)
  BY <1>13, KindTyped, LeaveSteps DEF CraftExit
<1> HIDE DEF TypeOK, BricksTyped, HandsFit, FlagsTyped, Carries
<1> QED BY <1>1, <1>2, <1>3, <1>4, <1>5, <1>6, <1>7, <1>8, <1>9, <1>10,
           <1>11, <1>12, <1>13
           DEF Craft

LEMMA BricksTypedClosing ==
  ASSUME TypeOK, HandsFit, NEW t \in Threads, Closing(t)
  PROVE  BricksTyped'
<1> USE DEF TypeOK, BricksTyped, HandsFit, FlagsTyped, Carries, Step, counts,
            flags, bricks, calls, pool, locals, Branch, SetFlags, Count,
            Enter, DestroyNow, Fail
<1>1. CASE HandleErrorNotify(t)
  BY <1>1, KindTyped DEF HandleErrorNotify, AfterRead, AfterWrite
<1>2. CASE HandleErrorDestroy(t)
  BY <1>2, KindTyped DEF HandleErrorDestroy, AfterRead, AfterWrite
<1>3. CASE Destroy(t)
  BY <1>3, KindTyped DEF Destroy
<1>4. CASE Unavailable(t)
  BY <1>4, KindTyped DEF Unavailable
<1>5. CASE UnavailableFlag(t)
  BY <1>5, KindTyped DEF UnavailableFlag
<1>6. CASE Close(t)
  BY <1>6, KindTyped DEF Close
<1>7. CASE Closesocket(t)
  BY <1>7, KindTyped DEF Closesocket
<1>8. CASE ReclaimUnlist(t)
  BY <1>8, KindTyped DEF ReclaimUnlist
<1>9. CASE ReclaimDisp(t)
  BY <1>9 DEF ReclaimDisp, Range
<1>10. CASE ReclaimPeer(t)
  BY <1>10, KindTyped DEF ReclaimPeer
<1>11. CASE BeginDisconnectEnter(t)
  BY <1>11, KindTyped DEF BeginDisconnectEnter
<1>12. CASE BeginDisconnectOp(t)
  BY <1>12, KindTyped DEF BeginDisconnectOp
<1>13. CASE BeginDisconnectCall(t)
  BY <1>13, KindTyped DEF BeginDisconnectCall
<1>14. CASE BeginDisconnectCount(t)
  BY <1>14, KindTyped DEF BeginDisconnectCount
<1>15. CASE BeginDisconnectExit(t)
  BY <1>15, KindTyped, LeaveSteps DEF BeginDisconnectExit
<1>16. CASE EndDisconnectEnter(t)
  BY <1>16, KindTyped DEF EndDisconnectEnter
<1>17. CASE EndDisconnectMinus(t)
  BY <1>17, KindTyped DEF EndDisconnectMinus
<1>18. CASE EndDisconnectExit(t)
  BY <1>18, KindTyped, LeaveSteps DEF EndDisconnectExit
<1> HIDE DEF TypeOK, BricksTyped, HandsFit, FlagsTyped, Carries
<1> QED BY <1>1, <1>2, <1>3, <1>4, <1>5, <1>6, <1>7, <1>8, <1>9, <1>10,
           <1>11, <1>12, <1>13, <1>14, <1>15, <1>16, <1>17, <1>18
           DEF Closing

LEMMA BricksTypedRest ==
  ASSUME TypeOK, HandsFit, NEW t \in Threads, Rest(t)
  PROVE  BricksTyped'
<1> USE DEF TypeOK, BricksTyped, HandsFit, FlagsTyped, Carries, Step, counts,
            flags, bricks, calls, pool, locals, Count, Taken, Fail
<1>1. CASE Zero(t)
  BY <1>1, KindTyped DEF Zero
<1>2. CASE Timeout(t)
  BY <1>2, KindTyped DEF Timeout
<1>3. CASE PushBrick(t)
  BY <1>3, KindTyped DEF PushBrick
<1>4. CASE TakeRecv(t, TRUE) \/ TakeRecv(t, FALSE)
  BY <1>4, KindTyped DEF TakeRecv
<1>5. CASE TakeFailure(t)
  BY <1>5, KindTyped DEF TakeFailure
<1>6. CASE TakeSend(t)
  BY <1>6, KindTyped DEF TakeSend, TakeWritten
<1>7. CASE TakeDisc(t)
  BY <1>7, KindTyped DEF TakeDisc, TakeWritten
<1>8. CASE TakeWork(t)
  BY <1>8, KindTyped DEF TakeWork
<1>9. CASE SendTest(t)
  BY <1>9, KindTyped DEF SendTest
<1>10. CASE CloseClient(t)
  BY <1>10, KindTyped DEF CloseClient
<1> QED BY <1>1, <1>2, <1>3, <1>4, <1>5, <1>6, <1>7, <1>8, <1>9, <1>10
           DEF Rest

-----------------------------------------------------------------------------
(* What the threads have in hand.                                           *)

LEMMA HandsBeginRead ==
  ASSUME TypeOK, HandsFit, NEW t \in Threads, BeginRead(t)
  PROVE  HandsFit' /\ (Unsent => Unsent')
<1> USE DEF Step, counts, flags, bricks, calls, pool, locals, Branch,
            SetFlags, Count, Note, Enter, Fail
<1>0. /\ RolesFit /\ at \in [Threads -> Places]
      /\ hand \in [Threads -> Bricks \cup {NoBrick}] /\ made \subseteq Bricks
      /\ queue \in Seq(Bricks)
  BY DEF TypeOK, RolesFit, BricksTyped
<1>1. CASE BeginReadEnter(t)
  BY <1>1, <1>0, EmptyHanded DEF BeginReadEnter, Carries
<1>2. CASE BeginReadTest(t)
  BY <1>2, <1>0, EmptyHanded DEF BeginReadTest, Carries
<1>3. CASE BeginReadLoad(t)
  BY <1>3, <1>0, EmptyHanded DEF BeginReadLoad, Carries
<1>4. CASE BeginReadSwitch(t)
  BY <1>4, <1>0, EmptyHanded DEF BeginReadSwitch, Carries
<1>5. CASE BeginReadCompare(t)
  BY <1>5, <1>0, EmptyHanded DEF BeginReadCompare, Carries
<1>6. CASE BeginReadRecv(t)
  BY <1>6, <1>0, EmptyHanded DEF BeginReadRecv, Carries
<1>7. CASE BeginReadOff(t)
  BY <1>7, <1>0, EmptyHanded DEF BeginReadOff, Carries
<1>8. CASE BeginReadCount(t)
  BY <1>8, <1>0, EmptyHanded DEF BeginReadCount, Carries
<1>9. CASE BeginReadExit(t)
  <2>1. /\ at[t] \in {"BeginRead.exit", "BeginRead.failed"}
        /\ at'[t] \in {"zero", AfterRead(t), "HandleError.read"}
        /\ \A u \in Threads \ {t} : at'[u] = at[u]
        /\ UNCHANGED <<hand, made, queue, sent, sends>>
    BY <1>9, <1>0, LeaveMoves DEF BeginReadExit
  <2> QED BY <2>1, EmptyHanded, AfterPlaces DEF Carries
<1> QED BY <1>1, <1>2, <1>3, <1>4, <1>5, <1>6, <1>7, <1>8, <1>9 DEF BeginRead

LEMMA HandsEndRead ==
  ASSUME TypeOK, HandsFit, NEW t \in Threads, EndRead(t)
  PROVE  HandsFit' /\ (Unsent => Unsent')
<1> USE DEF Step, counts, flags, bricks, calls, pool, locals, Branch,
            SetFlags, Count, Enter
<1>0. /\ RolesFit /\ at \in [Threads -> Places]
      /\ hand \in [Threads -> Bricks \cup {NoBrick}] /\ made \subseteq Bricks
      /\ queue \in Seq(Bricks)
  BY DEF TypeOK, RolesFit, BricksTyped
<1>1. CASE EndReadEnter(t)
  BY <1>1, <1>0, EmptyHanded DEF EndReadEnter, Carries
<1>2. CASE EndReadMinus(t)
  BY <1>2, <1>0, EmptyHanded DEF EndReadMinus, Carries
<1>3. CASE EndReadTest(t)
  BY <1>3, <1>0, EmptyHanded DEF EndReadTest, Carries
<1>4. CASE EndReadWrite(t)
  BY <1>4, <1>0, EmptyHanded DEF EndReadWrite, Carries
<1>5. CASE EndReadWrote(t)
  BY <1>5, <1>0, EmptyHanded DEF EndReadWrote, Carries
<1>6. CASE EndReadMode(t)
  BY <1>6, <1>0, EmptyHanded DEF EndReadMode, ParallelRead, Carries
<1>7. CASE EndReadCount(t)
  BY <1>7, <1>0, EmptyHanded DEF EndReadCount, Carries
<1>8. CASE EndReadPush(t)
  BY <1>8, <1>0, EmptyHanded DEF EndReadPush, Carries
<1>9. CASE EndReadExit(t)
  <2>1. /\ at[t] = "EndRead.exit" /\ at'[t] \in {"zero", "idle"}
        /\ \A u \in Threads \ {t} : at'[u] = at[u]
        /\ UNCHANGED <<hand, made, queue, sent, sends>>
    BY <1>9, <1>0, LeaveMoves DEF EndReadExit
  <2> QED BY <2>1, EmptyHanded DEF Carries
<1> QED BY <1>1, <1>2, <1>3, <1>4, <1>5, <1>6, <1>7, <1>8, <1>9 DEF EndRead

LEMMA HandsBeginWrite ==
  ASSUME TypeOK, HandsFit, NEW t \in Threads, BeginWrite(t)
  PROVE  HandsFit' /\ (Unsent => Unsent')
<1> USE DEF Step, counts, flags, bricks, calls, pool, locals, Branch,
            SetFlags, Count, Note, Enter
<1>0. /\ RolesFit /\ at \in [Threads -> Places]
      /\ hand \in [Threads -> Bricks \cup {NoBrick}] /\ made \subseteq Bricks
      /\ queue \in Seq(Bricks)
  BY DEF TypeOK, RolesFit, BricksTyped
<1>1. CASE BeginWriteEnter(t)
  BY <1>1, <1>0, EmptyHanded DEF BeginWriteEnter, Carries
<1>2. CASE BeginWriteTest(t)
  BY <1>2, <1>0, EmptyHanded DEF BeginWriteTest, Carries
<1>3. CASE BeginWriteLoad(t)
  BY <1>3, <1>0, EmptyHanded DEF BeginWriteLoad, Carries
<1>4. CASE BeginWriteSwitch(t)
  BY <1>4, <1>0, EmptyHanded DEF BeginWriteSwitch, Carries
<1>5. CASE BeginWriteCompare(t)
  BY <1>5, <1>0, EmptyHanded DEF BeginWriteCompare, Carries
<1>6. CASE PopBrick(t)
  <2>1. CASE queue = <<>>
    <3>1. /\ at[t] = "BeginWrite.pop" /\ at'[t] = "BeginWrite.off"
          /\ \A u \in Threads \ {t} : at'[u] = at[u]
          /\ UNCHANGED <<hand, made, queue, sent, sends>>
      BY <1>6, <1>0, <2>1 DEF PopBrick
    <3> QED BY <3>1, EmptyHanded DEF Carries
  <2>2. CASE queue # <<>>
    <3>1. /\ at[t] = "BeginWrite.pop" /\ at'[t] = "BeginWrite.again"
          /\ \A u \in Threads \ {t} : at'[u] = at[u] /\ hand'[u] = hand[u]
          /\ hand'[t] = queue[1] /\ UNCHANGED <<made, sent, sends>>
      BY <1>6, <1>0, <2>2 DEF PopBrick
    <3>2. /\ 1 \in DOMAIN queue
          /\ \A i \in DOMAIN queue' :
               /\ i \in Nat /\ i + 1 \in DOMAIN queue /\ i + 1 # 1
               /\ queue'[i] = queue[i + 1]
      BY <1>6, <1>0, <2>2 DEF PopBrick
    <3>3. HandsFit'
      BY <3>1, <3>2 DEF HandsFit, Carries
    <3>4. ASSUME Unsent PROVE Unsent'
      BY <3>1, <3>2, <3>4 DEF Unsent, Carries
    <3> QED BY <3>3, <3>4
  <2> QED BY <2>1, <2>2
<1>7. CASE BeginWriteAgain(t)
  <2>1. /\ at[t] \in Carries /\ at'[t] \in Carries
        /\ \A u \in Threads \ {t} : at'[u] = at[u]
        /\ UNCHANGED <<hand, made, queue, sent, sends>>
    BY <1>7, <1>0 DEF BeginWriteAgain, Carries
  <2> QED BY <2>1, StillInHand
<1>8. CASE PushHeadBrick(t)
  <2>1. /\ at[t] \in Carries
        /\ at'[t] \in {"BeginWrite.off", "BeginWrite.error"}
        /\ \A u \in Threads \ {t} : at'[u] = at[u] /\ hand'[u] = hand[u]
        /\ hand'[t] = NoBrick /\ UNCHANGED <<made, sent, sends>>
    BY <1>8, <1>0 DEF PushHeadBrick, Carries
  <2>2. hand[t] \in Bricks
    BY <1>0, <2>1 DEF HandsFit
  <2>3. /\ queue' = <<hand[t]>> \o queue
        /\ \A i \in DOMAIN queue' :
             \/ i = 1 /\ queue'[i] = hand[t]
             \/ /\ i \in Nat /\ i - 1 \in DOMAIN queue
                /\ queue'[i] = queue[i - 1]
    BY <1>8, <1>0, <2>2 DEF PushHeadBrick
  <2>4. HandsFit'
    BY <2>1, <2>3 DEF HandsFit, Carries
  <2>5. ASSUME Unsent PROVE Unsent'
    <3>1. \A i \in DOMAIN queue : queue[i] \notin sent /\ queue[i] # hand[t]
      BY <2>1, <2>5 DEF Unsent
    <3>2. /\ \A i \in DOMAIN queue' : queue'[i] \notin sent'
          /\ hand[t] \notin sent
      BY <2>1, <2>3, <2>5, <3>1 DEF Unsent
    <3>3. \A i, j \in DOMAIN queue' : i # j => queue'[i] # queue'[j]
      BY <2>3, <2>5, <3>1 DEF Unsent
    <3>4. \A u \in Threads : at'[u] \in Carries =>
            /\ u # t /\ hand'[u] = hand[u] /\ hand[u] # hand[t]
            /\ at[u] \in Carries
      BY <2>1, <2>5 DEF Unsent, Carries
    <3>5. \A u \in Threads : at'[u] \in Carries =>
            /\ hand'[u] \notin sent'
            /\ \A i \in DOMAIN queue' : queue'[i] # hand'[u]
            /\ \A v \in Threads \ {u} :
                 at'[v] \in Carries => hand'[v] # hand'[u]
      BY <2>1, <2>3, <2>5, <3>4 DEF Unsent
    <3> QED BY <3>2, <3>3, <3>5 DEF Unsent
  <2> QED BY <2>4, <2>5
<1>9. CASE BeginWriteSend(t)
  <2>1. /\ at[t] \in Carries /\ UNCHANGED <<hand, made, queue>>
        /\ \A u \in Threads \ {t} : at'[u] = at[u]
    BY <1>9, <1>0 DEF BeginWriteSend, Carries
  <2>2. CASE at'[t] \in Carries /\ UNCHANGED <<sent, sends>>
    BY <2>1, <2>2, StillInHand
  <2>3. CASE /\ at'[t] = "BeginWrite.last"
             /\ sends' = sends \cup {hand[t]} /\ sent' = sent \cup {hand[t]}
    <3>1. HandsFit'
      BY <2>1, <2>3 DEF HandsFit, Carries
    <3>2. ASSUME Unsent PROVE Unsent'
      BY <2>1, <2>3, <3>2 DEF Unsent, Carries
    <3> QED BY <3>1, <3>2
  <2> QED BY <1>9, <1>0, <2>2, <2>3 DEF BeginWriteSend, Carries
<1>10. CASE BeginWriteLast(t)
  <2>1. /\ at[t] = "BeginWrite.last" /\ at'[t] = "BeginWrite.count"
        /\ \A u \in Threads \ {t} : at'[u] = at[u] /\ hand'[u] = hand[u]
        /\ hand'[t] = NoBrick /\ UNCHANGED <<made, queue, sent, sends>>
    BY <1>10, <1>0 DEF BeginWriteLast
  <2> QED BY <2>1, Released DEF Carries
<1>11. CASE BeginWriteCount(t)
  BY <1>11, <1>0, EmptyHanded DEF BeginWriteCount, Carries
<1>12. CASE BeginWriteOff(t)
  BY <1>12, <1>0, EmptyHanded DEF BeginWriteOff, Carries
<1>13. CASE BeginWriteExit(t)
  <2>1. /\ at[t] \in {"BeginWrite.exit", "BeginWrite.failed"}
        /\ at'[t] \in {"zero", AfterWrite(t), "HandleError.write"}
        /\ \A u \in Threads \ {t} : at'[u] = at[u]
        /\ UNCHANGED <<hand, made, queue, sent, sends>>
    BY <1>13, <1>0, LeaveMoves DEF BeginWriteExit
  <2> QED BY <2>1, EmptyHanded, AfterPlaces DEF Carries
<1> QED BY <1>1, <1>2, <1>3, <1>4, <1>5, <1>6, <1>7, <1>8, <1>9, <1>10,
           <1>11, <1>12, <1>13
           DEF BeginWrite

LEMMA HandsEndWrite ==
  ASSUME TypeOK, HandsFit, NEW t \in Threads, EndWrite(t)
  PROVE  HandsFit' /\ (Unsent => Unsent')
<1> USE DEF Step, counts, flags, bricks, calls, pool, locals, Branch, Count,
            Enter
<1>0. /\ RolesFit /\ at \in [Threads -> Places]
      /\ hand \in [Threads -> Bricks \cup {NoBrick}] /\ made \subseteq Bricks
      /\ queue \in Seq(Bricks)
  BY DEF TypeOK, RolesFit, BricksTyped
<1>1. CASE EndWriteEnter(t)
  BY <1>1, <1>0, EmptyHanded DEF EndWriteEnter, Carries
<1>2. CASE EndWriteMinus(t)
  BY <1>2, <1>0, EmptyHanded DEF EndWriteMinus, Carries
<1>3. CASE EndWriteTest(t)
  BY <1>3, <1>0, EmptyHanded DEF EndWriteTest, Carries
<1>4. CASE EndWriteLast(t)
  <2>1. /\ at[t] = "EndWrite.last" /\ at'[t] = "EndWrite.null"
        /\ \A u \in Threads \ {t} : at'[u] = at[u] /\ hand'[u] = hand[u]
        /\ UNCHANGED <<made, queue, sent, sends>>
    BY <1>4, <1>0 DEF EndWriteLast
  <2> QED BY <2>1, Released DEF Carries
<1>5. CASE EndWriteNull(t)
  <2>1. /\ at[t] = "EndWrite.null" /\ at'[t] = "EndWrite.done"
        /\ \A u \in Threads \ {t} : at'[u] = at[u] /\ hand'[u] = hand[u]
        /\ UNCHANGED <<made, queue, sent, sends>>
    BY <1>5, <1>0 DEF EndWriteNull
  <2> QED BY <2>1, Released DEF Carries
<1>6. CASE EndWriteDone(t)
  <2>1. /\ at[t] = "EndWrite.done" /\ at'[t] = "EndWrite.more"
        /\ \A u \in Threads \ {t} : at'[u] = at[u] /\ hand'[u] = hand[u]
        /\ hand'[t] = NoBrick /\ UNCHANGED <<made, queue, sent, sends>>
    BY <1>6, <1>0 DEF EndWriteDone
  <2> QED BY <2>1, Released DEF Carries
<1>7. CASE EndWriteMore(t)
  BY <1>7, <1>0, EmptyHanded DEF EndWriteMore, Carries
<1>8. CASE EndWriteExit(t)
  <2>1. /\ at[t] = "EndWrite.exit" /\ at'[t] \in {"zero", "idle"}
        /\ \A u \in Threads \ {t} : at'[u] = at[u]
        /\ UNCHANGED <<hand, made, queue, sent, sends>>
    BY <1>8, <1>0, LeaveMoves DEF EndWriteExit
  <2> QED BY <2>1, EmptyHanded DEF Carries
<1> QED BY <1>1, <1>2, <1>3, <1>4, <1>5, <1>6, <1>7, <1>8 DEF EndWrite

LEMMA HandsCraft ==
  ASSUME TypeOK, HandsFit, NEW t \in Threads, Craft(t)
  PROVE  HandsFit' /\ (Unsent => Unsent')
<1> USE DEF Step, counts, flags, bricks, calls, pool, locals, Branch,
            SetFlags, Count, Enter, DestroyNow
<1>0. /\ RolesFit /\ at \in [Threads -> Places]
      /\ hand \in [Threads -> Bricks \cup {NoBrick}] /\ made \subseteq Bricks
      /\ queue \in Seq(Bricks)
  BY DEF TypeOK, RolesFit, BricksTyped
<1>1. CASE ExecuteWorker(t)
  BY <1>1, <1>0, EmptyHanded DEF ExecuteWorker, Carries
<1>2. CASE CraftEnter(t)
  BY <1>2, <1>0, EmptyHanded DEF CraftEnter, Carries
<1>3. CASE CraftTest(t)
  BY <1>3, <1>0, EmptyHanded DEF CraftTest, Carries
<1>4. CASE CraftCrash(t)
  BY <1>4, <1>0, EmptyHanded DEF CraftCrash, Carries
<1>5. CASE CraftRead(t)
  BY <1>5, <1>0, EmptyHanded DEF CraftRead, Carries
<1>6. CASE CraftContinue(t)
  <2>1. PICK b \in kind.bricks \ made :
          /\ at'[t] = "Craft.return" /\ made' = made \cup {b}
          /\ \A u \in Threads \ {t} : at'[u] = at[u] /\ hand'[u] = hand[u]
          /\ hand'[t] = b /\ UNCHANGED <<queue, sent, sends>>
    BY <1>6, <1>0 DEF CraftContinue
  <2> QED BY <2>1, NewInHand DEF Carries
<1>7. CASE CraftReturn(t)
  <2>1. CASE closeFlag = {}
    <3>1. /\ at[t] \in Carries /\ at'[t] \in Carries
          /\ \A u \in Threads \ {t} : at'[u] = at[u]
          /\ UNCHANGED <<hand, made, queue, sent, sends>>
      BY <1>7, <1>0, <2>1 DEF CraftReturn, Carries
    <3> QED BY <3>1, StillInHand
  <2>2. CASE closeFlag # {}
    <3>1. /\ at'[t] = "Craft.join"
          /\ \A u \in Threads \ {t} : at'[u] = at[u] /\ hand'[u] = hand[u]
          /\ hand'[t] = NoBrick /\ UNCHANGED <<made, queue, sent, sends>>
      BY <1>7, <1>0, <2>2 DEF CraftReturn
    <3> QED BY <3>1, Released DEF Carries
  <2> QED BY <2>1, <2>2
<1>8. CASE CraftRetire(t)
  BY <1>8, <1>0, EmptyHanded DEF CraftRetire, Carries
<1>9. CASE RetireLoad(t)
  BY <1>9, <1>0, EmptyHanded DEF RetireLoad, Carries
<1>10. CASE RetireCompare(t)
  BY <1>10, <1>0, EmptyHanded DEF RetireCompare, Carries
<1>11. CASE CraftClose(t)
  BY <1>11, <1>0, EmptyHanded DEF CraftClose, Carries
<1>12. CASE CraftJoin(t)
  BY <1>12, <1>0, EmptyHanded DEF CraftJoin, SerialRead, Carries
<1>13. CASE CraftExit(t)
  <2>1. /\ at[t] = "Craft.exit" /\ at'[t] \in {"zero", "idle"}
        /\ \A u \in Threads \ {t} : at'[u] = at[u]
        /\ UNCHANGED <<hand, made, queue, sent, sends>>
    BY <1>13, <1>0, LeaveMoves DEF CraftExit
  <2> QED BY <2>1, EmptyHanded DEF Carries
<1> QED BY <1>1, <1>2, <1>3, <1>4, <1>5, <1>6, <1>7, <1>8, <1>9, <1>10,
           <1>11, <1>12, <1>13
           DEF Craft

LEMMA HandsClosing ==
  ASSUME TypeOK, HandsFit, NEW t \in Threads, Closing(t)
  PROVE  HandsFit' /\ (Unsent => Unsent')
<1> USE DEF Step, counts, flags, bricks, calls, pool, locals, Branch,
            SetFlags, Count, Enter, DestroyNow, Fail, IOReturns,
            WorkerReturns, UserReturns
<1>0. /\ RolesFit /\ at \in [Threads -> Places]
      /\ hand \in [Threads -> Bricks \cup {NoBrick}] /\ made \subseteq Bricks
      /\ queue \in Seq(Bricks)
  BY DEF TypeOK, RolesFit, BricksTyped
<1>1. CASE HandleErrorNotify(t)
  <2>1. /\ at[t] \in {"HandleError.read", "HandleError.write"}
        /\ at'[t] \in {AfterRead(t), AfterWrite(t)}
        /\ \A u \in Threads \ {t} : at'[u] = at[u]
        /\ UNCHANGED <<hand, made, queue, sent, sends>>
    BY <1>1, <1>0 DEF HandleErrorNotify
  <2> QED BY <2>1, AfterPlaces, EmptyHanded DEF Carries
<1>2. CASE HandleErrorDestroy(t)
  BY <1>2, <1>0, EmptyHanded
     DEF HandleErrorDestroy, AfterRead, AfterWrite, Carries
<1>3. CASE Destroy(t)
  BY <1>3, <1>0, EmptyHanded DEF Destroy, Carries
<1>4. CASE Unavailable(t)
  BY <1>4, <1>0, EmptyHanded DEF Unavailable, Carries
<1>5. CASE UnavailableFlag(t)
  BY <1>5, <1>0, EmptyHanded DEF UnavailableFlag, Carries
<1>6. CASE Close(t)
  BY <1>6, <1>0, EmptyHanded DEF Close, Carries
<1>7. CASE Closesocket(t)
  BY <1>7, <1>0, EmptyHanded DEF Closesocket, Carries
<1>8. CASE ReclaimUnlist(t)
  BY <1>8, <1>0, EmptyHanded DEF ReclaimUnlist, Carries
<1>9. CASE ReclaimDisp(t)
  <2>1. /\ hand[t] = NoBrick /\ queue' = <<>>
        /\ UNCHANGED <<hand, made, sent, sends>>
    BY <1>9, <1>0 DEF ReclaimDisp, HandsFit, Carries
  <2>2. /\ at'[t] = "Reclaim.peer"
        /\ \A u \in Threads \ {t} : at'[u] = at[u]
    BY <1>9, <1>0 DEF ReclaimDisp
  <2>3. HandsFit'
    BY <2>1, <2>2 DEF HandsFit, Carries
  <2>4. Unsent => Unsent'
    BY <2>1, <2>2 DEF Unsent, Carries
  <2> QED BY <2>3, <2>4
<1>10. CASE ReclaimPeer(t)
  <2>1. /\ at[t] = "Reclaim.peer" /\ at'[t] \in {back[t]}
        /\ \A u \in Threads \ {t} : at'[u] = at[u]
        /\ UNCHANGED <<hand, made, queue, sent, sends>>
    BY <1>10, <1>0 DEF ReclaimPeer
  <2> QED BY <2>1, <1>0, EmptyHanded, ReturnPlaces DEF Carries
<1>11. CASE BeginDisconnectEnter(t)
  BY <1>11, <1>0, EmptyHanded DEF BeginDisconnectEnter, Carries
<1>12. CASE BeginDisconnectOp(t)
  BY <1>12, <1>0, EmptyHanded DEF BeginDisconnectOp, Carries
<1>13. CASE BeginDisconnectCall(t)
  BY <1>13, <1>0, EmptyHanded DEF BeginDisconnectCall, Carries
<1>14. CASE BeginDisconnectCount(t)
  BY <1>14, <1>0, EmptyHanded DEF BeginDisconnectCount, Carries
<1>15. CASE BeginDisconnectExit(t)
  <2>1. /\ at[t] = "BeginDisconnect.exit" /\ at'[t] \in {"zero", back[t]}
        /\ \A u \in Threads \ {t} : at'[u] = at[u]
        /\ UNCHANGED <<hand, made, queue, sent, sends>>
    BY <1>15, <1>0, LeaveMoves DEF BeginDisconnectExit
  <2> QED BY <2>1, EmptyHanded, ReturnPlaces, <1>0 DEF Carries
<1>16. CASE EndDisconnectEnter(t)
  BY <1>16, <1>0, EmptyHanded DEF EndDisconnectEnter, Carries
<1>17. CASE EndDisconnectMinus(t)
  BY <1>17, <1>0, EmptyHanded DEF EndDisconnectMinus, Carries
<1>18. CASE EndDisconnectExit(t)
  <2>1. /\ at[t] = "EndDisconnect.exit" /\ at'[t] \in {"zero", "idle"}
        /\ \A u \in Threads \ {t} : at'[u] = at[u]
        /\ UNCHANGED <<hand, made, queue, sent, sends>>
    BY <1>18, <1>0, LeaveMoves DEF EndDisconnectExit
  <2> QED BY <2>1, EmptyHanded DEF Carries
<1> QED BY <1>1, <1>2, <1>3, <1>4, <1>5, <1>6, <1>7, <1>8, <1>9, <1>10,
           <1>11, <1>12, <1>13, <1>14, <1>15, <1>16, <1>17, <1>18
           DEF Closing

LEMMA HandsRest ==
  ASSUME TypeOK, HandsFit, NEW t \in Threads, Rest(t)
  PROVE  HandsFit' /\ (Unsent => Unsent')
<1> USE DEF Step, counts, flags, bricks, calls, pool, locals, Count, Taken,
            Fail, IOReturns, WorkerReturns, UserReturns
<1>0. /\ RolesFit /\ at \in [Threads -> Places]
      /\ hand \in [Threads -> Bricks \cup {NoBrick}] /\ made \subseteq Bricks
      /\ queue \in Seq(Bricks)
  BY DEF TypeOK, RolesFit, BricksTyped
<1>1. CASE Zero(t)
  <2>1. /\ at[t] = "zero" /\ at'[t] \in {back[t], "Close"}
        /\ \A u \in Threads \ {t} : at'[u] = at[u]
        /\ UNCHANGED <<hand, made, queue, sent, sends>>
    BY <1>1, <1>0 DEF Zero
  <2> QED BY <2>1, <1>0, EmptyHanded, ReturnPlaces DEF Carries
<1>2. CASE Timeout(t)
  BY <1>2, <1>0, EmptyHanded DEF Timeout, Carries
<1>3. CASE PushBrick(t)
  <2>1. /\ at[t] \in Carries /\ at'[t] = "BeginWrite"
        /\ \A u \in Threads \ {t} : at'[u] = at[u] /\ hand'[u] = hand[u]
        /\ hand'[t] = NoBrick /\ UNCHANGED <<made, sent, sends>>
    BY <1>3, <1>0 DEF PushBrick, Carries
  <2>2. hand[t] \in Bricks
    BY <1>0, <2>1 DEF HandsFit
  <2>3. \A i \in DOMAIN queue' :
          \/ i \in DOMAIN queue /\ queue'[i] = queue[i]
          \/ i = Len(queue) + 1 /\ queue'[i] = hand[t]
    BY <1>3, <1>0, <2>2 DEF PushBrick
  <2>4. HandsFit'
    BY <2>1, <2>3 DEF HandsFit, Carries
  <2>5. ASSUME Unsent PROVE Unsent'
    BY <2>1, <2>3, <2>5 DEF Unsent, Carries
  <2> QED BY <2>4, <2>5
<1>4. CASE TakeRecv(t, TRUE) \/ TakeRecv(t, FALSE)
  BY <1>4, <1>0, EmptyHanded DEF TakeRecv, Carries
<1>5. CASE TakeFailure(t)
  BY <1>5, <1>0, EmptyHanded DEF TakeFailure, Carries
<1>6. CASE TakeSend(t)
  BY <1>6, <1>0, EmptyHanded DEF TakeSend, TakeWritten, Carries
<1>7. CASE TakeDisc(t)
  BY <1>7, <1>0, EmptyHanded DEF TakeDisc, TakeWritten, Carries
<1>8. CASE TakeWork(t)
  BY <1>8, <1>0, EmptyHanded DEF TakeWork, Carries
<1>9. CASE SendTest(t)
  <2>1. PICK b \in kind.bricks \ made :
          /\ at'[t] = "Send.push" /\ made' = made \cup {b}
          /\ \A u \in Threads \ {t} : at'[u] = at[u] /\ hand'[u] = hand[u]
          /\ hand'[t] = b /\ UNCHANGED <<queue, sent, sends>>
    BY <1>9, <1>0 DEF SendTest
  <2> QED BY <2>1, NewInHand DEF Carries
<1>10. CASE CloseClient(t)
  BY <1>10, <1>0, EmptyHanded DEF CloseClient, Carries
<1> QED BY <1>1, <1>2, <1>3, <1>4, <1>5, <1>6, <1>7, <1>8, <1>9, <1>10
           DEF Rest

-----------------------------------------------------------------------------
(* The chain of reads, step by step.                                        *)

LEMMA ReadsBeginRead ==
  ASSUME TypeOK, ReadInv, NEW t \in Threads, BeginRead(t)
  PROVE  ReadInv'
<1> USE DEF Step, counts, flags, bricks, calls, pool, locals, Branch,
            SetFlags, Count, Note, Enter, Fail, Reads, Retires, InBeginRead,
            PostedRead, LeavesRead, InEndRead, InBeginWrite, PostedWrite,
            LeavesWrite, InCraft, Closers, Writing
<1>0. /\ RolesFit /\ at \in [Threads -> Places]
      /\ back \in [Threads -> Places]
      /\ seen \in [Threads -> BOOLEAN] /\ reading \in BOOLEAN
  BY DEF TypeOK, RolesFit, FlagsTyped
<1>c. failures \in Nat
  BY KindTyped DEF TypeOK, CountsTyped, FlagsTyped
<1>1. CASE BeginReadEnter(t)
  <2>1. /\ at[t] = "BeginRead" /\ at'[t] = "BeginRead.test"
        /\ back'[t] = back[t]
        /\ Alone(t) /\ Quiet /\ (OnlySerial' <=> OnlySerial) /\ NoRead
        /\ recvs' = recvs
    BY <1>1, <1>0 DEF BeginReadEnter, Alone, Quiet, NoRead, Open, OnlySerial
  <2> QED BY <2>1, <1>0, Aside DEF Plain, Ready, Place, Rereads
<1>2. CASE BeginReadTest(t)
  <2>1. /\ at[t] = "BeginRead.test"
        /\ at'[t] \in {"BeginRead.exit", "BeginRead.load"}
        /\ back'[t] = back[t]
        /\ Alone(t) /\ Quiet /\ (OnlySerial' <=> OnlySerial) /\ NoRead
        /\ recvs' = recvs
        /\ (at'[t] = "BeginRead.exit" => reading \/ closeFlag' # {})
    BY <1>2, <1>0 DEF BeginReadTest, Alone, Quiet, NoRead, Open, OnlySerial
  <2>2. CASE at'[t] = "BeginRead.exit"
    BY <2>1, <2>2, <1>0, Ends, RecvsStay, ReadFacts
       DEF Plain, Ready, Place, Rereads
  <2>3. CASE at'[t] = "BeginRead.load"
    BY <2>1, <2>3, <1>0, Aside DEF Plain, Ready, Place, Rereads
  <2> QED BY <2>1, <2>2, <2>3
<1>3. CASE BeginReadLoad(t)
  <2>1. /\ at[t] = "BeginRead.load" /\ at'[t] = "BeginRead.switch"
        /\ back'[t] = back[t]
        /\ Alone(t) /\ Quiet /\ (OnlySerial' <=> OnlySerial) /\ NoRead
        /\ recvs' = recvs /\ seen'[t] = reading
    BY <1>3, <1>0 DEF BeginReadLoad, Alone, Quiet, NoRead, Open, OnlySerial
  <2> QED BY <2>1, <1>0, Aside, ReadFacts DEF Plain, Ready, Place, Rereads
<1>4. CASE BeginReadSwitch(t)
  <2>1. /\ at[t] = "BeginRead.switch" /\ at'[t] = "BeginRead.compare"
        /\ back'[t] = back[t]
        /\ Alone(t) /\ Quiet /\ (OnlySerial' <=> OnlySerial)
        /\ seen'[t] = seen[t] /\ recvs' = recvs /\ listWork' = listWork
    BY <1>4, <1>0 DEF BeginReadSwitch, Alone, Quiet, NoRead, Open, OnlySerial
  <2> QED BY <2>1, <1>0, ReadsOn, ReadFacts DEF Plain, Ready, Place, Rereads
<1>5. CASE BeginReadCompare(t)
  <2>1. /\ at[t] = "BeginRead.compare"
        /\ at'[t] \in {"BeginRead.recv", "BeginRead.off"}
        /\ back'[t] = back[t]
        /\ Alone(t) /\ Quiet /\ (OnlySerial' <=> OnlySerial) /\ NoRead
        /\ recvs' = recvs /\ (at'[t] = "BeginRead.off" => seen[t])
    BY <1>5, <1>0
       DEF BeginReadCompare, Alone, Quiet, NoRead, Open, OnlySerial
  <2>2. CASE at'[t] = "BeginRead.recv"
    BY <2>1, <2>2, <1>0, Aside DEF Plain, Ready, Place, Rereads
  <2>3. CASE at'[t] = "BeginRead.off"
    BY <2>1, <2>3, <1>0, Ends, RecvsStay, ReadFacts
       DEF Plain, Ready, Place, Rereads
  <2> QED BY <2>1, <2>2, <2>3
<1>6. CASE BeginReadRecv(t)
  <2>1. /\ at[t] = "BeginRead.recv"
        /\ at'[t] \in {"BeginRead.posted", "BeginRead.error", "BeginRead.off"}
        /\ back'[t] = back[t]
        /\ Alone(t) /\ Quiet /\ (OnlySerial' <=> OnlySerial)
        /\ reading' = reading /\ listWork' = listWork
        /\ (at'[t] = "BeginRead.posted" => recvs' = recvs + 1)
        /\ (at'[t] # "BeginRead.posted" => recvs' = recvs)
        /\ (at'[t] = "BeginRead.error" => failures' # 0)
        /\ (at'[t] = "BeginRead.off" => closeFlag' # {} \/ cleared)
    BY <1>6, <1>0, <1>c, ReadFacts
       DEF BeginReadRecv, Alone, Quiet, NoRead, Open, OnlySerial
  <2>2. CASE at'[t] = "BeginRead.posted"
    BY <2>1, <2>2, <1>0, Passes DEF Plain, Ready, Place, Rereads
  <2>3. CASE at'[t] = "BeginRead.error"
    BY <2>1, <2>3, <1>0, Ends, RecvsStay
       DEF NoRead, Plain, Ready, Place, Rereads
  <2>4. CASE at'[t] = "BeginRead.off"
    BY <2>1, <2>4, <1>0, Ends, RecvsStay
       DEF NoRead, Plain, Ready, Place, Rereads
  <2> QED BY <2>1, <2>2, <2>3, <2>4
<1>7. CASE BeginReadOff(t)
  <2>1. /\ \/ /\ at[t] = "BeginRead.off" /\ at'[t] = "BeginRead.exit"
              /\ back'[t] = back[t]
           \/ /\ at[t] = "BeginRead.posted" /\ at'[t] = "BeginRead.count"
              /\ back'[t] = back[t]
           \/ /\ at[t] = "BeginRead.error" /\ at'[t] = "BeginRead.failed"
              /\ back'[t] = back[t]
        /\ Alone(t) /\ Quiet /\ (OnlySerial' <=> OnlySerial) /\ NoRead
        /\ recvs' = recvs
    BY <1>7, <1>0 DEF BeginReadOff, Alone, Quiet, NoRead, Open, OnlySerial
  <2> QED BY <2>1, <1>0, Aside DEF Plain, Ready, Place, Rereads
<1>8. CASE BeginReadCount(t)
  <2>1. /\ at[t] = "BeginRead.count" /\ at'[t] = "BeginRead.exit"
        /\ back'[t] = back[t]
        /\ Alone(t) /\ Quiet /\ (OnlySerial' <=> OnlySerial) /\ NoRead
        /\ recvs' = recvs
    BY <1>8, <1>0 DEF BeginReadCount, Alone, Quiet, NoRead, Open, OnlySerial
  <2> QED BY <2>1, <1>0, Aside DEF Plain, Ready, Place, Rereads
<1>9. CASE BeginReadExit(t)
  <2>1. /\ \/ /\ at[t] = "BeginRead.exit" /\ at'[t] = AfterRead(t)
              /\ back'[t] = "idle"
           \/ /\ at[t] = "BeginRead.exit" /\ at'[t] = "zero"
              /\ back'[t] = AfterRead(t)
           \/ /\ at[t] = "BeginRead.failed" /\ at'[t] = "HandleError.read"
              /\ back'[t] = "idle"
           \/ /\ at[t] = "BeginRead.failed" /\ at'[t] = "zero"
              /\ back'[t] = "HandleError.read"
        /\ Alone(t) /\ Quiet /\ (OnlySerial' <=> OnlySerial) /\ NoRead
        /\ recvs' = recvs
    BY <1>9, LeaveQuiet DEF BeginReadExit
  <2> QED BY <2>1, <1>0, Aside, ReadFacts, ReturnsReadOn
             DEF Plain, Ready, Place, Rereads
<1> QED BY <1>1, <1>2, <1>3, <1>4, <1>5, <1>6, <1>7, <1>8, <1>9 DEF BeginRead

LEMMA ReadsEndRead ==
  ASSUME TypeOK, ReadInv, NEW t \in Threads, EndRead(t)
  PROVE  ReadInv'
<1> USE DEF Step, counts, flags, bricks, calls, pool, locals, Branch,
            SetFlags, Count, Enter, Reads, Retires, InBeginRead, PostedRead,
            LeavesRead, InEndRead, InBeginWrite, PostedWrite, LeavesWrite,
            InCraft, Closers, Writing
<1>0. /\ RolesFit /\ at \in [Threads -> Places]
      /\ back \in [Threads -> Places]
      /\ seen \in [Threads -> BOOLEAN] /\ reading \in BOOLEAN
  BY DEF TypeOK, RolesFit, FlagsTyped
<1>1. CASE EndReadEnter(t)
  <2>1. /\ at[t] = "EndRead" /\ at'[t] = "EndRead.minus" /\ back'[t] = back[t]
        /\ Alone(t) /\ Quiet /\ (OnlySerial' <=> OnlySerial) /\ NoRead
        /\ recvs' = recvs /\ seen'[t] = seen[t] /\ failures' = failures
    BY <1>1, <1>0 DEF EndReadEnter, Alone, Quiet, NoRead, Open, OnlySerial
  <2> QED BY <2>1, <1>0, Aside, ReadFacts DEF Plain, Ready, Place, Rereads
<1>2. CASE EndReadMinus(t)
  <2>1. /\ at[t] = "EndRead.minus" /\ at'[t] = "EndRead.test"
        /\ back'[t] = back[t]
        /\ Alone(t) /\ Quiet /\ (OnlySerial' <=> OnlySerial) /\ NoRead
        /\ recvs' = recvs /\ seen'[t] = seen[t] /\ failures' = failures
    BY <1>2, <1>0 DEF EndReadMinus, Alone, Quiet, NoRead, Open, OnlySerial
  <2> QED BY <2>1, <1>0, Aside, ReadFacts DEF Plain, Ready, Place, Rereads
<1>3. CASE EndReadTest(t)
  <2>1. /\ \/ /\ at[t] = "EndRead.test"
              /\ at'[t] \in {"EndRead.exit", "EndRead.write"}
              /\ back'[t] = back[t]
           \/ /\ at[t] = "EndRead.test" /\ at'[t] = "Unavailable"
              /\ back'[t] = "EndRead.exit"
        /\ Alone(t) /\ Quiet /\ (OnlySerial' <=> OnlySerial) /\ NoRead
        /\ recvs' = recvs /\ (at'[t] = "EndRead.exit" => closeFlag' # {})
        /\ (at'[t] = "Unavailable" => failures' # 0)
    BY <1>3, <1>0, ReadFacts
       DEF EndReadTest, Alone, Quiet, NoRead, Open, OnlySerial
  <2>2. CASE at'[t] = "EndRead.write"
    BY <2>1, <2>2, <1>0, Aside DEF Plain, Ready, Place, Rereads
  <2>3. CASE at'[t] # "EndRead.write"
    BY <2>1, <2>3, <1>0, Ends, RecvsStay DEF Plain, Ready, Place, Rereads
  <2> QED BY <2>1, <2>2, <2>3
<1>4. CASE EndReadWrite(t)
  <2>1. /\ at[t] = "EndRead.write" /\ at'[t] = "EndRead.wrote"
        /\ back'[t] = back[t]
        /\ Alone(t) /\ Quiet /\ (OnlySerial' <=> OnlySerial)
        /\ recvs' = recvs /\ listWork' = listWork
    BY <1>4, <1>0 DEF EndReadWrite, Alone, Quiet, NoRead, Open, OnlySerial
  <2> QED BY <2>1, <1>0, ReadsOn DEF Plain, Ready, Place, Rereads
<1>5. CASE EndReadWrote(t)
  <2>1. /\ at[t] = "EndRead.wrote" /\ at'[t] = "EndRead.mode"
        /\ back'[t] = back[t]
        /\ Alone(t) /\ Quiet /\ (OnlySerial' <=> OnlySerial)
        /\ recvs' = recvs /\ listWork' = listWork /\ reading' = FALSE
    BY <1>5, <1>0 DEF EndReadWrote, Alone, Quiet, NoRead, Open, OnlySerial
  <2> QED BY <2>1, <1>0, ReadsOn DEF Plain, Ready, Place, Rereads
<1>6. CASE EndReadMode(t)
  <2>1. /\ at[t] = "EndRead.mode"
        /\ at'[t] \in {"BeginRead", "EndRead.count"} /\ back'[t] = back[t]
        /\ Alone(t) /\ Quiet /\ (OnlySerial' <=> OnlySerial) /\ NoRead
        /\ recvs' = recvs /\ (at'[t] = "BeginRead" => ~OnlySerial)
        /\ (at'[t] = "EndRead.count" => cleared \/ ~Unmixed \/ OnlySerial)
    BY <1>6, <1>0, ModesRead
       DEF EndReadMode, Alone, Quiet, NoRead, Open, OnlySerial, Unmixed
  <2>2. CASE at'[t] = "BeginRead" \/ OnlySerial
    BY <2>1, <2>2, <1>0, Aside DEF Plain, Ready, Place, Rereads
  <2>3. CASE at'[t] = "EndRead.count" /\ ~OnlySerial
    BY <2>1, <2>3, <1>0, Ends, RecvsStay DEF Plain, Ready, Place, Rereads
  <2> QED BY <2>1, <2>2, <2>3
<1>7. CASE EndReadCount(t)
  <2>1. /\ at[t] = "EndRead.count" /\ at'[t] = "EndRead.push"
        /\ back'[t] = back[t]
        /\ Alone(t) /\ Quiet /\ (OnlySerial' <=> OnlySerial) /\ NoRead
        /\ recvs' = recvs
    BY <1>7, <1>0 DEF EndReadCount, Alone, Quiet, NoRead, Open, OnlySerial
  <2> QED BY <2>1, <1>0, Aside DEF Plain, Ready, Place, Rereads
<1>8. CASE EndReadPush(t)
  <2>1. /\ at[t] = "EndRead.push" /\ at'[t] = "EndRead.exit"
        /\ back'[t] = back[t]
        /\ Alone(t) /\ Quiet /\ (OnlySerial' <=> OnlySerial)
        /\ reading' = reading /\ recvs' = recvs /\ listWork' = listWork + 1
    BY <1>8, <1>0 DEF EndReadPush, Alone, Quiet, NoRead, Open, OnlySerial
  <2>2. CASE OnlySerial
    BY <2>1, <2>2, <1>0, Passes DEF Plain, Ready, Place, Rereads
  <2>3. CASE ~OnlySerial
    BY <2>1, <2>3, <1>0, Aside DEF NoRead, Plain, Ready, Place, Rereads
  <2> QED BY <2>1, <2>2, <2>3
<1>9. CASE EndReadExit(t)
  <2>1. /\ at[t] = "EndRead.exit" /\ at'[t] \in {"idle", "zero"}
        /\ back'[t] = "idle"
        /\ Alone(t) /\ Quiet /\ (OnlySerial' <=> OnlySerial) /\ NoRead
        /\ recvs' = recvs
    BY <1>9, LeaveQuiet DEF EndReadExit
  <2> QED BY <2>1, <1>0, Aside DEF Plain, Ready, Place, Rereads
<1> QED BY <1>1, <1>2, <1>3, <1>4, <1>5, <1>6, <1>7, <1>8, <1>9 DEF EndRead

LEMMA ReadsBeginWrite ==
  ASSUME TypeOK, ReadInv, NEW t \in Threads, BeginWrite(t)
  PROVE  ReadInv'
<1> USE DEF Step, counts, flags, bricks, calls, pool, locals, Branch,
            SetFlags, Count, Note, Enter, Fail, Reads, Retires, InBeginRead,
            PostedRead, LeavesRead, InEndRead, InBeginWrite, PostedWrite,
            LeavesWrite, InCraft, Closers, Writing
<1>0. /\ RolesFit /\ at \in [Threads -> Places]
      /\ back \in [Threads -> Places]
      /\ seen \in [Threads -> BOOLEAN] /\ reading \in BOOLEAN
  BY DEF TypeOK, RolesFit, FlagsTyped
<1>c. failures \in Nat
  BY KindTyped DEF TypeOK, CountsTyped, FlagsTyped
<1>1. CASE BeginWriteEnter(t)
  <2>1. /\ at[t] = "BeginWrite" /\ at'[t] = "BeginWrite.test"
        /\ back'[t] = back[t]
        /\ Alone(t) /\ Quiet /\ (OnlySerial' <=> OnlySerial) /\ NoRead
        /\ recvs' = recvs
    BY <1>1, <1>0 DEF BeginWriteEnter, Alone, Quiet, NoRead, Open, OnlySerial
  <2> QED BY <2>1, <1>0, Aside DEF Plain, Ready, Place, Rereads
<1>2. CASE BeginWriteTest(t)
  <2>1. /\ at[t] = "BeginWrite.test"
        /\ at'[t] \in {"BeginWrite.exit", "BeginWrite.load"}
        /\ back'[t] = back[t]
        /\ Alone(t) /\ Quiet /\ (OnlySerial' <=> OnlySerial) /\ NoRead
        /\ recvs' = recvs
    BY <1>2, <1>0 DEF BeginWriteTest, Alone, Quiet, NoRead, Open, OnlySerial
  <2> QED BY <2>1, <1>0, Aside DEF Plain, Ready, Place, Rereads
<1>3. CASE BeginWriteLoad(t)
  <2>1. /\ at[t] = "BeginWrite.load" /\ at'[t] = "BeginWrite.switch"
        /\ back'[t] = back[t]
        /\ Alone(t) /\ Quiet /\ (OnlySerial' <=> OnlySerial) /\ NoRead
        /\ recvs' = recvs
    BY <1>3, <1>0 DEF BeginWriteLoad, Alone, Quiet, NoRead, Open, OnlySerial
  <2> QED BY <2>1, <1>0, Aside DEF Plain, Ready, Place, Rereads
<1>4. CASE BeginWriteSwitch(t)
  <2>1. /\ at[t] = "BeginWrite.switch" /\ at'[t] = "BeginWrite.compare"
        /\ back'[t] = back[t]
        /\ Alone(t) /\ Quiet /\ (OnlySerial' <=> OnlySerial) /\ NoRead
        /\ recvs' = recvs
    BY <1>4, <1>0
       DEF BeginWriteSwitch, Alone, Quiet, NoRead, Open, OnlySerial
  <2> QED BY <2>1, <1>0, Aside DEF Plain, Ready, Place, Rereads
<1>5. CASE BeginWriteCompare(t)
  <2>1. /\ at[t] = "BeginWrite.compare"
        /\ at'[t] \in {"BeginWrite.off", "BeginWrite.pop"}
        /\ back'[t] = back[t]
        /\ Alone(t) /\ Quiet /\ (OnlySerial' <=> OnlySerial) /\ NoRead
        /\ recvs' = recvs
    BY <1>5, <1>0
       DEF BeginWriteCompare, Alone, Quiet, NoRead, Open, OnlySerial
  <2> QED BY <2>1, <1>0, Aside DEF Plain, Ready, Place, Rereads
<1>6. CASE PopBrick(t)
  <2>1. /\ at[t] = "BeginWrite.pop"
        /\ at'[t] \in {"BeginWrite.off", "BeginWrite.again"}
        /\ back'[t] = back[t]
        /\ Alone(t) /\ Quiet /\ (OnlySerial' <=> OnlySerial) /\ NoRead
        /\ recvs' = recvs
    BY <1>6, <1>0 DEF PopBrick, Alone, Quiet, NoRead, Open, OnlySerial
  <2> QED BY <2>1, <1>0, Aside DEF Plain, Ready, Place, Rereads
<1>7. CASE BeginWriteAgain(t)
  <2>1. /\ at[t] = "BeginWrite.again"
        /\ at'[t] \in {"BeginWrite.unpop", "BeginWrite.send"}
        /\ back'[t] = back[t]
        /\ Alone(t) /\ Quiet /\ (OnlySerial' <=> OnlySerial) /\ NoRead
        /\ recvs' = recvs
    BY <1>7, <1>0 DEF BeginWriteAgain, Alone, Quiet, NoRead, Open, OnlySerial
  <2> QED BY <2>1, <1>0, Aside DEF Plain, Ready, Place, Rereads
<1>8. CASE PushHeadBrick(t)
  <2>1. /\ at[t] \in {"BeginWrite.unpop", "BeginWrite.unsent"}
        /\ at'[t] \in {"BeginWrite.off", "BeginWrite.error"}
        /\ back'[t] = back[t]
        /\ Alone(t) /\ Quiet /\ (OnlySerial' <=> OnlySerial) /\ NoRead
        /\ recvs' = recvs
    BY <1>8, <1>0 DEF PushHeadBrick, Alone, Quiet, NoRead, Open, OnlySerial
  <2> QED BY <2>1, <1>0, Aside DEF Plain, Ready, Place, Rereads
<1>9. CASE BeginWriteSend(t)
  <2>1. /\ at[t] = "BeginWrite.send"
        /\ at'[t] \in {"BeginWrite.last", "BeginWrite.unsent",
                       "BeginWrite.unpop"}
        /\ back'[t] = back[t]
        /\ Alone(t) /\ Quiet /\ (OnlySerial' <=> OnlySerial) /\ NoRead
        /\ recvs' = recvs
    BY <1>9, <1>0, <1>c
       DEF BeginWriteSend, Alone, Quiet, NoRead, Open, OnlySerial
  <2> QED BY <2>1, <1>0, Aside DEF Plain, Ready, Place, Rereads
<1>10. CASE BeginWriteLast(t)
  <2>1. /\ at[t] = "BeginWrite.last" /\ at'[t] = "BeginWrite.count"
        /\ back'[t] = back[t]
        /\ Alone(t) /\ Quiet /\ (OnlySerial' <=> OnlySerial) /\ NoRead
        /\ recvs' = recvs
    BY <1>10, <1>0 DEF BeginWriteLast, Alone, Quiet, NoRead, Open, OnlySerial
  <2> QED BY <2>1, <1>0, Aside DEF Plain, Ready, Place, Rereads
<1>11. CASE BeginWriteCount(t)
  <2>1. /\ at[t] = "BeginWrite.count" /\ at'[t] = "BeginWrite.off"
        /\ back'[t] = back[t]
        /\ Alone(t) /\ Quiet /\ (OnlySerial' <=> OnlySerial) /\ NoRead
        /\ recvs' = recvs
    BY <1>11, <1>0
       DEF BeginWriteCount, Alone, Quiet, NoRead, Open, OnlySerial
  <2> QED BY <2>1, <1>0, Aside DEF Plain, Ready, Place, Rereads
<1>12. CASE BeginWriteOff(t)
  <2>1. /\ at[t] \in {"BeginWrite.off", "BeginWrite.error"}
        /\ at'[t] \in {"BeginWrite.exit", "BeginWrite.failed"}
        /\ back'[t] = back[t]
        /\ Alone(t) /\ Quiet /\ (OnlySerial' <=> OnlySerial) /\ NoRead
        /\ recvs' = recvs
    BY <1>12, <1>0 DEF BeginWriteOff, Alone, Quiet, NoRead, Open, OnlySerial
  <2> QED BY <2>1, <1>0, Aside DEF Plain, Ready, Place, Rereads
<1>13. CASE BeginWriteExit(t)
  <2>1. /\ \/ /\ at[t] = "BeginWrite.exit" /\ at'[t] = AfterWrite(t)
              /\ back'[t] = "idle"
           \/ /\ at[t] = "BeginWrite.exit" /\ at'[t] = "zero"
              /\ back'[t] = AfterWrite(t)
           \/ /\ at[t] = "BeginWrite.failed" /\ at'[t] = "HandleError.write"
              /\ back'[t] = "idle"
           \/ /\ at[t] = "BeginWrite.failed" /\ at'[t] = "zero"
              /\ back'[t] = "HandleError.write"
        /\ Alone(t) /\ Quiet /\ (OnlySerial' <=> OnlySerial) /\ NoRead
        /\ recvs' = recvs
    BY <1>13, LeaveQuiet DEF BeginWriteExit
  <2> QED BY <2>1, <1>0, Aside, ReturnsReadOn
             DEF Plain, Ready, Place, Rereads
<1> QED BY <1>1, <1>2, <1>3, <1>4, <1>5, <1>6, <1>7, <1>8, <1>9, <1>10,
           <1>11, <1>12, <1>13
           DEF BeginWrite

LEMMA ReadsEndWrite ==
  ASSUME TypeOK, ReadInv, NEW t \in Threads, EndWrite(t)
  PROVE  ReadInv'
<1> USE DEF Step, counts, flags, bricks, calls, pool, locals, Branch, Count,
            Enter, Reads, Retires, InBeginRead, PostedRead, LeavesRead,
            InEndRead, InBeginWrite, PostedWrite, LeavesWrite, InEndWrite,
            InCraft, Closers, Writing
<1>0. /\ RolesFit /\ at \in [Threads -> Places]
      /\ back \in [Threads -> Places]
      /\ seen \in [Threads -> BOOLEAN] /\ reading \in BOOLEAN
  BY DEF TypeOK, RolesFit, FlagsTyped
<1>1. CASE EndWriteEnter(t)
  <2>1. /\ at[t] = "EndWrite" /\ at'[t] = "EndWrite.minus"
        /\ back'[t] = back[t]
        /\ Alone(t) /\ Quiet /\ (OnlySerial' <=> OnlySerial) /\ NoRead
        /\ recvs' = recvs
    BY <1>1, <1>0 DEF EndWriteEnter, Alone, Quiet, NoRead, Open, OnlySerial
  <2> QED BY <2>1, <1>0, Aside DEF Plain, Ready, Place, Rereads
<1>2. CASE EndWriteMinus(t)
  <2>1. /\ at[t] = "EndWrite.minus" /\ at'[t] = "EndWrite.test"
        /\ back'[t] = back[t]
        /\ Alone(t) /\ Quiet /\ (OnlySerial' <=> OnlySerial) /\ NoRead
        /\ recvs' = recvs
    BY <1>2, <1>0 DEF EndWriteMinus, Alone, Quiet, NoRead, Open, OnlySerial
  <2> QED BY <2>1, <1>0, Aside DEF Plain, Ready, Place, Rereads
<1>3. CASE EndWriteTest(t)
  <2>1. /\ at[t] = "EndWrite.test"
        /\ at'[t] \in {"EndWrite.exit", "EndWrite.last", "EndWrite.more"}
        /\ back'[t] = back[t]
        /\ Alone(t) /\ Quiet /\ (OnlySerial' <=> OnlySerial) /\ NoRead
        /\ recvs' = recvs
    BY <1>3, <1>0 DEF EndWriteTest, Alone, Quiet, NoRead, Open, OnlySerial
  <2> QED BY <2>1, <1>0, Aside DEF Plain, Ready, Place, Rereads
<1>4. CASE EndWriteLast(t)
  <2>1. /\ at[t] = "EndWrite.last" /\ at'[t] = "EndWrite.null"
        /\ back'[t] = back[t]
        /\ Alone(t) /\ Quiet /\ (OnlySerial' <=> OnlySerial) /\ NoRead
        /\ recvs' = recvs
    BY <1>4, <1>0 DEF EndWriteLast, Alone, Quiet, NoRead, Open, OnlySerial
  <2> QED BY <2>1, <1>0, Aside DEF Plain, Ready, Place, Rereads
<1>5. CASE EndWriteNull(t)
  <2>1. /\ at[t] = "EndWrite.null" /\ at'[t] = "EndWrite.done"
        /\ back'[t] = back[t]
        /\ Alone(t) /\ Quiet /\ (OnlySerial' <=> OnlySerial) /\ NoRead
        /\ recvs' = recvs
    BY <1>5, <1>0 DEF EndWriteNull, Alone, Quiet, NoRead, Open, OnlySerial
  <2> QED BY <2>1, <1>0, Aside DEF Plain, Ready, Place, Rereads
<1>6. CASE EndWriteDone(t)
  <2>1. /\ at[t] = "EndWrite.done" /\ at'[t] = "EndWrite.more"
        /\ back'[t] = back[t]
        /\ Alone(t) /\ Quiet /\ (OnlySerial' <=> OnlySerial) /\ NoRead
        /\ recvs' = recvs
    BY <1>6, <1>0 DEF EndWriteDone, Alone, Quiet, NoRead, Open, OnlySerial
  <2> QED BY <2>1, <1>0, Aside DEF Plain, Ready, Place, Rereads
<1>7. CASE EndWriteMore(t)
  <2>1. /\ at[t] = "EndWrite.more"
        /\ at'[t] \in {"BeginWrite", "EndWrite.exit"} /\ back'[t] = back[t]
        /\ Alone(t) /\ Quiet /\ (OnlySerial' <=> OnlySerial) /\ NoRead
        /\ recvs' = recvs /\ t \notin Workers
    BY <1>7, <1>0, WhoIsThere
       DEF EndWriteMore, Alone, Quiet, NoRead, Open, OnlySerial
  <2> QED BY <2>1, <1>0, Aside DEF Plain, Ready, Place, Rereads
<1>8. CASE EndWriteExit(t)
  <2>1. /\ at[t] = "EndWrite.exit" /\ at'[t] \in {"idle", "zero"}
        /\ back'[t] = "idle"
        /\ Alone(t) /\ Quiet /\ (OnlySerial' <=> OnlySerial) /\ NoRead
        /\ recvs' = recvs
    BY <1>8, LeaveQuiet DEF EndWriteExit
  <2> QED BY <2>1, <1>0, Aside DEF Plain, Ready, Place, Rereads
<1> QED BY <1>1, <1>2, <1>3, <1>4, <1>5, <1>6, <1>7, <1>8 DEF EndWrite

LEMMA ReadsCraft ==
  ASSUME TypeOK, ReadInv, NEW t \in Threads, Craft(t)
  PROVE  ReadInv'
<1> USE DEF Step, counts, flags, bricks, calls, pool, locals, Branch,
            SetFlags, Count, Enter, DestroyNow, Reads, Retires, InBeginRead,
            PostedRead, LeavesRead, InEndRead, InBeginWrite, PostedWrite,
            LeavesWrite, InCraft, Closers, Writing
<1>0. /\ RolesFit /\ at \in [Threads -> Places]
      /\ back \in [Threads -> Places]
      /\ seen \in [Threads -> BOOLEAN] /\ reading \in BOOLEAN
  BY DEF TypeOK, RolesFit, FlagsTyped
<1>1. CASE ExecuteWorker(t)
  <2>1. /\ at[t] = "Worker" /\ at'[t] \in {"Craft", "idle"}
        /\ back'[t] = back[t]
        /\ Alone(t) /\ Quiet /\ (OnlySerial' <=> OnlySerial) /\ NoRead
        /\ recvs' = recvs /\ (at'[t] = "idle" => cleared)
    BY <1>1, <1>0, ReadFacts
       DEF ExecuteWorker, Alone, Quiet, NoRead, Open, OnlySerial
  <2>2. CASE at'[t] = "Craft"
    BY <2>1, <2>2, <1>0, Aside DEF Plain, Ready, Place, Rereads
  <2>3. CASE at'[t] = "idle"
    BY <2>1, <2>3, <1>0, Ends, RecvsStay DEF Plain, Ready, Place, Rereads
  <2> QED BY <2>1, <2>2, <2>3
<1>2. CASE CraftEnter(t)
  <2>1. /\ at[t] = "Craft" /\ at'[t] = "Craft.test" /\ back'[t] = back[t]
        /\ Alone(t) /\ Quiet /\ (OnlySerial' <=> OnlySerial) /\ NoRead
        /\ recvs' = recvs
    BY <1>2, <1>0 DEF CraftEnter, Alone, Quiet, NoRead, Open, OnlySerial
  <2> QED BY <2>1, <1>0, Aside DEF Plain, Ready, Place, Rereads
<1>3. CASE CraftTest(t)
  <2>1. /\ at[t] = "Craft.test" /\ at'[t] \in {"Craft.parse", "Craft.exit"}
        /\ back'[t] = back[t]
        /\ Alone(t) /\ Quiet /\ (OnlySerial' <=> OnlySerial) /\ NoRead
        /\ recvs' = recvs /\ (at'[t] = "Craft.exit" => closeFlag' # {})
    BY <1>3, <1>0 DEF CraftTest, Alone, Quiet, NoRead, Open, OnlySerial
  <2>2. CASE at'[t] = "Craft.parse"
    BY <2>1, <2>2, <1>0, Aside DEF Plain, Ready, Place, Rereads
  <2>3. CASE at'[t] = "Craft.exit"
    BY <2>1, <2>3, <1>0, Ends, RecvsStay DEF Plain, Ready, Place, Rereads
  <2> QED BY <2>1, <2>2, <2>3
<1>4. CASE CraftCrash(t)
  <2>1. /\ at[t] = "Craft.parse" /\ at'[t] = "crash" /\ back'[t] = back[t]
        /\ Alone(t) /\ Quiet /\ (OnlySerial' <=> OnlySerial) /\ NoRead
        /\ recvs' = recvs /\ cleared
    BY <1>4, <1>0 DEF CraftCrash, Alone, Quiet, NoRead, Open, OnlySerial
  <2> QED BY <2>1, <1>0, Ends, RecvsStay DEF Plain, Ready, Place, Rereads
<1>5. CASE CraftRead(t)
  <2>1. /\ at[t] = "Craft.parse" /\ at'[t] = "Craft.join"
        /\ back'[t] = back[t]
        /\ Alone(t) /\ Quiet /\ (OnlySerial' <=> OnlySerial) /\ NoRead
        /\ recvs' = recvs
    BY <1>5, <1>0 DEF CraftRead, Alone, Quiet, NoRead, Open, OnlySerial
  <2> QED BY <2>1, <1>0, Aside DEF Plain, Ready, Place, Rereads
<1>6. CASE CraftContinue(t)
  <2>1. /\ at[t] = "Craft.parse" /\ at'[t] = "Craft.return"
        /\ back'[t] = back[t]
        /\ Alone(t) /\ Quiet /\ (OnlySerial' <=> OnlySerial) /\ NoRead
        /\ recvs' = recvs
    BY <1>6, <1>0 DEF CraftContinue, Alone, Quiet, NoRead, Open, OnlySerial
  <2> QED BY <2>1, <1>0, Aside DEF Plain, Ready, Place, Rereads
<1>7. CASE CraftReturn(t)
  <2>1. /\ at[t] = "Craft.return" /\ at'[t] \in {"Craft.push", "Craft.join"}
        /\ back'[t] = back[t]
        /\ Alone(t) /\ Quiet /\ (OnlySerial' <=> OnlySerial) /\ NoRead
        /\ recvs' = recvs
    BY <1>7, <1>0 DEF CraftReturn, Alone, Quiet, NoRead, Open, OnlySerial
  <2> QED BY <2>1, <1>0, Aside DEF Plain, Ready, Place, Rereads
<1>8. CASE CraftRetire(t)
  <2>1. /\ at[t] = "Craft.parse" /\ at'[t] = "Retire.load"
        /\ back'[t] = back[t]
        /\ Alone(t) /\ Quiet /\ (OnlySerial' <=> OnlySerial) /\ NoRead
        /\ recvs' = recvs /\ closeFlag' # {}
    BY <1>8, <1>0 DEF CraftRetire, Alone, Quiet, NoRead, Open, OnlySerial
  <2> QED BY <2>1, <1>0, Ends, RecvsStay DEF Plain, Ready, Place, Rereads
<1>9. CASE RetireLoad(t)
  <2>1. /\ at[t] = "Retire.load" /\ at'[t] = "Retire.compare"
        /\ back'[t] = back[t]
        /\ Alone(t) /\ Quiet /\ (OnlySerial' <=> OnlySerial) /\ NoRead
        /\ recvs' = recvs
    BY <1>9, <1>0 DEF RetireLoad, Alone, Quiet, NoRead, Open, OnlySerial
  <2> QED BY <2>1, <1>0, Aside DEF Plain, Ready, Place, Rereads
<1>10. CASE RetireCompare(t)
  <2>1. /\ \/ /\ at[t] = "Retire.compare" /\ at'[t] = "Close"
              /\ back'[t] = "Craft.exit"
           \/ /\ at[t] = "Retire.compare" /\ at'[t] = "Craft.exit"
              /\ back'[t] = back[t]
        /\ Alone(t) /\ Quiet /\ (OnlySerial' <=> OnlySerial) /\ NoRead
        /\ recvs' = recvs
    BY <1>10, <1>0 DEF RetireCompare, Alone, Quiet, NoRead, Open, OnlySerial
  <2> QED BY <2>1, <1>0, Aside DEF Plain, Ready, Place, Rereads
<1>11. CASE CraftClose(t)
  <2>1. /\ at[t] = "Craft.parse" /\ at'[t] = "Close"
        /\ back'[t] = "Craft.exit"
        /\ Alone(t) /\ Quiet /\ (OnlySerial' <=> OnlySerial) /\ NoRead
        /\ recvs' = recvs /\ closeFlag' # {}
    BY <1>11, <1>0 DEF CraftClose, Alone, Quiet, NoRead, Open, OnlySerial
  <2> QED BY <2>1, <1>0, Ends, RecvsStay DEF Plain, Ready, Place, Rereads
<1>12. CASE CraftJoin(t)
  <2>1. /\ at[t] = "Craft.join" /\ at'[t] \in {"BeginRead", "Craft.exit"}
        /\ back'[t] = back[t]
        /\ Alone(t) /\ Quiet /\ (OnlySerial' <=> OnlySerial) /\ NoRead
        /\ recvs' = recvs /\ t \notin IOThreads
        /\ (at'[t] = "BeginRead" /\ ~OnlySerial => ~Chained)
        /\ (at'[t] = "Craft.exit" /\ OnlySerial => closeFlag' # {})
    BY <1>12, <1>0, ModesRead, WhoIsThere
       DEF CraftJoin, Alone, Quiet, NoRead, Open, OnlySerial, Chained,
           Unmixed
  <2>2. CASE at'[t] = "BeginRead" /\ ~OnlySerial
    BY <2>1, <2>2, <1>0, Unchained DEF Plain, Ready, Place, Rereads
  <2>3. CASE at'[t] = "Craft.exit" /\ OnlySerial
    BY <2>1, <2>3, <1>0, Ends, RecvsStay DEF Plain, Ready, Place, Rereads
  <2>4. CASE (at'[t] = "BeginRead") <=> OnlySerial
    BY <2>1, <2>4, <1>0, Aside DEF Plain, Ready, Place, Rereads
  <2> QED BY <2>1, <2>2, <2>3, <2>4
<1>13. CASE CraftExit(t)
  <2>1. /\ at[t] = "Craft.exit" /\ at'[t] \in {"idle", "zero"}
        /\ back'[t] = "idle"
        /\ Alone(t) /\ Quiet /\ (OnlySerial' <=> OnlySerial) /\ NoRead
        /\ recvs' = recvs
    BY <1>13, LeaveQuiet DEF CraftExit
  <2> QED BY <2>1, <1>0, Aside DEF Plain, Ready, Place, Rereads
<1> QED BY <1>1, <1>2, <1>3, <1>4, <1>5, <1>6, <1>7, <1>8, <1>9, <1>10,
           <1>11, <1>12, <1>13
           DEF Craft

LEMMA ReadsClosing ==
  ASSUME TypeOK, ReadInv, NEW t \in Threads, Closing(t)
  PROVE  ReadInv'
<1> USE DEF Step, counts, flags, bricks, calls, pool, locals, Branch,
            SetFlags, Count, Enter, DestroyNow, Fail, IOReturns,
            WorkerReturns, UserReturns, Reads, Retires, InBeginRead,
            PostedRead, LeavesRead, InEndRead, InBeginWrite, PostedWrite,
            LeavesWrite, InCraft, Closers, Writing
<1>0. /\ RolesFit /\ at \in [Threads -> Places]
      /\ back \in [Threads -> Places]
      /\ seen \in [Threads -> BOOLEAN] /\ reading \in BOOLEAN
  BY DEF TypeOK, RolesFit, FlagsTyped
<1>c. failures \in Nat
  BY KindTyped DEF TypeOK, CountsTyped, FlagsTyped
<1>1. CASE HandleErrorNotify(t)
  <2>1. /\ \/ /\ at[t] = "HandleError.read" /\ at'[t] = AfterRead(t)
              /\ back'[t] = back[t]
           \/ /\ at[t] = "HandleError.write" /\ at'[t] = AfterWrite(t)
              /\ back'[t] = back[t]
        /\ Alone(t) /\ Quiet /\ (OnlySerial' <=> OnlySerial) /\ NoRead
        /\ recvs' = recvs
    BY <1>1, <1>0
       DEF HandleErrorNotify, Alone, Quiet, NoRead, Open, OnlySerial
  <2> QED BY <2>1, <1>0, Aside, ReadFacts, ReturnsReadOn
             DEF Plain, Ready, Place, Rereads
<1>2. CASE HandleErrorDestroy(t)
  <2>1. /\ \/ /\ at[t] = "HandleError.read" /\ at'[t] = "Close"
              /\ back'[t] = AfterRead(t)
           \/ /\ at[t] = "HandleError.write" /\ at'[t] = "Close"
              /\ back'[t] = AfterWrite(t)
        /\ Alone(t) /\ Quiet /\ (OnlySerial' <=> OnlySerial) /\ NoRead
        /\ recvs' = recvs /\ closeFlag' # {}
    BY <1>2, <1>0
       DEF HandleErrorDestroy, Alone, Quiet, NoRead, Open, OnlySerial
  <2> QED BY <2>1, <1>0, Aside, ReadFacts, ReturnsReadOn
             DEF Plain, Ready, Place, Rereads
<1>3. CASE Destroy(t)
  <2>1. /\ at[t] = "CloseClient" /\ at'[t] = "Close" /\ back'[t] = "idle"
        /\ Alone(t) /\ Quiet /\ (OnlySerial' <=> OnlySerial) /\ NoRead
        /\ recvs' = recvs /\ closeFlag' # {}
    BY <1>3, <1>0 DEF Destroy, Alone, Quiet, NoRead, Open, OnlySerial
  <2> QED BY <2>1, <1>0, Aside DEF Plain, Ready, Place, Rereads
<1>4. CASE Unavailable(t)
  <2>1. /\ at[t] = "Unavailable" /\ at'[t] = "Unavailable.flag"
        /\ back'[t] = back[t]
        /\ Alone(t) /\ Quiet /\ (OnlySerial' <=> OnlySerial) /\ NoRead
        /\ recvs' = recvs
    BY <1>4, <1>0 DEF Unavailable, Alone, Quiet, NoRead, Open, OnlySerial
  <2> QED BY <2>1, <1>0, Aside, ReadFacts DEF Plain, Ready, Place, Rereads
<1>5. CASE UnavailableFlag(t)
  <2>1. /\ at[t] = "Unavailable.flag" /\ at'[t] = "Close"
        /\ back'[t] = back[t]
        /\ Alone(t) /\ Quiet /\ (OnlySerial' <=> OnlySerial) /\ NoRead
        /\ recvs' = recvs /\ closeFlag' # {}
    BY <1>5, <1>0 DEF UnavailableFlag, Alone, Quiet, NoRead, Open, OnlySerial
  <2> QED BY <2>1, <1>0, Aside, ReadFacts DEF Plain, Ready, Place, Rereads
<1>6. CASE Close(t)
  <2>1. /\ at[t] = "Close" /\ at'[t] \in {"BeginDisconnect", "closesocket"}
        /\ back'[t] = back[t]
        /\ Alone(t) /\ Quiet /\ (OnlySerial' <=> OnlySerial) /\ NoRead
        /\ recvs' = recvs
    BY <1>6, <1>0 DEF Close, Alone, Quiet, NoRead, Open, OnlySerial
  <2> QED BY <2>1, <1>0, Aside DEF Plain, Ready, Place, Rereads
<1>7. CASE Closesocket(t)
  <2>1. /\ at[t] = "closesocket" /\ at'[t] = "Reclaim" /\ back'[t] = back[t]
        /\ Alone(t) /\ Quiet /\ (OnlySerial' <=> OnlySerial) /\ NoRead
        /\ recvs' = recvs
    BY <1>7, <1>0, ReadFacts
       DEF Closesocket, Alone, Quiet, NoRead, Open, OnlySerial
  <2> QED BY <2>1, <1>0, Aside DEF Plain, Ready, Place, Rereads
<1>8. CASE ReclaimUnlist(t)
  <2>1. /\ at[t] = "Reclaim" /\ at'[t] = "Reclaim.disp" /\ back'[t] = back[t]
        /\ Alone(t) /\ Quiet /\ (OnlySerial' <=> OnlySerial) /\ NoRead
        /\ recvs' = recvs
    BY <1>8, <1>0 DEF ReclaimUnlist, Alone, Quiet, NoRead, Open, OnlySerial
  <2> QED BY <2>1, <1>0, Aside DEF Plain, Ready, Place, Rereads
<1>9. CASE ReclaimDisp(t)
  <2>1. /\ at[t] = "Reclaim.disp" /\ at'[t] = "Reclaim.peer"
        /\ back'[t] = back[t] /\ Alone(t) /\ (OnlySerial' <=> OnlySerial)
        /\ UNCHANGED <<recvs, listWork, closeFlag, connected, failures>>
        /\ reading' = FALSE /\ mode' = "Serial" /\ server' = server
        /\ cleared' = TRUE /\ writeOp' = "Write"
    BY <1>9, <1>0 DEF ReclaimDisp, Alone, OnlySerial
  <2>2. /\ \A u \in Threads : Place(u)' = Place(u)
        /\ \A u \in Threads : Rereads(u)' <=> Rereads(u)
    <3>1. \A u \in Threads : Place(u)' = Place(u)
      BY <2>1 DEF Place, Alone
    <3> QED BY <2>1, <3>1 DEF Rereads
  <2>3. /\ Chained' => Chained /\ OnlySerial
        /\ Pending' = Pending
    BY <2>1 DEF Chained, Unmixed, Pending
  <2>4. ModeFits'
    BY <2>1 DEF ReadInv, ModeFits, Alone
  <2>5. OneChain'
    <3>1. IOThreads \subseteq Threads
      BY DEF Threads
    <3> QED BY <2>1, <2>2, <2>3, <3>1 DEF ReadInv, OneChain
  <2>6. ReadingOff'
    BY <2>1, <2>2, <2>3 DEF ReadInv, ReadingOff, Alone
  <2>7. OpenFits'
    BY <2>1 DEF ReadInv, OpenFits, Open, Alone
  <2>8. GoesOn'
    BY <2>1 DEF GoesOn, Open
  <2> QED BY <2>4, <2>5, <2>6, <2>7, <2>8 DEF ReadInv
<1>10. CASE ReclaimPeer(t)
  <2>1. /\ at[t] = "Reclaim.peer" /\ at'[t] = back[t] /\ back'[t] = "idle"
        /\ Alone(t) /\ (OnlySerial' <=> OnlySerial)
        /\ UNCHANGED <<recvs, listWork, connected, failures, reading, mode,
                       cleared, writeOp, readOp>>
        /\ server' = FALSE /\ cleared
    BY <1>10, <1>0, ReadFacts DEF ReclaimPeer, Alone, OnlySerial
  <2>2. back[t] \in IOReturns \cup WorkerReturns \cup UserReturns
    BY <1>0, ReturnPlaces
  <2>3. /\ \A u \in Threads : Place(u)' = Place(u)
        /\ \A u \in Threads : Rereads(u)' <=> Rereads(u)
    <3>1. \A u \in Threads : Place(u)' = Place(u)
      BY <2>1, <2>2 DEF Place, Alone
    <3> QED BY <2>1, <3>1 DEF Rereads
  <2>4. (Chained' <=> Chained) /\ Pending' = Pending
    BY <2>1 DEF Chained, Unmixed, OnlyParallel, OnlySerial, Pending, Alone
  <2>5. ModeFits'
    BY <2>1, <2>2 DEF ReadInv, ModeFits, Alone
  <2>6. OneChain'
    <3>1. IOThreads \subseteq Threads
      BY DEF Threads
    <3> QED BY <2>1, <2>3, <2>4, <3>1 DEF ReadInv, OneChain
  <2>7. ReadingOff'
    BY <2>1, <2>2, <2>3, <2>4 DEF ReadInv, ReadingOff, Alone
  <2>8. OpenFits'
    BY <2>1, <2>2 DEF ReadInv, OpenFits, Open, Alone
  <2>9. GoesOn'
    BY <2>1 DEF GoesOn, Open
  <2> QED BY <2>5, <2>6, <2>7, <2>8, <2>9 DEF ReadInv
<1>11. CASE BeginDisconnectEnter(t)
  <2>1. /\ at[t] = "BeginDisconnect" /\ at'[t] = "BeginDisconnect.op"
        /\ back'[t] = back[t]
        /\ Alone(t) /\ Quiet /\ (OnlySerial' <=> OnlySerial) /\ NoRead
        /\ recvs' = recvs
    BY <1>11, <1>0
       DEF BeginDisconnectEnter, Alone, Quiet, NoRead, Open, OnlySerial
  <2> QED BY <2>1, <1>0, Aside DEF Plain, Ready, Place, Rereads
<1>12. CASE BeginDisconnectOp(t)
  <2>1. /\ at[t] = "BeginDisconnect.op" /\ at'[t] = "BeginDisconnect.call"
        /\ back'[t] = back[t]
        /\ Alone(t) /\ Quiet /\ (OnlySerial' <=> OnlySerial) /\ NoRead
        /\ recvs' = recvs
    BY <1>12, <1>0, ReadFacts
       DEF BeginDisconnectOp, Alone, Quiet, NoRead, Open, OnlySerial
  <2> QED BY <2>1, <1>0, Aside DEF Plain, Ready, Place, Rereads
<1>13. CASE BeginDisconnectCall(t)
  <2>1. /\ at[t] = "BeginDisconnect.call" /\ at'[t] = "BeginDisconnect.count"
        /\ back'[t] = back[t]
        /\ Alone(t) /\ Quiet /\ (OnlySerial' <=> OnlySerial) /\ NoRead
        /\ recvs' = recvs
    BY <1>13, <1>0, ReadFacts, <1>c
       DEF BeginDisconnectCall, Alone, Quiet, NoRead, Open, OnlySerial
  <2> QED BY <2>1, <1>0, Aside DEF Plain, Ready, Place, Rereads
<1>14. CASE BeginDisconnectCount(t)
  <2>1. /\ at[t] = "BeginDisconnect.count" /\ at'[t] = "BeginDisconnect.exit"
        /\ back'[t] = back[t]
        /\ Alone(t) /\ Quiet /\ (OnlySerial' <=> OnlySerial) /\ NoRead
        /\ recvs' = recvs
    BY <1>14, <1>0
       DEF BeginDisconnectCount, Alone, Quiet, NoRead, Open, OnlySerial
  <2> QED BY <2>1, <1>0, Aside DEF Plain, Ready, Place, Rereads
<1>15. CASE BeginDisconnectExit(t)
  <2>1. /\ \/ /\ at[t] = "BeginDisconnect.exit" /\ at'[t] = back[t]
              /\ back'[t] = "idle"
           \/ /\ at[t] = "BeginDisconnect.exit" /\ at'[t] = "zero"
              /\ back'[t] = back[t]
        /\ Alone(t) /\ Quiet /\ (OnlySerial' <=> OnlySerial) /\ NoRead
        /\ recvs' = recvs
    BY <1>15, LeaveQuiet DEF BeginDisconnectExit
  <2> QED BY <2>1, <1>0, Aside, ReturnPlaces DEF Plain, Ready, Place, Rereads
<1>16. CASE EndDisconnectEnter(t)
  <2>1. /\ at[t] = "EndDisconnect" /\ at'[t] = "EndDisconnect.minus"
        /\ back'[t] = back[t]
        /\ Alone(t) /\ Quiet /\ (OnlySerial' <=> OnlySerial) /\ NoRead
        /\ recvs' = recvs
    BY <1>16, <1>0
       DEF EndDisconnectEnter, Alone, Quiet, NoRead, Open, OnlySerial
  <2> QED BY <2>1, <1>0, Aside DEF Plain, Ready, Place, Rereads
<1>17. CASE EndDisconnectMinus(t)
  <2>1. /\ at[t] = "EndDisconnect.minus" /\ at'[t] = "Reclaim"
        /\ back'[t] = "EndDisconnect.exit"
        /\ Alone(t) /\ Quiet /\ (OnlySerial' <=> OnlySerial) /\ NoRead
        /\ recvs' = recvs
    BY <1>17, <1>0
       DEF EndDisconnectMinus, Alone, Quiet, NoRead, Open, OnlySerial
  <2> QED BY <2>1, <1>0, Aside DEF Plain, Ready, Place, Rereads
<1>18. CASE EndDisconnectExit(t)
  <2>1. /\ at[t] = "EndDisconnect.exit" /\ at'[t] \in {"idle", "zero"}
        /\ back'[t] = "idle"
        /\ Alone(t) /\ Quiet /\ (OnlySerial' <=> OnlySerial) /\ NoRead
        /\ recvs' = recvs
    BY <1>18, LeaveQuiet DEF EndDisconnectExit
  <2> QED BY <2>1, <1>0, Aside DEF Plain, Ready, Place, Rereads
<1> QED BY <1>1, <1>2, <1>3, <1>4, <1>5, <1>6, <1>7, <1>8, <1>9, <1>10,
           <1>11, <1>12, <1>13, <1>14, <1>15, <1>16, <1>17, <1>18
           DEF Closing

LEMMA ReadsRest ==
  ASSUME TypeOK, ReadInv, NEW t \in Threads, Rest(t)
  PROVE  ReadInv'
<1> USE DEF Step, counts, flags, bricks, calls, pool, locals, Count, Taken,
            Fail, IOReturns, WorkerReturns, UserReturns, Reads, Retires,
            InBeginRead, PostedRead, LeavesRead, InEndRead, InBeginWrite,
            PostedWrite, LeavesWrite, InCraft, Closers, Writing
<1>0. /\ RolesFit /\ at \in [Threads -> Places]
      /\ back \in [Threads -> Places]
      /\ seen \in [Threads -> BOOLEAN] /\ reading \in BOOLEAN
  BY DEF TypeOK, RolesFit, FlagsTyped
<1>c. failures \in Nat
  BY KindTyped DEF TypeOK, CountsTyped, FlagsTyped
<1>1. CASE Zero(t)
  <2>1. /\ \/ at[t] = "zero" /\ at'[t] = back[t] /\ back'[t] = "idle"
           \/ at[t] = "zero" /\ at'[t] = "Close" /\ back'[t] = back[t]
        /\ Alone(t) /\ Quiet /\ (OnlySerial' <=> OnlySerial) /\ NoRead
        /\ recvs' = recvs
        /\ (at'[t] = "Close" => closeFlag' # {} \/ back[t] = "Close")
    BY <1>1, <1>0 DEF Zero, Alone, Quiet, NoRead, Open, OnlySerial
  <2> QED BY <2>1, <1>0, Aside, ReturnPlaces DEF Plain, Ready, Place, Rereads
<1>2. CASE Timeout(t)
  <2>1. /\ at[t] = "Timeout" /\ at'[t] = "idle" /\ back'[t] = back[t]
        /\ Alone(t) /\ Quiet /\ (OnlySerial' <=> OnlySerial) /\ NoRead
        /\ recvs' = recvs
    BY <1>2, <1>0 DEF Timeout, Alone, Quiet, NoRead, Open, OnlySerial
  <2> QED BY <2>1, <1>0, Aside DEF Plain, Ready, Place, Rereads
<1>3. CASE PushBrick(t)
  <2>1. /\ \/ /\ at[t] = "Send.push" /\ at'[t] = "BeginWrite"
              /\ back'[t] = back[t]
           \/ /\ at[t] = "Craft.push" /\ at'[t] = "BeginWrite"
              /\ back'[t] = back[t]
        /\ Alone(t) /\ Quiet /\ (OnlySerial' <=> OnlySerial) /\ NoRead
        /\ recvs' = recvs /\ (at[t] = "Send.push" => t \notin Workers)
        /\ (at[t] = "Craft.push" => t \in Workers)
    BY <1>3, <1>0, WhoIsThere
       DEF PushBrick, Alone, Quiet, NoRead, Open, OnlySerial
  <2> QED BY <2>1, <1>0, Aside DEF Plain, Ready, Place, Rereads
<1>4. CASE TakeRecv(t, TRUE) \/ TakeRecv(t, FALSE)
  <2>0. PICK data \in BOOLEAN : TakeRecv(t, data)
    BY <1>4
  <2>1. /\ at[t] = "idle" /\ back'[t] = back[t] /\ Alone(t) /\ Quiet
        /\ reading' = reading /\ listWork' = listWork
        /\ recvs > 0 /\ recvs' = recvs - 1
        /\ seen'[t] \/ failures' # 0
        /\ \/ at'[t] = "EndRead"
           \/ at'[t] = "crash" /\ cleared
    BY <2>0, <1>0, <1>c, ReadFacts DEF TakeRecv, Alone, Quiet, Open
  <2>2. CASE at'[t] = "EndRead"
    BY <2>1, <2>2, Takes DEF Plain, Ready, Place, Rereads
  <2>3. CASE at'[t] = "crash" /\ cleared
    <3>1. NoRead /\ recvs' \in 0..recvs
      BY <2>1 DEF NoRead, TypeOK, CountsTyped
    <3> QED BY <2>1, <2>3, <3>1, Ends, RecvsStay
               DEF Plain, Ready, Place, Rereads
  <2> QED BY <2>1, <2>2, <2>3
<1>5. CASE TakeFailure(t)
  <2>1. /\ at[t] = "idle" /\ at'[t] \in {"Timeout", "Unavailable", "idle"}
        /\ back'[t] = "idle" /\ Alone(t) /\ Quiet /\ NoRead
        /\ closeFlag' # {} \/ failures' # 0 \/ cleared
    BY <1>5, <1>0, <1>c, ReadFacts
       DEF TakeFailure, Alone, Quiet, NoRead, Open
  <2>2. recvs' \in 0..recvs
    BY <1>5 DEF TakeFailure, TypeOK, CountsTyped
  <2> QED BY <2>1, <2>2, Ends DEF Plain, Ready, Place, Rereads
<1>6. CASE TakeSend(t)
  <2>1. /\ at[t] = "idle" /\ at'[t] \in {"EndWrite", "EndDisconnect"}
        /\ back'[t] = back[t]
        /\ Alone(t) /\ Quiet /\ (OnlySerial' <=> OnlySerial) /\ NoRead
        /\ recvs' = recvs
        /\ (at'[t] = "EndDisconnect" => closeFlag' # {} \/ cleared)
    BY <1>6, <1>0, ReadFacts
       DEF TakeSend, TakeWritten, Alone, Quiet, NoRead, Open, OnlySerial
  <2> QED BY <2>1, <1>0, Aside DEF Plain, Ready, Place, Rereads
<1>7. CASE TakeDisc(t)
  <2>1. /\ at[t] = "idle" /\ at'[t] \in {"EndWrite", "EndDisconnect"}
        /\ back'[t] = back[t]
        /\ Alone(t) /\ Quiet /\ (OnlySerial' <=> OnlySerial) /\ NoRead
        /\ recvs' = recvs
        /\ (at'[t] = "EndDisconnect" => closeFlag' # {} \/ cleared)
    BY <1>7, <1>0, ReadFacts
       DEF TakeDisc, TakeWritten, Alone, Quiet, NoRead, Open, OnlySerial
  <2> QED BY <2>1, <1>0, Aside DEF Plain, Ready, Place, Rereads
<1>8. CASE TakeWork(t)
  <2>1. /\ at[t] = "idle" /\ at'[t] = "Worker" /\ back'[t] = back[t]
        /\ Alone(t) /\ Quiet /\ (OnlySerial' <=> OnlySerial)
        /\ reading' = reading /\ recvs' = recvs /\ listWork > 0
        /\ listWork' = listWork - 1
    BY <1>8, <1>0 DEF TakeWork, Alone, Quiet, NoRead, Open, OnlySerial
  <2>2. CASE OnlySerial
    BY <2>1, <2>2, <1>0, Takes DEF Plain, Ready, Place, Rereads
  <2>3. CASE ~OnlySerial
    BY <2>1, <2>3, <1>0, Aside DEF NoRead, Plain, Ready, Place, Rereads
  <2> QED BY <2>1, <2>2, <2>3
<1>9. CASE SendTest(t)
  <2>1. /\ at[t] = "idle" /\ at'[t] = "Send.push" /\ back'[t] = back[t]
        /\ Alone(t) /\ Quiet /\ (OnlySerial' <=> OnlySerial) /\ NoRead
        /\ recvs' = recvs
    BY <1>9, <1>0 DEF SendTest, Alone, Quiet, NoRead, Open, OnlySerial
  <2> QED BY <2>1, <1>0, Aside DEF Plain, Ready, Place, Rereads
<1>10. CASE CloseClient(t)
  <2>1. /\ at[t] = "idle" /\ at'[t] = "CloseClient" /\ back'[t] = back[t]
        /\ Alone(t) /\ Quiet /\ (OnlySerial' <=> OnlySerial) /\ NoRead
        /\ recvs' = recvs
    BY <1>10, <1>0 DEF CloseClient, Alone, Quiet, NoRead, Open, OnlySerial
  <2> QED BY <2>1, <1>0, Aside DEF Plain, Ready, Place, Rereads
<1> QED BY <1>1, <1>2, <1>3, <1>4, <1>5, <1>6, <1>7, <1>8, <1>9, <1>10
           DEF Rest

-----------------------------------------------------------------------------
(* A calm state comes from a calm state.                                    *)

LEMMA CalmBeginRead ==
  ASSUME FlagsTyped, CountsTyped, Calm', NEW t \in Threads, BeginRead(t)
  PROVE  Calm
<1> USE DEF Step, counts, flags, bricks, calls, pool, locals, Branch,
            SetFlags, Count, Note, Enter, Fail
<1>0. /\ failures \in Nat /\ failures' = 0 /\ ~cleared' /\ connected'
      /\ cleared \in BOOLEAN /\ connected \in BOOLEAN
      /\ failures' # failures + 1
  BY KindTyped DEF FlagsTyped, CountsTyped, Calm, Intact
<1>1. CASE BeginReadEnter(t)
  BY <1>1, <1>0 DEF BeginReadEnter, Calm, Intact
<1>2. CASE BeginReadTest(t)
  BY <1>2, <1>0 DEF BeginReadTest, Calm, Intact
<1>3. CASE BeginReadLoad(t)
  BY <1>3, <1>0 DEF BeginReadLoad, Calm, Intact
<1>4. CASE BeginReadSwitch(t)
  BY <1>4, <1>0 DEF BeginReadSwitch, Calm, Intact
<1>5. CASE BeginReadCompare(t)
  BY <1>5, <1>0 DEF BeginReadCompare, Calm, Intact
<1>6. CASE BeginReadRecv(t)
  BY <1>6, <1>0 DEF BeginReadRecv, Calm, Intact
<1>7. CASE BeginReadOff(t)
  BY <1>7, <1>0 DEF BeginReadOff, Calm, Intact
<1>8. CASE BeginReadCount(t)
  BY <1>8, <1>0 DEF BeginReadCount, Calm, Intact
<1>9. CASE BeginReadExit(t)
  BY <1>9, <1>0, LeaveSteps DEF BeginReadExit, Calm, Intact
<1> QED BY <1>1, <1>2, <1>3, <1>4, <1>5, <1>6, <1>7, <1>8, <1>9 DEF BeginRead

LEMMA CalmEndRead ==
  ASSUME FlagsTyped, CountsTyped, Calm', NEW t \in Threads, EndRead(t)
  PROVE  Calm
<1> USE DEF counts, flags, bricks, calls, pool, locals, Branch, SetFlags,
            Count, Enter
<1>0. /\ failures \in Nat /\ failures' = 0 /\ ~cleared' /\ connected'
      /\ cleared \in BOOLEAN /\ connected \in BOOLEAN
      /\ failures' # failures + 1
  BY KindTyped DEF FlagsTyped, CountsTyped, Calm, Intact
<1>1. CASE EndReadEnter(t)
  BY <1>1, <1>0 DEF EndReadEnter, Calm, Intact
<1>2. CASE EndReadMinus(t)
  BY <1>2, <1>0 DEF EndReadMinus, Calm, Intact
<1>3. CASE EndReadTest(t)
  BY <1>3, <1>0 DEF EndReadTest, Calm, Intact
<1>4. CASE EndReadWrite(t)
  BY <1>4, <1>0 DEF EndReadWrite, Calm, Intact
<1>5. CASE EndReadWrote(t)
  BY <1>5, <1>0 DEF EndReadWrote, Calm, Intact
<1>6. CASE EndReadMode(t)
  BY <1>6, <1>0 DEF EndReadMode, Calm, Intact
<1>7. CASE EndReadCount(t)
  BY <1>7, <1>0 DEF EndReadCount, Calm, Intact
<1>8. CASE EndReadPush(t)
  BY <1>8, <1>0 DEF EndReadPush, Calm, Intact
<1>9. CASE EndReadExit(t)
  BY <1>9, <1>0, LeaveSteps DEF EndReadExit, Calm, Intact
<1> QED BY <1>1, <1>2, <1>3, <1>4, <1>5, <1>6, <1>7, <1>8, <1>9 DEF EndRead

LEMMA CalmBeginWrite ==
  ASSUME FlagsTyped, CountsTyped, Calm', NEW t \in Threads, BeginWrite(t)
  PROVE  Calm
<1> USE DEF Step, counts, flags, bricks, calls, pool, locals, Branch,
            SetFlags, Count, Note, Enter, Fail
<1>0. /\ failures \in Nat /\ failures' = 0 /\ ~cleared' /\ connected'
      /\ cleared \in BOOLEAN /\ connected \in BOOLEAN
      /\ failures' # failures + 1
  BY KindTyped DEF FlagsTyped, CountsTyped, Calm, Intact
<1>1. CASE BeginWriteEnter(t)
  BY <1>1, <1>0 DEF BeginWriteEnter, Calm, Intact
<1>2. CASE BeginWriteTest(t)
  BY <1>2, <1>0 DEF BeginWriteTest, Calm, Intact
<1>3. CASE BeginWriteLoad(t)
  BY <1>3, <1>0 DEF BeginWriteLoad, Calm, Intact
<1>4. CASE BeginWriteSwitch(t)
  BY <1>4, <1>0 DEF BeginWriteSwitch, Calm, Intact
<1>5. CASE BeginWriteCompare(t)
  BY <1>5, <1>0 DEF BeginWriteCompare, Calm, Intact
<1>6. CASE PopBrick(t)
  BY <1>6, <1>0 DEF PopBrick, Calm, Intact
<1>7. CASE BeginWriteAgain(t)
  BY <1>7, <1>0 DEF BeginWriteAgain, Calm, Intact
<1>8. CASE PushHeadBrick(t)
  BY <1>8, <1>0 DEF PushHeadBrick, Calm, Intact
<1>9. CASE BeginWriteSend(t)
  BY <1>9, <1>0 DEF BeginWriteSend, Calm, Intact
<1>10. CASE BeginWriteLast(t)
  BY <1>10, <1>0 DEF BeginWriteLast, Calm, Intact
<1>11. CASE BeginWriteCount(t)
  BY <1>11, <1>0 DEF BeginWriteCount, Calm, Intact
<1>12. CASE BeginWriteOff(t)
  BY <1>12, <1>0 DEF BeginWriteOff, Calm, Intact
<1>13. CASE BeginWriteExit(t)
  BY <1>13, <1>0, LeaveSteps DEF BeginWriteExit, Calm, Intact
<1> QED BY <1>1, <1>2, <1>3, <1>4, <1>5, <1>6, <1>7, <1>8, <1>9, <1>10,
           <1>11, <1>12, <1>13
           DEF BeginWrite

LEMMA CalmEndWrite ==
  ASSUME FlagsTyped, CountsTyped, Calm', NEW t \in Threads, EndWrite(t)
  PROVE  Calm
<1> USE DEF counts, flags, bricks, calls, pool, locals, Branch, Count, Enter
<1>0. /\ failures \in Nat /\ failures' = 0 /\ ~cleared' /\ connected'
      /\ cleared \in BOOLEAN /\ connected \in BOOLEAN
      /\ failures' # failures + 1
  BY KindTyped DEF FlagsTyped, CountsTyped, Calm, Intact
<1>1. CASE EndWriteEnter(t)
  BY <1>1, <1>0 DEF EndWriteEnter, Calm, Intact
<1>2. CASE EndWriteMinus(t)
  BY <1>2, <1>0 DEF EndWriteMinus, Calm, Intact
<1>3. CASE EndWriteTest(t)
  BY <1>3, <1>0 DEF EndWriteTest, Calm, Intact
<1>4. CASE EndWriteLast(t)
  BY <1>4, <1>0 DEF EndWriteLast, Calm, Intact
<1>5. CASE EndWriteNull(t)
  BY <1>5, <1>0 DEF EndWriteNull, Calm, Intact
<1>6. CASE EndWriteDone(t)
  BY <1>6, <1>0 DEF EndWriteDone, Calm, Intact
<1>7. CASE EndWriteMore(t)
  BY <1>7, <1>0 DEF EndWriteMore, Calm, Intact
<1>8. CASE EndWriteExit(t)
  BY <1>8, <1>0, LeaveSteps DEF EndWriteExit, Calm, Intact
<1> QED BY <1>1, <1>2, <1>3, <1>4, <1>5, <1>6, <1>7, <1>8 DEF EndWrite

LEMMA CalmCraft ==
  ASSUME FlagsTyped, CountsTyped, Calm', NEW t \in Threads, Craft(t)
  PROVE  Calm
<1> USE DEF Step, counts, flags, bricks, calls, pool, locals, Branch,
            SetFlags, Count, Enter, DestroyNow
<1>0. /\ failures \in Nat /\ failures' = 0 /\ ~cleared' /\ connected'
      /\ cleared \in BOOLEAN /\ connected \in BOOLEAN
      /\ failures' # failures + 1
  BY KindTyped DEF FlagsTyped, CountsTyped, Calm, Intact
<1>1. CASE ExecuteWorker(t)
  BY <1>1, <1>0 DEF ExecuteWorker, Calm, Intact
<1>2. CASE CraftEnter(t)
  BY <1>2, <1>0 DEF CraftEnter, Calm, Intact
<1>3. CASE CraftTest(t)
  BY <1>3, <1>0 DEF CraftTest, Calm, Intact
<1>4. CASE CraftCrash(t)
  BY <1>4, <1>0 DEF CraftCrash, Calm, Intact
<1>5. CASE CraftRead(t)
  BY <1>5, <1>0 DEF CraftRead, Calm, Intact
<1>6. CASE CraftContinue(t)
  BY <1>6, <1>0 DEF CraftContinue, Calm, Intact
<1>7. CASE CraftReturn(t)
  BY <1>7, <1>0 DEF CraftReturn, Calm, Intact
<1>8. CASE CraftRetire(t)
  BY <1>8, <1>0 DEF CraftRetire, Calm, Intact
<1>9. CASE RetireLoad(t)
  BY <1>9, <1>0 DEF RetireLoad, Calm, Intact
<1>10. CASE RetireCompare(t)
  BY <1>10, <1>0 DEF RetireCompare, Calm, Intact
<1>11. CASE CraftClose(t)
  BY <1>11, <1>0 DEF CraftClose, Calm, Intact
<1>12. CASE CraftJoin(t)
  BY <1>12, <1>0 DEF CraftJoin, Calm, Intact
<1>13. CASE CraftExit(t)
  BY <1>13, <1>0, LeaveSteps DEF CraftExit, Calm, Intact
<1> QED BY <1>1, <1>2, <1>3, <1>4, <1>5, <1>6, <1>7, <1>8, <1>9, <1>10,
           <1>11, <1>12, <1>13
           DEF Craft

LEMMA CalmClosing ==
  ASSUME FlagsTyped, CountsTyped, Calm', NEW t \in Threads, Closing(t)
  PROVE  Calm
<1> USE DEF Step, counts, flags, bricks, calls, pool, locals, Branch,
            SetFlags, Count, Enter, DestroyNow, Fail
<1>0. /\ failures \in Nat /\ failures' = 0 /\ ~cleared' /\ connected'
      /\ cleared \in BOOLEAN /\ connected \in BOOLEAN
      /\ failures' # failures + 1
  BY KindTyped DEF FlagsTyped, CountsTyped, Calm, Intact
<1>1. CASE HandleErrorNotify(t)
  BY <1>1, <1>0 DEF HandleErrorNotify, Calm, Intact
<1>2. CASE HandleErrorDestroy(t)
  BY <1>2, <1>0 DEF HandleErrorDestroy, Calm, Intact
<1>3. CASE Destroy(t)
  BY <1>3, <1>0 DEF Destroy, Calm, Intact
<1>4. CASE Unavailable(t)
  BY <1>4, <1>0 DEF Unavailable, Calm, Intact
<1>5. CASE UnavailableFlag(t)
  BY <1>5, <1>0 DEF UnavailableFlag, Calm, Intact
<1>6. CASE Close(t)
  BY <1>6, <1>0 DEF Close, Calm, Intact
<1>7. CASE Closesocket(t)
  BY <1>7, <1>0 DEF Closesocket, Calm, Intact
<1>8. CASE ReclaimUnlist(t)
  BY <1>8, <1>0 DEF ReclaimUnlist, Calm, Intact
<1>9. CASE ReclaimDisp(t)
  BY <1>9, <1>0 DEF ReclaimDisp, Calm, Intact
<1>10. CASE ReclaimPeer(t)
  BY <1>10, <1>0 DEF ReclaimPeer, Calm, Intact
<1>11. CASE BeginDisconnectEnter(t)
  BY <1>11, <1>0 DEF BeginDisconnectEnter, Calm, Intact
<1>12. CASE BeginDisconnectOp(t)
  BY <1>12, <1>0 DEF BeginDisconnectOp, Calm, Intact
<1>13. CASE BeginDisconnectCall(t)
  BY <1>13, <1>0 DEF BeginDisconnectCall, Calm, Intact
<1>14. CASE BeginDisconnectCount(t)
  BY <1>14, <1>0 DEF BeginDisconnectCount, Calm, Intact
<1>15. CASE BeginDisconnectExit(t)
  BY <1>15, <1>0, LeaveSteps DEF BeginDisconnectExit, Calm, Intact
<1>16. CASE EndDisconnectEnter(t)
  BY <1>16, <1>0 DEF EndDisconnectEnter, Calm, Intact
<1>17. CASE EndDisconnectMinus(t)
  BY <1>17, <1>0 DEF EndDisconnectMinus, Calm, Intact
<1>18. CASE EndDisconnectExit(t)
  BY <1>18, <1>0, LeaveSteps DEF EndDisconnectExit, Calm, Intact
<1> QED BY <1>1, <1>2, <1>3, <1>4, <1>5, <1>6, <1>7, <1>8, <1>9, <1>10,
           <1>11, <1>12, <1>13, <1>14, <1>15, <1>16, <1>17, <1>18
           DEF Closing

LEMMA CalmRest ==
  ASSUME FlagsTyped, CountsTyped, Calm', NEW t \in Threads, Rest(t)
  PROVE  Calm
<1> USE DEF counts, flags, bricks, calls, pool, locals, Count, Taken, Fail
<1>0. /\ failures \in Nat /\ failures' = 0 /\ ~cleared' /\ connected'
      /\ cleared \in BOOLEAN /\ connected \in BOOLEAN
      /\ failures' # failures + 1
  BY KindTyped DEF FlagsTyped, CountsTyped, Calm, Intact
<1>1. CASE Zero(t)
  BY <1>1, <1>0 DEF Zero, Calm, Intact
<1>2. CASE Timeout(t)
  BY <1>2, <1>0 DEF Timeout, Calm, Intact
<1>3. CASE PushBrick(t)
  BY <1>3, <1>0 DEF PushBrick, Calm, Intact
<1>4. CASE TakeRecv(t, TRUE) \/ TakeRecv(t, FALSE)
  <2>1. failures' = failures \/ failures' = failures + 1
    BY <1>4 DEF TakeRecv
  <2>2. UNCHANGED <<cleared, connected>>
    BY <1>4 DEF TakeRecv
  <2> QED BY <1>0, <2>1, <2>2 DEF Calm, Intact
<1>5. CASE TakeFailure(t)
  BY <1>5, <1>0 DEF TakeFailure, Calm, Intact
<1>6. CASE TakeSend(t)
  BY <1>6, <1>0 DEF TakeSend, TakeWritten, Calm, Intact
<1>7. CASE TakeDisc(t)
  BY <1>7, <1>0 DEF TakeDisc, TakeWritten, Calm, Intact
<1>8. CASE TakeWork(t)
  BY <1>8, <1>0 DEF TakeWork, Calm, Intact
<1>9. CASE SendTest(t)
  BY <1>9, <1>0 DEF SendTest, Calm, Intact
<1>10. CASE CloseClient(t)
  BY <1>10, <1>0 DEF CloseClient, Calm, Intact
<1> QED BY <1>1, <1>2, <1>3, <1>4, <1>5, <1>6, <1>7, <1>8, <1>9, <1>10
           DEF Rest

-----------------------------------------------------------------------------
(* The reference counts, step by step.                                      *)

LEMMA RefsBeginRead ==
  ASSUME TypeOK, TypeOK', ReadInv, Unsent, CalmFits, Counted, Roomy', Calm,
         Calm', NEW t \in Threads, BeginRead(t)
  PROVE  CalmFits' /\ Counted'
<1> USE DEF Step, counts, flags, bricks, calls, pool, locals, Branch,
            SetFlags, Count, Note, Enter, Fail, Reads, InBeginRead,
            PostedRead, LeavesRead, InEndRead, InBeginWrite, PostedWrite,
            LeavesWrite, InEndWrite, InCraft, Twice, Once, Failing
<1>a. /\ RolesFit /\ at \in [Threads -> Places]
      /\ back \in [Threads -> Places]
      /\ seen \in [Threads -> BOOLEAN] /\ failures \in Nat
  BY KindTyped DEF TypeOK, RolesFit, FlagsTyped, CountsTyped
<1>b. /\ failures = 0 /\ ~cleared /\ connected
      /\ failures' = 0 /\ ~cleared' /\ connected'
  BY DEF Calm, Intact
<1>c. /\ "Reuse" \notin closeFlag /\ writeOp = "Write" /\ discs = 0
      /\ at[t] \notin Failing /\ (at[t] = "zero" => back[t] = "idle")
  BY DEF CalmFits
<1>d. /\ References(t) > 0 => refIO # 0 /\ DecIf(refIO) = Dec(refIO)
      /\ ReadReferences(t) > 0 =>
           refReadIO # 0 /\ DecIf(refReadIO) = Dec(refReadIO)
      /\ References(t) > 1 => Dec(refIO) # 0
  BY HoldersCount
<1>e. /\ recvs \in Nat /\ Cardinality(sends) \in Nat /\ listWork \in Nat
  BY PostedTyped DEF TypeOK, CountsTyped
<1>1. CASE BeginReadEnter(t)
  <2>1. /\ at[t] = "BeginRead" /\ at'[t] = "BeginRead.test"
        /\ back'[t] = back[t]
        /\ Alone(t) /\ "Reuse" \notin closeFlag' /\ writeOp' = "Write"
        /\ discs' = 0 /\ refIO' = Inc(refIO) /\ refReadIO' = Inc(refReadIO)
        /\ Posted' = Posted /\ recvs' = recvs
    BY <1>1, <1>a, <1>b, <1>c DEF BeginReadEnter, Alone, Posted, Intact
  <2> QED BY <2>1, <1>a, <1>d, PostedTyped, CalmMoves
             DEF References, ReadReferences, ClosesInCraft, Calls
<1>2. CASE BeginReadTest(t)
  <2>1. /\ at[t] = "BeginRead.test"
        /\ at'[t] \in {"BeginRead.exit", "BeginRead.load"}
        /\ back'[t] = back[t]
        /\ Alone(t) /\ "Reuse" \notin closeFlag' /\ writeOp' = "Write"
        /\ discs' = 0 /\ refIO' = refIO /\ refReadIO' = refReadIO
        /\ Posted' = Posted /\ recvs' = recvs
    BY <1>2, <1>a, <1>b, <1>c DEF BeginReadTest, Alone, Posted, Intact
  <2> QED BY <2>1, <1>a, <1>d, PostedTyped, CalmMoves
             DEF References, ReadReferences, ClosesInCraft, Calls
<1>3. CASE BeginReadLoad(t)
  <2>1. /\ at[t] = "BeginRead.load" /\ at'[t] = "BeginRead.switch"
        /\ back'[t] = back[t]
        /\ Alone(t) /\ "Reuse" \notin closeFlag' /\ writeOp' = "Write"
        /\ discs' = 0 /\ refIO' = refIO /\ refReadIO' = refReadIO
        /\ Posted' = Posted /\ recvs' = recvs
    BY <1>3, <1>a, <1>b, <1>c DEF BeginReadLoad, Alone, Posted, Intact
  <2> QED BY <2>1, <1>a, <1>d, PostedTyped, CalmMoves
             DEF References, ReadReferences, ClosesInCraft, Calls
<1>4. CASE BeginReadSwitch(t)
  <2>1. /\ at[t] = "BeginRead.switch" /\ at'[t] = "BeginRead.compare"
        /\ back'[t] = back[t]
        /\ Alone(t) /\ "Reuse" \notin closeFlag' /\ writeOp' = "Write"
        /\ discs' = 0 /\ refIO' = refIO /\ refReadIO' = refReadIO
        /\ Posted' = Posted /\ recvs' = recvs
    BY <1>4, <1>a, <1>b, <1>c DEF BeginReadSwitch, Alone, Posted, Intact
  <2> QED BY <2>1, <1>a, <1>d, PostedTyped, CalmMoves
             DEF References, ReadReferences, ClosesInCraft, Calls
<1>5. CASE BeginReadCompare(t)
  <2>1. /\ at[t] = "BeginRead.compare"
        /\ at'[t] \in {"BeginRead.recv", "BeginRead.off"}
        /\ back'[t] = back[t]
        /\ Alone(t) /\ "Reuse" \notin closeFlag' /\ writeOp' = "Write"
        /\ discs' = 0 /\ refIO' = refIO /\ refReadIO' = refReadIO
        /\ Posted' = Posted /\ recvs' = recvs
    BY <1>5, <1>a, <1>b, <1>c DEF BeginReadCompare, Alone, Posted, Intact
  <2> QED BY <2>1, <1>a, <1>d, PostedTyped, CalmMoves
             DEF References, ReadReferences, ClosesInCraft, Calls
<1>6. CASE BeginReadRecv(t)
  <2>1. /\ at[t] = "BeginRead.recv" /\ at'[t] = "BeginRead.posted"
        /\ back'[t] = back[t]
        /\ Alone(t) /\ "Reuse" \notin closeFlag' /\ writeOp' = "Write"
        /\ discs' = 0 /\ refIO' = refIO /\ refReadIO' = refReadIO
        /\ recvs' = recvs + 1 /\ sends' = sends /\ listWork' = listWork
        /\ t \notin Users
    BY <1>6, <1>a, <1>b, <1>c, ReadersAreNoUsers
       DEF BeginReadRecv, Alone, Posted, Intact
  <2>2. Posted' = Posted + 1
    BY <2>1, <1>e DEF Posted
  <2> QED BY <2>1, <2>2, <1>a, <1>d, PostedTyped, CalmMoves
             DEF References, ReadReferences, ClosesInCraft, Calls
<1>7. CASE BeginReadOff(t)
  <2>1. /\ \/ /\ at[t] = "BeginRead.off" /\ at'[t] = "BeginRead.exit"
              /\ back'[t] = back[t]
           \/ /\ at[t] = "BeginRead.posted" /\ at'[t] = "BeginRead.count"
              /\ back'[t] = back[t]
        /\ Alone(t) /\ "Reuse" \notin closeFlag' /\ writeOp' = "Write"
        /\ discs' = 0 /\ refIO' = refIO /\ refReadIO' = refReadIO
        /\ Posted' = Posted /\ recvs' = recvs
    BY <1>7, <1>a, <1>b, <1>c DEF BeginReadOff, Alone, Posted, Intact
  <2> QED BY <2>1, <1>a, <1>d, PostedTyped, CalmMoves
             DEF References, ReadReferences, ClosesInCraft, Calls
<1>8. CASE BeginReadCount(t)
  <2>1. /\ at[t] = "BeginRead.count" /\ at'[t] = "BeginRead.exit"
        /\ back'[t] = back[t]
        /\ Alone(t) /\ "Reuse" \notin closeFlag' /\ writeOp' = "Write"
        /\ discs' = 0 /\ refIO' = Inc(refIO) /\ refReadIO' = Inc(refReadIO)
        /\ Posted' = Posted /\ recvs' = recvs
    BY <1>8, <1>a, <1>b, <1>c DEF BeginReadCount, Alone, Posted, Intact
  <2> QED BY <2>1, <1>a, <1>d, PostedTyped, CalmMoves
             DEF References, ReadReferences, ClosesInCraft, Calls
<1>9. CASE BeginReadExit(t)
  <2>1. Leave(t, "BeginRead.exit", AfterRead(t), TRUE)
    BY <1>9, <1>c DEF BeginReadExit, Leave
  <2>2. at[t] = "BeginRead.exit" /\ t \notin Users
    BY <1>a, <2>1, LeaveSteps, ReadersAreNoUsers
  <2>3. Dec(refIO) # 0
    BY <2>2, <1>d DEF References, ReadReferences, ClosesInCraft, Calls
  <2>4. /\ at[t] = "BeginRead.exit" /\ at'[t] = AfterRead(t)
        /\ back'[t] = "idle"
        /\ Alone(t)
    BY <2>1, <2>2, <2>3, LeaveGoes
  <2>5. /\ "Reuse" \notin closeFlag' /\ writeOp' = "Write" /\ discs' = 0
        /\ refIO' = Dec(refIO) /\ refReadIO' = Dec(refReadIO)
        /\ Posted' = Posted /\ recvs' = recvs
    BY <2>1, <1>b, <1>c, LeaveSteps DEF Posted
  <2> QED BY <2>2, <2>4, <2>5, <1>a, PostedTyped, CalmMoves, WhoIsThere,
             ReadersAreNoUsers, ReturnsReadOn
             DEF References, ReadReferences, ClosesInCraft, Calls
<1> QED BY <1>1, <1>2, <1>3, <1>4, <1>5, <1>6, <1>7, <1>8, <1>9 DEF BeginRead

LEMMA RefsEndRead ==
  ASSUME TypeOK, TypeOK', ReadInv, Unsent, CalmFits, Counted, Roomy', Calm,
         Calm', NEW t \in Threads, EndRead(t)
  PROVE  CalmFits' /\ Counted'
<1> USE DEF Step, counts, flags, bricks, calls, pool, locals, Branch,
            SetFlags, Count, Enter, InBeginRead, PostedRead, LeavesRead,
            InEndRead, InBeginWrite, PostedWrite, LeavesWrite, InEndWrite,
            InCraft, Twice, Once, Failing
<1>a. /\ RolesFit /\ at \in [Threads -> Places]
      /\ back \in [Threads -> Places]
      /\ seen \in [Threads -> BOOLEAN] /\ failures \in Nat
  BY KindTyped DEF TypeOK, RolesFit, FlagsTyped, CountsTyped
<1>b. /\ failures = 0 /\ ~cleared /\ connected
      /\ failures' = 0 /\ ~cleared' /\ connected'
  BY DEF Calm, Intact
<1>c. /\ "Reuse" \notin closeFlag /\ writeOp = "Write" /\ discs = 0
      /\ at[t] \notin Failing /\ (at[t] = "zero" => back[t] = "idle")
  BY DEF CalmFits
<1>d. /\ References(t) > 0 => refIO # 0 /\ DecIf(refIO) = Dec(refIO)
      /\ ReadReferences(t) > 0 =>
           refReadIO # 0 /\ DecIf(refReadIO) = Dec(refReadIO)
      /\ References(t) > 1 => Dec(refIO) # 0
  BY HoldersCount
<1>e. /\ recvs \in Nat /\ Cardinality(sends) \in Nat /\ listWork \in Nat
  BY PostedTyped DEF TypeOK, CountsTyped
<1>1. CASE EndReadEnter(t)
  <2>1. /\ at[t] = "EndRead" /\ at'[t] = "EndRead.minus" /\ back'[t] = back[t]
        /\ Alone(t) /\ "Reuse" \notin closeFlag' /\ writeOp' = "Write"
        /\ discs' = 0 /\ refIO' = Inc(refIO) /\ refReadIO' = Inc(refReadIO)
        /\ Posted' = Posted /\ recvs' = recvs
    BY <1>1, <1>a, <1>b, <1>c DEF EndReadEnter, Alone, Posted, Intact
  <2> QED BY <2>1, <1>a, <1>d, PostedTyped, CalmMoves
             DEF References, ReadReferences, ClosesInCraft, Calls
<1>2. CASE EndReadMinus(t)
  <2>1. /\ at[t] = "EndRead.minus" /\ at'[t] = "EndRead.test"
        /\ back'[t] = back[t]
        /\ Alone(t) /\ "Reuse" \notin closeFlag' /\ writeOp' = "Write"
        /\ discs' = 0 /\ refIO' = Dec(refIO) /\ refReadIO' = Dec(refReadIO)
        /\ Posted' = Posted /\ recvs' = recvs
    BY <1>2, <1>a, <1>b, <1>c, HoldersCount
       DEF EndReadMinus, Alone, Posted, Intact, References, ReadReferences,
           ClosesInCraft, Calls
  <2> QED BY <2>1, <1>a, <1>d, PostedTyped, CalmMoves
             DEF References, ReadReferences, ClosesInCraft, Calls
<1>3. CASE EndReadTest(t)
  <2>1. /\ at[t] = "EndRead.test"
        /\ at'[t] \in {"EndRead.exit", "EndRead.write"} /\ back'[t] = back[t]
        /\ Alone(t) /\ "Reuse" \notin closeFlag' /\ writeOp' = "Write"
        /\ discs' = 0 /\ refIO' = refIO /\ refReadIO' = refReadIO
        /\ Posted' = Posted /\ recvs' = recvs
    BY <1>3, <1>a, <1>b, <1>c, ReadFacts
       DEF EndReadTest, Alone, Posted, Intact
  <2> QED BY <2>1, <1>a, <1>d, PostedTyped, CalmMoves
             DEF References, ReadReferences, ClosesInCraft, Calls
<1>4. CASE EndReadWrite(t)
  <2>1. /\ at[t] = "EndRead.write" /\ at'[t] = "EndRead.wrote"
        /\ back'[t] = back[t]
        /\ Alone(t) /\ "Reuse" \notin closeFlag' /\ writeOp' = "Write"
        /\ discs' = 0 /\ refIO' = refIO /\ refReadIO' = refReadIO
        /\ Posted' = Posted /\ recvs' = recvs
    BY <1>4, <1>a, <1>b, <1>c DEF EndReadWrite, Alone, Posted, Intact
  <2> QED BY <2>1, <1>a, <1>d, PostedTyped, CalmMoves
             DEF References, ReadReferences, ClosesInCraft, Calls
<1>5. CASE EndReadWrote(t)
  <2>1. /\ at[t] = "EndRead.wrote" /\ at'[t] = "EndRead.mode"
        /\ back'[t] = back[t]
        /\ Alone(t) /\ "Reuse" \notin closeFlag' /\ writeOp' = "Write"
        /\ discs' = 0 /\ refIO' = refIO /\ refReadIO' = refReadIO
        /\ Posted' = Posted /\ recvs' = recvs
    BY <1>5, <1>a, <1>b, <1>c DEF EndReadWrote, Alone, Posted, Intact
  <2> QED BY <2>1, <1>a, <1>d, PostedTyped, CalmMoves
             DEF References, ReadReferences, ClosesInCraft, Calls
<1>6. CASE EndReadMode(t)
  <2>1. /\ at[t] = "EndRead.mode"
        /\ at'[t] \in {"BeginRead", "EndRead.count"} /\ back'[t] = back[t]
        /\ Alone(t) /\ "Reuse" \notin closeFlag' /\ writeOp' = "Write"
        /\ discs' = 0 /\ refIO' = refIO /\ refReadIO' = refReadIO
        /\ Posted' = Posted /\ recvs' = recvs /\ t \in IOThreads
        /\ t \notin Users
    BY <1>6, <1>a, <1>b, <1>c, WhoIsThere, ReturnsReadOn
       DEF EndReadMode, Alone, Posted, Intact
  <2> QED BY <2>1, <1>a, <1>d, PostedTyped, CalmMoves
             DEF References, ReadReferences, ClosesInCraft, Calls
<1>7. CASE EndReadCount(t)
  <2>1. /\ at[t] = "EndRead.count" /\ at'[t] = "EndRead.push"
        /\ back'[t] = back[t]
        /\ Alone(t) /\ "Reuse" \notin closeFlag' /\ writeOp' = "Write"
        /\ discs' = 0 /\ refIO' = Inc(refIO) /\ refReadIO' = refReadIO
        /\ Posted' = Posted /\ recvs' = recvs
    BY <1>7, <1>a, <1>b, <1>c DEF EndReadCount, Alone, Posted, Intact
  <2> QED BY <2>1, <1>a, <1>d, PostedTyped, CalmMoves
             DEF References, ReadReferences, ClosesInCraft, Calls
<1>8. CASE EndReadPush(t)
  <2>1. /\ at[t] = "EndRead.push" /\ at'[t] = "EndRead.exit"
        /\ back'[t] = back[t]
        /\ Alone(t) /\ "Reuse" \notin closeFlag' /\ writeOp' = "Write"
        /\ discs' = 0 /\ refIO' = refIO /\ refReadIO' = refReadIO
        /\ recvs' = recvs /\ sends' = sends /\ listWork' = listWork + 1
    BY <1>8, <1>a, <1>b, <1>c DEF EndReadPush, Alone, Posted, Intact
  <2>2. Posted' = Posted + 1
    BY <2>1, <1>e DEF Posted
  <2> QED BY <2>1, <2>2, <1>a, <1>d, PostedTyped, CalmMoves
             DEF References, ReadReferences, ClosesInCraft, Calls
<1>9. CASE EndReadExit(t)
  <2>1. Leave(t, "EndRead.exit", "idle", TRUE)
    BY <1>9, <1>c DEF EndReadExit, Leave
  <2>2. at[t] = "EndRead.exit"
    BY <1>a, <2>1, LeaveSteps
  <2>4. /\ \/ at[t] = "EndRead.exit" /\ at'[t] = "idle" /\ back'[t] = "idle"
           \/ at[t] = "EndRead.exit" /\ at'[t] = "zero" /\ back'[t] = "idle"
        /\ Alone(t)
    BY <2>1, LeaveGoes
  <2>5. /\ "Reuse" \notin closeFlag' /\ writeOp' = "Write" /\ discs' = 0
        /\ refIO' = Dec(refIO) /\ refReadIO' = Dec(refReadIO)
        /\ Posted' = Posted /\ recvs' = recvs
    BY <2>1, <1>b, <1>c, LeaveSteps DEF Posted
  <2> QED BY <2>2, <2>4, <2>5, <1>a, PostedTyped, CalmMoves
             DEF References, ReadReferences, ClosesInCraft, Calls
<1> QED BY <1>1, <1>2, <1>3, <1>4, <1>5, <1>6, <1>7, <1>8, <1>9 DEF EndRead

LEMMA RefsBeginWrite ==
  ASSUME TypeOK, TypeOK', ReadInv, Unsent, CalmFits, Counted, Roomy', Calm,
         Calm', NEW t \in Threads, BeginWrite(t)
  PROVE  CalmFits' /\ Counted'
<1> USE DEF Step, counts, flags, bricks, calls, pool, locals, Branch,
            SetFlags, Count, Note, Enter, Fail, InBeginRead, PostedRead,
            LeavesRead, InEndRead, InBeginWrite, PostedWrite, LeavesWrite,
            InEndWrite, InCraft, Twice, Once, Failing
<1>a. /\ RolesFit /\ at \in [Threads -> Places]
      /\ back \in [Threads -> Places]
      /\ seen \in [Threads -> BOOLEAN] /\ failures \in Nat
  BY KindTyped DEF TypeOK, RolesFit, FlagsTyped, CountsTyped
<1>b. /\ failures = 0 /\ ~cleared /\ connected
      /\ failures' = 0 /\ ~cleared' /\ connected'
  BY DEF Calm, Intact
<1>c. /\ "Reuse" \notin closeFlag /\ writeOp = "Write" /\ discs = 0
      /\ at[t] \notin Failing /\ (at[t] = "zero" => back[t] = "idle")
  BY DEF CalmFits
<1>d. /\ References(t) > 0 => refIO # 0 /\ DecIf(refIO) = Dec(refIO)
      /\ ReadReferences(t) > 0 =>
           refReadIO # 0 /\ DecIf(refReadIO) = Dec(refReadIO)
      /\ References(t) > 1 => Dec(refIO) # 0
  BY HoldersCount
<1>e. /\ recvs \in Nat /\ Cardinality(sends) \in Nat /\ listWork \in Nat
  BY PostedTyped DEF TypeOK, CountsTyped
<1>1. CASE BeginWriteEnter(t)
  <2>1. /\ at[t] = "BeginWrite" /\ at'[t] = "BeginWrite.test"
        /\ back'[t] = back[t]
        /\ Alone(t) /\ "Reuse" \notin closeFlag' /\ writeOp' = "Write"
        /\ discs' = 0 /\ refIO' = Inc(refIO) /\ refReadIO' = refReadIO
        /\ Posted' = Posted /\ recvs' = recvs
    BY <1>1, <1>a, <1>b, <1>c DEF BeginWriteEnter, Alone, Posted, Intact
  <2> QED BY <2>1, <1>a, <1>d, PostedTyped, CalmMoves
             DEF References, ReadReferences, ClosesInCraft, Calls
<1>2. CASE BeginWriteTest(t)
  <2>1. /\ at[t] = "BeginWrite.test"
        /\ at'[t] \in {"BeginWrite.exit", "BeginWrite.load"}
        /\ back'[t] = back[t]
        /\ Alone(t) /\ "Reuse" \notin closeFlag' /\ writeOp' = "Write"
        /\ discs' = 0 /\ refIO' = refIO /\ refReadIO' = refReadIO
        /\ Posted' = Posted /\ recvs' = recvs
    BY <1>2, <1>a, <1>b, <1>c DEF BeginWriteTest, Alone, Posted, Intact
  <2> QED BY <2>1, <1>a, <1>d, PostedTyped, CalmMoves
             DEF References, ReadReferences, ClosesInCraft, Calls
<1>3. CASE BeginWriteLoad(t)
  <2>1. /\ at[t] = "BeginWrite.load" /\ at'[t] = "BeginWrite.switch"
        /\ back'[t] = back[t]
        /\ Alone(t) /\ "Reuse" \notin closeFlag' /\ writeOp' = "Write"
        /\ discs' = 0 /\ refIO' = refIO /\ refReadIO' = refReadIO
        /\ Posted' = Posted /\ recvs' = recvs
    BY <1>3, <1>a, <1>b, <1>c DEF BeginWriteLoad, Alone, Posted, Intact
  <2> QED BY <2>1, <1>a, <1>d, PostedTyped, CalmMoves
             DEF References, ReadReferences, ClosesInCraft, Calls
<1>4. CASE BeginWriteSwitch(t)
  <2>1. /\ at[t] = "BeginWrite.switch" /\ at'[t] = "BeginWrite.compare"
        /\ back'[t] = back[t]
        /\ Alone(t) /\ "Reuse" \notin closeFlag' /\ writeOp' = "Write"
        /\ discs' = 0 /\ refIO' = refIO /\ refReadIO' = refReadIO
        /\ Posted' = Posted /\ recvs' = recvs
    BY <1>4, <1>a, <1>b, <1>c DEF BeginWriteSwitch, Alone, Posted, Intact
  <2> QED BY <2>1, <1>a, <1>d, PostedTyped, CalmMoves
             DEF References, ReadReferences, ClosesInCraft, Calls
<1>5. CASE BeginWriteCompare(t)
  <2>1. /\ at[t] = "BeginWrite.compare"
        /\ at'[t] \in {"BeginWrite.off", "BeginWrite.pop"}
        /\ back'[t] = back[t]
        /\ Alone(t) /\ "Reuse" \notin closeFlag' /\ writeOp' = "Write"
        /\ discs' = 0 /\ refIO' = refIO /\ refReadIO' = refReadIO
        /\ Posted' = Posted /\ recvs' = recvs
    BY <1>5, <1>a, <1>b, <1>c DEF BeginWriteCompare, Alone, Posted, Intact
  <2> QED BY <2>1, <1>a, <1>d, PostedTyped, CalmMoves
             DEF References, ReadReferences, ClosesInCraft, Calls
<1>6. CASE PopBrick(t)
  <2>1. /\ at[t] = "BeginWrite.pop"
        /\ at'[t] \in {"BeginWrite.off", "BeginWrite.again"}
        /\ back'[t] = back[t]
        /\ Alone(t) /\ "Reuse" \notin closeFlag' /\ writeOp' = "Write"
        /\ discs' = 0 /\ refIO' = refIO /\ refReadIO' = refReadIO
        /\ Posted' = Posted /\ recvs' = recvs
    BY <1>6, <1>a, <1>b, <1>c DEF PopBrick, Alone, Posted, Intact
  <2> QED BY <2>1, <1>a, <1>d, PostedTyped, CalmMoves
             DEF References, ReadReferences, ClosesInCraft, Calls
<1>7. CASE BeginWriteAgain(t)
  <2>1. /\ at[t] = "BeginWrite.again"
        /\ at'[t] \in {"BeginWrite.unpop", "BeginWrite.send"}
        /\ back'[t] = back[t]
        /\ Alone(t) /\ "Reuse" \notin closeFlag' /\ writeOp' = "Write"
        /\ discs' = 0 /\ refIO' = refIO /\ refReadIO' = refReadIO
        /\ Posted' = Posted /\ recvs' = recvs
    BY <1>7, <1>a, <1>b, <1>c DEF BeginWriteAgain, Alone, Posted, Intact
  <2> QED BY <2>1, <1>a, <1>d, PostedTyped, CalmMoves
             DEF References, ReadReferences, ClosesInCraft, Calls
<1>8. CASE PushHeadBrick(t)
  <2>1. /\ at[t] = "BeginWrite.unpop" /\ at'[t] = "BeginWrite.off"
        /\ back'[t] = back[t]
        /\ Alone(t) /\ "Reuse" \notin closeFlag' /\ writeOp' = "Write"
        /\ discs' = 0 /\ refIO' = refIO /\ refReadIO' = refReadIO
        /\ Posted' = Posted /\ recvs' = recvs
    BY <1>8, <1>a, <1>b, <1>c DEF PushHeadBrick, Alone, Posted, Intact
  <2> QED BY <2>1, <1>a, <1>d, PostedTyped, CalmMoves
             DEF References, ReadReferences, ClosesInCraft, Calls
<1>9. CASE BeginWriteSend(t)
  <2>1. /\ at[t] = "BeginWrite.send" /\ at'[t] = "BeginWrite.last"
        /\ back'[t] = back[t]
        /\ Alone(t) /\ "Reuse" \notin closeFlag' /\ writeOp' = "Write"
        /\ discs' = 0 /\ refIO' = refIO /\ refReadIO' = refReadIO
        /\ recvs' = recvs /\ sends' = sends \cup {hand[t]}
        /\ listWork' = listWork
    BY <1>9, <1>a, <1>b, <1>c, ReadFacts
       DEF BeginWriteSend, Alone, Posted, Intact
  <2>2. hand[t] \notin sends
    BY <2>1 DEF Unsent, Carries, TypeOK, BricksTyped
  <2>3. Cardinality(sends') = Cardinality(sends) + 1
    BY <2>1, <2>2, PostedTyped, FS_AddElement
  <2>4. Posted' = Posted + 1
    BY <2>1, <2>3, <1>e DEF Posted
  <2> QED BY <2>1, <2>4, <1>a, <1>d, PostedTyped, CalmMoves
             DEF References, ReadReferences, ClosesInCraft, Calls
<1>10. CASE BeginWriteLast(t)
  <2>1. /\ at[t] = "BeginWrite.last" /\ at'[t] = "BeginWrite.count"
        /\ back'[t] = back[t]
        /\ Alone(t) /\ "Reuse" \notin closeFlag' /\ writeOp' = "Write"
        /\ discs' = 0 /\ refIO' = refIO /\ refReadIO' = refReadIO
        /\ Posted' = Posted /\ recvs' = recvs
    BY <1>10, <1>a, <1>b, <1>c DEF BeginWriteLast, Alone, Posted, Intact
  <2> QED BY <2>1, <1>a, <1>d, PostedTyped, CalmMoves
             DEF References, ReadReferences, ClosesInCraft, Calls
<1>11. CASE BeginWriteCount(t)
  <2>1. /\ at[t] = "BeginWrite.count" /\ at'[t] = "BeginWrite.off"
        /\ back'[t] = back[t]
        /\ Alone(t) /\ "Reuse" \notin closeFlag' /\ writeOp' = "Write"
        /\ discs' = 0 /\ refIO' = Inc(refIO) /\ refReadIO' = refReadIO
        /\ Posted' = Posted /\ recvs' = recvs
    BY <1>11, <1>a, <1>b, <1>c DEF BeginWriteCount, Alone, Posted, Intact
  <2> QED BY <2>1, <1>a, <1>d, PostedTyped, CalmMoves
             DEF References, ReadReferences, ClosesInCraft, Calls
<1>12. CASE BeginWriteOff(t)
  <2>1. /\ at[t] = "BeginWrite.off" /\ at'[t] = "BeginWrite.exit"
        /\ back'[t] = back[t]
        /\ Alone(t) /\ "Reuse" \notin closeFlag' /\ writeOp' = "Write"
        /\ discs' = 0 /\ refIO' = refIO /\ refReadIO' = refReadIO
        /\ Posted' = Posted /\ recvs' = recvs
    BY <1>12, <1>a, <1>b, <1>c DEF BeginWriteOff, Alone, Posted, Intact
  <2> QED BY <2>1, <1>a, <1>d, PostedTyped, CalmMoves
             DEF References, ReadReferences, ClosesInCraft, Calls
<1>13. CASE BeginWriteExit(t)
  <2>1. Leave(t, "BeginWrite.exit", AfterWrite(t), FALSE)
    BY <1>13, <1>c DEF BeginWriteExit, Leave
  <2>2. at[t] = "BeginWrite.exit"
    BY <1>a, <2>1, LeaveSteps, ReturnsReadOn
  <2>3. t \notin Users => Dec(refIO) # 0
    BY <2>2, <1>d DEF References, ReadReferences, ClosesInCraft, Calls
  <2>4. /\ \/ /\ at[t] = "BeginWrite.exit" /\ at'[t] = AfterWrite(t)
              /\ back'[t] = "idle"
           \/ /\ at[t] = "BeginWrite.exit" /\ at'[t] = "zero"
              /\ back'[t] = AfterWrite(t) /\ t \in Users
        /\ Alone(t)
    BY <2>1, <2>2, <2>3, LeaveGoes, ReturnsReadOn
  <2>5. /\ "Reuse" \notin closeFlag' /\ writeOp' = "Write" /\ discs' = 0
        /\ refIO' = Dec(refIO) /\ refReadIO' = refReadIO /\ Posted' = Posted
        /\ recvs' = recvs
    BY <2>1, <1>b, <1>c, LeaveSteps DEF Posted
  <2> QED BY <2>2, <2>4, <2>5, <1>a, PostedTyped, CalmMoves, ReturnsReadOn
             DEF References, ReadReferences, ClosesInCraft, Calls
<1> QED BY <1>1, <1>2, <1>3, <1>4, <1>5, <1>6, <1>7, <1>8, <1>9, <1>10,
           <1>11, <1>12, <1>13
           DEF BeginWrite

LEMMA RefsEndWrite ==
  ASSUME TypeOK, TypeOK', ReadInv, Unsent, CalmFits, Counted, Roomy', Calm,
         Calm', NEW t \in Threads, EndWrite(t)
  PROVE  CalmFits' /\ Counted'
<1> USE DEF Step, counts, flags, bricks, calls, pool, locals, Branch, Count,
            Enter, InBeginRead, PostedRead, LeavesRead, InEndRead,
            InBeginWrite, PostedWrite, LeavesWrite, InEndWrite, InCraft,
            Twice, Once, Failing
<1>a. /\ RolesFit /\ at \in [Threads -> Places]
      /\ back \in [Threads -> Places]
      /\ seen \in [Threads -> BOOLEAN] /\ failures \in Nat
  BY KindTyped DEF TypeOK, RolesFit, FlagsTyped, CountsTyped
<1>b. /\ failures = 0 /\ ~cleared /\ connected
      /\ failures' = 0 /\ ~cleared' /\ connected'
  BY DEF Calm, Intact
<1>c. /\ "Reuse" \notin closeFlag /\ writeOp = "Write" /\ discs = 0
      /\ at[t] \notin Failing /\ (at[t] = "zero" => back[t] = "idle")
  BY DEF CalmFits
<1>d. /\ References(t) > 0 => refIO # 0 /\ DecIf(refIO) = Dec(refIO)
      /\ ReadReferences(t) > 0 =>
           refReadIO # 0 /\ DecIf(refReadIO) = Dec(refReadIO)
      /\ References(t) > 1 => Dec(refIO) # 0
  BY HoldersCount
<1>e. /\ recvs \in Nat /\ Cardinality(sends) \in Nat /\ listWork \in Nat
  BY PostedTyped DEF TypeOK, CountsTyped
<1>1. CASE EndWriteEnter(t)
  <2>1. /\ at[t] = "EndWrite" /\ at'[t] = "EndWrite.minus"
        /\ back'[t] = back[t]
        /\ Alone(t) /\ "Reuse" \notin closeFlag' /\ writeOp' = "Write"
        /\ discs' = 0 /\ refIO' = Inc(refIO) /\ refReadIO' = refReadIO
        /\ Posted' = Posted /\ recvs' = recvs
    BY <1>1, <1>a, <1>b, <1>c DEF EndWriteEnter, Alone, Posted, Intact
  <2> QED BY <2>1, <1>a, <1>d, PostedTyped, CalmMoves
             DEF References, ReadReferences, ClosesInCraft, Calls
<1>2. CASE EndWriteMinus(t)
  <2>1. /\ at[t] = "EndWrite.minus" /\ at'[t] = "EndWrite.test"
        /\ back'[t] = back[t]
        /\ Alone(t) /\ "Reuse" \notin closeFlag' /\ writeOp' = "Write"
        /\ discs' = 0 /\ refIO' = Dec(refIO) /\ refReadIO' = refReadIO
        /\ Posted' = Posted /\ recvs' = recvs
    BY <1>2, <1>a, <1>b, <1>c, HoldersCount
       DEF EndWriteMinus, Alone, Posted, Intact, References, ReadReferences,
           ClosesInCraft, Calls
  <2> QED BY <2>1, <1>a, <1>d, PostedTyped, CalmMoves
             DEF References, ReadReferences, ClosesInCraft, Calls
<1>3. CASE EndWriteTest(t)
  <2>1. /\ at[t] = "EndWrite.test"
        /\ at'[t] \in {"EndWrite.exit", "EndWrite.last", "EndWrite.more"}
        /\ back'[t] = back[t]
        /\ Alone(t) /\ "Reuse" \notin closeFlag' /\ writeOp' = "Write"
        /\ discs' = 0 /\ refIO' = refIO /\ refReadIO' = refReadIO
        /\ Posted' = Posted /\ recvs' = recvs
    BY <1>3, <1>a, <1>b, <1>c DEF EndWriteTest, Alone, Posted, Intact
  <2> QED BY <2>1, <1>a, <1>d, PostedTyped, CalmMoves
             DEF References, ReadReferences, ClosesInCraft, Calls
<1>4. CASE EndWriteLast(t)
  <2>1. /\ at[t] = "EndWrite.last" /\ at'[t] = "EndWrite.null"
        /\ back'[t] = back[t]
        /\ Alone(t) /\ "Reuse" \notin closeFlag' /\ writeOp' = "Write"
        /\ discs' = 0 /\ refIO' = refIO /\ refReadIO' = refReadIO
        /\ Posted' = Posted /\ recvs' = recvs
    BY <1>4, <1>a, <1>b, <1>c DEF EndWriteLast, Alone, Posted, Intact
  <2> QED BY <2>1, <1>a, <1>d, PostedTyped, CalmMoves
             DEF References, ReadReferences, ClosesInCraft, Calls
<1>5. CASE EndWriteNull(t)
  <2>1. /\ at[t] = "EndWrite.null" /\ at'[t] = "EndWrite.done"
        /\ back'[t] = back[t]
        /\ Alone(t) /\ "Reuse" \notin closeFlag' /\ writeOp' = "Write"
        /\ discs' = 0 /\ refIO' = refIO /\ refReadIO' = refReadIO
        /\ Posted' = Posted /\ recvs' = recvs
    BY <1>5, <1>a, <1>b, <1>c DEF EndWriteNull, Alone, Posted, Intact
  <2> QED BY <2>1, <1>a, <1>d, PostedTyped, CalmMoves
             DEF References, ReadReferences, ClosesInCraft, Calls
<1>6. CASE EndWriteDone(t)
  <2>1. /\ at[t] = "EndWrite.done" /\ at'[t] = "EndWrite.more"
        /\ back'[t] = back[t]
        /\ Alone(t) /\ "Reuse" \notin closeFlag' /\ writeOp' = "Write"
        /\ discs' = 0 /\ refIO' = refIO /\ refReadIO' = refReadIO
        /\ Posted' = Posted /\ recvs' = recvs
    BY <1>6, <1>a, <1>b, <1>c DEF EndWriteDone, Alone, Posted, Intact
  <2> QED BY <2>1, <1>a, <1>d, PostedTyped, CalmMoves
             DEF References, ReadReferences, ClosesInCraft, Calls
<1>7. CASE EndWriteMore(t)
  <2>1. /\ at[t] = "EndWrite.more"
        /\ at'[t] \in {"BeginWrite", "EndWrite.exit"} /\ back'[t] = back[t]
        /\ Alone(t) /\ "Reuse" \notin closeFlag' /\ writeOp' = "Write"
        /\ discs' = 0 /\ refIO' = refIO /\ refReadIO' = refReadIO
        /\ Posted' = Posted /\ recvs' = recvs /\ t \notin Users
    BY <1>7, <1>a, <1>b, <1>c, WhoIsThere, ReturnsReadOn
       DEF EndWriteMore, Alone, Posted, Intact
  <2> QED BY <2>1, <1>a, <1>d, PostedTyped, CalmMoves
             DEF References, ReadReferences, ClosesInCraft, Calls
<1>8. CASE EndWriteExit(t)
  <2>1. Leave(t, "EndWrite.exit", "idle", FALSE)
    BY <1>8, <1>c DEF EndWriteExit, Leave
  <2>2. at[t] = "EndWrite.exit"
    BY <1>a, <2>1, LeaveSteps
  <2>4. /\ \/ at[t] = "EndWrite.exit" /\ at'[t] = "idle" /\ back'[t] = "idle"
           \/ at[t] = "EndWrite.exit" /\ at'[t] = "zero" /\ back'[t] = "idle"
        /\ Alone(t)
    BY <2>1, LeaveGoes
  <2>5. /\ "Reuse" \notin closeFlag' /\ writeOp' = "Write" /\ discs' = 0
        /\ refIO' = Dec(refIO) /\ refReadIO' = refReadIO /\ Posted' = Posted
        /\ recvs' = recvs
    BY <2>1, <1>b, <1>c, LeaveSteps DEF Posted
  <2> QED BY <2>2, <2>4, <2>5, <1>a, PostedTyped, CalmMoves
             DEF References, ReadReferences, ClosesInCraft, Calls
<1> QED BY <1>1, <1>2, <1>3, <1>4, <1>5, <1>6, <1>7, <1>8 DEF EndWrite

LEMMA RefsCraft ==
  ASSUME TypeOK, TypeOK', ReadInv, Unsent, CalmFits, Counted, Roomy', Calm,
         Calm', NEW t \in Threads, Craft(t)
  PROVE  CalmFits' /\ Counted'
<1> USE DEF Step, counts, flags, bricks, calls, pool, locals, Branch,
            SetFlags, Count, Enter, DestroyNow, InBeginRead, PostedRead,
            LeavesRead, InEndRead, InBeginWrite, PostedWrite, LeavesWrite,
            InEndWrite, InCraft, Twice, Once, Failing
<1>a. /\ RolesFit /\ at \in [Threads -> Places]
      /\ back \in [Threads -> Places]
      /\ seen \in [Threads -> BOOLEAN] /\ failures \in Nat
  BY KindTyped DEF TypeOK, RolesFit, FlagsTyped, CountsTyped
<1>b. /\ failures = 0 /\ ~cleared /\ connected
      /\ failures' = 0 /\ ~cleared' /\ connected'
  BY DEF Calm, Intact
<1>c. /\ "Reuse" \notin closeFlag /\ writeOp = "Write" /\ discs = 0
      /\ at[t] \notin Failing /\ (at[t] = "zero" => back[t] = "idle")
  BY DEF CalmFits
<1>d. /\ References(t) > 0 => refIO # 0 /\ DecIf(refIO) = Dec(refIO)
      /\ ReadReferences(t) > 0 =>
           refReadIO # 0 /\ DecIf(refReadIO) = Dec(refReadIO)
      /\ References(t) > 1 => Dec(refIO) # 0
  BY HoldersCount
<1>e. /\ recvs \in Nat /\ Cardinality(sends) \in Nat /\ listWork \in Nat
  BY PostedTyped DEF TypeOK, CountsTyped
<1>1. CASE ExecuteWorker(t)
  <2>1. /\ at[t] = "Worker" /\ at'[t] = "Craft" /\ back'[t] = back[t]
        /\ Alone(t) /\ "Reuse" \notin closeFlag' /\ writeOp' = "Write"
        /\ discs' = 0 /\ refIO' = Dec(refIO) /\ refReadIO' = refReadIO
        /\ Posted' = Posted /\ recvs' = recvs
    BY <1>1, <1>a, <1>b, <1>c, ReadFacts
       DEF ExecuteWorker, Alone, Posted, Intact
  <2> QED BY <2>1, <1>a, <1>d, PostedTyped, CalmMoves
             DEF References, ReadReferences, ClosesInCraft, Calls
<1>2. CASE CraftEnter(t)
  <2>1. /\ at[t] = "Craft" /\ at'[t] = "Craft.test" /\ back'[t] = back[t]
        /\ Alone(t) /\ "Reuse" \notin closeFlag' /\ writeOp' = "Write"
        /\ discs' = 0 /\ refIO' = Inc(refIO) /\ refReadIO' = refReadIO
        /\ Posted' = Posted /\ recvs' = recvs
    BY <1>2, <1>a, <1>b, <1>c DEF CraftEnter, Alone, Posted, Intact
  <2> QED BY <2>1, <1>a, <1>d, PostedTyped, CalmMoves
             DEF References, ReadReferences, ClosesInCraft, Calls
<1>3. CASE CraftTest(t)
  <2>1. /\ at[t] = "Craft.test" /\ at'[t] \in {"Craft.parse", "Craft.exit"}
        /\ back'[t] = back[t]
        /\ Alone(t) /\ "Reuse" \notin closeFlag' /\ writeOp' = "Write"
        /\ discs' = 0 /\ refIO' = refIO /\ refReadIO' = refReadIO
        /\ Posted' = Posted /\ recvs' = recvs
    BY <1>3, <1>a, <1>b, <1>c DEF CraftTest, Alone, Posted, Intact
  <2> QED BY <2>1, <1>a, <1>d, PostedTyped, CalmMoves
             DEF References, ReadReferences, ClosesInCraft, Calls
<1>4. ~CraftCrash(t)
  BY <1>a, <1>b, <1>c DEF CraftCrash, Intact
<1>5. CASE CraftRead(t)
  <2>1. /\ at[t] = "Craft.parse" /\ at'[t] = "Craft.join"
        /\ back'[t] = back[t]
        /\ Alone(t) /\ "Reuse" \notin closeFlag' /\ writeOp' = "Write"
        /\ discs' = 0 /\ refIO' = refIO /\ refReadIO' = refReadIO
        /\ Posted' = Posted /\ recvs' = recvs
    BY <1>5, <1>a, <1>b, <1>c DEF CraftRead, Alone, Posted, Intact
  <2> QED BY <2>1, <1>a, <1>d, PostedTyped, CalmMoves
             DEF References, ReadReferences, ClosesInCraft, Calls
<1>6. CASE CraftContinue(t)
  <2>1. /\ at[t] = "Craft.parse" /\ at'[t] = "Craft.return"
        /\ back'[t] = back[t]
        /\ Alone(t) /\ "Reuse" \notin closeFlag' /\ writeOp' = "Write"
        /\ discs' = 0 /\ refIO' = refIO /\ refReadIO' = refReadIO
        /\ Posted' = Posted /\ recvs' = recvs
    BY <1>6, <1>a, <1>b, <1>c DEF CraftContinue, Alone, Posted, Intact
  <2> QED BY <2>1, <1>a, <1>d, PostedTyped, CalmMoves
             DEF References, ReadReferences, ClosesInCraft, Calls
<1>7. CASE CraftReturn(t)
  <2>1. /\ at[t] = "Craft.return" /\ at'[t] \in {"Craft.push", "Craft.join"}
        /\ back'[t] = back[t]
        /\ Alone(t) /\ "Reuse" \notin closeFlag' /\ writeOp' = "Write"
        /\ discs' = 0 /\ refIO' = refIO /\ refReadIO' = refReadIO
        /\ Posted' = Posted /\ recvs' = recvs
    BY <1>7, <1>a, <1>b, <1>c DEF CraftReturn, Alone, Posted, Intact
  <2> QED BY <2>1, <1>a, <1>d, PostedTyped, CalmMoves
             DEF References, ReadReferences, ClosesInCraft, Calls
<1>8. CASE CraftRetire(t)
  <2>1. /\ at[t] = "Craft.parse" /\ at'[t] = "Retire.load"
        /\ back'[t] = back[t]
        /\ Alone(t) /\ "Reuse" \notin closeFlag' /\ writeOp' = "Write"
        /\ discs' = 0 /\ refIO' = refIO /\ refReadIO' = refReadIO
        /\ Posted' = Posted /\ recvs' = recvs
    BY <1>8, <1>a, <1>b, <1>c DEF CraftRetire, Alone, Posted, Intact
  <2> QED BY <2>1, <1>a, <1>d, PostedTyped, CalmMoves
             DEF References, ReadReferences, ClosesInCraft, Calls
<1>9. CASE RetireLoad(t)
  <2>1. /\ at[t] = "Retire.load" /\ at'[t] = "Retire.compare"
        /\ back'[t] = back[t]
        /\ Alone(t) /\ "Reuse" \notin closeFlag' /\ writeOp' = "Write"
        /\ discs' = 0 /\ refIO' = refIO /\ refReadIO' = refReadIO
        /\ Posted' = Posted /\ recvs' = recvs
    BY <1>9, <1>a, <1>b, <1>c DEF RetireLoad, Alone, Posted, Intact
  <2> QED BY <2>1, <1>a, <1>d, PostedTyped, CalmMoves
             DEF References, ReadReferences, ClosesInCraft, Calls
<1>10. CASE RetireCompare(t)
  <2>1. /\ \/ /\ at[t] = "Retire.compare" /\ at'[t] = "Close"
              /\ back'[t] = "Craft.exit"
           \/ /\ at[t] = "Retire.compare" /\ at'[t] = "Craft.exit"
              /\ back'[t] = back[t]
        /\ Alone(t) /\ "Reuse" \notin closeFlag' /\ writeOp' = "Write"
        /\ discs' = 0 /\ refIO' = refIO /\ refReadIO' = refReadIO
        /\ Posted' = Posted /\ recvs' = recvs
    BY <1>10, <1>a, <1>b, <1>c DEF RetireCompare, Alone, Posted, Intact
  <2> QED BY <2>1, <1>a, <1>d, PostedTyped, CalmMoves
             DEF References, ReadReferences, ClosesInCraft, Calls
<1>11. CASE CraftClose(t)
  <2>1. /\ at[t] = "Craft.parse" /\ at'[t] = "Close"
        /\ back'[t] = "Craft.exit"
        /\ Alone(t) /\ "Reuse" \notin closeFlag' /\ writeOp' = "Write"
        /\ discs' = 0 /\ refIO' = refIO /\ refReadIO' = refReadIO
        /\ Posted' = Posted /\ recvs' = recvs
    BY <1>11, <1>a, <1>b, <1>c DEF CraftClose, Alone, Posted, Intact
  <2> QED BY <2>1, <1>a, <1>d, PostedTyped, CalmMoves
             DEF References, ReadReferences, ClosesInCraft, Calls
<1>12. CASE CraftJoin(t)
  <2>1. /\ at[t] = "Craft.join" /\ at'[t] \in {"BeginRead", "Craft.exit"}
        /\ back'[t] = back[t]
        /\ Alone(t) /\ "Reuse" \notin closeFlag' /\ writeOp' = "Write"
        /\ discs' = 0 /\ refIO' = refIO /\ refReadIO' = refReadIO
        /\ Posted' = Posted /\ recvs' = recvs /\ t \notin IOThreads
        /\ t \notin Users
    BY <1>12, <1>a, <1>b, <1>c, WhoIsThere, ReadersAreNoUsers
       DEF CraftJoin, Alone, Posted, Intact
  <2> QED BY <2>1, <1>a, <1>d, PostedTyped, CalmMoves
             DEF References, ReadReferences, ClosesInCraft, Calls
<1>13. CASE CraftExit(t)
  <2>1. Leave(t, "Craft.exit", "idle", FALSE)
    BY <1>13, <1>c DEF CraftExit, Leave
  <2>2. at[t] = "Craft.exit"
    BY <1>a, <2>1, LeaveSteps
  <2>4. /\ \/ at[t] = "Craft.exit" /\ at'[t] = "idle" /\ back'[t] = "idle"
           \/ at[t] = "Craft.exit" /\ at'[t] = "zero" /\ back'[t] = "idle"
        /\ Alone(t)
    BY <2>1, LeaveGoes
  <2>5. /\ "Reuse" \notin closeFlag' /\ writeOp' = "Write" /\ discs' = 0
        /\ refIO' = Dec(refIO) /\ refReadIO' = refReadIO /\ Posted' = Posted
        /\ recvs' = recvs
    BY <2>1, <1>b, <1>c, LeaveSteps DEF Posted
  <2> QED BY <2>2, <2>4, <2>5, <1>a, PostedTyped, CalmMoves
             DEF References, ReadReferences, ClosesInCraft, Calls
<1> QED BY <1>1, <1>2, <1>3, <1>4, <1>5, <1>6, <1>7, <1>8, <1>9, <1>10,
           <1>11, <1>12, <1>13
           DEF Craft

LEMMA RefsClosing ==
  ASSUME TypeOK, TypeOK', ReadInv, Unsent, CalmFits, Counted, Roomy', Calm,
         Calm', NEW t \in Threads, Closing(t)
  PROVE  CalmFits' /\ Counted'
<1> USE DEF Step, counts, flags, bricks, calls, pool, locals, Branch,
            SetFlags, Count, Enter, DestroyNow, Fail, InBeginRead,
            PostedRead, LeavesRead, InEndRead, InBeginWrite, PostedWrite,
            LeavesWrite, InEndWrite, InCraft, Twice, Once, Failing
<1>a. /\ RolesFit /\ at \in [Threads -> Places]
      /\ back \in [Threads -> Places]
      /\ seen \in [Threads -> BOOLEAN] /\ failures \in Nat
  BY KindTyped DEF TypeOK, RolesFit, FlagsTyped, CountsTyped
<1>b. /\ failures = 0 /\ ~cleared /\ connected
      /\ failures' = 0 /\ ~cleared' /\ connected'
  BY DEF Calm, Intact
<1>c. /\ "Reuse" \notin closeFlag /\ writeOp = "Write" /\ discs = 0
      /\ at[t] \notin Failing /\ (at[t] = "zero" => back[t] = "idle")
  BY DEF CalmFits
<1>d. /\ References(t) > 0 => refIO # 0 /\ DecIf(refIO) = Dec(refIO)
      /\ ReadReferences(t) > 0 =>
           refReadIO # 0 /\ DecIf(refReadIO) = Dec(refReadIO)
      /\ References(t) > 1 => Dec(refIO) # 0
  BY HoldersCount
<1>e. /\ recvs \in Nat /\ Cardinality(sends) \in Nat /\ listWork \in Nat
  BY PostedTyped DEF TypeOK, CountsTyped
<1>1. ~HandleErrorNotify(t)
  BY <1>a, <1>b, <1>c DEF HandleErrorNotify, Intact
<1>2. ~HandleErrorDestroy(t)
  BY <1>a, <1>b, <1>c DEF HandleErrorDestroy, Intact
<1>3. CASE Destroy(t)
  <2>1. /\ at[t] = "CloseClient" /\ at'[t] = "Close" /\ back'[t] = "idle"
        /\ Alone(t) /\ "Reuse" \notin closeFlag' /\ writeOp' = "Write"
        /\ discs' = 0 /\ refIO' = refIO /\ refReadIO' = refReadIO
        /\ Posted' = Posted /\ recvs' = recvs
    BY <1>3, <1>a, <1>b, <1>c DEF Destroy, Alone, Posted, Intact
  <2> QED BY <2>1, <1>a, <1>d, PostedTyped, CalmMoves
             DEF References, ReadReferences, ClosesInCraft, Calls
<1>4. ~Unavailable(t)
  BY <1>a, <1>b, <1>c DEF Unavailable, Intact
<1>5. ~UnavailableFlag(t)
  BY <1>a, <1>b, <1>c DEF UnavailableFlag, Intact
<1>6. CASE Close(t)
  <2>1. /\ at[t] = "Close" /\ at'[t] = "closesocket" /\ back'[t] = back[t]
        /\ Alone(t) /\ "Reuse" \notin closeFlag' /\ writeOp' = "Write"
        /\ discs' = 0 /\ refIO' = refIO /\ refReadIO' = refReadIO
        /\ Posted' = Posted /\ recvs' = recvs
    BY <1>6, <1>a, <1>b, <1>c DEF Close, Alone, Posted, Intact
  <2> QED BY <2>1, <1>a, <1>d, PostedTyped, CalmMoves
             DEF References, ReadReferences, ClosesInCraft, Calls
<1>7. ~Closesocket(t)
  BY <1>a, <1>b, <1>c DEF Closesocket, Intact
<1>8. ~ReclaimUnlist(t)
  BY <1>a, <1>b, <1>c DEF ReclaimUnlist, Intact
<1>9. ~ReclaimDisp(t)
  BY <1>a, <1>b, <1>c DEF ReclaimDisp, Intact
<1>10. ~ReclaimPeer(t)
  BY <1>a, <1>b, <1>c DEF ReclaimPeer, Intact
<1>11. ~BeginDisconnectEnter(t)
  BY <1>a, <1>b, <1>c DEF BeginDisconnectEnter, Intact
<1>12. ~BeginDisconnectOp(t)
  BY <1>a, <1>b, <1>c DEF BeginDisconnectOp, Intact
<1>13. ~BeginDisconnectCall(t)
  BY <1>a, <1>b, <1>c DEF BeginDisconnectCall, Intact
<1>14. ~BeginDisconnectCount(t)
  BY <1>a, <1>b, <1>c DEF BeginDisconnectCount, Intact
<1>15. ~BeginDisconnectExit(t)
  BY <1>a, <1>b, <1>c DEF BeginDisconnectExit, Leave, Intact
<1>16. ~EndDisconnectEnter(t)
  BY <1>a, <1>b, <1>c DEF EndDisconnectEnter, Intact
<1>17. ~EndDisconnectMinus(t)
  BY <1>a, <1>b, <1>c DEF EndDisconnectMinus, Intact
<1>18. ~EndDisconnectExit(t)
  BY <1>a, <1>b, <1>c DEF EndDisconnectExit, Leave, Intact
<1> QED BY <1>1, <1>2, <1>3, <1>4, <1>5, <1>6, <1>7, <1>8, <1>9, <1>10,
           <1>11, <1>12, <1>13, <1>14, <1>15, <1>16, <1>17, <1>18
           DEF Closing

LEMMA RefsRest ==
  ASSUME TypeOK, TypeOK', ReadInv, Unsent, CalmFits, Counted, Roomy', Calm,
         Calm', NEW t \in Threads, Rest(t)
  PROVE  CalmFits' /\ Counted'
<1> USE DEF Step, counts, flags, bricks, calls, pool, locals, Count, Taken,
            Fail, InBeginRead, PostedRead, LeavesRead, InEndRead,
            InBeginWrite, PostedWrite, LeavesWrite, InEndWrite, InCraft,
            Twice, Once, Failing
<1>a. /\ RolesFit /\ at \in [Threads -> Places]
      /\ back \in [Threads -> Places]
      /\ seen \in [Threads -> BOOLEAN] /\ failures \in Nat
  BY KindTyped DEF TypeOK, RolesFit, FlagsTyped, CountsTyped
<1>b. /\ failures = 0 /\ ~cleared /\ connected
      /\ failures' = 0 /\ ~cleared' /\ connected'
  BY DEF Calm, Intact
<1>c. /\ "Reuse" \notin closeFlag /\ writeOp = "Write" /\ discs = 0
      /\ at[t] \notin Failing /\ (at[t] = "zero" => back[t] = "idle")
  BY DEF CalmFits
<1>d. /\ References(t) > 0 => refIO # 0 /\ DecIf(refIO) = Dec(refIO)
      /\ ReadReferences(t) > 0 =>
           refReadIO # 0 /\ DecIf(refReadIO) = Dec(refReadIO)
      /\ References(t) > 1 => Dec(refIO) # 0
  BY HoldersCount
<1>e. /\ recvs \in Nat /\ Cardinality(sends) \in Nat /\ listWork \in Nat
  BY PostedTyped DEF TypeOK, CountsTyped
<1>1. CASE Zero(t)
  <2>1. /\ \/ at[t] = "zero" /\ at'[t] = "idle" /\ back'[t] = back[t]
           \/ at[t] = "zero" /\ at'[t] = "Close" /\ back'[t] = back[t]
        /\ Alone(t) /\ "Reuse" \notin closeFlag' /\ writeOp' = "Write"
        /\ discs' = 0 /\ refIO' = refIO /\ refReadIO' = refReadIO
        /\ Posted' = Posted /\ recvs' = recvs /\ back[t] = "idle"
        /\ (at'[t] = "Close" => back'[t] = "idle")
    BY <1>1, <1>a, <1>b, <1>c DEF Zero, Alone, Posted, Intact
  <2> QED BY <2>1, <1>a, <1>d, PostedTyped, CalmMoves
             DEF References, ReadReferences, ClosesInCraft, Calls
<1>2. ~Timeout(t)
  BY <1>a, <1>b, <1>c DEF Timeout, Intact
<1>3. CASE PushBrick(t)
  <2>1. /\ \/ /\ at[t] = "Send.push" /\ at'[t] = "BeginWrite"
              /\ back'[t] = back[t]
           \/ /\ at[t] = "Craft.push" /\ at'[t] = "BeginWrite"
              /\ back'[t] = back[t]
        /\ Alone(t) /\ "Reuse" \notin closeFlag' /\ writeOp' = "Write"
        /\ discs' = 0 /\ refIO' = refIO /\ refReadIO' = refReadIO
        /\ Posted' = Posted /\ recvs' = recvs
        /\ (at[t] = "Send.push" => t \in Users)
        /\ (at[t] = "Craft.push" => t \notin Users)
    BY <1>3, <1>a, <1>b, <1>c, WhoIsThere, ReadersAreNoUsers
       DEF PushBrick, Alone, Posted, Intact
  <2> QED BY <2>1, <1>a, <1>d, PostedTyped, CalmMoves
             DEF References, ReadReferences, ClosesInCraft, Calls
<1>4. CASE TakeRecv(t, TRUE) \/ TakeRecv(t, FALSE)
  <2>1. /\ at[t] = "idle" /\ at'[t] = "EndRead" /\ back'[t] = back[t]
        /\ Alone(t) /\ "Reuse" \notin closeFlag' /\ writeOp' = "Write"
        /\ discs' = 0 /\ refIO' = refIO /\ refReadIO' = refReadIO
        /\ recvs' = recvs - 1 /\ sends' = sends /\ listWork' = listWork
        /\ t \in IOThreads
    BY <1>4, <1>a, <1>b, <1>c, ReadFacts DEF TakeRecv, Alone, Posted, Intact
  <2>2. Posted' = Posted - 1
    BY <2>1, <1>e DEF Posted
  <2> QED BY <2>1, <2>2, <1>a, <1>d, PostedTyped, CalmMoves
             DEF References, ReadReferences, ClosesInCraft, Calls
<1>5. ~TakeFailure(t)
  BY <1>a, <1>b, <1>c DEF TakeFailure, Intact
<1>6. CASE TakeSend(t)
  <2>0. PICK b \in sends : /\ sends' = sends \ {b} /\ UNCHANGED discs
                           /\ TakeWritten(t, TRUE)
    BY <1>6 DEF TakeSend
  <2>1. /\ at[t] = "idle" /\ at'[t] = "EndWrite" /\ back'[t] = back[t]
        /\ Alone(t) /\ "Reuse" \notin closeFlag' /\ writeOp' = "Write"
        /\ discs' = 0 /\ refIO' = refIO /\ refReadIO' = refReadIO
        /\ recvs' = recvs /\ sends' = sends \ {b} /\ listWork' = listWork
        /\ t \in IOThreads /\ t \notin Users
    BY <2>0, <1>a, <1>b, <1>c, ReturnsReadOn
       DEF TakeWritten, Alone, Posted, Intact
  <2>2. Cardinality(sends') = Cardinality(sends) - 1
    BY <2>0, PostedTyped, FS_RemoveElement
  <2>3. Posted' = Posted - 1
    BY <2>1, <2>2, <1>e DEF Posted
  <2> QED BY <2>1, <2>3, <1>a, <1>d, PostedTyped, CalmMoves
             DEF References, ReadReferences, ClosesInCraft, Calls
<1>7. ~TakeDisc(t)
  BY <1>a, <1>b, <1>c DEF TakeDisc, TakeWritten, Intact
<1>8. CASE TakeWork(t)
  <2>1. /\ at[t] = "idle" /\ at'[t] = "Worker" /\ back'[t] = back[t]
        /\ Alone(t) /\ "Reuse" \notin closeFlag' /\ writeOp' = "Write"
        /\ discs' = 0 /\ refIO' = refIO /\ refReadIO' = refReadIO
        /\ recvs' = recvs /\ sends' = sends /\ listWork' = listWork - 1
    BY <1>8, <1>a, <1>b, <1>c DEF TakeWork, Alone, Posted, Intact
  <2>2. Posted' = Posted - 1
    BY <2>1, <1>e DEF Posted
  <2> QED BY <2>1, <2>2, <1>a, <1>d, PostedTyped, CalmMoves
             DEF References, ReadReferences, ClosesInCraft, Calls
<1>9. CASE SendTest(t)
  <2>1. /\ at[t] = "idle" /\ at'[t] = "Send.push" /\ back'[t] = back[t]
        /\ Alone(t) /\ "Reuse" \notin closeFlag' /\ writeOp' = "Write"
        /\ discs' = 0 /\ refIO' = refIO /\ refReadIO' = refReadIO
        /\ Posted' = Posted /\ recvs' = recvs
    BY <1>9, <1>a, <1>b, <1>c DEF SendTest, Alone, Posted, Intact
  <2> QED BY <2>1, <1>a, <1>d, PostedTyped, CalmMoves
             DEF References, ReadReferences, ClosesInCraft, Calls
<1>10. CASE CloseClient(t)
  <2>1. /\ at[t] = "idle" /\ at'[t] = "CloseClient" /\ back'[t] = back[t]
        /\ Alone(t) /\ "Reuse" \notin closeFlag' /\ writeOp' = "Write"
        /\ discs' = 0 /\ refIO' = refIO /\ refReadIO' = refReadIO
        /\ Posted' = Posted /\ recvs' = recvs
    BY <1>10, <1>a, <1>b, <1>c DEF CloseClient, Alone, Posted, Intact
  <2> QED BY <2>1, <1>a, <1>d, PostedTyped, CalmMoves
             DEF References, ReadReferences, ClosesInCraft, Calls
<1> QED BY <1>1, <1>2, <1>3, <1>4, <1>5, <1>6, <1>7, <1>8, <1>9, <1>10
           DEF Rest

-----------------------------------------------------------------------------
(* The invariants hold at first, and every step keeps them.                 *)

LEMMA Starts ==
  Init => /\ TypeOK /\ HandsFit /\ Unsent /\ ReadInv
          /\ CalmFits /\ Counted
<1> USE DEF Places, IOPlaces, WorkerPlaces, UserPlaces, IOReturns,
            WorkerReturns, UserReturns, Reads, Retires, InBeginRead,
            PostedRead, LeavesRead, InEndRead, InBeginWrite, PostedWrite,
            LeavesWrite, InEndWrite, InCraft, Twice, Once, Closers, Failing
<1> SUFFICES ASSUME Init
             PROVE  /\ TypeOK /\ HandsFit /\ Unsent /\ ReadInv
                    /\ CalmFits /\ Counted
  OBVIOUS
<1>1. \A t \in Threads : at[t] = "idle" /\ back[t] = "idle"
  BY DEF Init
<1>2. CountsTyped
  BY PeerAssumption DEF Init, CountsTyped
<1>3. FlagsTyped
  BY PeerAssumption DEF Init, FlagsTyped, Modes
<1>4. BricksTyped
  BY DEF Init, BricksTyped
<1>5. RolesFit
  BY DEF Init, RolesFit, Threads
<1>6. HandsFit /\ Unsent
  BY <1>1 DEF Init, HandsFit, Unsent, Carries
<1>7. ModeFits
  BY <1>1 DEF Init, ModeFits
<1>8. \A t \in Threads : ~Rereads(t) /\ Place(t) \notin Reads
  BY <1>1 DEF Rereads, Place
<1>9. Pending = 1
  BY DEF Init, Pending
<1>10. OneChain
  <2>1. IOThreads \subseteq Threads
    BY DEF Threads
  <2> QED BY <1>8, <1>9, <2>1 DEF OneChain
<1>11. ReadingOff
  BY <1>1, <1>8 DEF Init, ReadingOff
<1>12. OpenFits
  BY <1>1 DEF Init, OpenFits, Open
<1>13. GoesOn
  BY <1>9 DEF GoesOn
<1>14. CalmFits
  BY <1>1 DEF Init, CalmFits
<1>15. Counted
  <2>1. \A t \in Threads : References(t) = 0 /\ ReadReferences(t) = 0
    BY <1>1 DEF References, ReadReferences, ClosesInCraft
  <2>2. Held = {} /\ ReadHeld = {}
    BY <2>1 DEF Held, ReadHeld
  <2>3. HeldIO = 1 /\ HeldReadIO = 1
    BY <2>2, FS_EmptySet DEF Init, HeldIO, HeldReadIO
  <2> QED BY <2>3 DEF Init, Counted
<1> QED BY <1>2, <1>3, <1>4, <1>5, <1>6, <1>7, <1>10, <1>11, <1>12, <1>13,
           <1>14, <1>15
           DEF TypeOK, ReadInv

(* Every step is a step of one thread in one of the functions.              *)
LEMMA OneThreadSteps ==
  ASSUME TypeOK, Next
  PROVE  \E t \in Threads :
           \/ BeginRead(t) \/ EndRead(t) \/ BeginWrite(t) \/ EndWrite(t)
           \/ Craft(t) \/ Closing(t) \/ Rest(t)
<1>1. PICK t \in kind.threads :
        Run(t) \/ Arrive(t) \/ TakeSend(t) \/ TakeDisc(t) \/ TakeWork(t)
          \/ SendTest(t) \/ CloseClient(t)
  BY DEF Next
<1>2. t \in Threads
  BY KindTyped DEF TypeOK, FlagsTyped
<1> QED BY <1>1, <1>2 DEF Run, Arrive, Rest

LEMMA TypesLast ==
  ASSUME TypeOK, HandsFit, [Next]_vars
  PROVE  TypeOK' /\ HandsFit' /\ (Unsent => Unsent')
<1>1. CASE Next
  <2>1. PICK t \in Threads :
          \/ BeginRead(t) \/ EndRead(t) \/ BeginWrite(t) \/ EndWrite(t)
          \/ Craft(t) \/ Closing(t) \/ Rest(t)
    BY <1>1, OneThreadSteps
  <2>2. HandsFit' /\ (Unsent => Unsent')
    BY <2>1, HandsBeginRead, HandsEndRead, HandsBeginWrite, HandsEndWrite,
       HandsCraft, HandsClosing, HandsRest
  <2>3. CountsTyped'
    BY <2>1, CountsTypedBeginRead, CountsTypedEndRead, CountsTypedBeginWrite,
       CountsTypedEndWrite, CountsTypedCraft, CountsTypedClosing,
       CountsTypedRest
  <2>4. FlagsTyped'
    BY <2>1, FlagsTypedBeginRead, FlagsTypedEndRead, FlagsTypedBeginWrite,
       FlagsTypedEndWrite, FlagsTypedCraft, FlagsTypedClosing, FlagsTypedRest
  <2>5. RolesFit'
    BY <2>1, RolesBeginRead, RolesEndRead, RolesBeginWrite, RolesEndWrite,
       RolesCraft, RolesClosing, RolesRest
  <2>6. BricksTyped'
    BY <2>1, BricksTypedBeginRead, BricksTypedEndRead, BricksTypedBeginWrite,
       BricksTypedEndWrite, BricksTypedCraft, BricksTypedClosing,
       BricksTypedRest
  <2> QED BY <2>2, <2>3, <2>4, <2>5, <2>6 DEF TypeOK
<1>2. CASE UNCHANGED vars
  <2> USE <1>2 DEF vars, counts, flags, bricks, calls, pool, locals
  <2>1. CountsTyped' /\ RolesFit'
    BY DEF TypeOK, CountsTyped, RolesFit
  <2>2. FlagsTyped' /\ BricksTyped'
    BY DEF TypeOK, FlagsTyped, BricksTyped
  <2>3. HandsFit' /\ (Unsent => Unsent')
    BY DEF HandsFit, Unsent
  <2> QED BY <2>1, <2>2, <2>3 DEF TypeOK
<1> QED BY <1>1, <1>2

LEMMA ReadsLast ==
  ASSUME TypeOK, ReadInv, [Next]_vars
  PROVE  ReadInv'
<1>1. CASE Next
  <2>1. PICK t \in Threads :
          \/ BeginRead(t) \/ EndRead(t) \/ BeginWrite(t) \/ EndWrite(t)
          \/ Craft(t) \/ Closing(t) \/ Rest(t)
    BY <1>1, OneThreadSteps
  <2> QED BY <2>1, ReadsBeginRead, ReadsEndRead, ReadsBeginWrite,
             ReadsEndWrite, ReadsCraft, ReadsClosing, ReadsRest
<1>2. CASE UNCHANGED vars
  <2> USE <1>2 DEF vars, counts, flags, bricks, calls, pool, locals
  <2>1. /\ \A t \in Threads : Place(t)' = Place(t)
        /\ \A t \in Threads : Rereads(t)' <=> Rereads(t)
    BY DEF Place, Rereads, OnlySerial
  <2>2. /\ Pending' = Pending /\ (OnlySerial' <=> OnlySerial)
        /\ (Unmixed' <=> Unmixed) /\ (Chained' <=> Chained)
    BY DEF Pending, Chained, Unmixed, OnlySerial, OnlyParallel
  <2>3. ModeFits' /\ OpenFits'
    BY DEF ReadInv, ModeFits, OpenFits, Open
  <2>4. OneChain'
    <3>1. IOThreads \subseteq Threads
      BY DEF Threads
    <3> QED BY <2>1, <2>2, <3>1 DEF ReadInv, OneChain
  <2>5. ReadingOff' /\ GoesOn'
    BY <2>1, <2>2 DEF ReadInv, ReadingOff, GoesOn, Open
  <2> QED BY <2>3, <2>4, <2>5 DEF ReadInv
<1> QED BY <1>1, <1>2

LEMMA CountsLast ==
  ASSUME TypeOK, TypeOK', ReadInv, Unsent, CalmFits, Counted, Roomy',
         [Next]_vars
  PROVE  CalmFits' /\ Counted'
<1>1. CASE ~Calm'
  BY <1>1 DEF CalmFits, Counted
<1>2. CASE Calm' /\ Next
  <2>1. PICK t \in Threads :
          \/ BeginRead(t) \/ EndRead(t) \/ BeginWrite(t) \/ EndWrite(t)
          \/ Craft(t) \/ Closing(t) \/ Rest(t)
    BY <1>2, OneThreadSteps
  <2>2. Calm
    BY <1>2, <2>1, CalmBeginRead, CalmEndRead, CalmBeginWrite, CalmEndWrite,
       CalmCraft, CalmClosing, CalmRest
       DEF TypeOK
  <2> QED BY <1>2, <2>1, <2>2, RefsBeginRead, RefsEndRead, RefsBeginWrite,
             RefsEndWrite, RefsCraft, RefsClosing, RefsRest
<1>3. CASE UNCHANGED vars
  <2> USE <1>3 DEF vars, counts, flags, bricks, calls, pool, locals
  <2>1. CalmFits'
    BY DEF CalmFits, Calm, Intact
  <2>2. \A t \in Threads : /\ References(t)' = References(t)
                           /\ ReadReferences(t)' = ReadReferences(t)
    BY DEF References, ReadReferences, ClosesInCraft
  <2>3. Held' = Held /\ ReadHeld' = ReadHeld
    BY <2>2 DEF Held, ReadHeld
  <2> QED BY <2>1, <2>3 DEF Counted, Calm, Intact, HeldIO, HeldReadIO
<1> QED BY <1>1, <1>2, <1>3

-----------------------------------------------------------------------------
(* The results.                                                             *)

(* The members keep to the values of their types, and every thread is at a  *)
(* place of the functions it runs: an IO thread never in Craft(), a user    *)
(* never in BeginRead().                                                    *)
THEOREM TypeCorrect == Spec => []TypeOK
<1>1. Init => TypeOK /\ HandsFit
  BY Starts
<1>2. TypeOK /\ HandsFit /\ [Next]_vars => (TypeOK /\ HandsFit)'
  BY TypesLast
<1> QED BY <1>1, <1>2, PTL DEF Spec

(* Everything that does not depend on the counters.                         *)
LEMMA Throughout == Spec => [](TypeOK /\ HandsFit /\ Unsent /\ ReadInv)
<1> DEFINE Inv == TypeOK /\ HandsFit /\ Unsent /\ ReadInv
<1>1. Init => Inv
  BY Starts
<1>2. Inv /\ [Next]_vars => Inv'
  BY TypesLast, ReadsLast
<1> QED BY <1>1, <1>2, PTL DEF Spec

(* BeginWrite() gives no message to WSASend() that was given to it before,  *)
(* with any number of threads that send, push back and pop.                 *)
THEOREM NothingSentTwice == Spec => SentOnce
<1> DEFINE Fresh == \A t \in Threads :
                      at[t] = "BeginWrite.send" => hand[t] \notin sent
           Action == \A t \in Threads :
                       at[t] = "BeginWrite.send" /\ at'[t] # at[t]
                         /\ sends' # sends => hand[t] \notin sent
<1>1. Unsent => Fresh
  BY DEF Unsent, Carries
<1>2. Fresh /\ [Next]_vars => [Action]_vars
  OBVIOUS
<1>3. Spec => [][Action]_vars
  BY <1>1, <1>2, Throughout, PTL DEF Spec
<1> QED BY <1>3 DEF SentOnce

(* In serial mode the read context is used by one at a time: the pending    *)
(* WSARecv(), the work list, or one thread between EndRead() and the next   *)
(* BeginRead().  This includes the threads that close the peer.             *)
THEOREM SerialOwner == Spec => []ReadContextOwned
<1>1. TypeOK /\ ReadInv => ReadContextOwned
  <2> SUFFICES ASSUME TypeOK, ReadInv, OnlySerial
               PROVE  /\ recvs + listWork <= 1
                      /\ \A t \in Threads : Rereads(t) => recvs + listWork = 0
                      /\ \A t, u \in Threads :
                           Rereads(t) /\ Rereads(u) => t = u
    BY DEF ReadContextOwned
  <2>1. Chained /\ Pending = recvs + listWork
    BY DEF Chained, Unmixed, Pending
  <2> QED BY <2>1 DEF ReadInv, OneChain
<1> QED BY <1>1, Throughout, PTL

(* A server and a peer of one mode: never a second WSARecv() on a socket.   *)
THEOREM OneReadAtATime == Spec => [](Unmixed => AtMostOneRead)
<1>1. TypeOK /\ ReadInv => (Unmixed => AtMostOneRead)
  <2> SUFFICES ASSUME TypeOK, ReadInv, Unmixed, ~cleared
               PROVE  recvs <= 1
    BY DEF AtMostOneRead
  <2>1. Pending <= 1
    BY DEF ReadInv, OneChain, Chained
  <2>2. recvs \in Nat /\ listWork \in Nat
    BY DEF TypeOK, CountsTyped
  <2> QED BY <2>1, <2>2 DEF Pending
<1> QED BY <1>1, Throughout, PTL

(* A server and a peer of one mode: while nothing failed and nobody closes, *)
(* reading goes on.                                                         *)
THEOREM ReadingGoesOn == Spec => [](Unmixed => ReadContinues)
<1>1. TypeOK /\ ReadInv => (Unmixed => ReadContinues)
  <2> SUFFICES ASSUME TypeOK, ReadInv, Unmixed, Intact, closeFlag = {}
               PROVE  \/ recvs > 0
                      \/ OnlySerial /\ listWork > 0
                      \/ \E t \in Threads : Rereads(t)
    BY DEF ReadContinues
  <2>1. Pending > 0 \/ \E t \in Threads : Rereads(t)
    BY DEF ReadInv, GoesOn, Open, Intact
  <2>2. recvs \in Nat /\ listWork \in Nat
    BY DEF TypeOK, CountsTyped
  <2> QED BY <2>1, <2>2 DEF Pending
<1> QED BY <1>1, Throughout, PTL

(* As long as fewer references are held than an unsigned can count, m_refIO *)
(* and m_refReadIO count what is pending and who is inside, until something *)
(* fails or the socket is closed: no guard closes the peer too early.       *)
THEOREM CountersTrue == Spec /\ []Roomy => []RefsCounted
<1> DEFINE Inv == /\ TypeOK /\ HandsFit /\ Unsent /\ ReadInv
                  /\ CalmFits /\ Counted
<1>1. Init => Inv
  BY Starts
<1>2. Inv /\ [Next]_vars /\ Roomy' => Inv'
  BY TypesLast, ReadsLast, CountsLast
<1>3. Inv => RefsCounted
  BY DEF Counted, Calm, RefsCounted
<1> QED BY <1>1, <1>2, <1>3, PTL DEF Spec
=============================================================================

-------------------------------- MODULE Peer --------------------------------
(***************************************************************************)
(* I_Peer of the Windows build, from the moment a connection is up and its  *)
(* first WSARecv is posted to the end of that life: the read chain, the     *)
(* write queue, the reference counts and the ways to close.                 *)
(*                                                                          *)
(* IO threads run ExecuteIO() for one completion, workers ExecuteWorker()   *)
(* for one pushed read context, users Send() and CloseClient().  A step is  *)
(* one access to a member that another thread may be using; at[t] names the *)
(* function and the place in it, back[t] where Close() returns to.          *)
(***************************************************************************)
EXTENDS Integers, Sequences, FiniteSets, Functions

CONSTANTS
  IOThreads, Workers, Users,
  Bricks, NoBrick,       (* the messages sent, one brick each; no brick      *)
  Kinds,                 (* peers: accepted by a server or not, the m_mode   *)
                         (* of that server and of the peer, and the traffic: *)
                         (* the threads that serve or use the peer and three *)
                         (* bounds, the messages that may be sent, the       *)
                         (* receives that bring data, and the failures and   *)
                         (* closes by the remote                             *)
  Modulus                (* 2 ^ 32 of atomic_uint: counters count modulo it  *)

Modes   == {"Serial", "Parallel"}
Threads == IOThreads \cup Workers \cup Users

ASSUME PeerAssumption ==
  /\ IOThreads \cap Workers = {} /\ IOThreads \cap Users = {}
  /\ Workers \cap Users = {}
  /\ IsFiniteSet(Threads) /\ IsFiniteSet(Bricks)
  /\ NoBrick \notin Bricks
  /\ Kinds \subseteq [accepted : BOOLEAN, serverMode : Modes, mode : Modes,
                      threads : SUBSET Threads, bricks : SUBSET Bricks,
                      arrivals : Nat, failures : Nat]
  /\ Modulus \in Nat \ {0, 1}

VARIABLES
  refIO, refReadIO,      (* m_refIO and m_refReadIO                          *)
  closeFlag,             (* m_closeFlag, as the set of its BPCF_ values      *)
  reading, writing,      (* m_bReading and m_bWriting                        *)
  readOp, writeOp,       (* m_operation of the read and the write context    *)
  queue, lastBrick,      (* the bricks and m_pLastWriteBrick of the latter   *)
  shack,                 (* sent bricks that are back in the shack           *)
  notices,               (* calls of NotifyWriteDone()                       *)
  made, sent,            (* history: bricks created, bricks given to WSASend *)
  connected,             (* m_s is a connected socket                        *)
  recvs, sends, discs,   (* overlapped calls whose completion is not taken   *)
  arrivals,              (* completions that brought data, up to the bound  *)
  listWork,              (* how often the read context is on the work list   *)
  kind,                  (* which of Kinds the peer is                       *)
  listed,                (* the peer is in m_clients or in its server's map  *)
  server,                (* m_pServer and m_nServerID are set                *)
  mode,                  (* m_mode                                           *)
  cleared,               (* Reclaim() has cleared the peer                   *)
  failures,              (* calls and completions that failed and closes by  *)
                         (* the remote, up to the bound                      *)
  at, back, seen, seenIO, hand   (* locals of the threads                    *)

counts == <<refIO, refReadIO>>
flags  == <<closeFlag, reading, writing, readOp, writeOp>>
bricks == <<queue, lastBrick, shack, notices, made, sent>>
calls  == <<connected, recvs, sends, discs, arrivals>>
pool   == <<listed, server, mode, cleared>>
locals == <<back, seen, seenIO, hand>>
vars   == <<counts, flags, bricks, calls, listWork, pool, failures, kind, at,
            locals>>

Inc(n) == (n + 1) % Modulus

(* A mutant: a counter that is not unsigned.                                *)
DecMistake(n) == n - 1

Dec(n) == (n - 1) % Modulus

Step(t, from, to) ==
  at[t] = from /\ at' = [at EXCEPT ![t] = to] /\ UNCHANGED kind

(* A failure of a connection that is up.                                    *)
Fail == failures < kind.failures /\ failures' = failures + 1

(* As Craft() and EndRead() decide whether to post the next read.           *)
SerialRead   == (server /\ kind.serverMode = "Serial") \/ mode = "Serial"
ParallelRead == (server /\ kind.serverMode = "Parallel") \/ mode = "Parallel"

Init ==
  /\ refIO = 1 /\ refReadIO = 1
  /\ closeFlag = {} /\ reading = FALSE /\ writing = FALSE
  /\ readOp = "Read" /\ writeOp = "Write"
  /\ queue = <<>> /\ lastBrick = NoBrick /\ shack = {} /\ notices = 0
  /\ made = {} /\ sent = {}
  /\ connected = TRUE /\ recvs = 1 /\ sends = {} /\ discs = 0 /\ arrivals = 0
  /\ listWork = 0
  /\ listed = TRUE /\ kind \in Kinds /\ server = kind.accepted
  /\ mode = kind.mode /\ cleared = FALSE
  /\ failures = 0
  /\ at = [t \in Threads |-> "idle"]
  /\ back = [t \in Threads |-> "idle"]
  /\ seen = [t \in Threads |-> FALSE]
  /\ seenIO = [t \in Threads |-> 0]
  /\ hand = [t \in Threads |-> NoBrick]

-----------------------------------------------------------------------------
(* The guards BAtomicCountSwitch and BAtomicSimpleCountSwitch.  Where a     *)
(* function has both, the two counters change in one step: nobody compares  *)
(* them but Destroy(false), which loads them one after the other.           *)

(* A step that sets the counters, and one that notes a flag it has read.    *)
Count(t, from, to, io, readIO) ==
  /\ Step(t, from, to)
  /\ refIO' = io /\ refReadIO' = readIO
  /\ UNCHANGED <<flags, bricks, calls, listWork, pool, failures, locals>>

Note(t, from, to, flag) ==
  /\ Step(t, from, to)
  /\ seen' = [seen EXCEPT ![t] = flag]
  /\ UNCHANGED <<counts, flags, bricks, calls, listWork, pool, failures, back,
                 seenIO, hand>>

Enter(t, from, to, reads) ==
  Count(t, from, to, Inc(refIO), IF reads THEN Inc(refReadIO) ELSE refReadIO)

Leave(t, from, to, reads) ==
  /\ refIO' = Dec(refIO)
  /\ refReadIO' = IF reads THEN Dec(refReadIO) ELSE refReadIO
  /\ IF refIO' = 0
       THEN Step(t, from, "zero") /\ back' = [back EXCEPT ![t] = to]
       ELSE Step(t, from, to) /\ back' = [back EXCEPT ![t] = "idle"]
  /\ seen' = [seen EXCEPT ![t] = FALSE]
  /\ UNCHANGED <<flags, bricks, calls, listWork, pool, failures, seenIO, hand>>

(* A mutant: a peer that is to retire is forgotten.                         *)
ZeroMistake(t) ==
  /\ IF "Close" \notin closeFlag
       THEN Step(t, "zero", back[t]) /\ back' = [back EXCEPT ![t] = "idle"]
       ELSE Step(t, "zero", "Close") /\ UNCHANGED back
  /\ UNCHANGED <<counts, flags, bricks, calls, listWork, pool, failures, seen,
                 seenIO, hand>>

(* The guard that brought the count to zero closes a peer that is closing.  *)
Zero(t) ==
  /\ IF closeFlag = {}
       THEN Step(t, "zero", back[t]) /\ back' = [back EXCEPT ![t] = "idle"]
       ELSE Step(t, "zero", "Close") /\ UNCHANGED back
  /\ UNCHANGED <<counts, flags, bricks, calls, listWork, pool, failures, seen,
                 seenIO, hand>>

(* if (m_refIO) m_refIO--, which End...() do, and the same for m_refReadIO. *)
DecIf(n) == IF n # 0 THEN Dec(n) ELSE n

(* A step that only tests something.                                        *)
Branch(t, from, to) ==
  /\ Step(t, from, to)
  /\ UNCHANGED <<counts, flags, bricks, calls, listWork, pool, failures, locals>>

(* A step that only sets flags of the peer.                                 *)
SetFlags(t, from, to) ==
  /\ Step(t, from, to)
  /\ UNCHANGED <<counts, bricks, calls, listWork, pool, failures, locals>>

-----------------------------------------------------------------------------
(* ExecuteIO(): an IO thread has taken a completion off the port.           *)

Taken(t, to) ==
  /\ t \in IOThreads /\ Step(t, "idle", to)
  /\ UNCHANGED <<counts, flags, bricks, connected, listWork, pool, seenIO,
                 hand>>

(* A receive, with data or (the remote has shut down) without.  After a     *)
(* Clear() its context says BIO_Accept, and EndAccept() dereferences the    *)
(* server the peer no longer has: the thread goes no further.               *)
TakeRecv(t, data) ==
  /\ recvs > 0 /\ recvs' = recvs - 1
  /\ data => arrivals < kind.arrivals
  /\ arrivals' = IF data THEN arrivals + 1 ELSE arrivals
  /\ seen' = [seen EXCEPT ![t] = data]
  /\ IF data THEN UNCHANGED failures ELSE Fail
  /\ Taken(t, IF readOp = "Read" THEN "EndRead" ELSE "crash")
  /\ UNCHANGED <<sends, discs, back>>

(* A send or a disconnect: both go by what the context says now.            *)
TakeWritten(t, bytes) ==
  /\ seen' = [seen EXCEPT ![t] = bytes]
  /\ Taken(t, IF writeOp = "Write" THEN "EndWrite" ELSE "EndDisconnect")
  /\ UNCHANGED <<recvs, arrivals, failures, back>>

TakeSend(t) == \E b \in sends :
  /\ sends' = sends \ {b} /\ UNCHANGED discs
  /\ TakeWritten(t, TRUE)

TakeDisc(t) ==
  /\ discs > 0 /\ discs' = discs - 1 /\ UNCHANGED sends
  /\ TakeWritten(t, FALSE)

(* A completion that failed.  A timeout takes its reference back, a lost    *)
(* connection destroys the peer, an aborted or any other operation does     *)
(* nothing, as does every failure under BIO_Accept.  On a closed socket the *)
(* calls are aborted, which is no failure to count.                         *)
TakeFailure(t) == \E to \in {"Timeout", "Unavailable", "idle"} :
  /\ Taken(t, to)
  /\ \/ /\ recvs > 0 /\ recvs' = recvs - 1 /\ UNCHANGED <<sends, discs>>
        /\ readOp = "Read" \/ to = "idle"
     \/ \E b \in sends : sends' = sends \ {b} /\ UNCHANGED <<recvs, discs>>
     \/ discs > 0 /\ discs' = discs - 1 /\ UNCHANGED <<recvs, sends>>
  /\ back' = [back EXCEPT ![t] = "idle"]
  /\ IF ~connected /\ to = "idle" THEN UNCHANGED failures ELSE Fail
  /\ UNCHANGED <<arrivals, seen>>

Timeout(t) == Count(t, "Timeout", "idle", Dec(refIO), refReadIO)

-----------------------------------------------------------------------------
(* BeginRead(), called by EndRead() on an IO thread, by Craft() on a worker *)

AfterRead(t) == IF t \in IOThreads THEN "EndRead.count" ELSE "Craft.exit"

BeginReadEnter(t) == Enter(t, "BeginRead", "BeginRead.test", TRUE)

BeginReadTest(t) ==
  IF reading \/ closeFlag # {}
    THEN Branch(t, "BeginRead.test", "BeginRead.exit")
    ELSE /\ readOp' = "Read"
         /\ UNCHANGED <<closeFlag, reading, writing, writeOp>>
         /\ SetFlags(t, "BeginRead.test", "BeginRead.load")

(* bool bReading = m_bReading; and then the switch of m_bReading.           *)
BeginReadLoad(t) == Note(t, "BeginRead.load", "BeginRead.switch", reading)

BeginReadSwitch(t) ==
  /\ reading' = TRUE
  /\ UNCHANGED <<closeFlag, writing, readOp, writeOp>>
  /\ SetFlags(t, "BeginRead.switch", "BeginRead.compare")

BeginReadCompare(t) ==
  Note(t, "BeginRead.compare",
       IF reading /\ seen[t] THEN "BeginRead.off" ELSE "BeginRead.recv", FALSE)

(* WSARecv() posts the call or fails; on a socket that is not connected it  *)
(* fails.                                                                   *)
BeginReadRecv(t) ==
  /\ \/ /\ connected /\ recvs' = recvs + 1 /\ UNCHANGED failures
        /\ Step(t, "BeginRead.recv", "BeginRead.posted")
     \/ /\ connected /\ Fail /\ UNCHANGED recvs
        /\ Step(t, "BeginRead.recv", "BeginRead.error")
     \/ /\ ~connected /\ UNCHANGED <<recvs, failures>>
        /\ Step(t, "BeginRead.recv", "BeginRead.off")
  /\ UNCHANGED <<counts, flags, bricks, connected, sends, discs, arrivals,
                 listWork, pool, locals>>

(* The switch goes off, whoever else may have switched it on.               *)
BeginReadOff(t) ==
  /\ reading' = FALSE
  /\ UNCHANGED <<closeFlag, writing, readOp, writeOp>>
  /\ \/ SetFlags(t, "BeginRead.off", "BeginRead.exit")
     \/ SetFlags(t, "BeginRead.posted", "BeginRead.count")
     \/ SetFlags(t, "BeginRead.error", "BeginRead.failed")

(* A mutant: the read is counted in m_refIO only.                           *)
BeginReadCountMistake(t) ==
  Count(t, "BeginRead.count", "BeginRead.exit", Inc(refIO), refReadIO)

BeginReadCount(t) ==
  Count(t, "BeginRead.count", "BeginRead.exit", Inc(refIO), Inc(refReadIO))

(* A failed call is handed to HandleError() by the caller.                  *)
BeginReadExit(t) ==
  \/ Leave(t, "BeginRead.exit", AfterRead(t), TRUE)
  \/ Leave(t, "BeginRead.failed", "HandleError.read", TRUE)

BeginRead(t) ==
  \/ BeginReadEnter(t) \/ BeginReadTest(t) \/ BeginReadLoad(t)
  \/ BeginReadSwitch(t) \/ BeginReadCompare(t) \/ BeginReadRecv(t)
  \/ BeginReadOff(t) \/ BeginReadCount(t) \/ BeginReadExit(t)

-----------------------------------------------------------------------------
(* EndRead(cb); seen[t] says that cb is not zero.                           *)

EndReadEnter(t) == Enter(t, "EndRead", "EndRead.minus", TRUE)

EndReadMinus(t) ==
  Count(t, "EndRead.minus", "EndRead.test", DecIf(refIO), DecIf(refReadIO))

EndReadTest(t) ==
  /\ \/ closeFlag # {} /\ Step(t, "EndRead.test", "EndRead.exit")
        /\ UNCHANGED back
     \/ closeFlag = {} /\ seen[t] /\ Step(t, "EndRead.test", "EndRead.write")
        /\ UNCHANGED back
     \/ closeFlag = {} /\ ~seen[t] /\ Step(t, "EndRead.test", "Unavailable")
        /\ back' = [back EXCEPT ![t] = "EndRead.exit"]
  /\ seen' = [seen EXCEPT ![t] = FALSE]
  /\ UNCHANGED <<counts, flags, bricks, calls, listWork, pool, failures, seenIO,
                 hand>>

(* The bytes go to a new brick of the read context, m_bReading on.          *)
EndReadWrite(t) ==
  /\ reading' = TRUE
  /\ UNCHANGED <<closeFlag, writing, readOp, writeOp>>
  /\ SetFlags(t, "EndRead.write", "EndRead.wrote")

(* A mutant: m_bReading is not switched off.                                *)
EndReadWroteMistake(t) == Branch(t, "EndRead.wrote", "EndRead.mode")

EndReadWrote(t) ==
  /\ reading' = FALSE
  /\ UNCHANGED <<closeFlag, writing, readOp, writeOp>>
  /\ SetFlags(t, "EndRead.wrote", "EndRead.mode")

(* A mutant: the next read is posted in every mode.                         *)
EndReadModeMistake(t) == Branch(t, "EndRead.mode", "BeginRead")

EndReadMode(t) ==
  Branch(t, "EndRead.mode",
         IF ParallelRead THEN "BeginRead" ELSE "EndRead.count")

EndReadCount(t) ==
  Count(t, "EndRead.count", "EndRead.push", Inc(refIO), refReadIO)

EndReadPush(t) ==
  /\ Step(t, "EndRead.push", "EndRead.exit")
  /\ listWork' = listWork + 1
  /\ UNCHANGED <<counts, flags, bricks, calls, pool, failures, locals>>

EndReadExit(t) == Leave(t, "EndRead.exit", "idle", TRUE)

EndRead(t) ==
  \/ EndReadEnter(t) \/ EndReadMinus(t) \/ EndReadTest(t) \/ EndReadWrite(t)
  \/ EndReadWrote(t) \/ EndReadMode(t) \/ EndReadCount(t) \/ EndReadPush(t)
  \/ EndReadExit(t)

-----------------------------------------------------------------------------
(* BeginWrite(), called by EndWrite(), by Craft() and by Send().            *)

AfterWrite(t) ==
  CASE t \in IOThreads -> "EndWrite.exit"
    [] t \in Workers   -> "Craft.join"
    [] t \in Users     -> "idle"

BeginWriteEnter(t) == Enter(t, "BeginWrite", "BeginWrite.test", FALSE)

BeginWriteTest(t) ==
  Branch(t, "BeginWrite.test",
         IF writing \/ "Close" \in closeFlag
           THEN "BeginWrite.exit" ELSE "BeginWrite.load")

(* m_operation = BIO_Write and bool bWriting = m_bWriting.                  *)
BeginWriteLoad(t) ==
  /\ Step(t, "BeginWrite.load", "BeginWrite.switch")
  /\ writeOp' = "Write"
  /\ seen' = [seen EXCEPT ![t] = writing]
  /\ UNCHANGED <<counts, closeFlag, reading, writing, readOp, bricks, calls,
                 listWork, pool, failures, back, seenIO, hand>>

BeginWriteSwitch(t) ==
  /\ writing' = TRUE
  /\ UNCHANGED <<closeFlag, reading, readOp, writeOp>>
  /\ SetFlags(t, "BeginWrite.switch", "BeginWrite.compare")

BeginWriteCompare(t) ==
  Note(t, "BeginWrite.compare",
       IF writing /\ seen[t] THEN "BeginWrite.off" ELSE "BeginWrite.pop", FALSE)

(* A mutant: the brick stays at the front of the queue.                     *)
PopBrickMistake(t) ==
  /\ IF queue = <<>>
       THEN Step(t, "BeginWrite.pop", "BeginWrite.off") /\ UNCHANGED hand
       ELSE /\ Step(t, "BeginWrite.pop", "BeginWrite.again")
            /\ hand' = [hand EXCEPT ![t] = Head(queue)]
  /\ UNCHANGED <<counts, flags, bricks, calls, listWork, pool, failures, back,
                 seen, seenIO>>

PopBrick(t) ==
  /\ IF queue = <<>>
       THEN /\ Step(t, "BeginWrite.pop", "BeginWrite.off")
            /\ UNCHANGED <<queue, hand>>
       ELSE /\ Step(t, "BeginWrite.pop", "BeginWrite.again")
            /\ hand' = [hand EXCEPT ![t] = Head(queue)]
            /\ queue' = Tail(queue)
  /\ UNCHANGED <<counts, flags, lastBrick, shack, notices, made, sent, calls,
                 listWork, pool, failures, back, seen, seenIO>>

BeginWriteAgain(t) ==
  Branch(t, "BeginWrite.again",
         IF "Close" \in closeFlag THEN "BeginWrite.unpop" ELSE "BeginWrite.send")

PushHeadBrick(t) ==
  /\ \/ Step(t, "BeginWrite.unpop", "BeginWrite.off")
     \/ Step(t, "BeginWrite.unsent", "BeginWrite.error")
  /\ queue' = <<hand[t]>> \o queue
  /\ hand' = [hand EXCEPT ![t] = NoBrick]
  /\ UNCHANGED <<counts, flags, lastBrick, shack, notices, made, sent, calls,
                 listWork, pool, failures, back, seen, seenIO>>

(* A mutant: a pending WSASend() is taken for a failed one.                 *)
BeginWriteSendMistake(t) ==
  /\ IF connected
       THEN /\ sends' = sends \cup {hand[t]} /\ sent' = sent \cup {hand[t]}
            /\ UNCHANGED failures
       ELSE UNCHANGED <<sends, sent, failures>>
  /\ Step(t, "BeginWrite.send", "BeginWrite.unsent")
  /\ UNCHANGED <<counts, flags, queue, lastBrick, shack, notices, made,
                 connected, recvs, discs, arrivals, listWork, pool, locals>>

(* WSASend() posts the call or fails.                                       *)
BeginWriteSend(t) ==
  /\ \/ /\ connected
        /\ sends' = sends \cup {hand[t]} /\ sent' = sent \cup {hand[t]}
        /\ UNCHANGED failures
        /\ Step(t, "BeginWrite.send", "BeginWrite.last")
     \/ /\ connected /\ Fail /\ UNCHANGED <<sends, sent>>
        /\ Step(t, "BeginWrite.send", "BeginWrite.unsent")
     \/ /\ ~connected /\ UNCHANGED <<sends, sent, failures>>
        /\ Step(t, "BeginWrite.send", "BeginWrite.unpop")
  /\ UNCHANGED <<counts, flags, queue, lastBrick, shack, notices, made,
                 connected, recvs, discs, arrivals, listWork, pool, locals>>

BeginWriteLast(t) ==
  /\ Step(t, "BeginWrite.last", "BeginWrite.count")
  /\ lastBrick' = hand[t]
  /\ hand' = [hand EXCEPT ![t] = NoBrick]
  /\ UNCHANGED <<counts, flags, queue, shack, notices, made, sent, calls,
                 listWork, pool, failures, back, seen, seenIO>>

(* A mutant: the send is not counted.                                       *)
BeginWriteCountMistake(t) == Branch(t, "BeginWrite.count", "BeginWrite.off")

BeginWriteCount(t) ==
  Count(t, "BeginWrite.count", "BeginWrite.off", Inc(refIO), refReadIO)

(* The switch goes off on every way out, also where another thread is on.   *)
BeginWriteOff(t) ==
  /\ writing' = FALSE
  /\ UNCHANGED <<closeFlag, reading, readOp, writeOp>>
  /\ \/ SetFlags(t, "BeginWrite.off", "BeginWrite.exit")
     \/ SetFlags(t, "BeginWrite.error", "BeginWrite.failed")

BeginWriteExit(t) ==
  \/ Leave(t, "BeginWrite.exit", AfterWrite(t), FALSE)
  \/ Leave(t, "BeginWrite.failed", "HandleError.write", FALSE)

BeginWrite(t) ==
  \/ BeginWriteEnter(t) \/ BeginWriteTest(t) \/ BeginWriteLoad(t)
  \/ BeginWriteSwitch(t) \/ BeginWriteCompare(t) \/ PopBrick(t)
  \/ BeginWriteAgain(t) \/ PushHeadBrick(t) \/ BeginWriteSend(t)
  \/ BeginWriteLast(t) \/ BeginWriteCount(t) \/ BeginWriteOff(t)
  \/ BeginWriteExit(t)

-----------------------------------------------------------------------------
(* EndWrite(cb); seen[t] says that cb is not zero.                          *)

EndWriteEnter(t) == Enter(t, "EndWrite", "EndWrite.minus", FALSE)

EndWriteMinus(t) ==
  Count(t, "EndWrite.minus", "EndWrite.test", DecIf(refIO), refReadIO)

EndWriteTest(t) ==
  Branch(t, "EndWrite.test",
         IF "Close" \in closeFlag THEN "EndWrite.exit"
         ELSE IF seen[t] THEN "EndWrite.last" ELSE "EndWrite.more")

(* pBrick = m_pLastWriteBrick, and the member set to NULL.                  *)
EndWriteLast(t) ==
  /\ Step(t, "EndWrite.last", "EndWrite.null")
  /\ hand' = [hand EXCEPT ![t] = lastBrick]
  /\ UNCHANGED <<counts, flags, bricks, calls, listWork, pool, failures, back,
                 seen, seenIO>>

EndWriteNull(t) ==
  /\ Step(t, "EndWrite.null", "EndWrite.done")
  /\ lastBrick' = NoBrick
  /\ UNCHANGED <<counts, flags, queue, shack, notices, made, sent, calls,
                 listWork, pool, failures, locals>>

(* Every brick ends a series.  It is announced and goes back to the shack.  *)
EndWriteDone(t) ==
  /\ Step(t, "EndWrite.done", "EndWrite.more")
  /\ IF hand[t] # NoBrick
       THEN notices' = notices + 1 /\ shack' = shack \cup {hand[t]}
       ELSE UNCHANGED <<notices, shack>>
  /\ hand' = [hand EXCEPT ![t] = NoBrick]
  /\ UNCHANGED <<counts, flags, queue, lastBrick, made, sent, calls, listWork,
                 pool, failures, back, seen, seenIO>>

EndWriteMore(t) ==
  Branch(t, "EndWrite.more",
         IF queue # <<>> THEN "BeginWrite" ELSE "EndWrite.exit")

EndWriteExit(t) == Leave(t, "EndWrite.exit", "idle", FALSE)

EndWrite(t) ==
  \/ EndWriteEnter(t) \/ EndWriteMinus(t) \/ EndWriteTest(t)
  \/ EndWriteLast(t) \/ EndWriteNull(t) \/ EndWriteDone(t)
  \/ EndWriteMore(t) \/ EndWriteExit(t)

-----------------------------------------------------------------------------

(* ExecuteWorker() and Craft().                                             *)

(* Destroy(true) stores the flag and calls Close(), which returns to the    *)
(* place to.                                                                *)
DestroyNow(t, from, to) ==
  /\ Step(t, from, "Close")
  /\ closeFlag' = {"Close"}
  /\ back' = [back EXCEPT ![t] = to]
  /\ UNCHANGED <<counts, reading, writing, readOp, writeOp, bricks, calls,
                 listWork, pool, failures, seen, seenIO, hand>>

(* A mutant: the front of the work list is not popped.                      *)
TakeWorkMistake(t) ==
  /\ t \in Workers /\ listWork > 0
  /\ Branch(t, "idle", "Worker")

TakeWork(t) ==
  /\ t \in Workers /\ listWork > 0 /\ listWork' = listWork - 1
  /\ Step(t, "idle", "Worker")
  /\ UNCHANGED <<counts, flags, bricks, calls, pool, failures, locals>>

(* A cleared context says BIO_Accept, and Craft() is not called.            *)
ExecuteWorker(t) ==
  Count(t, "Worker", IF readOp = "Read" THEN "Craft" ELSE "idle",
        Dec(refIO), refReadIO)

CraftEnter(t) == Enter(t, "Craft", "Craft.test", FALSE)

CraftTest(t) ==
  Branch(t, "Craft.test", IF closeFlag = {} THEN "Craft.parse" ELSE "Craft.exit")

(* ParseData(), then HandleProtocol() with whatever *pOperation: reading    *)
(* goes on (BIO_Read, BIO_None, a failure), or a brick is returned          *)
(* (BIO_Continue), or the peer is to close.  A cleared peer has no protocol *)
(* and the thread goes no further.                                          *)
CraftCrash(t) == cleared /\ Branch(t, "Craft.parse", "crash")

CraftRead(t) == ~cleared /\ Branch(t, "Craft.parse", "Craft.join")

CraftContinue(t) == \E b \in kind.bricks \ made :
  /\ ~cleared
  /\ Step(t, "Craft.parse", "Craft.return")
  /\ made' = made \cup {b}
  /\ hand' = [hand EXCEPT ![t] = b]
  /\ UNCHANGED <<counts, flags, queue, lastBrick, shack, notices, sent, calls,
                 listWork, pool, failures, back, seen, seenIO>>

CraftReturn(t) ==
  \/ closeFlag = {} /\ Branch(t, "Craft.return", "Craft.push")
  \/ /\ closeFlag # {}
     /\ Step(t, "Craft.return", "Craft.join")
     /\ shack' = shack \cup {hand[t]}
     /\ hand' = [hand EXCEPT ![t] = NoBrick]
     /\ UNCHANGED <<counts, flags, queue, lastBrick, notices, made, sent,
                    calls, listWork, pool, failures, back, seen, seenIO>>

(* Destroy(false) stores the flag and compares the two counters.            *)
CraftRetire(t) ==
  /\ ~cleared
  /\ closeFlag' = {"Retire"}
  /\ UNCHANGED <<reading, writing, readOp, writeOp>>
  /\ SetFlags(t, "Craft.parse", "Retire.load")

RetireLoad(t) ==
  /\ Step(t, "Retire.load", "Retire.compare")
  /\ seenIO' = [seenIO EXCEPT ![t] = refIO]
  /\ UNCHANGED <<counts, flags, bricks, calls, listWork, pool, failures, back,
                 seen, hand>>

RetireCompare(t) ==
  /\ IF seenIO[t] = 0 \/ seenIO[t] = refReadIO
       THEN /\ Step(t, "Retire.compare", "Close")
            /\ back' = [back EXCEPT ![t] = "Craft.exit"]
       ELSE Step(t, "Retire.compare", "Craft.exit") /\ UNCHANGED back
  /\ seenIO' = [seenIO EXCEPT ![t] = 0]
  /\ UNCHANGED <<counts, flags, bricks, calls, listWork, pool, failures, seen,
                 hand>>

CraftClose(t) == ~cleared /\ DestroyNow(t, "Craft.parse", "Craft.exit")

CraftJoin(t) ==
  Branch(t, "Craft.join",
         IF closeFlag = {} /\ SerialRead THEN "BeginRead" ELSE "Craft.exit")

CraftExit(t) == Leave(t, "Craft.exit", "idle", FALSE)

Craft(t) ==
  \/ ExecuteWorker(t) \/ CraftEnter(t) \/ CraftTest(t) \/ CraftCrash(t)
  \/ CraftRead(t) \/ CraftContinue(t) \/ CraftReturn(t) \/ CraftRetire(t)
  \/ RetireLoad(t) \/ RetireCompare(t) \/ CraftClose(t) \/ CraftJoin(t)
  \/ CraftExit(t)

-----------------------------------------------------------------------------
(* Send() of a user, and PushBrick() of Send() and Craft().                 *)

(* The caller has the peer from a notification, and forgets it when told    *)
(* that the peer is closed.                                                 *)
SendTest(t) == \E b \in kind.bricks \ made :
  /\ t \in Users /\ closeFlag = {} /\ ~cleared
  /\ Step(t, "idle", "Send.push")
  /\ made' = made \cup {b}
  /\ hand' = [hand EXCEPT ![t] = b]
  /\ UNCHANGED <<counts, flags, queue, lastBrick, shack, notices, sent, calls,
                 listWork, pool, failures, back, seen, seenIO>>

PushBrick(t) ==
  /\ \/ Step(t, "Send.push", "BeginWrite")
     \/ Step(t, "Craft.push", "BeginWrite")
  /\ queue' = Append(queue, hand[t])
  /\ hand' = [hand EXCEPT ![t] = NoBrick]
  /\ UNCHANGED <<counts, flags, lastBrick, shack, notices, made, sent, calls,
                 listWork, pool, failures, back, seen, seenIO>>

-----------------------------------------------------------------------------
(* The ways to close.                                                       *)

(* CloseClient() and CloseServerItem() find the peer in the map, take it    *)
(* out and destroy it.                                                      *)
CloseClient(t) ==
  /\ t \in Users /\ listed /\ listed' = FALSE
  /\ Step(t, "idle", "CloseClient")
  /\ UNCHANGED <<counts, flags, bricks, calls, listWork, server, mode,
                 cleared, failures, locals>>

Destroy(t) == DestroyNow(t, "CloseClient", "idle")

(* HandleError() of a failed WSARecv() or WSASend() notifies, and destroys  *)
(* the peer when the error is WSAETIMEDOUT.                                 *)
HandleErrorNotify(t) ==
  \/ Branch(t, "HandleError.read", AfterRead(t))
  \/ Branch(t, "HandleError.write", AfterWrite(t))

HandleErrorDestroy(t) ==
  \/ DestroyNow(t, "HandleError.read", AfterRead(t))
  \/ DestroyNow(t, "HandleError.write", AfterWrite(t))

(* DestroyUnavailability() reads m_nServerID, zeroes m_refIO and destroys;  *)
(* seen[t] becomes the BPCF_Reuse of its flags.                             *)
Unavailable(t) ==
  /\ Step(t, "Unavailable", "Unavailable.flag")
  /\ seen' = [seen EXCEPT ![t] = server]
  /\ refIO' = 0
  /\ UNCHANGED <<refReadIO, flags, bricks, calls, listWork, pool, failures, back,
                 seenIO, hand>>

UnavailableFlag(t) ==
  /\ Step(t, "Unavailable.flag", "Close")
  /\ closeFlag' = {"Close"} \cup (IF seen[t] THEN {"Reuse"} ELSE {})
  /\ seen' = [seen EXCEPT ![t] = FALSE]
  /\ UNCHANGED <<counts, reading, writing, readOp, writeOp, bricks, calls,
                 listWork, pool, failures, back, seenIO, hand>>

Close(t) ==
  Branch(t, "Close",
         IF "Reuse" \in closeFlag THEN "BeginDisconnect" ELSE "closesocket")

Closesocket(t) ==
  /\ Step(t, "closesocket", "Reclaim")
  /\ connected' = FALSE
  /\ UNCHANGED <<counts, flags, bricks, recvs, sends, discs, arrivals,
                 listWork, pool, failures, locals>>

(* Reclaim(): off the map, cleared, and onto a list of closed peers.        *)
ReclaimUnlist(t) ==
  /\ Step(t, "Reclaim", "Reclaim.disp")
  /\ listed' = FALSE
  /\ UNCHANGED <<counts, flags, bricks, calls, listWork, server, mode,
                 cleared, failures, locals>>

(* I_IODispatchable::Clear(): the bricks go back, m_pLastWriteBrick stays.  *)
ReclaimDisp(t) ==
  /\ Step(t, "Reclaim.disp", "Reclaim.peer")
  /\ refIO' = 0 /\ refReadIO' = 0
  /\ reading' = FALSE /\ writing' = FALSE
  /\ readOp' = "Accept" /\ writeOp' = "Write"
  /\ queue' = <<>> /\ shack' = shack \cup Range(queue)
  /\ mode' = "Serial"
  /\ cleared' = TRUE
  /\ UNCHANGED <<failures, closeFlag, lastBrick, notices, made, sent, calls, listWork,
                 listed, server, locals>>

(* I_Peer::Clear()                                                          *)
ReclaimPeer(t) ==
  /\ Step(t, "Reclaim.peer", back[t])
  /\ back' = [back EXCEPT ![t] = "idle"]
  /\ closeFlag' = {} /\ server' = FALSE
  /\ UNCHANGED <<counts, reading, writing, readOp, writeOp, bricks, calls,
                 listWork, listed, mode, cleared, failures, seen, seenIO, hand>>

BeginDisconnectEnter(t) ==
  Enter(t, "BeginDisconnect", "BeginDisconnect.op", FALSE)

BeginDisconnectOp(t) ==
  /\ writeOp' = "Disconnect"
  /\ UNCHANGED <<closeFlag, reading, writing, readOp>>
  /\ SetFlags(t, "BeginDisconnect.op", "BeginDisconnect.call")

(* DisconnectEx() posts the call or fails, as it does on a socket that is   *)
(* not connected; it then returns FALSE, which is taken for success.        *)
BeginDisconnectCall(t) ==
  /\ Step(t, "BeginDisconnect.call", "BeginDisconnect.count")
  /\ \/ /\ connected /\ connected' = FALSE /\ discs' = discs + 1
        /\ UNCHANGED failures
     \/ connected /\ Fail /\ UNCHANGED <<discs, connected>>
     \/ ~connected /\ UNCHANGED <<discs, connected, failures>>
  /\ UNCHANGED <<counts, flags, bricks, recvs, sends, arrivals, listWork, pool,
                 locals>>

BeginDisconnectCount(t) ==
  Count(t, "BeginDisconnect.count", "BeginDisconnect.exit", Inc(refIO),
        refReadIO)

BeginDisconnectExit(t) == Leave(t, "BeginDisconnect.exit", back[t], FALSE)

EndDisconnectEnter(t) == Enter(t, "EndDisconnect", "EndDisconnect.minus", FALSE)

EndDisconnectMinus(t) ==
  /\ Step(t, "EndDisconnect.minus", "Reclaim")
  /\ refIO' = DecIf(refIO)
  /\ back' = [back EXCEPT ![t] = "EndDisconnect.exit"]
  /\ UNCHANGED <<refReadIO, flags, bricks, calls, listWork, pool, failures, seen,
                 seenIO, hand>>

EndDisconnectExit(t) == Leave(t, "EndDisconnect.exit", "idle", FALSE)

Closing(t) ==
  \/ HandleErrorNotify(t) \/ HandleErrorDestroy(t)
  \/ Destroy(t) \/ Unavailable(t) \/ UnavailableFlag(t) \/ Close(t)
  \/ Closesocket(t) \/ ReclaimUnlist(t) \/ ReclaimDisp(t) \/ ReclaimPeer(t)
  \/ BeginDisconnectEnter(t) \/ BeginDisconnectOp(t)
  \/ BeginDisconnectCall(t) \/ BeginDisconnectCount(t)
  \/ BeginDisconnectExit(t) \/ EndDisconnectEnter(t)
  \/ EndDisconnectMinus(t) \/ EndDisconnectExit(t)

-----------------------------------------------------------------------------
(* What a thread does on its own once it has begun ...                      *)
Run(t) ==
  \/ Zero(t) \/ Timeout(t) \/ BeginRead(t) \/ EndRead(t) \/ BeginWrite(t)
  \/ EndWrite(t) \/ Craft(t) \/ PushBrick(t) \/ Closing(t)

(* ... and what begins.                                                     *)
Arrive(t) == TakeRecv(t, TRUE) \/ TakeRecv(t, FALSE) \/ TakeFailure(t)

Next == \E t \in kind.threads :
  Run(t) \/ Arrive(t) \/ TakeSend(t) \/ TakeDisc(t) \/ TakeWork(t)
    \/ SendTest(t) \/ CloseClient(t)

Spec == Init /\ [][Next]_vars

(* IO threads and workers go on, users return from their calls, and a send  *)
(* that was posted completes and is taken by some IO thread.  Nothing says  *)
(* that data arrives, that calls fail or that a worker is sent.             *)
FairSpec ==
  /\ Spec
  /\ \A t \in Threads : WF_vars(Run(t))
  /\ WF_vars(\E t \in IOThreads : TakeSend(t))

-----------------------------------------------------------------------------
(* Where a thread can be.                                                   *)

InBeginRead ==
  {"BeginRead", "BeginRead.test", "BeginRead.load", "BeginRead.switch",
   "BeginRead.compare", "BeginRead.recv"}
PostedRead ==
  {"BeginRead.posted", "BeginRead.count"}
LeavesRead ==
  {"BeginRead.off", "BeginRead.exit", "BeginRead.error", "BeginRead.failed"}
InEndRead ==
  {"EndRead", "EndRead.minus", "EndRead.test", "EndRead.write",
   "EndRead.wrote", "EndRead.mode"}
InBeginWrite ==
  {"BeginWrite", "BeginWrite.test", "BeginWrite.load", "BeginWrite.switch",
   "BeginWrite.compare", "BeginWrite.pop", "BeginWrite.again",
   "BeginWrite.unpop", "BeginWrite.send", "BeginWrite.unsent"}
PostedWrite ==
  {"BeginWrite.last", "BeginWrite.count"}
LeavesWrite ==
  {"BeginWrite.off", "BeginWrite.exit", "BeginWrite.error",
   "BeginWrite.failed"}
InEndWrite ==
  {"EndWrite", "EndWrite.minus", "EndWrite.test", "EndWrite.last",
   "EndWrite.null", "EndWrite.done", "EndWrite.more", "EndWrite.exit"}
InCraft ==
  {"Worker", "Craft", "Craft.test", "Craft.parse", "Craft.return",
   "Craft.push", "Craft.join"}

(* Where a thread of each kind can be, and where Close() or a guard that    *)
(* brought the count to zero returns to.                                    *)
Reads   == InBeginRead \cup PostedRead \cup LeavesRead \cup {"HandleError.read"}
Writes  == InBeginWrite \cup PostedWrite \cup LeavesWrite
             \cup {"HandleError.write"}
Retires == {"zero", "Close", "closesocket", "Reclaim", "Reclaim.disp",
            "Reclaim.peer", "BeginDisconnect", "BeginDisconnect.op",
            "BeginDisconnect.call", "BeginDisconnect.count",
            "BeginDisconnect.exit"}

IOPlaces ==
  {"idle", "crash", "Timeout", "EndRead.count", "EndRead.push", "EndRead.exit",
   "Unavailable", "Unavailable.flag", "EndDisconnect", "EndDisconnect.minus",
   "EndDisconnect.exit"}
    \cup Reads \cup Writes \cup InEndRead \cup InEndWrite \cup Retires
WorkerPlaces ==
  {"idle", "crash", "Craft.exit", "Retire.load", "Retire.compare"}
    \cup InCraft \cup Reads \cup Writes \cup Retires
UserPlaces == {"idle", "Send.push", "CloseClient"} \cup Writes \cup Retires

IOReturns     == {"idle", "EndRead.count", "EndRead.exit", "EndWrite.exit",
                  "EndDisconnect.exit", "HandleError.read", "HandleError.write"}
WorkerReturns == {"idle", "Craft.exit", "Craft.join", "HandleError.read",
                  "HandleError.write"}
UserReturns   == {"idle", "HandleError.write"}

Places == IOPlaces \cup WorkerPlaces \cup UserPlaces

RolesFit ==
  /\ at \in [Threads -> Places] /\ back \in [Threads -> Places]
  /\ \A t \in IOThreads : at[t] \in IOPlaces /\ back[t] \in IOReturns
  /\ \A t \in Workers : at[t] \in WorkerPlaces /\ back[t] \in WorkerReturns
  /\ \A t \in Users : at[t] \in UserPlaces /\ back[t] \in UserReturns

(* The members keep to the values their C++ types and the code give them;   *)
(* the two counters are unsigned (atomic_uint).                             *)
CountsTyped ==
  /\ refIO \in 0..(Modulus - 1) /\ refReadIO \in 0..(Modulus - 1)
  /\ seenIO \in [Threads -> 0..(Modulus - 1)]
  /\ arrivals \in 0..kind.arrivals /\ failures \in 0..kind.failures
  /\ recvs \in Nat /\ discs \in Nat /\ listWork \in Nat /\ notices \in Nat

FlagsTyped ==
  /\ closeFlag \in {{}, {"Retire"}, {"Close"}, {"Close", "Reuse"}}
  /\ reading \in BOOLEAN /\ writing \in BOOLEAN /\ connected \in BOOLEAN
  /\ readOp \in {"Read", "Accept"} /\ writeOp \in {"Write", "Disconnect"}
  /\ listed \in BOOLEAN /\ server \in BOOLEAN /\ cleared \in BOOLEAN
  /\ kind \in Kinds /\ mode \in Modes
  /\ seen \in [Threads -> BOOLEAN]

BricksTyped ==
  /\ queue \in Seq(Bricks) /\ lastBrick \in Bricks \cup {NoBrick}
  /\ shack \subseteq Bricks /\ made \subseteq Bricks
  /\ sent \subseteq made /\ sends \subseteq sent
  /\ hand \in [Threads -> Bricks \cup {NoBrick}]

TypeOK == CountsTyped /\ FlagsTyped /\ BricksTyped /\ RolesFit

-----------------------------------------------------------------------------
(* Reads.                                                                   *)

OnlySerial ==
  kind.mode = "Serial" /\ (kind.accepted => kind.serverMode = "Serial")

(* Where a thread is or, while it closes the peer, where it returns to.     *)
Place(t) == IF at[t] \in Retires THEN back[t] ELSE at[t]

(* The thread that is on its way from a completed read to the next one.     *)
Rereads(t) ==
  \/ Place(t) \in InBeginRead \cup InEndRead
  \/ OnlySerial /\ Place(t) \in {"EndRead.count", "EndRead.push"} \cup InCraft
  \/ OnlySerial /\ t \in Workers
       /\ Place(t) \in InBeginWrite \cup PostedWrite \cup LeavesWrite
                      \cup {"HandleError.write"}

(* "a socket can has 1 concurrent read now" (BeginRead).                    *)
AtMostOneRead == ~cleared => recvs <= 1

(* In serial mode the bricks of the read context, which EndRead() and       *)
(* Craft() use without a lock, have one user at a time: the pending read,   *)
(* the work list, or one thread.                                            *)
ReadContextOwned ==
  OnlySerial =>
    /\ recvs + listWork <= 1
    /\ \A t \in Threads : Rereads(t) => recvs + listWork = 0
    /\ \A t, u \in Threads : Rereads(t) /\ Rereads(u) => t = u

Intact == failures = 0 /\ ~cleared

(* While the connection is up and nobody closes, the next read is posted or *)
(* somebody is about to post it.                                            *)
ReadContinues ==
  Intact /\ closeFlag = {} =>
    \/ recvs > 0
    \/ OnlySerial /\ listWork > 0
    \/ \E t \in Threads : Rereads(t)

-----------------------------------------------------------------------------
(* Reference counts.                                                        *)

(* What a thread has in m_refIO: the guards it is inside, the reference of  *)
(* the completion or the work it has taken and not yet given back, less the *)
(* call it has posted and not yet counted.                                  *)
Calls(t) == IF t \in Users THEN 0 ELSE 1     (* the guard of the caller    *)

Twice == {"EndRead.minus", "EndRead.push", "EndWrite.minus"}
Once  == InEndRead \cup InEndWrite \cup (InCraft \ {"Craft"})
           \cup {"EndRead.count", "EndRead.exit", "Craft.exit", "Retire.load",
                 "Retire.compare"}

ClosesInCraft(t) == at[t] \in {"Close", "closesocket"} /\ back[t] = "Craft.exit"

References(t) ==
  IF at[t] \in Twice THEN 2
  ELSE IF at[t] \in Once \/ ClosesInCraft(t) THEN 1
  ELSE IF at[t] \in {"BeginRead", "BeginWrite"} \cup PostedRead \cup PostedWrite
    THEN Calls(t)
  ELSE IF at[t] \in InBeginRead \cup InBeginWrite \cup LeavesRead
                       \cup LeavesWrite
    THEN Calls(t) + 1
  ELSE 0

(* Of these, the ones that are also in m_refReadIO.                         *)
ReadReferences(t) ==
  IF at[t] = "EndRead.minus" THEN 2
  ELSE IF at[t] \in InEndRead \cup {"EndRead.count", "EndRead.push",
                                    "EndRead.exit"} THEN 1
  ELSE IF at[t] \in {"BeginRead"} \cup PostedRead
    THEN IF t \in IOThreads THEN 1 ELSE 0
  ELSE IF at[t] \in InBeginRead \cup LeavesRead
    THEN IF t \in IOThreads THEN 2 ELSE 1
  ELSE 0

(* The references as the elements of a set: the i-th one of a thread.       *)
Held     == {r \in Threads \X {1, 2} : r[2] <= References(r[1])}
ReadHeld == {r \in Threads \X {1, 2} : r[2] <= ReadReferences(r[1])}

HeldIO     == recvs + Cardinality(sends) + listWork + Cardinality(Held)
HeldReadIO == recvs + Cardinality(ReadHeld)

(* As long as nothing failed and nobody closed, the counters count what is  *)
(* pending and who is inside, so no close by the count comes too early.     *)
RefsCounted ==
  Intact /\ connected /\ "Close" \notin closeFlag =>
    refIO = HeldIO /\ refReadIO = HeldReadIO

-----------------------------------------------------------------------------
(* Writes.                                                                  *)

(* A message is posted by WSASend() once, whoever pops it and however often *)
(* it was pushed back (BeginWrite).                                         *)
SentOnce ==
  [][\A t \in Threads :
        at[t] = "BeginWrite.send" /\ at'[t] # at[t] /\ sends' # sends
          => hand[t] \notin sent]_vars

(* No brick is in two places, where it would be sent twice or used by two   *)
(* threads after its return to the shack.                                   *)
BrickInOnePlace ==
  \A b \in Bricks :
    LET queued == {n \in DOMAIN queue : queue[n] = b}
        held   == {t \in Threads : hand[t] = b}
    IN Cardinality(queued) + Cardinality(held)
         + (IF b \in shack THEN 1 ELSE 0) <= 1

-----------------------------------------------------------------------------
(* Closing.                                                                 *)

(* "BIO_Retire - Will close (when remaining data is gone)" (biohand.h): a   *)
(* peer that was told to retire is closed.                                  *)
RetireCloses == (closeFlag = {"Retire"} /\ Intact) ~> ~Intact

=============================================================================

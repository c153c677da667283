-------------------------------- MODULE Wire --------------------------------
(***************************************************************************)
(* One direction of a connection, from an object to an object: Send() lays  *)
(* an object out in bricks and chains them to the write context, the write  *)
(* path sends them brick by brick, the network gives the bytes to the       *)
(* reader in pieces of any size, EndRead() appends each piece to the read   *)
(* context, Craft() looks for a message there, hands it to the handler and  *)
(* gives the bricks back.  Both ends use the shack of one dispatcher; the   *)
(* reader is in serial mode (BIO_RM_Serial: a read is begun when the last   *)
(* one has been crafted).  The threads are those of module Peer; here a     *)
(* handler is one step and the data is followed instead.                    *)
(***************************************************************************)
EXTENDS Ashley

CONSTANTS
  Scripts,           (* what may be sent: the messages, how many of them    *)
                     (* may be under way at once, the platform that reads   *)
  ReadSizes,         (* the sizes a read may have, besides all there is     *)
  BufferSize,        (* B_MAX_BUFF_SIZE: the most one read brings           *)
  Protocol           (* "Ashley" or "Sora", what both peers were made with  *)

ASSUME WireAssumption ==
  /\ Protocol \in {"Ashley", "Sora"}
  /\ BufferSize \in Nat \ {0}
  /\ \A script \in Scripts : script.window \in Nat \ {0}

VARIABLES
  script,            (* the script of this connection                       *)
  next,              (* how many of its messages have been sent             *)
  done,              (* up to which one the sender waits for nothing more   *)
  shack,             (* BMemoryShack of the dispatcher                      *)
  wchain,            (* m_pBrickHead of the write context                   *)
  writing,           (* the brick WSASend() works on, 0 for none            *)
  net,               (* the bytes between the two sockets                   *)
  rchain,            (* m_pBrickHead of the read context                    *)
  dataPos,           (* m_nDataPos of the read context                      *)
  reading,           (* a read is pending                                   *)
  work,              (* the read context is in the work list                *)
  got,               (* the object a handler got last                       *)
  arrived,           (* how many objects handlers got                       *)
  result             (* what ParseData() answered last                      *)

sender == <<script, next, done>>
vars == <<script, next, done, shack, wchain, writing, net, rchain, dataPos,
          reading, work, got, arrived, result>>

Msg(k) == script.msgs[k]
Content(m) == [cls |-> m.cls, vals |-> Vals(m)]

Init ==
  /\ script \in Scripts
  /\ next = 0 /\ done = 0
  /\ shack = NewShack
  /\ wchain = <<>> /\ writing = 0 /\ net = <<>>
  /\ rchain = <<>> /\ dataPos = 0
  /\ reading = TRUE /\ work = FALSE
  /\ got = <<>> /\ arrived = 0 /\ result = "none"

---------------------------------------------------------------------------
(* The writer *)

Create(s, brick, m) ==
  IF Protocol = "Ashley" THEN CreateObj(s, brick, m) ELSE CreatePod(s, brick, m)

(* BeginWrite() when no write is pending: PopBrick() of the write context *)
BeginWrite(chain) ==
  IF writing = 0 /\ chain # <<>>
  THEN writing' = Head(chain) /\ wchain' = Tail(chain)
  ELSE writing' = writing /\ wchain' = chain

(* Send(), OutterSend() and SendPod(): a message that cannot be laid out    *)
(* gives its bricks back.                                                   *)
Send ==
  /\ next < Len(script.msgs)
  /\ next - done < script.window
  /\ LET made == Create(Pop(shack, 1), Popped(shack, 1)[1], Msg(next + 1))
     IN  IF made.ok
         THEN shack' = made.shack /\ BeginWrite(wchain \o made.chain)
         ELSE shack' = Push(made.shack, made.chain) /\ UNCHANGED <<wchain, writing>>
  /\ next' = next + 1
  /\ UNCHANGED <<script, done, net, rchain, dataPos, reading, work, got, arrived, result>>

(* EndWrite(): the bytes are with the network, the brick goes back, the     *)
(* next one is written.                                                     *)
EndWrite ==
  /\ writing # 0
  /\ net' = net \o shack.data[writing]
  /\ shack' = Push(shack, <<writing>>)
  /\ IF wchain = <<>> THEN writing' = 0 /\ UNCHANGED wchain
     ELSE writing' = Head(wchain) /\ wchain' = Tail(wchain)
  /\ UNCHANGED <<sender, rchain, dataPos, reading, work, got, arrived, result>>

(* The sender waits no longer for an answer once nothing moves any more *)
Quiet == net = <<>> /\ writing = 0 /\ wchain = <<>> /\ ~work

GiveUp ==
  /\ Quiet /\ done < next
  /\ done' = next
  /\ UNCHANGED <<script, next, shack, wchain, writing, net, rchain, dataPos,
                 reading, work, got, arrived, result>>

---------------------------------------------------------------------------
(* The reader *)

Smaller(a, b) == IF a < b THEN a ELSE b

Pieces == {n \in ReadSizes : n <= Len(net) /\ n <= BufferSize}
            \cup {Smaller(BufferSize, Len(net))}

(* EndRead(): NewBrick() of the read context, the bytes copied, PushWork() *)
EndRead(n) ==
  /\ reading /\ net # <<>>
  /\ LET w == Write(Pop(shack, 1), Popped(shack, 1), SubSeq(net, 1, n))
     IN  shack' = w.shack /\ rchain' = rchain \o w.chain
  /\ net' = SubSeq(net, n + 1, Len(net))
  /\ reading' = FALSE /\ work' = TRUE
  /\ UNCHANGED <<sender, wchain, writing, dataPos, got, arrived, result>>

(* BIOContext::ParseData() *)
Parse ==
  IF Protocol = "Ashley" THEN ParseData(shack, rchain, dataPos)
  ELSE SoraParseData(shack, rchain, dataPos)

(* What a handler makes of the chain it is given: the object, if it can be  *)
(* loaded.                                                                  *)
Take(found, s, chain) ==
  IF Protocol = "Ashley"
  THEN LET r == GetObj(script.reader, found.processing, s, chain, found.at) IN
       [ok |-> r.ok, obj |-> [cls |-> found.processing, vals |-> r.vals]]
  ELSE [ok |-> TRUE, obj |-> GetPod(s, chain, found.at)]

(* The message of the script that has these contents, or the last settled *)
Settled(obj) ==
  LET same == {k \in (done + 1)..next : Content(Msg(k)) = obj} IN
  IF same = {} THEN done ELSE CHOOSE k \in same : TRUE

(* Craft() when a message was found: AppeasePeerBrick() takes its bricks,   *)
(* the handler sees them and answers op ("Fail" when it returns false); a   *)
(* handler that cannot load the object fails.                               *)
Handle(op, found) ==
  LET cut == CutAndCopy(found.shack, found.chain, found.pos)
      seen == Take(found, cut.shack, cut.taken)
      cleared == IF op = "Read" THEN cut.shack ELSE Push(cut.shack, cut.held)
      given == IF op = "Read" THEN cut.taken ELSE Severed(cut.taken, cut.held)
  IN  /\ op \in (IF seen.ok THEN {"Read", "None", "Fail"} ELSE {"Fail"})
      /\ shack' = Push(cleared, given)
      /\ rchain' = IF op = "Read" THEN Severed(cut.held, given) ELSE <<>>
      /\ dataPos' = IF op = "Read" THEN cut.pos ELSE 0
      /\ IF seen.ok
         THEN /\ got' = seen.obj /\ arrived' = arrived + 1
              /\ done' = IF Protocol = "Ashley" THEN Settled(seen.obj) ELSE done
         ELSE UNCHANGED <<got, arrived, done>>

(* ClearBrick() of the read context *)
ClearBrick(found) ==
  /\ shack' = Push(found.shack, found.chain)
  /\ rchain' = <<>> /\ dataPos' = 0
  /\ UNCHANGED <<got, arrived, done>>

(* Any other answer (Continue, DecryptFailed) leaves what was read *)
Await(found) ==
  /\ shack' = found.shack
  /\ UNCHANGED <<rchain, dataPos, got, arrived, done>>

(* Mutation: no read is begun when the message is not complete yet *)
CraftMistake(op) ==
  /\ work
  /\ LET found == Parse IN
     /\ result' = found.r
     /\ CASE found.r \in {"Succeeded", "More"} -> Handle(op, found)
          [] found.r = "Failed" -> op = "None" /\ ClearBrick(found)
          [] OTHER -> op = "None" /\ Await(found)
     /\ reading' = (found.r # "Continue")
  /\ work' = FALSE
  /\ UNCHANGED <<script, next, wchain, writing, net>>

Craft(op) ==
  /\ work
  /\ LET found == Parse IN
     /\ result' = found.r
     /\ CASE found.r \in {"Succeeded", "More"} -> Handle(op, found)
          [] found.r = "Failed" -> op = "None" /\ ClearBrick(found)
          [] OTHER -> op = "None" /\ Await(found)
  /\ work' = FALSE /\ reading' = TRUE
  /\ UNCHANGED <<script, next, wchain, writing, net>>

Next ==
  \/ Send \/ EndWrite \/ GiveUp
  \/ \E n \in Pieces : EndRead(n)
  \/ \E op \in {"Read", "None", "Fail"} : Craft(op)

(* The network delivers what it has been given, and the IO threads and the  *)
(* workers run: a read that can complete does, a queued context is crafted. *)
(* (Only EndRead takes a pending read, only Craft takes the queued work.)   *)
Fairness ==
  /\ WF_vars(EndWrite)
  /\ WF_reading(reading /\ net # <<>> /\ reading' = FALSE)
  /\ WF_work(work /\ work' = FALSE)

Spec == Init /\ [][Next]_vars /\ Fairness

---------------------------------------------------------------------------
(* Properties *)

TypeOK ==
  /\ script \in Scripts
  /\ 0 <= done /\ done <= next /\ next <= Len(script.msgs)
  /\ shack.walls \in 1..MaxWalls
  /\ \A b \in Brick : Len(shack.data[b]) <= Cap
  /\ ToSet(shack.free) \cup ToSet(wchain) \cup ToSet(rchain) \subseteq Brick
  /\ writing \in Brick \cup {0}
  /\ dataPos \in Nat /\ arrived \in Nat
  /\ reading \in BOOLEAN /\ work \in BOOLEAN

(* How often brick b is in the queue of the shack, in a chain or being      *)
(* written                                                                  *)
Holders(b) ==
  Cardinality({i \in DOMAIN shack.free : shack.free[i] = b})
    + Cardinality({i \in DOMAIN wchain : wchain[i] = b})
    + Cardinality({i \in DOMAIN rchain : rchain[i] = b})
    + (IF writing = b THEN 1 ELSE 0)

(* Between two steps every brick of the shack is in exactly one place: no   *)
(* path of the writer, the protocols, the cutting of chains and the error   *)
(* cases loses a brick, frees one twice or frees one somebody still holds.  *)
BricksConserved == \A b \in 1..(shack.walls * ChunkCount) : Holders(b) = 1

(* The connection is a Channel: whatever the pieces in which the bytes      *)
(* arrive and whatever the handlers answer, an object that arrives is the   *)
(* next one sent or a later one, with the contents it was sent with.        *)
Chan == INSTANCE Channel WITH
  Contents <- {Content(m) : m \in UNION {ToSet(s.msgs) : s \in Scripts}},
  queue <- [k \in 1..(next - done) |-> Content(Msg(done + k))],
  last <- got

ImplementsChannel == Chan!Spec

(* A message the reader accepts: neither sealed nor outside the restriction,*)
(* and of a class both platforms lay out alike                              *)
Acceptable(m) ==
  /\ m.sec = "none"
  /\ Restriction.ident \in {0, m.ident}
  /\ LET size == Len(Store(Layout[m.from][m.cls], Vals(m))) IN
     /\ Restriction.max = 0 \/ size <= Restriction.max
     /\ size >= Restriction.min
  /\ Layout[m.from][m.cls] = Layout[script.reader][m.cls]

(* A sender that sends one message at a time and seals none of them is      *)
(* served: an acceptable message arrives, in whatever pieces it is read and *)
(* after whatever rejected messages and failing handlers.                   *)
Served ==
  \A k \in 1..3 :
    (/\ k <= Len(script.msgs) /\ next = k
     /\ script.window = 1 /\ \A i \in 1..k : Msg(i).sec \in {"none", "unknown"}
     /\ Acceptable(Msg(k)))
      ~> (k \in DOMAIN script.msgs /\ got = Content(Msg(k)))

(* "Verify Hash(Signed Hash + Encrypted Session Key + Encrypted Data)"      *)
(* (p4s.cpp:185): a sealed message that has arrived complete and unchanged  *)
(* passes the verification.                                                 *)
SealedVerifies == result # "DecryptFailed"
=============================================================================

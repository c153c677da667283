---------------------------- MODULE TransferProof ----------------------------
(* Proofs about FileTransfer, for any files, sizes, threads and limits, when *)
(* the server handles the completion of a send before the next message of    *)
(* the client on that connection (Prompt): a receiver has the blocks of its  *)
(* own file in order, and a data connection serves one transfer at a time.   *)
(*                                                                           *)
(* The invariant follows a transfer from its offer to its last block: it is  *)
(* in one message, with one thread or with one connection (Once), and        *)
(* each of these says what both ends know of it (TransferFits).  Blocks in a *)
(* connection are in order and go on where the receiver is.                  *)
EXTENDS FileTransfer, SequenceTheorems, FiniteSetTheorems, TLAPS

-----------------------------------------------------------------------------
(* Types.  A transfer that is in a table is not finished.                    *)
IDs == Nat \X {"send", "recv"}

Contents == UNION {[1 .. Size[f] -> Nat] : f \in Files}

Info == [file : Files, finished : Nat, transmitting : BOOLEAN,
         content : Contents]

InfoFits(info) ==
  /\ info \in Info
  /\ info.content \in [1 .. Size[info.file] -> Nat]
  /\ info.finished < Size[info.file]
  /\ Written(info)

Whole(info) == \A i \in 1 .. Size[info.file] : info.content[i] = i

MainToServer == [kind : {"offer"}, id : Nat, file : Files]
                  \cup [kind : {"ask"}, file : Files]
MainToClient == [kind : {"ack"}, id : Nat]
                  \cup [kind : {"reply"}, id : Nat, file : Files]
Block     == [id : Nat, kind : {"block"}, block : Nat]
Requested == [id : Nat, kind : {"get"}]

Connection ==
  [pends : IDs \cup {NoID}, up : BOOLEAN, trait : IDs \cup {NoID},
   posted : BOOLEAN, toServer : Seq(Block \cup Requested),
   toClient : Seq(Block), strait : IDs \cup {NoID}, sposted : {0, 1},
   slisted : Nat]

Caller ==
  [at : {"idle", "testWait", "popWait"}, reads : Int]
    \cup [at : {"testLimit", "pushWait", "prepare"}, file : Files, reads : Int]
    \cup [at : {"popPeer", "open"}, id : IDs, reads : Int]
    \cup [at : {"transmit"}, id : IDs, reads : Int, conn : Nat]
    \cup [at : {"pushPeer"}, conn : Nat, reads : Int]

HasID   == {"popPeer", "open", "transmit"}
HasConn == {"transmit", "pushPeer"}

TypeInv ==
  /\ drawn \in [client : Nat, server : Nat]
  /\ DOMAIN data \subseteq IDs /\ \A id \in DOMAIN data : InfoFits(data[id])
  /\ DOMAIN sdata \subseteq IDs /\ \A id \in DOMAIN sdata : InfoFits(sdata[id])
  /\ transmitting \subseteq IDs
  /\ listPeer \in Seq(Nat) /\ listWait \in Seq(Files)
  /\ \A i \in DOMAIN listPeer : listPeer[i] \in DOMAIN conn
  /\ call \in [Threads -> Caller]
  /\ \A t \in Threads : call[t].at \in HasConn => call[t].conn \in DOMAIN conn
  /\ toServer \in Seq(MainToServer) /\ toClient \in Seq(MainToClient)
  /\ conn \in Seq(Connection)
  /\ \A c \in DOMAIN conn : IF conn[c].up THEN conn[c].trait \in IDs
                            ELSE conn[c].trait = NoID /\ conn[c].pends \in IDs

-----------------------------------------------------------------------------
(* Where a transfer is: in a message on the main connection, with a thread,  *)
(* or with the data connection that is opened for it or last served it.      *)
Answered(m) == IF m.kind = "ack" THEN SendID(m.id) ELSE RecvID(m.id)

Bears(w, k, id) ==
  \/ w = "offer" /\ k \in DOMAIN toServer /\ toServer[k].kind = "offer"
       /\ SendID(toServer[k].id) = id
  \/ w = "answer" /\ k \in DOMAIN toClient /\ Answered(toClient[k]) = id
  \/ w = "thread" /\ k \in Threads /\ call[k].at \in HasID /\ call[k].id = id
  \/ w = "pending" /\ k \in DOMAIN conn /\ ~conn[k].up /\ conn[k].pends = id
  \/ w = "conn" /\ k \in DOMAIN conn /\ conn[k].up /\ conn[k].trait = id

Once(id) ==
  \A w, v, k, l : Bears(w, k, id) /\ Bears(v, l, id) => w = v /\ k = l

(* The side that draws an ID, and what the server calls a transfer.          *)
Drawn(id) == IF id[2] = "send" THEN drawn.client ELSE drawn.server
Other(id) == IF id[2] = "send" THEN RecvID(id[1]) ELSE SendID(id[1])

BlockOf(m, n)  == m.kind = "block" /\ m.id = n
HasBlock(q, n) == \E i \in DOMAIN q : BlockOf(q[i], n)

Unsent(id)   == id \in DOMAIN data /\ data[id].finished = 0
Unserved(id) ==
  Other(id) \in DOMAIN sdata /\ sdata[Other(id)].finished = 0
    /\ ~sdata[Other(id)].transmitting
Unused(id)   ==
  id[2] = "send" => \A c \in DOMAIN conn : ~HasBlock(conn[c].toServer, id[1])

(* The IDs in the tables were drawn, and the two ends of a transfer name one *)
(* file, of which the sender has every block.                                *)
KeyFits(id) ==
  /\ id \in DOMAIN data =>
       /\ id[1] <= Drawn(id)
       /\ id[2] = "send" => Whole(data[id])
       /\ Other(id) \in DOMAIN sdata => data[id].file = sdata[Other(id)].file
  /\ Other(id) \in DOMAIN sdata =>
       /\ id[1] <= Drawn(id)
       /\ id[2] = "recv" => Whole(sdata[Other(id)])

(* What is known of a transfer that no connection has served.                *)
OfferFits(id) ==
  \A k : Bears("offer", k, id) =>
    /\ Unsent(id) /\ Unused(id)
    /\ data[id].file = toServer[k].file /\ Other(id) \notin DOMAIN sdata

AnswerFits(id) ==
  \A k : Bears("answer", k, id) =>
    /\ Unserved(id)
    /\ IF id[2] = "send" THEN Unsent(id) /\ Unused(id)
       ELSE id \notin DOMAIN data
              /\ sdata[Other(id)].file = toClient[k].file

ReadyFits(id) ==
  \A w, k : w \in {"thread", "pending"} /\ Bears(w, k, id) =>
    Unserved(id) /\ Unsent(id) /\ Unused(id)

TransferFits(id) ==
  /\ KeyFits(id) /\ Once(id)
  /\ OfferFits(id) /\ AnswerFits(id) /\ ReadyFits(id)
  /\ \A w, k : Bears(w, k, id) => id[1] <= Drawn(id)

-----------------------------------------------------------------------------
(* A data connection serves a transfer as long as that is being transmitted. *)
Active(c) == conn[c].up /\ conn[c].trait \in transmitting

ActiveFits(c) ==
  /\ Active(c) => conn[c].trait \in DOMAIN data
  /\ conn[c].posted <=> Active(c) /\ conn[c].trait[2] = "send"

(* The blocks of a file are sent in order and one after another.             *)
InOrder(q) ==
  \A i, j \in DOMAIN q :
    i < j /\ q[i].kind = "block" /\ BlockOf(q[j], q[i].id) =>
      /\ q[j].block = q[i].block + (j - i)
      /\ \A h \in i .. j : BlockOf(q[h], q[i].id)

(* The first one is the one that the server waits for.                       *)
Leads(q, i) == \A h \in 1 .. i - 1 : ~BlockOf(q[h], q[i].id)

BlockFits(q, i) ==
  LET id == RecvID(q[i].id)
  IN q[i].kind = "block" =>
       /\ id \in DOMAIN sdata
       /\ q[i].block \in 1 .. Size[sdata[id].file]
       /\ Leads(q, i) => q[i].block = sdata[id].finished + 1

BlocksFit(c) ==
  /\ InOrder(conn[c].toServer)
  /\ \A i \in DOMAIN conn[c].toServer : BlockFits(conn[c].toServer, i)

BlocksApart ==
  \A c, d \in DOMAIN conn, n \in Nat :
    HasBlock(conn[c].toServer, n) /\ HasBlock(conn[d].toServer, n) => c = d

(* The block that the client has posted is the last one under way, or the    *)
(* server has it.                                                            *)
LastFits(q, id) ==
  IF HasBlock(q, id[1])
  THEN BlockOf(q[Len(q)], id[1]) /\ q[Len(q)].block = data[id].finished + 1
  ELSE IF Other(id) \in DOMAIN sdata
  THEN sdata[Other(id)].finished = data[id].finished + 1
  ELSE data[id].finished + 1 = Size[data[id].file]

SendFits(c) ==
  conn[c].posted => LastFits(conn[c].toServer, conn[c].trait)

SendsAlone ==
  \A c, d \in DOMAIN conn :
    conn[c].posted /\ HasBlock(conn[d].toServer, conn[c].trait[1]) => c = d

-----------------------------------------------------------------------------
(* A file that the client has requested: the request comes last, ...         *)
GetFits(c) ==
  LET q == conn[c].toServer
  IN \A i \in DOMAIN q : q[i].kind = "get" =>
       /\ i = Len(q) /\ Active(c) /\ conn[c].trait = RecvID(q[i].id)
       /\ Unsent(conn[c].trait) /\ Unserved(conn[c].trait)
       /\ conn[c].toClient = << >>

(* ... what the server has posted is the last block on the way, unless the   *)
(* client has got them all, ...                                              *)
ServeFits(c) ==
  LET s  == conn[c].strait
      id == RecvID(s[1])
  IN conn[c].sposted = 1 =>
       /\ s \in DOMAIN sdata /\ s[2] = "send" /\ sdata[s].transmitting
       /\ IF id \in DOMAIN data
          THEN /\ Active(c) /\ conn[c].trait = id
               /\ data[id].finished + Len(conn[c].toClient)
                    = sdata[s].finished + 1
          ELSE /\ conn[c].toClient = << >>
               /\ sdata[s].finished + 1 = Size[sdata[s].file]

ServeApart ==
  \A c, d \in DOMAIN conn :
    /\ conn[c].sposted = 1 /\ conn[d].sposted = 1
    /\ conn[c].strait = conn[d].strait
    => c = d

(* ... and the blocks on the way are those that the client waits for.        *)
ComeFits(c) ==
  LET q  == conn[c].toClient
      id == conn[c].trait
  IN q # << >> =>
       /\ Active(c) /\ id[2] = "recv"
       /\ \A i \in DOMAIN q :
            q[i].id = id[1] /\ q[i].block = data[id].finished + i
       /\ IF conn[c].sposted = 1 THEN conn[c].strait = SendID(id[1])
          ELSE data[id].finished + Len(q) = Size[data[id].file]

ConnFits(c) ==
  /\ ActiveFits(c) /\ BlocksFit(c) /\ SendFits(c)
  /\ GetFits(c) /\ ServeFits(c) /\ ComeFits(c)

-----------------------------------------------------------------------------
(* Who has a connection: the list of free ones, a thread, the transfer that  *)
(* it serves, or the application that opens it.                              *)
Uses(w, k, c) ==
  \/ w = "list" /\ k \in DOMAIN listPeer /\ listPeer[k] = c
  \/ w = "thread" /\ k \in Threads /\ call[k].at \in HasConn /\ call[k].conn = c
  \/ w = "conn" /\ k = c /\ Active(c)
  \/ w = "pending" /\ k = c /\ ~conn[c].up

UsedOnce(c) ==
  /\ \E w, k : Uses(w, k, c)
  /\ \A w, v, k, l : Uses(w, k, c) /\ Uses(v, l, c) => w = v /\ k = l

TransferInv ==
  /\ TypeInv /\ PostTransmitWhenDone
  /\ \A id \in IDs : TransferFits(id)
  /\ \A c \in DOMAIN conn : ConnFits(c) /\ UsedOnce(c)
  /\ BlocksApart /\ SendsAlone /\ ServeApart


-----------------------------------------------------------------------------
(* Tables and sequences.  With() and Without() change one key of a table.    *)
LEMMA WithKey ==
  ASSUME NEW f, NEW k, NEW v
  PROVE  /\ DOMAIN With(f, k, v) = DOMAIN f \cup {k}
         /\ With(f, k, v)[k] = v
         /\ \A x \in DOMAIN f : x # k => With(f, k, v)[x] = f[x]
BY DEF With

(* A key is removed and no other entry changes.                              *)
LEMMA WithoutKey ==
  ASSUME NEW f, NEW k
  PROVE  /\ DOMAIN Without(f, k) = DOMAIN f \ {k}
         /\ \A x \in DOMAIN f : x # k => Without(f, k)[x] = f[x]
BY DEF Without

(* The first message of a queue is taken, ...                                *)
LEMMA TailOf ==
  ASSUME NEW S, NEW q \in Seq(S), q # << >>
  PROVE  /\ Head(q) = q[1] /\ 1 \in DOMAIN q /\ Head(q) \in S
         /\ Tail(q) \in Seq(S) /\ Len(Tail(q)) = Len(q) - 1
         /\ \A i \in DOMAIN Tail(q) : i + 1 \in DOMAIN q /\ Tail(q)[i] = q[i + 1]
         /\ \A i \in DOMAIN q : i # 1 => i - 1 \in DOMAIN Tail(q)
OBVIOUS

(* ... or one is put at its end.                                             *)
LEMMA AppendOf ==
  ASSUME NEW S, NEW q \in Seq(S), NEW m \in S
  PROVE  /\ Append(q, m) \in Seq(S) /\ Len(Append(q, m)) = Len(q) + 1
         /\ DOMAIN Append(q, m) = DOMAIN q \cup {Len(q) + 1}
         /\ Len(q) + 1 \notin DOMAIN q
         /\ Append(q, m)[Len(q) + 1] = m
         /\ \A i \in DOMAIN q : Append(q, m)[i] = q[i]
OBVIOUS

(* Data connections: one of them changes.                                    *)
OneConn(c, r) ==
  /\ c \in DOMAIN conn /\ r \in Connection
  /\ IF r.up THEN r.trait \in IDs ELSE r.trait = NoID /\ r.pends \in IDs
  /\ conn' = [conn EXCEPT ![c] = r]

(* A step that changes one connection leaves the others as they are.         *)
LEMMA OneConnChanges ==
  ASSUME TypeInv, NEW c, NEW r, OneConn(c, r)
  PROVE  /\ conn' \in Seq(Connection)
         /\ DOMAIN conn' = DOMAIN conn /\ conn'[c] = r
         /\ \A d \in DOMAIN conn : d # c => conn'[d] = conn[d]
         /\ \A d \in DOMAIN conn' :
              IF conn'[d].up THEN conn'[d].trait \in IDs
              ELSE conn'[d].trait = NoID /\ conn'[d].pends \in IDs
<1>1. conn \in Seq(Connection) /\ c \in DOMAIN conn /\ r \in Connection
  BY DEF OneConn, TypeInv
<1>2. conn' = [conn EXCEPT ![c] = r]
  BY DEF OneConn
<1>3. conn' \in Seq(Connection) /\ DOMAIN conn' = DOMAIN conn /\ conn'[c] = r
  BY <1>1, <1>2
<1>4. \A d \in DOMAIN conn : d # c => conn'[d] = conn[d]
  BY <1>1, <1>2
<1>5. \A d \in DOMAIN conn : IF conn[d].up THEN conn[d].trait \in IDs
                             ELSE conn[d].trait = NoID /\ conn[d].pends \in IDs
  BY DEF TypeInv
<1>6. IF r.up THEN r.trait \in IDs ELSE r.trait = NoID /\ r.pends \in IDs
  BY DEF OneConn
<1> QED BY <1>3, <1>4, <1>5, <1>6

(* What the types say of a connection and of the messages on it.             *)
LEMMA ConnTypes ==
  ASSUME TypeInv, NEW c \in DOMAIN conn
  PROVE  /\ conn[c] \in Connection /\ c \in Nat
         /\ conn[c].toServer \in Seq(Block \cup Requested)
         /\ conn[c].toClient \in Seq(Block)
         /\ DOMAIN conn = 1 .. Len(conn) /\ Len(conn) \in Nat
<1>1. conn \in Seq(Connection)
  BY DEF TypeInv
<1>2. conn[c] \in Connection /\ DOMAIN conn = 1 .. Len(conn) /\ Len(conn) \in Nat
  BY <1>1
<1> QED BY <1>2 DEF Connection

(* What is under way to the server is a block or a request.                  *)
LEMMA MessageTypes ==
  ASSUME TypeInv, NEW c \in DOMAIN conn, NEW i \in DOMAIN conn[c].toServer
  PROVE  /\ conn[c].toServer[i] \in Block \cup Requested
         /\ conn[c].toServer[i].id \in Nat
         /\ i \in 1 .. Len(conn[c].toServer) /\ Len(conn[c].toServer) \in Nat
<1>1. conn[c].toServer \in Seq(Block \cup Requested)
  BY ConnTypes
<1> QED BY <1>1 DEF Block, Requested

(* IDs come in two forms, which differ.                                      *)
LEMMA Forms ==
  ASSUME NEW id \in IDs
  PROVE  /\ id[1] \in Nat /\ id[2] \in {"send", "recv"}
         /\ id = <<id[1], id[2]>>
         /\ Other(id) \in IDs /\ Other(id) # id /\ Other(Other(id)) = id
         /\ Other(id)[1] = id[1] /\ Other(id)[2] # id[2]
         /\ Other(id) = IF id[2] = "send" THEN RecvID(id[1]) ELSE SendID(id[1])
         /\ id = IF id[2] = "send" THEN SendID(id[1]) ELSE RecvID(id[1])
BY DEF IDs, Other, SendID, RecvID

(* The two forms of an ID are those of one transfer.                         *)
LEMMA FormsOf ==
  ASSUME NEW n \in Nat
  PROVE  /\ SendID(n) \in IDs /\ RecvID(n) \in IDs /\ SendID(n) # RecvID(n)
         /\ SendID(n)[1] = n /\ RecvID(n)[1] = n
         /\ SendID(n)[2] = "send" /\ RecvID(n)[2] = "recv"
         /\ Other(SendID(n)) = RecvID(n) /\ Other(RecvID(n)) = SendID(n)
BY DEF IDs, Other, SendID, RecvID

(* The bearers of transfers are of five kinds.                               *)
LEMMA BearsIDs ==
  ASSUME TypeInv, NEW w, NEW k, NEW id, Bears(w, k, id)
  PROVE  id \in IDs
<1>1. CASE w = "offer"
  <2>1. k \in DOMAIN toServer /\ toServer[k].kind = "offer"
          /\ id = SendID(toServer[k].id)
    BY <1>1 DEF Bears
  <2>2. toServer[k] \in MainToServer
    BY <2>1 DEF TypeInv
  <2>3. toServer[k].id \in Nat
    BY <2>1, <2>2 DEF MainToServer
  <2> QED BY <2>1, <2>3, FormsOf
<1>2. CASE w = "answer"
  <2>1. k \in DOMAIN toClient /\ id = Answered(toClient[k])
    BY <1>2 DEF Bears
  <2>2. toClient[k] \in MainToClient
    BY <2>1 DEF TypeInv
  <2>3. toClient[k].id \in Nat
    BY <2>1, <2>2 DEF MainToClient
  <2> QED BY <2>1, <2>3, FormsOf DEF Answered
<1>3. CASE w = "thread"
  <2>1. k \in Threads /\ call[k].at \in HasID /\ id = call[k].id
    BY <1>3 DEF Bears
  <2>2. call[k] \in Caller
    BY <2>1 DEF TypeInv
  <2> QED BY <2>1, <2>2 DEF Caller, HasID
<1>4. CASE w = "pending"
  BY <1>4 DEF Bears, TypeInv
<1>5. CASE w = "conn"
  BY <1>5 DEF Bears, TypeInv
<1> QED BY <1>1, <1>2, <1>3, <1>4, <1>5 DEF Bears

-----------------------------------------------------------------------------
(* A step is about one transfer id: it leaves the entries of the others in   *)
(* the tables, and their blocks, ...                                         *)
OnlyEntry(id) ==
  /\ DOMAIN data' \subseteq IDs /\ DOMAIN sdata' \subseteq IDs
  /\ \A x \in IDs \ {id} :
       /\ x \in DOMAIN data' <=> x \in DOMAIN data
       /\ x \in DOMAIN data => data'[x] = data[x]
       /\ Other(x) \in DOMAIN sdata' <=> Other(x) \in DOMAIN sdata
       /\ Other(x) \in DOMAIN sdata => sdata'[Other(x)] = sdata[Other(x)]

OnlyBlocks(id) ==
  \A x \in IDs \ {id} : Unused(x) => Unused(x)'

(* ... and where they are, but for the places in the two queues.             *)
OnlyBearer(id, i, j) ==
  /\ i \in {0, 1} /\ j \in {0, 1}
  /\ \A x \in IDs \ {id} : \A w, k : Bears(w, k, x)' =>
       IF w = "offer"
       THEN Bears(w, k + i, x) /\ toServer'[k].file = toServer[k + i].file
       ELSE IF w = "answer"
       THEN /\ Bears(w, k + j, x)
            /\ x[2] = "recv" => toClient'[k].file = toClient[k + j].file
       ELSE Bears(w, k, x)
  /\ drawn.client <= drawn'.client /\ drawn.server <= drawn'.server

(* A transfer that a step does not touch is as before.                       *)
LEMMA OthersKeep ==
  ASSUME TypeInv, TypeInv', NEW id, NEW i, NEW j,
         OnlyEntry(id), OnlyBlocks(id), OnlyBearer(id, i, j),
         \A x \in IDs : TransferFits(x)
  PROVE  \A x \in IDs \ {id} : TransferFits(x)'
<1> SUFFICES ASSUME NEW x \in IDs \ {id} PROVE TransferFits(x)'
  OBVIOUS
<1>1. /\ x \in DOMAIN data' <=> x \in DOMAIN data
      /\ x \in DOMAIN data => data'[x] = data[x]
      /\ Other(x) \in DOMAIN sdata' <=> Other(x) \in DOMAIN sdata
      /\ Other(x) \in DOMAIN sdata => sdata'[Other(x)] = sdata[Other(x)]
  BY DEF OnlyEntry
<1>2. /\ Unsent(x) => Unsent(x)'
      /\ Unserved(x) => Unserved(x)'
      /\ Unused(x) => Unused(x)'
  BY <1>1 DEF OnlyBlocks, Unsent, Unserved, Other
<1>3. Drawn(x) <= Drawn(x)' /\ x[1] \in Nat /\ Drawn(x) \in Nat /\ Drawn(x)' \in Nat
  BY Forms DEF OnlyBearer, Drawn, TypeInv
<1>4. \A w, k : Bears(w, k, x)' =>
       IF w = "offer"
       THEN Bears(w, k + i, x) /\ toServer'[k].file = toServer[k + i].file
       ELSE IF w = "answer"
       THEN /\ Bears(w, k + j, x)
            /\ x[2] = "recv" => toClient'[k].file = toClient[k + j].file
       ELSE Bears(w, k, x)
  BY DEF OnlyBearer
<1>5. i \in Nat /\ j \in Nat
  BY DEF OnlyBearer
<1>6. \A w, k : Bears(w, k, x)' /\ w \in {"offer", "answer"} => k \in Nat
  <2>1. toServer' \in Seq(MainToServer') /\ toClient' \in Seq(MainToClient')
    BY DEF TypeInv
  <2>2. \A k : k \in DOMAIN toServer' \/ k \in DOMAIN toClient' => k \in Nat
    BY <2>1
  <2>3. \A k : /\ Bears("offer", k, x)' => k \in DOMAIN toServer'
               /\ Bears("answer", k, x)' => k \in DOMAIN toClient'
    BY DEF Bears
  <2> QED BY <2>2, <2>3
<1>7. TransferFits(x)
  OBVIOUS
<1>8. KeyFits(x)'
  BY <1>1, <1>3, <1>7 DEF TransferFits, KeyFits, Other, Drawn
<1>9. Once(x)'
  <2> SUFFICES ASSUME NEW w, NEW v, NEW k, NEW l,
                      Bears(w, k, x)', Bears(v, l, x)'
               PROVE  w = v /\ k = l
    BY DEF Once
  <2>1. Once(x)
    BY <1>7 DEF TransferFits
  <2>2. w = v
    BY <1>4, <2>1 DEF Once
  <2>3. CASE w = "offer"
    <3>1. Bears("offer", k + i, x) /\ Bears("offer", l + i, x)
      BY <1>4, <2>2, <2>3
    <3>2. k + i = l + i /\ k \in Nat /\ l \in Nat
      BY <1>6, <2>1, <2>2, <2>3, <3>1 DEF Once
    <3> QED BY <1>5, <2>2, <3>2
  <2>4. CASE w = "answer"
    <3>1. Bears("answer", k + j, x) /\ Bears("answer", l + j, x)
      BY <1>4, <2>2, <2>4
    <3>2. k + j = l + j /\ k \in Nat /\ l \in Nat
      BY <1>6, <2>1, <2>2, <2>4, <3>1 DEF Once
    <3> QED BY <1>5, <2>2, <3>2
  <2>5. CASE w \notin {"offer", "answer"}
    BY <1>4, <2>1, <2>2, <2>5 DEF Once
  <2> QED BY <2>3, <2>4, <2>5
<1>10. OfferFits(x)'
  <2> SUFFICES ASSUME NEW k, Bears("offer", k, x)'
               PROVE  /\ Unsent(x)' /\ Unused(x)'
                      /\ data'[x].file = toServer'[k].file
                      /\ Other(x) \notin DOMAIN sdata'
    BY DEF OfferFits, Other
  <2>1. Bears("offer", k + i, x) /\ toServer'[k].file = toServer[k + i].file
    BY <1>4
  <2>2. /\ Unsent(x) /\ Unused(x) /\ data[x].file = toServer[k + i].file
        /\ Other(x) \notin DOMAIN sdata
    BY <1>7, <2>1 DEF TransferFits, OfferFits
  <2> QED BY <1>1, <1>2, <2>1, <2>2 DEF Unsent
<1>11. AnswerFits(x)'
  <2> SUFFICES ASSUME NEW k, Bears("answer", k, x)'
               PROVE  /\ Unserved(x)'
                      /\ x[2] = "send" => Unsent(x)' /\ Unused(x)'
                      /\ x[2] # "send" => 
                           /\ x \notin DOMAIN data'
                           /\ sdata'[Other(x)].file = toClient'[k].file
    BY DEF AnswerFits, Other
  <2>1. /\ Bears("answer", k + j, x)
        /\ x[2] = "recv" => toClient'[k].file = toClient[k + j].file
    BY <1>4
  <2>2. /\ Unserved(x)
        /\ x[2] = "send" => Unsent(x) /\ Unused(x)
        /\ x[2] # "send" => x \notin DOMAIN data
                              /\ sdata[Other(x)].file = toClient[k + j].file
    BY <1>7, <2>1 DEF TransferFits, AnswerFits
  <2> QED BY <1>1, <1>2, <2>1, <2>2, Forms DEF Unserved
<1>12. ReadyFits(x)'
  BY <1>2, <1>4, <1>7 DEF TransferFits, ReadyFits
<1>13. \A w, k : Bears(w, k, x)' => x[1] <= Drawn(x)'
  BY <1>3, <1>4, <1>7 DEF TransferFits
<1> QED BY <1>8, <1>9, <1>10, <1>11, <1>12, <1>13 DEF TransferFits

-----------------------------------------------------------------------------
(* A connection that the step leaves alone, and that has not to do with the  *)
(* transfer id.                                                              *)
Apart(d, id) ==
  /\ conn'[d] = conn[d]
  /\ conn[d].trait \in transmitting' <=> conn[d].trait \in transmitting
  /\ Active(d) => conn[d].trait # id
  /\ id[2] = "send" => ~HasBlock(conn[d].toServer, id[1])
  /\ conn[d].sposted = 1 => conn[d].strait # Other(id)

(* So is a connection that has nothing of the transfer that moves.           *)
LEMMA ApartKeeps ==
  ASSUME TypeInv, NEW id \in IDs, OnlyEntry(id),
         NEW d \in DOMAIN conn, Apart(d, id), ConnFits(d)
  PROVE  ConnFits(d)'
<1> DEFINE x == conn[d].trait
           q == conn[d].toServer
<1>1. /\ conn'[d] = conn[d]
      /\ Active(d)' <=> Active(d)
      /\ Active(d) => x # id /\ x \in IDs
  BY DEF Apart, Active, TypeInv
<1>2. \A y \in IDs : y # id =>
        /\ y \in DOMAIN data' <=> y \in DOMAIN data
        /\ y \in DOMAIN data => data'[y] = data[y]
        /\ Other(y) \in DOMAIN sdata' <=> Other(y) \in DOMAIN sdata
        /\ Other(y) \in DOMAIN sdata => sdata'[Other(y)] = sdata[Other(y)]
  BY DEF OnlyEntry
<1>3. ActiveFits(d)'
  BY <1>1, <1>2 DEF ConnFits, ActiveFits
<1>4. conn[d].posted => Active(d) /\ x[2] = "send"
  BY DEF ConnFits, ActiveFits
<1>5. \A i \in DOMAIN q : q[i].id \in Nat
  BY MessageTypes
<1>6. BlocksFit(d)'
  <2>1. InOrder(q)
    BY DEF ConnFits, BlocksFit
  <2>2. ASSUME NEW i \in DOMAIN q, q[i].kind = "block"
        PROVE  /\ SendID(q[i].id) # id /\ SendID(q[i].id) \in IDs
               /\ Other(SendID(q[i].id)) = RecvID(q[i].id)
    <3>1. id[2] = "send" => id[1] # q[i].id
      BY <2>2 DEF Apart, HasBlock, BlockOf
    <3> QED BY <3>1, <1>5, FormsOf
  <2>3. ASSUME NEW i \in DOMAIN q PROVE BlockFits(q, i)'
    <3>1. BlockFits(q, i)
      BY DEF ConnFits, BlocksFit
    <3>2. CASE q[i].kind = "block"
      <4>1. /\ RecvID(q[i].id) \in DOMAIN sdata' <=> RecvID(q[i].id)
                 \in DOMAIN sdata
            /\ RecvID(q[i].id) \in DOMAIN sdata =>
                 sdata'[RecvID(q[i].id)] = sdata[RecvID(q[i].id)]
        BY <1>2, <2>2, <3>2
      <4> QED BY <1>1, <3>1, <3>2, <4>1 DEF BlockFits, Leads, BlockOf
    <3>3. CASE q[i].kind # "block"
      BY <1>1, <3>3 DEF BlockFits
    <3> QED BY <3>2, <3>3
  <2> QED BY <1>1, <2>1, <2>3 DEF BlocksFit, InOrder, BlockOf
<1>7. SendFits(d)'
  <2>1. CASE conn[d].posted
    <3>1. x \in DOMAIN data /\ x # id /\ x \in IDs
      BY <1>1, <1>4, <2>1 DEF ConnFits, ActiveFits
    <3>2. LastFits(q, x)
      BY <2>1 DEF ConnFits, SendFits
    <3>3. LastFits(q, x)'
      BY <1>1, <1>2, <3>1, <3>2 DEF LastFits, HasBlock, BlockOf, Other
    <3> QED BY <1>1, <3>3 DEF SendFits
  <2>2. CASE ~conn[d].posted
    BY <1>1, <2>2 DEF SendFits
  <2> QED BY <2>1, <2>2
<1>8. GetFits(d)'
  <2>1. GetFits(d)
    BY DEF ConnFits
  <2>2. \A y \in IDs : y # id => /\ Unsent(y) => Unsent(y)'
                                 /\ Unserved(y) => Unserved(y)'
    BY <1>2 DEF Unsent, Unserved, Other
  <2> QED BY <1>1, <2>1, <2>2 DEF GetFits
<1>9. ServeFits(d)'
  <2> DEFINE s == conn[d].strait
             y == RecvID(s[1])
  <2>1. ServeFits(d)
    BY DEF ConnFits
  <2>2. CASE conn[d].sposted = 1
    <3>1. s \in DOMAIN sdata /\ s[2] = "send" /\ s # Other(id) /\ s \in IDs
      BY <2>1, <2>2 DEF ServeFits, Apart, TypeInv
    <3>2. y \in IDs /\ Other(y) = s /\ y # id
      BY <3>1, Forms, FormsOf
    <3>3. /\ y \in DOMAIN data' <=> y \in DOMAIN data
          /\ y \in DOMAIN data => data'[y] = data[y]
          /\ s \in DOMAIN sdata' /\ sdata'[s] = sdata[s]
      BY <1>2, <3>1, <3>2
    <3> HIDE DEF s, y
    <3> QED BY <1>1, <2>1, <2>2, <3>1, <3>3 DEF ServeFits, s, y
  <2>3. CASE conn[d].sposted # 1
    BY <1>1, <2>3 DEF ServeFits
  <2> QED BY <2>2, <2>3
<1>10. ComeFits(d)'
  <2>1. ComeFits(d)
    BY DEF ConnFits
  <2>2. Active(d) => x \in DOMAIN data /\ x # id /\ x \in IDs
    BY <1>1 DEF ConnFits, ActiveFits
  <2> QED BY <1>1, <1>2, <2>1, <2>2 DEF ComeFits
<1> QED BY <1>3, <1>6, <1>7, <1>8, <1>9, <1>10 DEF ConnFits

-----------------------------------------------------------------------------
(* The users of the other connections stay, ...                              *)
OnlyUser(c, s) ==
  /\ s \in {0, 1}
  /\ \A d \in DOMAIN conn \ {c} :
       /\ \A w, k : Uses(w, k, d)' =>
            IF w = "list" THEN Uses(w, k + s, d) ELSE Uses(w, k, d)
       /\ (\E w, k : Uses(w, k, d)) => \E w, k : Uses(w, k, d)'

(* A connection that a step does not touch is used as before.                *)
LEMMA OthersUsed ==
  ASSUME TypeInv', NEW c, NEW s, OnlyUser(c, s),
         NEW d \in DOMAIN conn \ {c}, UsedOnce(d)
  PROVE  UsedOnce(d)'
<1>1. \E w, k : Uses(w, k, d)'
  BY DEF UsedOnce, OnlyUser
<1>2. ASSUME NEW w, NEW v, NEW k, NEW l, Uses(w, k, d)', Uses(v, l, d)'
      PROVE  w = v /\ k = l
  <2>1. /\ IF w = "list" THEN Uses(w, k + s, d) ELSE Uses(w, k, d)
        /\ IF v = "list" THEN Uses(v, l + s, d) ELSE Uses(v, l, d)
    BY <1>2 DEF OnlyUser
  <2>2. w = v
    BY <2>1 DEF UsedOnce
  <2>3. CASE w = "list"
    <3>1. k + s = l + s
      BY <2>1, <2>2, <2>3 DEF UsedOnce
    <3>2. k \in DOMAIN listPeer' /\ l \in DOMAIN listPeer'
      BY <1>2, <2>2, <2>3 DEF Uses
    <3>3. k \in Nat /\ l \in Nat
      BY <3>2 DEF TypeInv
    <3> QED BY <2>2, <3>1, <3>3 DEF OnlyUser
  <2>4. CASE w # "list"
    BY <2>1, <2>2, <2>4 DEF UsedOnce
  <2> QED BY <2>3, <2>4
<1> QED BY <1>1, <1>2 DEF UsedOnce

(* ... and the connection c of the step adds no blocks but those of its      *)
(* transfer id.                                                              *)
OnlyConn(c, id) ==
  /\ DOMAIN conn \subseteq DOMAIN conn'
  /\ DOMAIN conn' \subseteq DOMAIN conn \cup {c}
  /\ \A d \in DOMAIN conn \ {c} : Apart(d, id)
  /\ c \in DOMAIN conn' =>
       /\ \A n \in Nat : HasBlock(conn'[c].toServer, n) =>
            \/ id = SendID(n)
            \/ c \in DOMAIN conn /\ HasBlock(conn[c].toServer, n)
       /\ conn'[c].posted =>
            \/ conn'[c].trait = id /\ id[2] = "send"
            \/ /\ c \in DOMAIN conn /\ conn[c].posted
               /\ conn'[c].trait = conn[c].trait
       /\ conn'[c].sposted = 1 =>
            \/ conn'[c].strait = Other(id)
            \/ /\ c \in DOMAIN conn /\ conn[c].sposted = 1
               /\ conn'[c].strait = conn[c].strait

(* Blocks of one transfer stay on one connection.                            *)
LEMMA PairsKeep ==
  ASSUME TypeInv, TypeInv', NEW c, NEW id \in IDs, OnlyConn(c, id),
         \A d \in DOMAIN conn : ConnFits(d), BlocksApart, SendsAlone, ServeApart
  PROVE  BlocksApart' /\ SendsAlone' /\ ServeApart' /\ OnlyBlocks(id)
<1>1. \A d \in DOMAIN conn' : d # c => d \in DOMAIN conn /\ conn'[d] = conn[d]
  BY DEF OnlyConn, Apart
<1>2. \A n \in Nat : id = SendID(n) =>
        \A d \in DOMAIN conn \ {c} : ~HasBlock(conn[d].toServer, n)
  BY FormsOf DEF OnlyConn, Apart
<1>3. \A d \in DOMAIN conn \ {c} : conn[d].posted => conn[d].trait # id
  BY DEF OnlyConn, Apart, ConnFits, ActiveFits
<1>4. \A d \in DOMAIN conn \ {c} : conn[d].sposted = 1 => conn[d].strait # Other(id)
  BY DEF OnlyConn, Apart
<1>5. /\ \A n \in Nat, d \in DOMAIN conn' :
           HasBlock(conn'[d].toServer, n) /\ ~(d = c /\ id = SendID(n)) =>
             d \in DOMAIN conn /\ HasBlock(conn[d].toServer, n)
  BY <1>1 DEF OnlyConn
<1>6. BlocksApart'
  <2> SUFFICES ASSUME NEW d \in DOMAIN conn', NEW e \in DOMAIN conn', NEW n \in Nat,
                      HasBlock(conn'[d].toServer, n),
                      HasBlock(conn'[e].toServer, n)
               PROVE  d = e
    BY DEF BlocksApart, HasBlock, BlockOf
  <2>1. CASE id = SendID(n)
    BY <1>2, <1>5, <2>1
  <2>2. CASE id # SendID(n)
    BY <1>5, <2>2 DEF BlocksApart
  <2> QED BY <2>1, <2>2
<1>7. SendsAlone'
  <2> SUFFICES ASSUME NEW d \in DOMAIN conn', NEW e \in DOMAIN conn',
                      conn'[d].posted,
                      HasBlock(conn'[e].toServer, conn'[d].trait[1])
               PROVE  d = e
    BY DEF SendsAlone, HasBlock, BlockOf
  <2> DEFINE x == conn'[d].trait
  <2>1. CASE d \in DOMAIN conn /\ conn[d].posted /\ x = conn[d].trait
    <3>1. Active(d) /\ x[2] = "send" /\ x \in IDs
      BY <2>1 DEF ConnFits, ActiveFits, Active, TypeInv
    <3>2. x[1] \in Nat /\ x = SendID(x[1])
      BY <3>1, Forms
    <3>3. CASE e = c /\ id = x
      <4>1. d # c => FALSE
        BY <1>3, <2>1, <3>3
      <4> QED BY <4>1, <3>3
    <3>4. CASE ~(e = c /\ id = x)
      BY <1>5, <2>1, <3>2, <3>4 DEF SendsAlone
    <3> QED BY <3>3, <3>4
  <2>2. CASE d = c /\ x = id /\ id[2] = "send"
    <3>1. id[1] \in Nat /\ id = SendID(id[1])
      BY <2>2, Forms
    <3> QED BY <1>2, <1>5, <2>2, <3>1
  <2>3. d # c => d \in DOMAIN conn /\ conn[d].posted /\ x = conn[d].trait
    BY <1>1
  <2>4. d = c
          => (x = id /\ id[2] = "send") \/ (d \in DOMAIN conn /\ conn[d].posted
              /\ x = conn[d].trait)
    BY DEF OnlyConn
  <2> HIDE DEF x
  <2> QED BY <2>1, <2>2, <2>3, <2>4
<1>8. ServeApart'
  <2> SUFFICES ASSUME NEW d \in DOMAIN conn', NEW e \in DOMAIN conn',
                      conn'[d].sposted = 1, conn'[e].sposted = 1,
                      conn'[d].strait = conn'[e].strait, d # e
               PROVE  FALSE
    BY DEF ServeApart
  <2>1. CASE d # c /\ e # c
    BY <1>1, <2>1 DEF ServeApart
  <2>2. CASE d = c
    BY <1>1, <1>4, <2>2 DEF OnlyConn, ServeApart
  <2>3. CASE e = c
    BY <1>1, <1>4, <2>3 DEF OnlyConn, ServeApart
  <2> QED BY <2>1, <2>2, <2>3
<1>9. OnlyBlocks(id)
  <2> SUFFICES ASSUME NEW x \in IDs \ {id}, Unused(x), x[2] = "send",
                      NEW d \in DOMAIN conn', HasBlock(conn'[d].toServer, x[1])
               PROVE  FALSE
    BY DEF OnlyBlocks, Unused, HasBlock, BlockOf
  <2>1. x[1] \in Nat /\ x = SendID(x[1])
    BY Forms
  <2> QED BY <1>5, <2>1 DEF Unused
<1> QED BY <1>6, <1>7, <1>8, <1>9

(* So only the transfer and the connection of a step have to be considered.  *)
LEMMA StepKeeps ==
  ASSUME TransferInv, TypeInv', NEW c, NEW id \in IDs, NEW i, NEW j, NEW s,
         OnlyEntry(id), OnlyBearer(id, i, j), OnlyConn(c, id), OnlyUser(c, s),
         TransferFits(id)', c \in DOMAIN conn' => ConnFits(c)' /\ UsedOnce(c)',
         PostTransmitWhenDone'
  PROVE  TransferInv'
<1>1. /\ TypeInv /\ BlocksApart /\ SendsAlone /\ ServeApart
      /\ \A x \in IDs : TransferFits(x)
      /\ \A d \in DOMAIN conn : ConnFits(d) /\ UsedOnce(d)
  BY DEF TransferInv
<1>2. BlocksApart' /\ SendsAlone' /\ ServeApart' /\ OnlyBlocks(id)
  BY <1>1, PairsKeep
<1>3. \A x \in IDs \ {id} : TransferFits(x)'
  BY <1>1, <1>2, OthersKeep
<1>4. \A d \in DOMAIN conn' : d # c => d \in DOMAIN conn
  BY DEF OnlyConn
<1>5. \A d \in DOMAIN conn \ {c} : ConnFits(d)'
  BY <1>1, ApartKeeps DEF OnlyConn
<1>6. \A d \in DOMAIN conn \ {c} : UsedOnce(d)'
  BY <1>1, OthersUsed
<1> QED BY <1>2, <1>3, <1>4, <1>5, <1>6 DEF TransferInv, IDs

-----------------------------------------------------------------------------
(* Queues of blocks.                                                         *)
LEMMA HasTail ==
  ASSUME NEW q \in Seq(Block \cup Requested), q # << >>, NEW n
  PROVE  /\ HasBlock(Tail(q), n) => HasBlock(q, n)
         /\ HasBlock(q, n) => BlockOf(q[1], n) \/ HasBlock(Tail(q), n)
         /\ Len(q) > 1 => Tail(q)[Len(Tail(q))] = q[Len(q)]
<1>1. \A i \in DOMAIN Tail(q) : i + 1 \in DOMAIN q /\ Tail(q)[i] = q[i + 1]
  BY TailOf
<1>2. \A i \in DOMAIN q : i # 1 => i - 1 \in DOMAIN Tail(q) /\ (i - 1) + 1 = i
  BY TailOf
<1>3. \A i \in DOMAIN q : i # 1 => Tail(q)[i - 1] = q[i]
  BY <1>1, <1>2
<1> QED BY <1>1, <1>2, <1>3 DEF HasBlock

(* An appended message is the only one that a queue gains.                   *)
LEMMA HasAppend ==
  ASSUME NEW q \in Seq(Block \cup Requested), NEW m \in Block \cup Requested, NEW n
  PROVE  HasBlock(Append(q, m), n) <=> HasBlock(q, n) \/ BlockOf(m, n)
BY AppendOf DEF HasBlock

(* The blocks stay in order when the oldest is taken ...                     *)
LEMMA InOrderTail ==
  ASSUME NEW q \in Seq(Block \cup Requested), q # << >>, InOrder(q)
  PROVE  InOrder(Tail(q))
<1> SUFFICES ASSUME NEW i \in DOMAIN Tail(q), NEW j \in DOMAIN Tail(q), i < j,
                    Tail(q)[i].kind = "block", BlockOf(Tail(q)[j], Tail(q)[i].id)
             PROVE  /\ Tail(q)[j].block = Tail(q)[i].block + (j - i)
                    /\ \A h \in i .. j : BlockOf(Tail(q)[h], Tail(q)[i].id)
  BY DEF InOrder
<1>1. /\ i + 1 \in DOMAIN q /\ j + 1 \in DOMAIN q
      /\ Tail(q)[i] = q[i + 1] /\ Tail(q)[j] = q[j + 1]
      /\ i \in Int /\ j \in Int
  BY TailOf
<1>2. /\ q[j + 1].block = q[i + 1].block + (j - i)
      /\ \A h \in i + 1 .. j + 1 : BlockOf(q[h], q[i + 1].id)
  <2> DEFINE k == i + 1
             l == j + 1
  <2>1. k \in DOMAIN q /\ l \in DOMAIN q /\ k < l /\ l - k = j - i
          /\ q[k].kind = "block" /\ BlockOf(q[l], q[k].id)
    BY <1>1
  <2> HIDE DEF k, l
  <2>2. /\ q[l].block = q[k].block + (l - k)
        /\ \A h \in k .. l : BlockOf(q[h], q[k].id)
    BY <2>1 DEF InOrder
  <2> QED BY <2>1, <2>2 DEF k, l
<1>3. \A h \in i .. j : h \in DOMAIN Tail(q) /\ h + 1 \in i + 1 .. j + 1
                          /\ Tail(q)[h] = q[h + 1]
  BY TailOf
<1> QED BY <1>1, <1>2, <1>3

(* ... and when the next one of the last transfer follows.                   *)
LEMMA InOrderAppend ==
  ASSUME NEW q \in Seq(Block \cup Requested), NEW m \in Block \cup Requested,
         InOrder(q),
         m.kind = "block" /\ HasBlock(q, m.id) =>
           BlockOf(q[Len(q)], m.id) /\ m.block = q[Len(q)].block + 1
  PROVE  InOrder(Append(q, m))
<1> DEFINE p == Append(q, m)
           n == Len(q)
<1>1. /\ DOMAIN p = DOMAIN q \cup {n + 1} /\ n + 1 \notin DOMAIN q
      /\ p[n + 1] = m /\ \A i \in DOMAIN q : p[i] = q[i]
      /\ n \in Nat /\ DOMAIN q = 1 .. n
  BY AppendOf
<1> HIDE DEF p, n
<1> SUFFICES ASSUME NEW i \in DOMAIN p, NEW j \in DOMAIN p, i < j,
                    p[i].kind = "block", BlockOf(p[j], p[i].id)
             PROVE  /\ p[j].block = p[i].block + (j - i)
                    /\ \A h \in i .. j : BlockOf(p[h], p[i].id)
  BY DEF InOrder, p
<1>2. CASE j \in DOMAIN q
  <2>1. i \in DOMAIN q /\ p[i] = q[i] /\ p[j] = q[j]
    BY <1>1, <1>2
  <2>2. /\ q[j].block = q[i].block + (j - i)
        /\ \A h \in i .. j : BlockOf(q[h], q[i].id)
    BY <1>2, <2>1 DEF InOrder
  <2>3. \A h \in i .. j : h \in DOMAIN q
    BY <1>1, <1>2, <2>1
  <2> QED BY <1>1, <2>1, <2>2, <2>3
<1>3. CASE j = n + 1
  <2>1. i \in DOMAIN q /\ p[i] = q[i] /\ p[j] = m /\ i \in Nat
    BY <1>1, <1>3
  <2>2. m.kind = "block" /\ m.id = q[i].id /\ q[i].kind = "block"
    BY <2>1 DEF BlockOf
  <2>3. HasBlock(q, m.id)
    BY <2>1, <2>2 DEF HasBlock, BlockOf
  <2>4. BlockOf(q[n], m.id) /\ m.block = q[n].block + 1
    BY <2>2, <2>3 DEF n
  <2>5. n \in DOMAIN q /\ i <= n
    BY <1>1, <2>1
  <2>6. /\ q[n].block = q[i].block + (n - i)
        /\ \A h \in i .. n : BlockOf(q[h], q[i].id)
    <3>1. CASE i = n
      <4>1. q[i] \in Block
        BY <2>1, <2>2 DEF Block, Requested
      <4>2. q[n].block \in Nat
        BY <3>1, <4>1 DEF Block
      <4> QED BY <1>1, <2>2, <3>1, <4>2, <2>1 DEF BlockOf
    <3>2. CASE i < n
      BY <2>1, <2>2, <2>4, <2>5, <3>2 DEF InOrder
    <3> QED BY <2>1, <2>5, <1>1, <3>1, <3>2
  <2>7. \A h \in i .. j : h = j \/ h \in i .. n
    BY <1>1, <1>3, <2>1
  <2>8. \A h \in i .. n : h \in DOMAIN q
    BY <1>1, <2>1
  <2>9. q[i].block \in Nat
    BY <2>1, <2>2 DEF Block, Requested
  <2>10. p[j].block = p[i].block + (j - i)
    <3>1. p[j].block = q[n].block + 1 /\ q[n].block = q[i].block + (n - i)
      BY <1>1, <1>3, <2>4, <2>6
    <3>2. n \in Nat /\ i \in Nat /\ j = n + 1 /\ p[i].block = q[i].block
      BY <1>1, <1>3, <2>1
    <3>3. PICK a \in Nat : a = q[i].block
      BY <2>9
    <3>4. (a + (n - i)) + 1 = a + (j - i)
      BY <3>2
    <3>5. p[j].block = (a + (n - i)) + 1 /\ p[i].block = a
      BY <3>1, <3>2, <3>3
    <3> QED BY <3>4, <3>5
  <2> QED BY <1>1, <2>1, <2>2, <2>6, <2>7, <2>8, <2>10 DEF BlockOf
<1> QED BY <1>1, <1>2, <1>3

(* A message that goes on where its transfer is at the end of a queue.       *)
LEMMA AppendFits ==
  ASSUME TypeInv, NEW c \in DOMAIN conn, NEW m \in Block \cup Requested,
         BlocksFit(c), sdata' = sdata,
         conn'[c].toServer = Append(conn[c].toServer, m),
         m.kind = "block" =>
           /\ RecvID(m.id) \in DOMAIN sdata
           /\ m.block \in 1 .. Size[sdata[RecvID(m.id)].file]
           /\ IF HasBlock(conn[c].toServer, m.id)
              THEN /\ BlockOf(conn[c].toServer[Len(conn[c].toServer)], m.id)
                   /\ m.block = conn[c].toServer[Len(conn[c].toServer)].block + 1
              ELSE m.block = sdata[RecvID(m.id)].finished + 1
  PROVE  BlocksFit(c)'
<1> DEFINE q == conn[c].toServer
           p == Append(q, m)
           n == Len(q)
<1>1. q \in Seq(Block \cup Requested)
  BY ConnTypes
<1>2. /\ DOMAIN p = DOMAIN q \cup {n + 1} /\ n + 1 \notin DOMAIN q
      /\ p[n + 1] = m /\ \A i \in DOMAIN q : p[i] = q[i]
      /\ n \in Nat /\ DOMAIN q = 1 .. n
  BY <1>1, AppendOf
<1>3. InOrder(p)
  BY <1>1, InOrderAppend DEF BlocksFit
<1> HIDE DEF p, q, n
<1>4. ASSUME NEW i \in DOMAIN p PROVE BlockFits(p, i)
  <2>1. CASE i \in DOMAIN q
    <3>1. BlockFits(q, i) /\ p[i] = q[i]
      BY <1>2, <2>1 DEF BlocksFit, q
    <3>2. \A h \in 1 .. i - 1 : p[h] = q[h]
      BY <1>2, <2>1
    <3>3. Leads(p, i) => Leads(q, i)
      BY <3>1, <3>2 DEF Leads
    <3> QED BY <3>1, <3>3 DEF BlockFits
  <2>2. CASE i = n + 1
    <3>1. p[i] = m
      BY <1>2, <2>2
    <3>2. Leads(p, i) => ~HasBlock(q, m.id)
      BY <1>2, <2>2, <3>1 DEF Leads, HasBlock
    <3> QED BY <3>1, <3>2 DEF BlockFits, q
  <2> QED BY <1>2, <2>1, <2>2
<1>5. conn'[c].toServer = p
  BY DEF p, q
<1> QED BY <1>3, <1>4, <1>5 DEF BlocksFit, InOrder, BlockFits, Leads, BlockOf

-----------------------------------------------------------------------------
(* Threads: one of them goes on.                                             *)
LEMMA CallTyped ==
  ASSUME TypeInv, NEW t \in Threads, NEW r \in Caller,
         call' = [call EXCEPT ![t] = r],
         r.at \in HasConn => r.conn \in DOMAIN conn',
         DOMAIN conn \subseteq DOMAIN conn'
  PROVE  /\ call' \in [Threads -> Caller] /\ call'[t] = r
         /\ \A u \in Threads : u # t => call'[u] = call[u]
         /\ \A u \in Threads : call'[u].at \in HasConn =>
              call'[u].conn \in DOMAIN conn'
<1>1. call \in [Threads -> Caller]
  BY DEF TypeInv
<1>2. /\ call' \in [Threads -> Caller] /\ call'[t] = r
      /\ \A u \in Threads : u # t => call'[u] = call[u]
  BY <1>1
<1>3. \A u \in Threads : call[u].at \in HasConn => call[u].conn \in DOMAIN conn
  BY DEF TypeInv
<1> QED BY <1>2, <1>3

(* What a thread knows follows from where it is.                             *)
LEMMA CallTypes ==
  ASSUME TypeInv, NEW t \in Threads
  PROVE  /\ call[t] \in Caller /\ call[t].reads \in Int
         /\ call[t].at \in {"testLimit", "pushWait", "prepare"} =>
              call[t] \in [at : {"testLimit", "pushWait", "prepare"},
                           file : Files, reads : Int]
         /\ call[t].at \in {"popPeer", "open"} =>
              call[t] \in [at : {"popPeer", "open"}, id : IDs, reads : Int]
         /\ call[t].at = "transmit" =>
              call[t] \in [at : {"transmit"}, id : IDs, reads : Int, conn : Nat]
         /\ call[t].at = "pushPeer" =>
              call[t] \in [at : {"pushPeer"}, conn : Nat, reads : Int]
         /\ call[t].at \in {"idle", "testWait", "popWait"} =>
              call[t] \in [at : {"idle", "testWait", "popWait"}, reads : Int]
<1>1. call[t] \in Caller
  BY DEF TypeInv
<1> QED BY <1>1 DEF Caller

(* An idle thread is a thread.                                               *)
LEMMA IdleTyped == Idle \in Caller /\ Idle.at = "idle"
BY DEF Idle, Caller, Nothing

(* The users of a connection that nothing happens to.                        *)
SameUsers(d) ==
  /\ d \in DOMAIN conn' /\ conn'[d].up = conn[d].up
  /\ Active(d)' <=> Active(d)

SameCalls ==
  /\ listPeer' = listPeer
  /\ \A u \in Threads :
       /\ call'[u].at \in HasConn <=> call[u].at \in HasConn
       /\ call'[u].at \in HasConn => call'[u].conn = call[u].conn

(* Who has a connection follows from the calls, the list and the connection. *)
LEMMA UsersStay ==
  ASSUME SameCalls, NEW d \in DOMAIN conn, SameUsers(d)
  PROVE  \A w, k : Uses(w, k, d)' <=> Uses(w, k, d)
BY DEF SameCalls, SameUsers, Uses

(* The users stay when no call gets or gives a connection.                   *)
LEMMA OnlyUserStays ==
  ASSUME TypeInv, SameCalls, NEW c, \A d \in DOMAIN conn \ {c} : SameUsers(d)
  PROVE  OnlyUser(c, 0)
<1>1. ASSUME NEW d \in DOMAIN conn \ {c}
      PROVE  /\ \A w, k : Uses(w, k, d)' =>
                  IF w = "list" THEN Uses(w, k + 0, d) ELSE Uses(w, k, d)
             /\ (\E w, k : Uses(w, k, d)) => \E w, k : Uses(w, k, d)'
  <2>1. \A w, k : Uses(w, k, d)' <=> Uses(w, k, d)
    BY UsersStay
  <2>2. \A w, k : Uses(w, k, d) /\ w = "list" => k \in Nat
    BY DEF Uses, TypeInv
  <2>3. \A w, k : w = "list" /\ Uses(w, k, d) => Uses(w, k + 0, d)
    BY <2>2
  <2> QED BY <2>1, <2>3
<1> QED BY <1>1 DEF OnlyUser

(* A step that moves no transfer.                                            *)
LEMMA QuietKeeps ==
  ASSUME TransferInv, TypeInv', NEW c, NEW s,
         OnlyBearer(NoID, 0, 0), OnlyUser(c, s), c \in DOMAIN conn => UsedOnce(c)',
         UNCHANGED <<drawn, data, sdata, conn, transmitting, received>>
  PROVE  TransferInv'
<1>1. /\ TypeInv /\ PostTransmitWhenDone
      /\ BlocksApart /\ SendsAlone /\ ServeApart
      /\ \A x \in IDs : TransferFits(x)
      /\ \A d \in DOMAIN conn : ConnFits(d) /\ UsedOnce(d)
  BY DEF TransferInv
<1>2. OnlyEntry(NoID) /\ OnlyBlocks(NoID)
  BY <1>1 DEF TypeInv, OnlyEntry, OnlyBlocks, Unused, HasBlock
<1>3. \A x \in IDs \ {NoID} : TransferFits(x)'
  BY <1>1, <1>2, OthersKeep
<1>4. NoID \notin IDs
  BY DEF NoID, IDs
<1>5. \A d \in DOMAIN conn : ConnFits(d)'
  BY <1>1 DEF ConnFits, ActiveFits, Active, BlocksFit, InOrder, BlockFits, Leads,
              BlockOf, SendFits, LastFits, HasBlock, GetFits, Unsent, Unserved,
              ServeFits, ComeFits
<1>6. BlocksApart' /\ SendsAlone' /\ ServeApart' /\ PostTransmitWhenDone'
  BY <1>1 DEF BlocksApart, SendsAlone, ServeApart, HasBlock, PostTransmitWhenDone
<1>7. \A d \in DOMAIN conn \ {c} : UsedOnce(d)'
  BY <1>1, OthersUsed
<1>8. \A x \in IDs : TransferFits(x)'
  BY <1>3, <1>4
<1>9. \A d \in DOMAIN conn' : ConnFits(d)' /\ UsedOnce(d)'
  BY <1>5, <1>7
<1> QED BY <1>6, <1>8, <1>9 DEF TransferInv, IDs

(* A transfer that is in one place.                                          *)
PlacedAt(v, l, id) == \A w, k : Bears(w, k, id) => w = v /\ k = l

(* What holds of a transfer that is only offered, ...                        *)
LEMMA Offered ==
  ASSUME NEW id \in IDs, NEW l, PlacedAt("offer", l, id)',
         KeyFits(id)', id[1] <= Drawn(id)', Unsent(id)', Unused(id)',
         data'[id].file = toServer'[l].file, Other(id) \notin DOMAIN sdata'
  PROVE  TransferFits(id)'
<1>1. Once(id)' /\ AnswerFits(id)' /\ ReadyFits(id)'
  BY DEF PlacedAt, Once, AnswerFits, ReadyFits
<1>2. OfferFits(id)'
  BY DEF PlacedAt, OfferFits, Other
<1> QED BY <1>1, <1>2 DEF TransferFits

(* ... that is only in an answer, ...                                        *)
LEMMA AnsweredFits ==
  ASSUME NEW id \in IDs, NEW l, PlacedAt("answer", l, id)',
         KeyFits(id)', id[1] <= Drawn(id)', Unserved(id)',
         IF id[2] = "send" THEN Unsent(id)' /\ Unused(id)'
         ELSE /\ id \notin DOMAIN data'
              /\ sdata'[Other(id)].file = toClient'[l].file
  PROVE  TransferFits(id)'
<1>1. Once(id)' /\ OfferFits(id)' /\ ReadyFits(id)'
  BY DEF PlacedAt, Once, OfferFits, ReadyFits
<1>2. AnswerFits(id)'
  BY DEF PlacedAt, AnswerFits, Other
<1> QED BY <1>1, <1>2 DEF TransferFits

(* ... that a thread or a new connection has, ...                            *)
LEMMA ReadyStays ==
  ASSUME NEW id \in IDs, NEW v, NEW l, PlacedAt(v, l, id)',
         v \in {"thread", "pending"},
         KeyFits(id)', id[1] <= Drawn(id)', Unserved(id)', Unsent(id)', Unused(id)'
  PROVE  TransferFits(id)'
<1>1. Once(id)' /\ OfferFits(id)' /\ AnswerFits(id)'
  BY DEF PlacedAt, Once, OfferFits, AnswerFits
<1>2. ReadyFits(id)'
  BY DEF PlacedAt, ReadyFits
<1> QED BY <1>1, <1>2 DEF TransferFits

(* ... or that a connection serves.                                          *)
LEMMA ServedFits ==
  ASSUME NEW id \in IDs, NEW l, PlacedAt("conn", l, id)',
         KeyFits(id)', id[1] <= Drawn(id)'
  PROVE  TransferFits(id)'
<1>1. Once(id)' /\ OfferFits(id)' /\ AnswerFits(id)' /\ ReadyFits(id)'
  BY DEF PlacedAt, Once, OfferFits, AnswerFits, ReadyFits
<1> QED BY <1>1 DEF TransferFits

(* A step of a transfer that is served, or was.                              *)
LEMMA ServedKeeps ==
  ASSUME TypeInv', NEW id \in IDs, TransferFits(id),
         \A w, k : Bears(w, k, id) => w = "conn",
         \A w, k, x : Bears(w, k, x)' => Bears(w, k, x),
         UNCHANGED <<drawn, toServer, toClient>>, KeyFits(id)'
  PROVE  TransferFits(id)' /\ OnlyBearer(id, 0, 0)
<1>1. \A w, k : Bears(w, k, id)' => w = "conn" /\ Bears(w, k, id)
  OBVIOUS
<1>2. Once(id)'
  BY <1>1 DEF Once, TransferFits
<1>3. OfferFits(id)' /\ AnswerFits(id)' /\ ReadyFits(id)'
  BY <1>1 DEF OfferFits, AnswerFits, ReadyFits
<1>4. \A w, k : Bears(w, k, id)' => id[1] <= Drawn(id)'
  BY <1>1 DEF TransferFits, Drawn
<1>5. drawn' \in [client : Nat, server : Nat]
  BY DEF TypeInv
<1>6. \A w, k, x : Bears(w, k, x)' /\ w \in {"offer", "answer"} => k \in Nat
  <2>1. toServer' \in Seq(MainToServer') /\ toClient' \in Seq(MainToClient')
    BY DEF TypeInv
  <2> QED BY <2>1 DEF Bears
<1>7. OnlyBearer(id, 0, 0)
  BY <1>5, <1>6 DEF OnlyBearer
<1> QED BY <1>2, <1>3, <1>4, <1>7 DEF TransferFits

(* A step on the main connection.                                            *)
LEMMA MainKeeps ==
  ASSUME TransferInv, TypeInv', NEW id \in IDs, NEW i, NEW j,
         OnlyEntry(id), OnlyBearer(id, i, j), TransferFits(id)', SameCalls,
         UNCHANGED <<conn, transmitting, received>>,
         \A d \in DOMAIN conn :
           /\ Active(d) => conn[d].trait # id
           /\ id[2] = "send" => ~HasBlock(conn[d].toServer, id[1])
           /\ conn[d].sposted = 1 => conn[d].strait # Other(id)
  PROVE  TransferInv'
<1>1. 0 \notin DOMAIN conn
  BY DEF TransferInv, TypeInv
<1>2. OnlyConn(0, id)
  BY <1>1 DEF OnlyConn, Apart
<1>3. OnlyUser(0, 0)
  BY OnlyUserStays DEF SameUsers, Active, TransferInv
<1>4. PostTransmitWhenDone'
  BY DEF TransferInv, PostTransmitWhenDone
<1> QED BY <1>1, <1>2, <1>3, <1>4, StepKeeps

-----------------------------------------------------------------------------
(* Steps of a thread that move no transfer.                                  *)
ThreadGoesOn(t, r) ==
  /\ t \in Threads /\ r \in Caller
  /\ call' = [call EXCEPT ![t] = r]
  /\ r.at \in HasID => call[t].at \in HasID /\ r.id = call[t].id
  /\ r.at \in HasConn => r.conn \in DOMAIN conn

SameTables == UNCHANGED <<drawn, data, sdata, conn, transmitting, received,
    toClient>>

NewLists ==
  /\ listPeer' \in Seq(Nat) /\ listWait' \in Seq(Files)
  /\ \A i \in DOMAIN listPeer' : listPeer'[i] \in DOMAIN conn
  /\ toServer' \in Seq(MainToServer)
  /\ \A k \in DOMAIN toServer' : toServer'[k].kind = "offer" =>
       k \in DOMAIN toServer /\ toServer'[k] = toServer[k]

(* A thread that goes on and touches no table keeps the types.               *)
LEMMA GoesOn ==
  ASSUME TypeInv, NEW t, NEW r, ThreadGoesOn(t, r), SameTables, NewLists
  PROVE  TypeInv' /\ OnlyBearer(NoID, 0, 0)
<1>1. /\ call' \in [Threads -> Caller] /\ call'[t] = r
      /\ \A u \in Threads : u # t => call'[u] = call[u]
      /\ \A u \in Threads : call'[u].at \in HasConn
           => call'[u].conn \in DOMAIN conn'
  <2>1. /\ t \in Threads /\ r \in Caller /\ call' = [call EXCEPT ![t] = r]
        /\ r.at \in HasConn => r.conn \in DOMAIN conn'
        /\ DOMAIN conn \subseteq DOMAIN conn'
    BY DEF ThreadGoesOn, SameTables
  <2> QED BY <2>1, CallTyped
<1>2. TypeInv'
  <2>1. /\ DOMAIN data' \subseteq IDs
        /\ \A id \in DOMAIN data' : InfoFits(data'[id])
        /\ DOMAIN sdata' \subseteq IDs
        /\ \A id \in DOMAIN sdata' : InfoFits(sdata'[id])
    BY DEF TypeInv, SameTables
  <2>2. /\ drawn' \in [client : Nat, server : Nat] /\ transmitting' \subseteq IDs
        /\ toClient' \in Seq(MainToClient) /\ conn' \in Seq(Connection)
        /\ \A c \in DOMAIN conn' :
             IF conn'[c].up THEN conn'[c].trait \in IDs
             ELSE conn'[c].trait = NoID /\ conn'[c].pends \in IDs
    BY DEF TypeInv, SameTables
  <2>3. /\ listPeer' \in Seq(Nat) /\ listWait' \in Seq(Files)
        /\ \A i \in DOMAIN listPeer' : listPeer'[i] \in DOMAIN conn'
        /\ toServer' \in Seq(MainToServer)
    BY DEF NewLists, SameTables
  <2> QED BY <1>1, <2>1, <2>2, <2>3
        DEF TypeInv, InfoFits, Info, Contents, Written, IDs, MainToServer,
            MainToClient, Connection, Block, Requested, Caller
<1>3. \A w, k, x : Bears(w, k, x)' =>
        /\ Bears(w, k, x) /\ w \in {"offer", "answer"} => k \in Nat
        /\ w = "offer" => toServer'[k].file = toServer[k].file
        /\ Bears(w, k, x)
  <2> SUFFICES ASSUME NEW w, NEW k, NEW x, Bears(w, k, x)'
               PROVE  /\ w \in {"offer", "answer"} => k \in Nat
                      /\ w = "offer" => toServer'[k].file = toServer[k].file
                      /\ Bears(w, k, x)
    OBVIOUS
  <2>1. CASE w = "offer"
    <3>1. k \in DOMAIN toServer' /\ toServer'[k].kind = "offer"
      BY <2>1 DEF Bears
    <3>2. toServer'[k] = toServer[k] /\ k \in DOMAIN toServer
      BY <3>1 DEF NewLists
    <3>3. k \in Nat
      BY <3>2 DEF TypeInv
    <3> QED BY <2>1, <3>2, <3>3 DEF Bears
  <2>2. CASE w = "answer"
    <3>1. k \in DOMAIN toClient
      BY <2>2 DEF Bears, SameTables
    <3>2. k \in Nat
      BY <3>1 DEF TypeInv
    <3> QED BY <2>2, <3>2 DEF Bears, SameTables, Answered
  <2>3. CASE w = "thread"
    BY <1>1, <2>3 DEF Bears, ThreadGoesOn
  <2>4. CASE w \in {"pending", "conn"}
    BY <2>4 DEF Bears, SameTables
  <2> QED BY <2>1, <2>2, <2>3, <2>4 DEF Bears
<1>4. OnlyBearer(NoID, 0, 0)
  <2>1. drawn' = drawn /\ toClient' = toClient
    BY DEF SameTables
  <2>2. drawn.client \in Nat /\ drawn.server \in Nat
    BY DEF TypeInv
  <2>3. \A x \in IDs \ {NoID} : \A w, k : Bears(w, k, x)' =>
       IF w = "offer"
       THEN Bears(w, k + 0, x) /\ toServer'[k].file = toServer[k + 0].file
       ELSE IF w = "answer"
       THEN /\ Bears(w, k + 0, x)
            /\ x[2] = "recv" => toClient'[k].file = toClient[k + 0].file
       ELSE Bears(w, k, x)
    <3> SUFFICES ASSUME NEW x \in IDs, NEW w, NEW k, Bears(w, k, x)'
                 PROVE  IF w = "offer"
                        THEN /\ Bears(w, k + 0, x)
                             /\ toServer'[k].file = toServer[k + 0].file
                        ELSE IF w = "answer"
                        THEN /\ Bears(w, k + 0, x)
                             /\ x[2] = "recv" =>
                                  toClient'[k].file = toClient[k + 0].file
                        ELSE Bears(w, k, x)
      OBVIOUS
    <3>1. w \in {"offer", "answer"} => k + 0 = k
      BY <1>3
    <3> QED BY <1>3, <2>1, <3>1
  <2> QED BY <2>1, <2>2, <2>3 DEF OnlyBearer
<1> QED BY <1>2, <1>4

(* If it has no connection either, it keeps the invariant.                   *)
LEMMA QuietCall ==
  ASSUME TransferInv, NEW t, NEW r, ThreadGoesOn(t, r), SameTables, NewLists,
         listPeer' = listPeer, r.at \notin HasConn, call[t].at \notin HasConn
  PROVE  TransferInv'
<1>1. TypeInv' /\ OnlyBearer(NoID, 0, 0)
  BY GoesOn DEF TransferInv
<1>2. SameCalls
  BY DEF SameCalls, ThreadGoesOn, TransferInv, TypeInv
<1>3. OnlyUser(0, 0) /\ 0 \notin DOMAIN conn
  BY <1>2, OnlyUserStays DEF SameUsers, Active, SameTables, TransferInv, TypeInv
<1> QED BY <1>1, <1>3, QuietKeeps DEF SameTables

(* The lists stay, but for the list of waiting files.                        *)
LEMMA OldLists ==
  ASSUME TypeInv, toServer' = toServer, listPeer' = listPeer
  PROVE  listWait' \in Seq(Files) => NewLists
BY DEF NewLists, TypeInv

(* InitSendFile() compares the number of transfers with the limit.           *)
LEMMA TestLimitKeeps ==
  ASSUME TransferInv, NEW t \in Threads, TestLimit(t)
  PROVE  TransferInv'
<1> DEFINE at == IF maxSend # 0 /\ Cardinality(transmitting) >= maxSend
                 THEN "pushWait" ELSE "prepare"
           r == [call[t] EXCEPT !.at = at]
<1>1. TypeInv
  BY DEF TransferInv
<1>2. call[t] \in [at : {"testLimit", "pushWait", "prepare"},
                   file : Files, reads : Int]
  BY <1>1, CallTypes DEF TestLimit, At
<1>3. at \in {"pushWait", "prepare"}
  OBVIOUS
<1>4. call' = [call EXCEPT ![t] = r]
  BY DEF TestLimit, Become
<1> HIDE DEF at
<1>5. r \in [at : {"testLimit", "pushWait", "prepare"}, file : Files, reads : Int]
  BY <1>2, <1>3
<1> HIDE DEF r
<1>6. r \in Caller /\ r.at \notin HasID /\ r.at \notin HasConn
  BY <1>5 DEF Caller, HasID, HasConn
<1>7. ThreadGoesOn(t, r) /\ call[t].at \notin HasConn
  BY <1>4, <1>6 DEF ThreadGoesOn, TestLimit, At, HasConn
<1>8. SameTables /\ NewLists /\ listPeer' = listPeer
  BY <1>1, OldLists DEF TestLimit, SameTables, client, net, server, TypeInv
<1> QED BY <1>6, <1>7, <1>8, QuietCall

(* A function that returns leaves its thread idle.                           *)
LEMMA ReturnsIdle ==
  ASSUME NEW t \in Threads, Return(t)
  PROVE  ThreadGoesOn(t, Idle) /\ Idle.at \notin HasConn
BY IdleTyped DEF ThreadGoesOn, Return, Become, HasID, HasConn

(* The file waits when the limit is reached.                                 *)
LEMMA PushWaitKeeps ==
  ASSUME TransferInv, NEW t \in Threads, PushWait(t)
  PROVE  TransferInv'
<1>1. TypeInv
  BY DEF TransferInv
<1>2. call[t].file \in Files
  BY <1>1, CallTypes DEF PushWait, At
<1>3. listWait' \in Seq(Files)
  BY <1>1, <1>2 DEF PushWait, TypeInv
<1>4. ThreadGoesOn(t, Idle) /\ call[t].at \notin HasConn /\ Idle.at \notin HasConn
  BY ReturnsIdle DEF PushWait, At, HasConn
<1>5. SameTables /\ NewLists /\ listPeer' = listPeer
  BY <1>1, <1>3, OldLists DEF PushWait, SameTables, net, server
<1> QED BY <1>4, <1>5, QuietCall

(* A thread that has put a connection back looks at the waiting list, ...    *)
LEMMA TestWaitKeeps ==
  ASSUME TransferInv, NEW t \in Threads, TestWait(t)
  PROVE  TransferInv'
<1>1. TypeInv
  BY DEF TransferInv
<1>2. call[t] \in [at : {"idle", "testWait", "popWait"}, reads : Int]
        /\ call[t].at \notin HasConn
  BY <1>1, CallTypes DEF TestWait, At, HasConn
<1>3. SameTables /\ NewLists /\ listPeer' = listPeer
  BY <1>1, OldLists DEF TestWait, SameTables, client, net, server, TypeInv
<1>4. CASE Return(t)
  BY <1>2, <1>3, <1>4, ReturnsIdle, QuietCall
<1>5. CASE Become(t, [call[t] EXCEPT !.at = "popWait"])
  <2> DEFINE r == [call[t] EXCEPT !.at = "popWait"]
  <2>1. r \in Caller /\ r.at = "popWait"
    BY <1>2 DEF Caller
  <2> HIDE DEF r
  <2>2. call' = [call EXCEPT ![t] = r]
    BY <1>5 DEF Become, r
  <2>3. ThreadGoesOn(t, r) /\ r.at \notin HasConn
    BY <2>1, <2>2 DEF ThreadGoesOn, HasID, HasConn
  <2> QED BY <1>2, <1>3, <2>3, QuietCall
<1> QED BY <1>4, <1>5 DEF TestWait

(* ... and takes a file from it.                                             *)
LEMMA PopWaitKeeps ==
  ASSUME TransferInv, NEW t \in Threads, PopWait(t)
  PROVE  TransferInv'
<1>1. TypeInv
  BY DEF TransferInv
<1>2. call[t].at \notin HasConn /\ call[t].reads \in Int
  BY <1>1, CallTypes DEF PopWait, At, HasConn
<1>3. CASE listWait = << >>
  <2>1. Return(t) /\ listWait' = listWait
    BY <1>3 DEF PopWait
  <2>2. SameTables /\ NewLists /\ listPeer' = listPeer
    BY <1>1, <2>1, OldLists DEF PopWait, SameTables, net, server, TypeInv
  <2> QED BY <1>2, <2>1, <2>2, ReturnsIdle, QuietCall
<1>4. CASE listWait # << >>
  <2> DEFINE r == [at |-> "testLimit", file |-> Head(listWait),
                   reads |-> call[t].reads]
  <2>1. listWait \in Seq(Files)
    BY <1>1 DEF TypeInv
  <2>2. Head(listWait) \in Files /\ Tail(listWait) \in Seq(Files)
    BY <1>4, <2>1
  <2>3. r \in Caller /\ r.at = "testLimit"
    BY <1>2, <2>2 DEF Caller
  <2> HIDE DEF r
  <2>4. call' = [call EXCEPT ![t] = r] /\ listWait' = Tail(listWait)
    BY <1>4 DEF PopWait, Become, r
  <2>5. ThreadGoesOn(t, r) /\ r.at \notin HasConn
    BY <2>3, <2>4 DEF ThreadGoesOn, HasID, HasConn
  <2>6. SameTables /\ NewLists /\ listPeer' = listPeer
    BY <1>1, <2>2, <2>4, OldLists DEF PopWait, SameTables, net, server
  <2> QED BY <1>2, <2>5, <2>6, QuietCall
<1> QED BY <1>3, <1>4

(* The application begins with a file.                                       *)
LEMMA AskKeeps ==
  ASSUME TransferInv, NEW f \in Files, Ask(f)
  PROVE  TransferInv'
<1>1. TypeInv /\ "user" \in Threads
  BY DEF TransferInv, Threads
<1>2. call["user"].at \notin HasConn /\ call["user"].at \notin HasID
  BY DEF Ask, At, HasConn, HasID
<1>3. SameTables /\ listPeer' = listPeer /\ listWait' = listWait
  BY DEF Ask, SameTables, client, server
<1>4. CASE f \in Uploads
  <2> DEFINE r == [at |-> "testLimit", file |-> f, reads |-> Nothing]
  <2>1. r \in Caller /\ r.at = "testLimit"
    BY DEF Caller, Nothing
  <2> HIDE DEF r
  <2>2. call' = [call EXCEPT !["user"] = r] /\ toServer' = toServer
    BY <1>4 DEF Ask, Become, r
  <2>3. ThreadGoesOn("user", r) /\ r.at \notin HasConn
    BY <1>1, <2>1, <2>2 DEF ThreadGoesOn, HasID, HasConn
  <2>4. NewLists
    BY <1>1, <1>3, <2>2 DEF NewLists, TypeInv
  <2> QED BY <1>2, <1>3, <2>3, <2>4, QuietCall
<1>5. CASE f \notin Uploads
  <2> DEFINE m == [kind |-> "ask", file |-> f]
             r == call["user"]
  <2>1. m \in MainToServer /\ m.kind = "ask"
    BY DEF MainToServer
  <2>2. toServer \in Seq(MainToServer)
    BY <1>1 DEF TypeInv
  <2>3. toServer' = Append(toServer, m) /\ call' = call
    BY <1>5 DEF Ask
  <2> HIDE DEF m, r
  <2>4. /\ toServer' \in Seq(MainToServer)
        /\ \A k \in DOMAIN toServer' : toServer'[k].kind = "offer" =>
             k \in DOMAIN toServer /\ toServer'[k] = toServer[k]
    BY <2>1, <2>2, <2>3, AppendOf
  <2>5. NewLists
    BY <1>1, <1>3, <2>4 DEF NewLists, TypeInv
  <2>6. r \in Caller /\ call' = [call EXCEPT !["user"] = r]
    BY <1>1, <2>3 DEF TypeInv, r
  <2>7. ThreadGoesOn("user", r)
    BY <1>1, <1>2, <2>6 DEF ThreadGoesOn, r
  <2> QED BY <1>2, <1>3, <2>5, <2>7, QuietCall DEF r
<1> QED BY <1>4, <1>5

(* A thread takes a free connection for its transfer, ...                    *)
LEMMA PopPeerKeeps ==
  ASSUME TransferInv, NEW t \in Threads, PopPeer(t)
  PROVE  TransferInv'
<1>1. TypeInv
  BY DEF TransferInv
<1>2. call[t] \in [at : {"popPeer", "open"}, id : IDs, reads : Int]
        /\ call[t].at = "popPeer"
  BY <1>1, CallTypes DEF PopPeer, At
<1>3. call[t].at \in HasID /\ call[t].at \notin HasConn
  BY <1>2 DEF HasID, HasConn
<1>4. SameTables /\ listWait' = listWait /\ toServer' = toServer
  BY DEF PopPeer, SameTables, net, server
<1>5. CASE listPeer = << >>
  <2> DEFINE r == [call[t] EXCEPT !.at = "open"]
  <2>1. r \in Caller /\ r.at = "open" /\ r.id = call[t].id
    BY <1>2 DEF Caller
  <2> HIDE DEF r
  <2>2. call' = [call EXCEPT ![t] = r] /\ listPeer' = listPeer
    BY <1>5 DEF PopPeer, Become, r
  <2>3. ThreadGoesOn(t, r) /\ r.at \notin HasConn
    BY <1>3, <2>1, <2>2 DEF ThreadGoesOn, HasConn
  <2>4. NewLists
    BY <1>1, <1>4, <2>2 DEF NewLists, TypeInv
  <2> QED BY <1>3, <1>4, <2>2, <2>3, <2>4, QuietCall
<1>6. CASE listPeer # << >>
  <2>0. PICK c : c = Head(listPeer)
    OBVIOUS
  <2> DEFINE r == [at |-> "transmit", id |-> call[t].id, reads |-> Main, conn |-> c]
  <2>1. /\ listPeer \in Seq(Nat)
        /\ \A i \in DOMAIN listPeer : listPeer[i] \in DOMAIN conn
    BY <1>1 DEF TypeInv
  <2>2. /\ c = listPeer[1] /\ 1 \in DOMAIN listPeer /\ c \in Nat
        /\ Tail(listPeer) \in Seq(Nat)
        /\ \A i \in DOMAIN Tail(listPeer) :
             i + 1 \in DOMAIN listPeer /\ Tail(listPeer)[i] = listPeer[i + 1]
        /\ \A i \in DOMAIN listPeer : i # 1 =>
             i - 1 \in DOMAIN Tail(listPeer) /\ (i - 1) + 1 = i
    BY <1>6, <2>0, <2>1, TailOf
  <2>3. c \in DOMAIN conn
    BY <2>1, <2>2
  <2>4. r \in Caller /\ r.at = "transmit" /\ r.id = call[t].id /\ r.conn = c
    BY <1>2, <2>2 DEF Caller, Main
  <2>5. call' = [call EXCEPT ![t] = r] /\ listPeer' = Tail(listPeer)
    BY <1>6, <2>0 DEF PopPeer, Become
  <2> HIDE DEF r
  <2>6. ThreadGoesOn(t, r)
    BY <1>3, <2>3, <2>4, <2>5 DEF ThreadGoesOn
  <2>7. NewLists
    BY <1>1, <1>4, <2>1, <2>2, <2>5 DEF NewLists, TypeInv
  <2>8. TypeInv' /\ OnlyBearer(NoID, 0, 0)
    BY <1>1, <1>4, <2>6, <2>7, GoesOn
  <2>9. call'[t] = r /\ \A u \in Threads : u # t => call'[u] = call[u]
    BY <1>1, <2>5 DEF TypeInv
  <2>10. /\ \A k : k \in DOMAIN listPeer' =>
               k + 1 \in DOMAIN listPeer /\ listPeer'[k] = listPeer[k + 1]
                   /\ k \in Nat
         /\ \A d \in DOMAIN conn : Active(d)' <=> Active(d)
    BY <1>4, <2>1, <2>2, <2>5 DEF Active, SameTables
  <2>11. \A d \in DOMAIN conn : \A w, k : Uses(w, k, d)' =>
           \/ w = "list" /\ Uses(w, k + 1, d)
           \/ w # "list" /\ Uses(w, k, d) /\ k # t
           \/ w = "thread" /\ k = t /\ d = c
           \/ w \in {"conn", "pending"} /\ Uses(w, k, d)
    BY <2>4, <2>9, <2>10, <1>4 DEF Uses, SameTables
  <2>12. Uses("list", 1, c)
    BY <2>2 DEF Uses
  <2>13. \A d \in DOMAIN conn \ {c} : \A w, k : Uses(w, k, d) =>
           \E l : Uses(w, l, d)'
    <3> SUFFICES ASSUME NEW d \in DOMAIN conn \ {c}, NEW w, NEW k, Uses(w, k, d)
                 PROVE  \E l : Uses(w, l, d)'
      OBVIOUS
    <3>1. CASE w = "list"
      <4>1. k \in DOMAIN listPeer /\ listPeer[k] = d /\ k # 1
        BY <2>2, <3>1 DEF Uses
      <4>2. k - 1 \in DOMAIN listPeer' /\ listPeer'[k - 1] = d
        BY <2>2, <2>5, <4>1
      <4> QED BY <3>1, <4>2 DEF Uses
    <3>2. CASE w # "list"
      <4>1. w = "thread" => k # t
        BY <1>3 DEF Uses
      <4> QED BY <1>4, <2>9, <2>10, <3>2, <4>1 DEF Uses, SameTables
    <3> QED BY <3>1, <3>2
  <2>14. OnlyUser(c, 1)
    <3>1. \A d \in DOMAIN conn \ {c} : \A w, k : Uses(w, k, d)' =>
            IF w = "list" THEN Uses(w, k + 1, d) ELSE Uses(w, k, d)
      BY <2>11
    <3> QED BY <2>13, <3>1 DEF OnlyUser
  <2>15. UsedOnce(c)'
    <3>1. Uses("thread", t, c)'
      BY <2>4, <2>9 DEF Uses, HasConn
    <3>2. UsedOnce(c)
      BY <2>3 DEF TransferInv
    <3>3. \A w, k : Uses(w, k, c)' => w = "thread" /\ k = t
      <4> SUFFICES ASSUME NEW w, NEW k, Uses(w, k, c)', ~(w = "thread" /\ k = t)
                   PROVE  FALSE
        OBVIOUS
      <4>1. CASE w = "list"
        <5>1. Uses("list", k + 1, c) /\ k \in DOMAIN listPeer'
          BY <2>3, <2>11, <4>1 DEF Uses
        <5>2. k + 1 = 1 /\ k \in Nat /\ k # 0
          BY <2>1, <2>2, <2>5, <2>12, <3>2, <5>1 DEF UsedOnce
        <5> QED BY <5>2
      <4>2. CASE w # "list"
        BY <2>3, <2>11, <2>12, <3>2, <4>2 DEF UsedOnce
      <4> QED BY <4>1, <4>2
    <3> QED BY <3>1, <3>3 DEF UsedOnce
  <2> QED BY <1>4, <2>8, <2>14, <2>15, QuietKeeps DEF SameTables
<1> QED BY <1>5, <1>6

(* ... and lists the one that has served its transfer.                       *)
LEMMA PushPeerKeeps ==
  ASSUME TransferInv, NEW t \in Threads, PushPeer(t)
  PROVE  TransferInv'
<1> PICK c, n : c = call[t].conn /\ n = Len(listPeer)
  OBVIOUS
<1> DEFINE r == [at |-> "testWait", reads |-> call[t].reads]
<1>1. TypeInv
  BY DEF TransferInv
<1>2. call[t].at = "pushPeer" /\ call[t].reads \in Int /\ c \in Nat
        /\ c \in DOMAIN conn
  BY <1>1, CallTypes DEF PushPeer, At, TypeInv, HasConn
<1>3. SameTables /\ listWait' = listWait /\ toServer' = toServer
  BY DEF PushPeer, SameTables, net, server
<1>4. r \in Caller /\ r.at = "testWait"
  BY <1>2 DEF Caller
<1>5. call' = [call EXCEPT ![t] = r] /\ listPeer' = Append(listPeer, c)
  BY DEF PushPeer, Become
<1>6. /\ listPeer \in Seq(Nat)
      /\ \A i \in DOMAIN listPeer : listPeer[i] \in DOMAIN conn
  BY <1>1 DEF TypeInv
<1>7. /\ listPeer' \in Seq(Nat) /\ DOMAIN listPeer' = DOMAIN listPeer \cup {n + 1}
      /\ n + 1 \notin DOMAIN listPeer /\ listPeer'[n + 1] = c
      /\ \A i \in DOMAIN listPeer : listPeer'[i] = listPeer[i]
  BY <1>2, <1>5, <1>6, AppendOf
<1> HIDE DEF r
<1>8. ThreadGoesOn(t, r) /\ r.at \notin HasConn
  BY <1>4, <1>5 DEF ThreadGoesOn, HasID, HasConn
<1>9. NewLists
  BY <1>1, <1>2, <1>3, <1>6, <1>7 DEF NewLists, TypeInv
<1>10. TypeInv' /\ OnlyBearer(NoID, 0, 0)
  BY <1>1, <1>3, <1>8, <1>9, GoesOn
<1>11. call'[t] = r /\ \A u \in Threads : u # t => call'[u] = call[u]
  BY <1>1, <1>5 DEF TypeInv
<1>12. \A d \in DOMAIN conn : Active(d)' <=> Active(d)
  BY <1>3 DEF Active, SameTables
<1>13. \A d \in DOMAIN conn : \A w, k :
         /\ Uses(w, k, d)' =>
              \/ Uses(w, k, d) /\ (w = "thread" => k # t)
              \/ w = "list" /\ k = n + 1 /\ d = c
         /\ Uses(w, k, d) => Uses(w, k, d)' \/ (w = "thread" /\ k = t /\ d = c)
  BY <1>3, <1>7, <1>8, <1>11, <1>12 DEF Uses, SameTables
<1>14. OnlyUser(c, 0)
  <2>1. \A d \in DOMAIN conn \ {c} : \A w, k : Uses(w, k, d)' <=> Uses(w, k, d)
    BY <1>13
  <2>2. \A d, w, k : w = "list" /\ Uses(w, k, d) => k \in Nat
    BY <1>6 DEF Uses
  <2>3. ASSUME NEW d \in DOMAIN conn \ {c}
        PROVE  /\ \A w, k : Uses(w, k, d)' =>
                    IF w = "list" THEN Uses(w, k + 0, d) ELSE Uses(w, k, d)
               /\ (\E w, k : Uses(w, k, d)) => \E w, k : Uses(w, k, d)'
    <3>1. \A w, k : w = "list" /\ Uses(w, k, d) => Uses(w, k + 0, d)
      BY <2>2
    <3> QED BY <2>1, <3>1
  <2> QED BY <2>3 DEF OnlyUser
<1>15. UsedOnce(c)'
  <2>1. UsedOnce(c) /\ Uses("thread", t, c)
    BY <1>2 DEF TransferInv, Uses, HasConn
  <2>2. \A w, k : Uses(w, k, c) => w = "thread" /\ k = t
    BY <2>1 DEF UsedOnce
  <2>3. \A w, k : Uses(w, k, c)' => w = "list" /\ k = n + 1
    BY <1>2, <1>13, <2>2
  <2>4. Uses("list", n + 1, c)'
    BY <1>7 DEF Uses
  <2> QED BY <2>3, <2>4 DEF UsedOnce
<1> QED BY <1>3, <1>10, <1>14, <1>15, QuietKeeps DEF SameTables

-----------------------------------------------------------------------------
(* Steps on the main connection.                                             *)
LEMMA NewInfo ==
  ASSUME NEW f \in Files, NEW has \in BOOLEAN
  PROVE  /\ InfoFits(DataInfo(f, has)) /\ DataInfo(f, has).file = f
         /\ DataInfo(f, has).finished = 0 /\ ~DataInfo(f, has).transmitting
         /\ has => Whole(DataInfo(f, has))
<1> DEFINE info == DataInfo(f, has)
<1>1. Size[f] \in Nat \ {0}
  BY TransferAssumption
<1>2. /\ info.file = f /\ info.finished = 0 /\ info.transmitting = FALSE
      /\ info.content = [i \in 1 .. Size[f] |-> IF has THEN i ELSE 0]
  BY DEF DataInfo
<1>3. info.content \in [1 .. Size[f] -> Nat]
  BY <1>1, <1>2
<1>4. info.content \in Contents
  BY <1>3 DEF Contents
<1>5. PICK k \in Contents : k = info.content
  BY <1>4
<1>6. info \in Info
  <2>1. info = [file |-> f, finished |-> 0, transmitting |-> FALSE, content |-> k]
    BY <1>5 DEF DataInfo
  <2> HIDE DEF info
  <2> QED BY <2>1 DEF Info
<1> HIDE DEF info
<1>7. Written(info)
  BY <1>2 DEF Written
<1>8. has => Whole(info)
  BY <1>1, <1>2 DEF Whole
<1> QED BY <1>1, <1>2, <1>3, <1>6, <1>7, <1>8 DEF InfoFits, info

TableFits(f) == DOMAIN f \subseteq IDs /\ \A id \in DOMAIN f : InfoFits(f[id])

(* A table keeps its type when an entry is added ...                         *)
LEMMA WithFits ==
  ASSUME NEW f, TableFits(f), NEW id \in IDs, NEW v, InfoFits(v)
  PROVE  TableFits(With(f, id, v))
<1>1. /\ DOMAIN With(f, id, v) = DOMAIN f \cup {id}
      /\ With(f, id, v)[id] = v
      /\ \A x \in DOMAIN f : x # id => With(f, id, v)[x] = f[x]
  BY DEF With
<1>2. DOMAIN f \subseteq IDs /\ \A x \in DOMAIN f : InfoFits(f[x])
  BY DEF TableFits
<1>3. \A x \in DOMAIN With(f, id, v) : InfoFits(With(f, id, v)[x])
  BY <1>1, <1>2
<1> QED BY <1>1, <1>2, <1>3 DEF TableFits

(* ... and when one is erased.                                               *)
LEMMA WithoutFits ==
  ASSUME NEW f, TableFits(f), NEW id
  PROVE  TableFits(Without(f, id))
<1>1. /\ DOMAIN Without(f, id) = DOMAIN f \ {id}
      /\ \A x \in DOMAIN f : x # id => Without(f, id)[x] = f[x]
  BY WithoutKey
<1>2. DOMAIN f \subseteq IDs /\ \A x \in DOMAIN f : InfoFits(f[x])
  BY DEF TableFits
<1>3. \A x \in DOMAIN Without(f, id) : InfoFits(Without(f, id)[x])
  BY <1>1, <1>2
<1> QED BY <1>1, <1>2, <1>3 DEF TableFits

(* A step on the tables and the main connection keeps the types.             *)
LEMMA MainTyped ==
  ASSUME TypeInv, drawn' \in [client : Nat, server : Nat],
         TableFits(data'), TableFits(sdata'),
         call' \in [Threads -> Caller],
         \A u \in Threads : call'[u].at \in HasConn
             => call'[u].conn \in DOMAIN conn',
         toServer' \in Seq(MainToServer), toClient' \in Seq(MainToClient),
         UNCHANGED <<conn, transmitting, listPeer, listWait>>
  PROVE  TypeInv'
<1>1. /\ DOMAIN data' \subseteq IDs
      /\ \A id \in DOMAIN data' : InfoFits(data'[id])
      /\ DOMAIN sdata' \subseteq IDs
      /\ \A id \in DOMAIN sdata' : InfoFits(sdata'[id])
  BY DEF TableFits
<1>2. /\ transmitting' \subseteq IDs
      /\ listPeer' \in Seq(Nat) /\ listWait' \in Seq(Files)
      /\ \A i \in DOMAIN listPeer' : listPeer'[i] \in DOMAIN conn'
      /\ conn' \in Seq(Connection)
      /\ \A c \in DOMAIN conn' :
           IF conn'[c].up THEN conn'[c].trait \in IDs
           ELSE conn'[c].trait = NoID /\ conn'[c].pends \in IDs
  BY DEF TypeInv
<1> QED BY <1>1, <1>2
      DEF TypeInv, InfoFits, Info, Contents, Written, IDs, MainToServer,
          MainToClient, Connection, Block, Requested, Caller

(* Nothing is known yet of an ID that is drawn now.                          *)
LEMMA NewID ==
  ASSUME TransferInv, NEW id \in IDs, ~(id[1] <= Drawn(id))
  PROVE  /\ id \notin DOMAIN data /\ Other(id) \notin DOMAIN sdata
         /\ \A w, k : ~Bears(w, k, id)
         /\ \A d \in DOMAIN conn :
              /\ Active(d) => conn[d].trait # id
              /\ id[2] = "send" => ~HasBlock(conn[d].toServer, id[1])
              /\ conn[d].sposted = 1 => conn[d].strait # Other(id)
<1>1. TransferFits(id)
  BY DEF TransferInv
<1>2. id \notin DOMAIN data /\ Other(id) \notin DOMAIN sdata
  BY <1>1 DEF TransferFits, KeyFits
<1>3. \A w, k : ~Bears(w, k, id)
  BY <1>1 DEF TransferFits
<1>4. ASSUME NEW d \in DOMAIN conn
      PROVE  /\ Active(d) => conn[d].trait # id
             /\ id[2] = "send" => ~HasBlock(conn[d].toServer, id[1])
             /\ conn[d].sposted = 1 => conn[d].strait # Other(id)
  <2>1. ConnFits(d)
    BY DEF TransferInv
  <2>2. Active(d) => conn[d].trait # id
    BY <1>2, <2>1 DEF ConnFits, ActiveFits
  <2>3. id[2] = "send" => ~HasBlock(conn[d].toServer, id[1])
    <3> SUFFICES ASSUME id[2] = "send", NEW i \in DOMAIN conn[d].toServer,
                        BlockOf(conn[d].toServer[i], id[1])
                 PROVE  FALSE
      BY DEF HasBlock
    <3>1. RecvID(id[1]) \in DOMAIN sdata
      BY <2>1 DEF ConnFits, BlocksFit, BlockFits, BlockOf
    <3> QED BY <1>2, <3>1, Forms
  <2>4. conn[d].sposted = 1 => conn[d].strait # Other(id)
    BY <1>2, <2>1 DEF ConnFits, ServeFits
  <2> QED BY <2>2, <2>3, <2>4
<1> QED BY <1>2, <1>3, <1>4

(* The queues, threads and connections of a step that moves one transfer.    *)
QueueMoves(i, j, id) ==
  /\ i \in {0, 1} /\ j \in {0, 1}
  /\ \A k \in DOMAIN toServer' :
       \/ k + i \in DOMAIN toServer /\ toServer'[k] = toServer[k + i]
       \/ toServer'[k].kind = "offer" /\ SendID(toServer'[k].id) = id
  /\ \A k \in DOMAIN toClient' :
       \/ k + j \in DOMAIN toClient /\ toClient'[k] = toClient[k + j]
       \/ Answered(toClient'[k]) = id

CallMoves(id) ==
  \A u \in Threads : call'[u].at \in HasID =>
    call'[u].id = id \/ (call[u].at \in HasID /\ call'[u].id = call[u].id)

ConnMoves(id) ==
  \A d \in DOMAIN conn' :
    IF conn'[d].up
    THEN \/ conn'[d].trait = id
         \/ d \in DOMAIN conn /\ conn[d].up /\ conn'[d].trait = conn[d].trait
    ELSE \/ conn'[d].pends = id
         \/ d \in DOMAIN conn /\ ~conn[d].up /\ conn'[d].pends = conn[d].pends

(* Each place of the transfers is followed by itself.                        *)
LEMMA BearersMove ==
  ASSUME TypeInv, NEW i, NEW j, NEW id,
         QueueMoves(i, j, id), CallMoves(id), ConnMoves(id),
         drawn.client <= drawn'.client, drawn.server <= drawn'.server
  PROVE  OnlyBearer(id, i, j)
<1>1. ASSUME NEW x \in IDs \ {id}, NEW w, NEW k, Bears(w, k, x)'
      PROVE  IF w = "offer"
             THEN Bears(w, k + i, x) /\ toServer'[k].file = toServer[k + i].file
             ELSE IF w = "answer"
             THEN /\ Bears(w, k + j, x)
                  /\ x[2] = "recv" => toClient'[k].file = toClient[k + j].file
             ELSE Bears(w, k, x)
  <2>1. CASE w = "offer"
    <3>1. k \in DOMAIN toServer' /\ toServer'[k].kind = "offer"
            /\ SendID(toServer'[k].id) = x
      BY <1>1, <2>1 DEF Bears
    <3>2. k + i \in DOMAIN toServer /\ toServer'[k] = toServer[k + i]
      BY <3>1 DEF QueueMoves
    <3> QED BY <2>1, <3>1, <3>2 DEF Bears
  <2>2. CASE w = "answer"
    <3>1. k \in DOMAIN toClient' /\ Answered(toClient'[k]) = x
      BY <1>1, <2>2 DEF Bears, Answered
    <3>2. k + j \in DOMAIN toClient /\ toClient'[k] = toClient[k + j]
      BY <3>1 DEF QueueMoves
    <3> QED BY <2>2, <3>1, <3>2 DEF Bears
  <2>3. CASE w = "thread"
    BY <1>1, <2>3 DEF Bears, CallMoves
  <2>4. CASE w \in {"pending", "conn"}
    BY <1>1, <2>4 DEF Bears, ConnMoves
  <2> QED BY <1>1, <2>1, <2>2, <2>3, <2>4 DEF Bears
<1>2. i \in {0, 1} /\ j \in {0, 1}
  BY DEF QueueMoves
<1> QED BY <1>1, <1>2 DEF OnlyBearer

(* The data connections bear what they have borne.                           *)
LEMMA ConnsStay ==
  ASSUME conn' = conn, NEW id
  PROVE  ConnMoves(id)
BY DEF ConnMoves

(* InitSendFile() draws an ID that nobody has and offers the file.           *)
LEMMA PrepareKeeps ==
  ASSUME TransferInv, NEW t \in Threads, Prepare(t)
  PROVE  TransferInv'
<1> PICK n, f, l, id : /\ n = drawn.client + 1 /\ f = call[t].file
                       /\ l = Len(toServer) + 1 /\ id = SendID(n)
  OBVIOUS
<1> DEFINE m == [kind |-> "offer", id |-> n, file |-> f]
           info == DataInfo(f, TRUE)
<1>1. TypeInv
  BY DEF TransferInv
<1>2. /\ f \in Files /\ call[t].at \notin HasID /\ call[t].at \notin HasConn
      /\ drawn \in [client : Nat, server : Nat] /\ n \in Nat
  BY <1>1, CallTypes DEF Prepare, At, HasID, HasConn, TypeInv
<1>3. /\ id \in IDs /\ id[1] = n /\ id[2] = "send" /\ Other(id) = RecvID(n)
  BY <1>2, FormsOf
<1>4. /\ data' = With(data, id, info) /\ toServer' = Append(toServer, m)
      /\ drawn' = [drawn EXCEPT !.client = n] /\ call' = [call EXCEPT ![t] = Idle]
      /\ UNCHANGED <<sdata, toClient, transmitting, conn, listPeer, listWait,
           received>>
  BY DEF Prepare, Return, Become
<1>5. /\ InfoFits(info) /\ info.file = f /\ info.finished = 0 /\ Whole(info)
  BY <1>2, NewInfo
<1>6. m \in MainToServer /\ m.kind = "offer" /\ m.id = n /\ m.file = f
  BY <1>2 DEF MainToServer
<1> HIDE DEF m, info
<1>7. /\ drawn' \in [client : Nat, server : Nat] /\ drawn'.client = n
      /\ drawn'.server = drawn.server /\ drawn.client <= n
  BY <1>2, <1>4
<1>8. /\ toServer' \in Seq(MainToServer)
      /\ DOMAIN toServer' = DOMAIN toServer \cup {l}
      /\ l \notin DOMAIN toServer /\ toServer'[l] = m
      /\ \A k \in DOMAIN toServer : toServer'[k] = toServer[k] /\ k + 0 = k
  <2>1. toServer \in Seq(MainToServer)
    BY <1>1 DEF TypeInv
  <2> QED BY <1>4, <1>6, <2>1, AppendOf
<1>9. /\ call' \in [Threads -> Caller] /\ call'[t] = Idle
      /\ \A u \in Threads : u # t => call'[u] = call[u]
      /\ \A u \in Threads : call'[u].at \in HasConn
           => call'[u].conn \in DOMAIN conn'
  <2>1. Idle.at \notin HasConn
    BY DEF Idle, HasConn
  <2> QED BY <1>1, <1>4, <2>1, IdleTyped, CallTyped
<1>10. /\ DOMAIN data' = DOMAIN data \cup {id} /\ data'[id] = info
       /\ \A x \in DOMAIN data : x # id => data'[x] = data[x]
  BY <1>4 DEF With
<1>11. TypeInv'
  <2>1. TableFits(data) /\ TableFits(sdata)
    BY <1>1 DEF TypeInv, TableFits
  <2>2. TableFits(data') /\ TableFits(sdata')
    BY <1>3, <1>4, <1>5, <2>1, WithFits
  <2>3. toClient' \in Seq(MainToClient)
    BY <1>1, <1>4 DEF TypeInv
  <2> QED BY <1>1, <1>4, <1>7, <1>8, <1>9, <2>2, <2>3, MainTyped
<1>12. ~(id[1] <= Drawn(id))
  BY <1>2, <1>3 DEF Drawn
<1>13. /\ id \notin DOMAIN data /\ Other(id) \notin DOMAIN sdata
       /\ \A w, k : ~Bears(w, k, id)
       /\ \A d \in DOMAIN conn :
            /\ Active(d) => conn[d].trait # id
            /\ id[2] = "send" => ~HasBlock(conn[d].toServer, id[1])
            /\ conn[d].sposted = 1 => conn[d].strait # Other(id)
  BY <1>3, <1>12, NewID
<1>14. OnlyEntry(id)
  BY <1>4, <1>10, <1>11 DEF OnlyEntry, TypeInv
<1>15. OnlyBearer(id, 0, 0)
  <2>1. /\ QueueMoves(0, 0, id)
    <3>1. \A k \in DOMAIN toClient : k + 0 = k
      BY <1>1 DEF TypeInv
    <3> QED BY <1>3, <1>4, <1>6, <1>8, <3>1 DEF QueueMoves
  <2>2. CallMoves(id)
    BY <1>9 DEF CallMoves, Idle, HasID
  <2> QED BY <1>1, <1>4, <1>7, <2>1, <2>2, ConnsStay, BearersMove
<1>16. SameCalls
  BY <1>2, <1>4, <1>9 DEF SameCalls, Idle, HasConn
<1>17. PlacedAt("offer", l, id)'
  <2>1. \A w, k : Bears(w, k, id)' => w = "offer" /\ k = l
    BY <1>4, <1>8, <1>9, <1>13 DEF Bears, Answered, Idle, HasID
  <2> QED BY <2>1 DEF PlacedAt
<1>18. TransferFits(id)'
  <2>1. Drawn(id)' = n
    BY <1>3, <1>7 DEF Drawn
  <2>2. Other(id) \notin DOMAIN sdata' /\ id \in DOMAIN data'
    BY <1>4, <1>10, <1>13
  <2>3. KeyFits(id)'
    BY <1>2, <1>3, <1>5, <1>10, <2>1, <2>2 DEF KeyFits, Other
  <2>4. Unsent(id)' /\ Unused(id)'
    BY <1>4, <1>5, <1>10, <1>13 DEF Unsent, Unused, HasBlock
  <2>5. id[1] <= Drawn(id)'
    BY <1>2, <1>3, <2>1
  <2>6. data'[id].file = toServer'[l].file
    BY <1>5, <1>6, <1>8, <1>10
  <2> QED BY <1>3, <1>17, <2>2, <2>3, <2>4, <2>5, <2>6, Offered
<1> QED BY <1>3, <1>4, <1>11, <1>13, <1>14, <1>15, <1>16, <1>18, MainKeeps

(* A transfer that no connection has served yet.                             *)
LEMMA WaitingApart ==
  ASSUME TransferInv, NEW id \in IDs, NEW v, NEW l, Bears(v, l, id), v # "conn",
         Unused(id), Other(id) \in DOMAIN sdata => ~sdata[Other(id)].transmitting
  PROVE  \A d \in DOMAIN conn :
           /\ conn[d].trait # id
           /\ Active(d) => conn[d].trait # id
           /\ id[2] = "send" => ~HasBlock(conn[d].toServer, id[1])
           /\ conn[d].sposted = 1 => conn[d].strait # Other(id)
<1> SUFFICES ASSUME NEW d \in DOMAIN conn
             PROVE  /\ conn[d].trait # id
                    /\ id[2] = "send" => ~HasBlock(conn[d].toServer, id[1])
                    /\ conn[d].sposted = 1 => conn[d].strait # Other(id)
  OBVIOUS
<1>1. Once(id) /\ ConnFits(d)
  BY DEF TransferInv, TransferFits
<1>2. conn[d].trait # id
  <2>1. CASE conn[d].up
    <3>1. conn[d].trait = id => Bears("conn", d, id)
      BY <2>1 DEF Bears
    <3> QED BY <1>1, <3>1 DEF Once
  <2>2. CASE ~conn[d].up
    <3>1. conn[d].trait = NoID
      BY <2>2 DEF TransferInv, TypeInv
    <3> QED BY <3>1 DEF NoID, IDs
  <2> QED BY <2>1, <2>2
<1>3. conn[d].sposted = 1 => conn[d].strait # Other(id)
  BY <1>1 DEF ConnFits, ServeFits
<1> QED BY <1>2, <1>3 DEF Unused

(* The message that is taken from the main connection.                       *)
LEMMA Taken ==
  ASSUME TransferInv, NEW id \in IDs
  PROVE  /\ toClient # << >> /\ Answered(Head(toClient)) = id =>
              /\ Bears("answer", 1, id)
              /\ \A k \in DOMAIN Tail(toClient) : Answered(Tail(toClient)[k]) # id
         /\ toServer # << >> /\ Head(toServer).kind = "offer"
              /\ SendID(Head(toServer).id) = id =>
                   /\ Bears("offer", 1, id)
                   /\ \A k \in DOMAIN Tail(toServer) :
                        Tail(toServer)[k].kind = "offer" =>
                          SendID(Tail(toServer)[k].id) # id
<1>1. toServer \in Seq(MainToServer) /\ toClient \in Seq(MainToClient) /\ Once(id)
  BY DEF TransferInv, TypeInv, TransferFits
<1>2. ASSUME toClient # << >>, Answered(Head(toClient)) = id
      PROVE  /\ Bears("answer", 1, id)
             /\ \A k \in DOMAIN Tail(toClient) : Answered(Tail(toClient)[k]) # id
  <2>1. /\ Head(toClient) = toClient[1] /\ 1 \in DOMAIN toClient
        /\ \A k \in DOMAIN Tail(toClient) :
             /\ k + 1 \in DOMAIN toClient /\ Tail(toClient)[k] = toClient[k + 1]
             /\ k \in Nat /\ k # 0
    BY <1>1, <1>2, TailOf
  <2>2. Bears("answer", 1, id)
    BY <1>2, <2>1 DEF Bears
  <2>3. ASSUME NEW k \in DOMAIN Tail(toClient), Answered(Tail(toClient)[k]) = id
        PROVE  FALSE
    <3>1. Bears("answer", k + 1, id) /\ k \in Nat /\ k # 0
      BY <2>1, <2>3 DEF Bears
    <3>2. k + 1 = 1
      BY <1>1, <2>2, <3>1 DEF Once
    <3> QED BY <3>1, <3>2
  <2> QED BY <2>2, <2>3
<1>3. ASSUME toServer # << >>, Head(toServer).kind = "offer",
             SendID(Head(toServer).id) = id
      PROVE  /\ Bears("offer", 1, id)
             /\ \A k \in DOMAIN Tail(toServer) : Tail(toServer)[k].kind = "offer" =>
                  SendID(Tail(toServer)[k].id) # id
  <2>1. /\ Head(toServer) = toServer[1] /\ 1 \in DOMAIN toServer
        /\ \A k \in DOMAIN Tail(toServer) :
             /\ k + 1 \in DOMAIN toServer /\ Tail(toServer)[k] = toServer[k + 1]
             /\ k \in Nat /\ k # 0
    BY <1>1, <1>3, TailOf
  <2>2. Bears("offer", 1, id)
    BY <1>3, <2>1 DEF Bears
  <2>3. ASSUME NEW k \in DOMAIN Tail(toServer), Tail(toServer)[k].kind = "offer",
               SendID(Tail(toServer)[k].id) = id
        PROVE  FALSE
    <3>1. Bears("offer", k + 1, id) /\ k \in Nat /\ k # 0
      BY <2>1, <2>3 DEF Bears
    <3>2. k + 1 = 1
      BY <1>1, <2>2, <3>1 DEF Once
    <3> QED BY <3>1, <3>2
  <2> QED BY <2>2, <2>3
<1> QED BY <1>2, <1>3

(* The rest of a queue moves up by one.                                      *)
LEMMA Oldest ==
  ASSUME NEW S, NEW q \in Seq(S), q # << >>
  PROVE  /\ Tail(q) \in Seq(S)
         /\ \A k \in DOMAIN Tail(q) :
              k + 1 \in DOMAIN q /\ Tail(q)[k] = q[k + 1]
BY TailOf

(* What the client does with an answer: the thread has the transfer now.     *)
LEMMA AnswerTaken ==
  ASSUME TransferInv, NEW t \in Threads, NEW kind, Message(t, kind),
         NEW id \in IDs, Answered(Head(toClient)) = id, ToPreTransmit(t, id),
         TableFits(data'), OnlyEntry(id),
         Unsent(id)', Unused(id), KeyFits(id)'
  PROVE  TransferInv'
<1> DEFINE r == [at |-> "popPeer", id |-> id, reads |-> Main]
<1>1. TypeInv /\ TransferFits(id)
  BY DEF TransferInv
<1>2. /\ call[t].at \notin HasID /\ call[t].at \notin HasConn
      /\ toClient # << >> /\ toClient' = Tail(toClient)
      /\ UNCHANGED <<drawn, sdata, toServer, transmitting, conn, listPeer, listWait,
                     received>>
  BY DEF Message, At, HasID, HasConn, server
<1>3. Bears("answer", 1, id)
        /\ \A k \in DOMAIN Tail(toClient) : Answered(Tail(toClient)[k]) # id
  BY <1>2, Taken
<1>4. Unserved(id) /\ id[1] <= Drawn(id)
  BY <1>1, <1>3 DEF TransferFits, AnswerFits
<1>5. call' = [call EXCEPT ![t] = r]
  BY DEF ToPreTransmit, Become
<1>6. r \in Caller /\ r.at = "popPeer" /\ r.id = id
  BY DEF Caller, Main
<1> HIDE DEF r
<1>7. /\ call' \in [Threads -> Caller] /\ call'[t] = r
      /\ \A u \in Threads : u # t => call'[u] = call[u]
      /\ \A u \in Threads : call'[u].at \in HasConn
           => call'[u].conn \in DOMAIN conn'
  BY <1>1, <1>2, <1>5, <1>6, CallTyped DEF HasConn
<1>8. /\ toClient' \in Seq(MainToClient)
      /\ \A k \in DOMAIN toClient' :
           k + 1 \in DOMAIN toClient /\ toClient'[k] = toClient[k + 1]
  BY <1>1, <1>2, Oldest DEF TypeInv
<1>9. TypeInv'
  <2>1. TableFits(sdata) /\ drawn \in [client : Nat, server : Nat]
          /\ toServer \in Seq(MainToServer)
    BY <1>1 DEF TypeInv, TableFits
  <2> QED BY <1>1, <1>2, <1>7, <1>8, <2>1, MainTyped
<1>10. OnlyBearer(id, 0, 1)
  <2>1. QueueMoves(0, 1, id)
    <3>1. \A k \in DOMAIN toServer : k + 0 = k
      BY <1>1 DEF TypeInv
    <3> QED BY <1>2, <1>8, <3>1 DEF QueueMoves
  <2>2. CallMoves(id)
    BY <1>6, <1>7 DEF CallMoves
  <2>3. drawn.client <= drawn'.client /\ drawn.server <= drawn'.server
    BY <1>1, <1>2 DEF TypeInv
  <2> QED BY <1>1, <1>2, <2>1, <2>2, <2>3, ConnsStay, BearersMove
<1>11. SameCalls
  BY <1>2, <1>6, <1>7 DEF SameCalls, HasConn
<1>12. PlacedAt("thread", t, id)'
  <2>1. \A w, k : Bears(w, k, id) => w = "answer" /\ k = 1
    BY <1>1, <1>3 DEF TransferFits, Once
  <2>2. ASSUME NEW w, NEW k, Bears(w, k, id)' PROVE w = "thread" /\ k = t
    <3>1. CASE w = "answer"
      BY <1>2, <1>3, <2>2, <3>1 DEF Bears, Answered
    <3>2. CASE w = "thread"
      BY <1>7, <2>1, <2>2, <3>2 DEF Bears
    <3>3. CASE w \in {"offer", "pending", "conn"}
      BY <1>2, <2>1, <2>2, <3>3 DEF Bears
    <3> QED BY <2>2, <3>1, <3>2, <3>3 DEF Bears
  <2> QED BY <2>2 DEF PlacedAt
<1>13. TransferFits(id)'
  <2>1. Unserved(id)' /\ Unused(id)' /\ id[1] <= Drawn(id)'
    BY <1>2, <1>4 DEF Unserved, Unused, Other, HasBlock, Drawn
  <2> QED BY <1>12, <2>1, ReadyStays
<1>14. \A d \in DOMAIN conn :
         /\ Active(d) => conn[d].trait # id
         /\ id[2] = "send" => ~HasBlock(conn[d].toServer, id[1])
         /\ conn[d].sposted = 1 => conn[d].strait # Other(id)
  BY <1>3, <1>4, WaitingApart DEF Unserved
<1> QED BY <1>2, <1>9, <1>10, <1>11, <1>13, <1>14, MainKeeps

(* The oldest message of the main connection is one of its kinds.            *)
LEMMA HeadTyped ==
  ASSUME TypeInv
  PROVE  /\ toClient # << >> =>
              Head(toClient) \in MainToClient /\ Head(toClient) = toClient[1]
         /\ toServer # << >> =>
              Head(toServer) \in MainToServer /\ Head(toServer) = toServer[1]
BY DEF TypeInv

(* The client learns that its file is accepted.                              *)
LEMMA ClientSendFileKeeps ==
  ASSUME TransferInv, NEW t \in Threads, ClientSendFile(t)
  PROVE  TransferInv'
<1> PICK id : id = SendID(Head(toClient).id)
  OBVIOUS
<1>1. TypeInv
  BY DEF TransferInv
<1>2. /\ Message(t, "ack") /\ toClient # << >> /\ Head(toClient).kind = "ack"
      /\ ToPreTransmit(t, id) /\ data' = data /\ sdata' = sdata /\ drawn' = drawn
  BY DEF ClientSendFile, Message, server
<1>3. Head(toClient) \in MainToClient /\ Head(toClient).id \in Nat
  BY <1>1, <1>2, HeadTyped DEF MainToClient
<1>4. id \in IDs /\ id[2] = "send" /\ Answered(Head(toClient)) = id
  BY <1>2, <1>3, FormsOf DEF Answered
<1>5. Bears("answer", 1, id) /\ TransferFits(id)
  BY <1>2, <1>4, Taken DEF TransferInv
<1>6. Unsent(id) /\ Unused(id) /\ KeyFits(id)
  BY <1>4, <1>5 DEF TransferFits, AnswerFits
<1>7. Unsent(id)' /\ KeyFits(id)'
  BY <1>2, <1>6 DEF Unsent, KeyFits, Drawn, Other
<1>8. TableFits(data') /\ OnlyEntry(id)
  BY <1>1, <1>2 DEF TypeInv, TableFits, OnlyEntry
<1> QED BY <1>2, <1>4, <1>6, <1>7, <1>8, AnswerTaken

(* The client prepares the file that it has asked for.                       *)
LEMMA ClientRecvFileKeeps ==
  ASSUME TransferInv, NEW t \in Threads, ClientRecvFile(t)
  PROVE  TransferInv'
<1> PICK id, f : id = RecvID(Head(toClient).id) /\ f = Head(toClient).file
  OBVIOUS
<1> DEFINE info == DataInfo(f, FALSE)
<1>1. TypeInv
  BY DEF TransferInv
<1>2. /\ Message(t, "reply") /\ toClient # << >> /\ Head(toClient).kind = "reply"
      /\ ToPreTransmit(t, id) /\ data' = With(data, id, info)
      /\ sdata' = sdata /\ drawn' = drawn
  BY DEF ClientRecvFile, Message, server
<1>3. Head(toClient) \in MainToClient /\ Head(toClient).id \in Nat /\ f \in Files
  BY <1>1, <1>2, HeadTyped DEF MainToClient
<1>4. id \in IDs /\ id[2] = "recv" /\ Answered(Head(toClient)) = id
  BY <1>2, <1>3, FormsOf DEF Answered
<1>5. Bears("answer", 1, id) /\ TransferFits(id) /\ Head(toClient) = toClient[1]
  BY <1>1, <1>2, <1>4, Taken, HeadTyped DEF TransferInv
<1>6. /\ Unused(id) /\ KeyFits(id) /\ id[1] <= Drawn(id) /\ id \notin DOMAIN data
      /\ Unserved(id) /\ sdata[Other(id)].file = f
  BY <1>4, <1>5 DEF TransferFits, AnswerFits, Unused
<1>7. InfoFits(info) /\ info.finished = 0 /\ info.file = f
  BY <1>3, NewInfo
<1> HIDE DEF info
<1>8. /\ DOMAIN data' = DOMAIN data \cup {id} /\ data'[id] = info
      /\ \A x \in DOMAIN data : x # id => data'[x] = data[x]
  BY <1>2 DEF With
<1>9. Unsent(id)' /\ KeyFits(id)'
  BY <1>2, <1>4, <1>6, <1>7, <1>8 DEF Unsent, KeyFits, Drawn, Other
<1>10. TableFits(data')
  <2>1. TableFits(data)
    BY <1>1 DEF TypeInv, TableFits
  <2> QED BY <1>2, <1>4, <1>7, <2>1, WithFits
<1>11. OnlyEntry(id)
  BY <1>1, <1>2, <1>8, <1>10 DEF OnlyEntry, TypeInv, TableFits
<1> QED BY <1>2, <1>4, <1>6, <1>9, <1>10, <1>11, AnswerTaken

(* What the server does with a message: it has the transfer in its table and *)
(* an answer is on the way.                                                  *)
LEMMA MessageTaken ==
  ASSUME TransferInv, NEW id \in IDs, NEW info, NEW m \in MainToClient,
         toServer # << >>, toServer' = Tail(toServer),
         toClient' = Append(toClient, m), Answered(m) = id,
         sdata' = With(sdata, Other(id), info), InfoFits(info),
         info.finished = 0, ~info.transmitting,
         UNCHANGED <<data, transmitting, listPeer, listWait, call, conn, received>>,
         drawn' \in [client : Nat, server : Nat],
         drawn.client <= drawn'.client, drawn.server <= drawn'.server,
         \A w, k : Bears(w, k, id) => w = "offer" /\ k = 1,
         \A k \in DOMAIN Tail(toServer) : Tail(toServer)[k].kind = "offer" =>
           SendID(Tail(toServer)[k].id) # id,
         \A d \in DOMAIN conn :
           /\ Active(d) => conn[d].trait # id
           /\ id[2] = "send" => ~HasBlock(conn[d].toServer, id[1])
           /\ conn[d].sposted = 1 => conn[d].strait # Other(id),
         id[1] <= Drawn(id)',
         IF id[2] = "send"
         THEN Unsent(id) /\ Whole(data[id]) /\ data[id].file = info.file
         ELSE id \notin DOMAIN data /\ Whole(info) /\ m.file = info.file
  PROVE  TransferInv'
<1> PICK l : l = Len(toClient) + 1
  OBVIOUS
<1>1. TypeInv
  BY DEF TransferInv
<1>2. /\ DOMAIN sdata' = DOMAIN sdata \cup {Other(id)} /\ sdata'[Other(id)] = info
      /\ \A x \in DOMAIN sdata : x # Other(id) => sdata'[x] = sdata[x]
  BY DEF With
<1>3. Other(id) \in IDs /\ \A x \in IDs : Other(x) = Other(id) => x = id
  BY Forms
<1>4. /\ toServer' \in Seq(MainToServer)
      /\ \A k \in DOMAIN toServer' :
           k + 1 \in DOMAIN toServer /\ toServer'[k] = toServer[k + 1]
  BY <1>1, Oldest DEF TypeInv
<1>5. /\ toClient' \in Seq(MainToClient)
      /\ DOMAIN toClient' = DOMAIN toClient \cup {l}
      /\ l \notin DOMAIN toClient /\ toClient'[l] = m
      /\ \A k \in DOMAIN toClient : toClient'[k] = toClient[k] /\ k + 0 = k
  <2>1. toClient \in Seq(MainToClient)
    BY <1>1 DEF TypeInv
  <2> QED BY <2>1, AppendOf
<1>6. TypeInv'
  <2>1. TableFits(data') /\ TableFits(sdata)
    BY <1>1 DEF TypeInv, TableFits
  <2>2. TableFits(sdata')
    BY <1>3, <2>1, WithFits
  <2>3. /\ call' \in [Threads -> Caller]
        /\ \A u \in Threads : call'[u].at \in HasConn
             => call'[u].conn \in DOMAIN conn'
    BY <1>1 DEF TypeInv
  <2> QED BY <1>1, <1>4, <1>5, <2>1, <2>2, <2>3, MainTyped
<1>7. OnlyEntry(id)
  <2>1. DOMAIN data' \subseteq IDs /\ DOMAIN sdata' \subseteq IDs
    BY <1>6 DEF TypeInv
  <2>2. \A x \in IDs \ {id} : Other(x) # Other(id)
    BY <1>3
  <2> QED BY <1>2, <2>1, <2>2 DEF OnlyEntry
<1>8. OnlyBearer(id, 1, 0)
  <2>1. QueueMoves(1, 0, id)
    BY <1>4, <1>5 DEF QueueMoves
  <2>2. CallMoves(id)
    BY DEF CallMoves
  <2> QED BY <1>1, <2>1, <2>2, ConnsStay, BearersMove
<1>9. SameCalls
  BY DEF SameCalls
<1>10. PlacedAt("answer", l, id)'
  <2>1. ASSUME NEW w, NEW k, Bears(w, k, id)' PROVE w = "answer" /\ k = l
    <3>1. CASE w = "offer"
      BY <2>1, <3>1 DEF Bears
    <3>2. CASE w = "answer"
      <4>1. k \in DOMAIN toClient' /\ Answered(toClient'[k]) = id
        BY <2>1, <3>2 DEF Bears, Answered
      <4>2. k \in DOMAIN toClient => Bears("answer", k, id)
        BY <1>5, <4>1 DEF Bears
      <4> QED BY <1>5, <3>2, <4>1, <4>2
    <3>3. CASE w \in {"thread", "pending", "conn"}
      <4>1. Bears(w, k, id)
        BY <2>1, <3>3 DEF Bears
      <4> QED BY <3>3, <4>1
    <3> QED BY <2>1, <3>1, <3>2, <3>3 DEF Bears
  <2> QED BY <2>1 DEF PlacedAt
<1>11. TransferFits(id)'
  <2>1. Unserved(id)'
    BY <1>2 DEF Unserved, Other
  <2>2. KeyFits(id)'
    BY <1>2, Forms DEF KeyFits, Drawn, Other, Unsent
  <2>3. id[2] = "send" => Unsent(id)' /\ Unused(id)'
    BY DEF Unsent, Unused, HasBlock
  <2>4. id[2] # "send" => /\ id \notin DOMAIN data'
                          /\ sdata'[Other(id)].file = toClient'[l].file
    BY <1>2, <1>5
  <2> QED BY <1>10, <2>1, <2>2, <2>3, <2>4, AnsweredFits
<1> QED BY <1>6, <1>7, <1>8, <1>9, <1>11, MainKeeps

(* The server prepares for the file that it is offered ...                   *)
LEMMA ServerOfferedKeeps ==
  ASSUME TransferInv, ServerOffered
  PROVE  TransferInv'
<1> PICK id, n, f : id = SendID(n) /\ n = Head(toServer).id
      /\ f = Head(toServer).file
  OBVIOUS
<1> DEFINE info == DataInfo(f, FALSE)
           m == [kind |-> "ack", id |-> n]
<1>1. TypeInv
  BY DEF TransferInv
<1>2. /\ toServer # << >> /\ Head(toServer).kind = "offer"
      /\ toServer' = Tail(toServer) /\ toClient' = Append(toClient, m)
      /\ sdata' = With(sdata, RecvID(n), info)
      /\ UNCHANGED <<drawn, data, transmitting, listPeer, listWait, call, conn,
           received>>
  BY DEF ServerOffered, client
<1>3. n \in Nat /\ f \in Files /\ Head(toServer) = toServer[1]
  BY <1>1, <1>2, HeadTyped DEF MainToServer
<1>4. id \in IDs /\ id[2] = "send" /\ Other(id) = RecvID(n)
  BY <1>3, FormsOf
<1>5. m \in MainToClient /\ Answered(m) = id
  BY <1>3 DEF MainToClient, Answered
<1>6. InfoFits(info) /\ info.finished = 0 /\ ~info.transmitting /\ info.file = f
  BY <1>3, NewInfo
<1> HIDE DEF info, m
<1>7. /\ Bears("offer", 1, id) /\ TransferFits(id)
      /\ \A k \in DOMAIN Tail(toServer) : Tail(toServer)[k].kind = "offer" =>
           SendID(Tail(toServer)[k].id) # id
  BY <1>2, <1>4, Taken DEF TransferInv
<1>8. /\ Unsent(id) /\ Unused(id) /\ data[id].file = f
      /\ Other(id) \notin DOMAIN sdata /\ Whole(data[id]) /\ id[1] <= Drawn(id)
  BY <1>3, <1>4, <1>7 DEF TransferFits, OfferFits, KeyFits, Unsent
<1>9. \A w, k : Bears(w, k, id) => w = "offer" /\ k = 1
  BY <1>7 DEF TransferFits, Once
<1>10. \A d \in DOMAIN conn :
         /\ Active(d) => conn[d].trait # id
         /\ id[2] = "send" => ~HasBlock(conn[d].toServer, id[1])
         /\ conn[d].sposted = 1 => conn[d].strait # Other(id)
  BY <1>4, <1>7, <1>8, WaitingApart
<1>11. /\ drawn' \in [client : Nat, server : Nat] /\ id[1] <= Drawn(id)'
       /\ drawn.client <= drawn'.client /\ drawn.server <= drawn'.server
  BY <1>1, <1>2, <1>8 DEF TypeInv, Drawn
<1> QED BY <1>2, <1>4, <1>5, <1>6, <1>7, <1>8, <1>9, <1>10, <1>11, MessageTaken

(* ... and draws an ID for the one that it is asked for.                     *)
LEMMA ServerAskedKeeps ==
  ASSUME TransferInv, ServerAsked
  PROVE  TransferInv'
<1> PICK id, n, f : id = RecvID(n) /\ n = drawn.server + 1
      /\ f = Head(toServer).file
  OBVIOUS
<1> DEFINE info == DataInfo(f, TRUE)
           m == [kind |-> "reply", id |-> n, file |-> f]
<1>1. TypeInv /\ drawn \in [client : Nat, server : Nat]
  BY DEF TransferInv, TypeInv
<1>2. /\ toServer # << >> /\ Head(toServer).kind = "ask"
      /\ toServer' = Tail(toServer) /\ toClient' = Append(toClient, m)
      /\ sdata' = With(sdata, SendID(n), info)
      /\ drawn' = [drawn EXCEPT !.server = n]
      /\ UNCHANGED <<data, transmitting, listPeer, listWait, call, conn, received>>
  BY DEF ServerAsked, client
<1>3. n \in Nat /\ f \in Files /\ toServer \in Seq(MainToServer)
  BY <1>1, <1>2, HeadTyped DEF MainToServer, TypeInv
<1>4. id \in IDs /\ id[1] = n /\ id[2] = "recv" /\ Other(id) = SendID(n)
  BY <1>3, FormsOf
<1>5. m \in MainToClient /\ Answered(m) = id /\ m.file = f
  BY <1>3 DEF MainToClient, Answered
<1>6. /\ InfoFits(info) /\ info.finished = 0 /\ ~info.transmitting
      /\ info.file = f /\ Whole(info)
  BY <1>3, NewInfo
<1> HIDE DEF info, m
<1>7. ~(id[1] <= Drawn(id))
  BY <1>1, <1>4 DEF Drawn
<1>8. /\ id \notin DOMAIN data /\ \A w, k : ~Bears(w, k, id)
      /\ \A d \in DOMAIN conn :
            /\ Active(d) => conn[d].trait # id
            /\ id[2] = "send" => ~HasBlock(conn[d].toServer, id[1])
            /\ conn[d].sposted = 1 => conn[d].strait # Other(id)
  BY <1>4, <1>7, NewID
<1>9. /\ drawn' \in [client : Nat, server : Nat] /\ id[1] <= Drawn(id)'
      /\ drawn.client <= drawn'.client /\ drawn.server <= drawn'.server
  <2>1. /\ drawn' \in [client : Nat, server : Nat]
        /\ drawn'.server = n /\ drawn'.client = drawn.client
    BY <1>1, <1>2, <1>3
  <2>2. Drawn(id)' = n
    BY <1>4, <2>1 DEF Drawn
  <2> QED BY <1>1, <1>3, <1>4, <2>1, <2>2
<1>10. \A k : SendID(Tail(toServer)[k].id) # id
  <2>1. \A x : SendID(x)[2] = "send"
    BY DEF SendID
  <2> QED BY <1>4, <2>1
<1> QED BY <1>2, <1>4, <1>5, <1>6, <1>8, <1>9, <1>10, MessageTaken

-----------------------------------------------------------------------------
(* Steps on the data connections.                                            *)
LEMMA ConnTyped ==
  ASSUME TypeInv, TableFits(data'), TableFits(sdata'), transmitting' \subseteq IDs,
         call' \in [Threads -> Caller],
         \A u \in Threads : call'[u].at \in HasConn
             => call'[u].conn \in DOMAIN conn',
         conn' \in Seq(Connection), DOMAIN conn \subseteq DOMAIN conn',
         \A d \in DOMAIN conn' :
           IF conn'[d].up THEN conn'[d].trait \in IDs
           ELSE conn'[d].trait = NoID /\ conn'[d].pends \in IDs,
         UNCHANGED <<drawn, listPeer, listWait, toServer, toClient>>
  PROVE  TypeInv'
<1>1. /\ DOMAIN data' \subseteq IDs
      /\ \A id \in DOMAIN data' : InfoFits(data'[id])
      /\ DOMAIN sdata' \subseteq IDs
      /\ \A id \in DOMAIN sdata' : InfoFits(sdata'[id])
  BY DEF TableFits
<1>2. /\ drawn' \in [client : Nat, server : Nat]
      /\ listPeer' \in Seq(Nat) /\ listWait' \in Seq(Files)
      /\ \A i \in DOMAIN listPeer' : listPeer'[i] \in DOMAIN conn'
      /\ toServer' \in Seq(MainToServer) /\ toClient' \in Seq(MainToClient)
  BY DEF TypeInv
<1> QED BY <1>1, <1>2
      DEF TypeInv, InfoFits, Info, Contents, Written, IDs, MainToServer,
          MainToClient, Connection, Block, Requested, Caller

(* Nothing on the main connection moves.                                     *)
LEMMA QueuesStay ==
  ASSUME TypeInv, UNCHANGED <<toServer, toClient>>, NEW id
  PROVE  QueueMoves(0, 0, id)
<1>1. /\ \A k \in DOMAIN toServer : k + 0 = k
      /\ \A k \in DOMAIN toClient : k + 0 = k
  BY DEF TypeInv
<1> QED BY <1>1 DEF QueueMoves

(* The connection that is opened for a transfer.                             *)
LEMMA AddPendingKeeps ==
  ASSUME TransferInv, NEW t \in Threads, AddPending(t)
  PROVE  TransferInv'
<1> PICK id, c : id = call[t].id /\ c = Len(conn) + 1
  OBVIOUS
<1> DEFINE r == [pends |-> id, up |-> FALSE, trait |-> NoID, posted |-> FALSE,
                 toServer |-> << >>, toClient |-> << >>,
                 strait |-> NoID, sposted |-> 0, slisted |-> 0]
<1>1. TypeInv /\ conn \in Seq(Connection)
  BY DEF TransferInv, TypeInv
<1>2. /\ id \in IDs /\ call[t].at \in HasID /\ call[t].at \notin HasConn
  BY <1>1, CallTypes DEF AddPending, At, HasID, HasConn
<1>3. /\ conn' = Append(conn, r) /\ call' = [call EXCEPT ![t] = Idle]
      /\ UNCHANGED <<drawn, data, sdata, transmitting, toServer, toClient, listPeer,
                     listWait, received>>
  BY DEF AddPending, Return, Become, server
<1>4. /\ r \in Connection /\ ~r.up /\ r.pends = id /\ r.trait = NoID /\ ~r.posted
      /\ r.toServer = << >> /\ r.toClient = << >> /\ r.sposted = 0
  BY <1>2 DEF Connection
<1> HIDE DEF r
<1>5. /\ conn' \in Seq(Connection) /\ DOMAIN conn' = DOMAIN conn \cup {c}
      /\ c \notin DOMAIN conn /\ conn'[c] = r
      /\ \A d \in DOMAIN conn : conn'[d] = conn[d]
  BY <1>1, <1>3, <1>4, AppendOf
<1>6. /\ call' \in [Threads -> Caller] /\ call'[t] = Idle
      /\ \A u \in Threads : u # t => call'[u] = call[u]
      /\ \A u \in Threads : call'[u].at \in HasConn
           => call'[u].conn \in DOMAIN conn'
  <2>1. Idle.at \notin HasConn
    BY DEF Idle, HasConn
  <2> QED BY <1>1, <1>3, <1>5, <2>1, IdleTyped, CallTyped
<1>7. TypeInv'
  <2>1. TableFits(data') /\ TableFits(sdata') /\ transmitting' \subseteq IDs
    BY <1>1, <1>3 DEF TypeInv, TableFits
  <2>2. \A d \in DOMAIN conn' :
           IF conn'[d].up THEN conn'[d].trait \in IDs
           ELSE conn'[d].trait = NoID /\ conn'[d].pends \in IDs
    BY <1>1, <1>2, <1>4, <1>5 DEF TypeInv
  <2> QED BY <1>1, <1>3, <1>5, <1>6, <2>1, <2>2, ConnTyped
<1>8. Bears("thread", t, id) /\ TransferFits(id)
  BY <1>2 DEF Bears, TransferInv
<1>9. Unserved(id) /\ Unsent(id) /\ Unused(id) /\ KeyFits(id) /\ id[1] <= Drawn(id)
  BY <1>8 DEF TransferFits, ReadyFits
<1>10. OnlyEntry(id)
  BY <1>1, <1>3 DEF OnlyEntry, TypeInv
<1>11. OnlyBearer(id, 0, 0)
  <2>1. CallMoves(id)
    BY <1>6 DEF CallMoves, Idle, HasID
  <2>2. ConnMoves(id)
    BY <1>4, <1>5 DEF ConnMoves
  <2>3. drawn.client <= drawn'.client /\ drawn.server <= drawn'.server
    BY <1>1, <1>3 DEF TypeInv
  <2> QED BY <1>1, <1>3, <2>1, <2>2, <2>3, QueuesStay, BearersMove
<1>12. \A d \in DOMAIN conn :
         /\ Active(d) => conn[d].trait # id
         /\ id[2] = "send" => ~HasBlock(conn[d].toServer, id[1])
         /\ conn[d].sposted = 1 => conn[d].strait # Other(id)
  BY <1>2, <1>8, <1>9, WaitingApart DEF Unserved
<1>13. OnlyConn(c, id)
  <2>1. \A d \in DOMAIN conn \ {c} : Apart(d, id)
    BY <1>3, <1>5, <1>12 DEF Apart
  <2>2. \A n : ~HasBlock(conn'[c].toServer, n)
    BY <1>4, <1>5 DEF HasBlock
  <2> QED BY <1>4, <1>5, <2>1, <2>2 DEF OnlyConn
<1>14. SameCalls
  BY <1>2, <1>3, <1>6 DEF SameCalls, Idle, HasConn
<1>15. OnlyUser(c, 0)
  BY <1>1, <1>3, <1>5, <1>14, OnlyUserStays DEF SameUsers, Active
<1>16. PlacedAt("pending", c, id)'
  <2>1. \A w, k : Bears(w, k, id) => w = "thread" /\ k = t
    BY <1>8 DEF TransferFits, Once
  <2>2. ASSUME NEW w, NEW k, Bears(w, k, id)' PROVE w = "pending" /\ k = c
    <3>1. CASE w \in {"offer", "answer"}
      BY <1>3, <2>1, <2>2, <3>1 DEF Bears, Answered
    <3>2. CASE w = "thread"
      BY <1>6, <2>1, <2>2, <3>2 DEF Bears, Idle, HasID
    <3>3. CASE w \in {"pending", "conn"}
      BY <1>4, <1>5, <2>1, <2>2, <3>3 DEF Bears
    <3> QED BY <2>2, <3>1, <3>2, <3>3 DEF Bears
  <2> QED BY <2>2 DEF PlacedAt
<1>17. TransferFits(id)'
  <2>1. Unserved(id)' /\ Unsent(id)' /\ KeyFits(id)' /\ id[1] <= Drawn(id)'
    BY <1>3, <1>9 DEF Unserved, Unsent, KeyFits, Other, Drawn
  <2>2. Unused(id)'
    BY <1>4, <1>5, <1>9 DEF Unused, HasBlock
  <2> QED BY <1>2, <1>16, <2>1, <2>2, ReadyStays
<1>18. ConnFits(c)'
  <2>1. ActiveFits(c)' /\ SendFits(c)'
    BY <1>4, <1>5 DEF ActiveFits, Active, SendFits
  <2>2. BlocksFit(c)' /\ GetFits(c)'
    BY <1>4, <1>5 DEF BlocksFit, InOrder, GetFits
  <2>3. ServeFits(c)' /\ ComeFits(c)'
    BY <1>4, <1>5 DEF ServeFits, ComeFits
  <2> QED BY <2>1, <2>2, <2>3 DEF ConnFits
<1>19. UsedOnce(c)'
  <2>1. ASSUME NEW w, NEW k, Uses(w, k, c)' PROVE w = "pending" /\ k = c
    <3>1. w # "list"
      BY <1>1, <1>3, <1>5, <2>1 DEF Uses, TypeInv
    <3>2. w # "thread"
      BY <1>1, <1>5, <1>14, <2>1 DEF Uses, SameCalls, TypeInv
    <3>3. ~Active(c)'
      BY <1>4, <1>5 DEF Active
    <3> QED BY <2>1, <3>1, <3>2, <3>3 DEF Uses
  <2>2. Uses("pending", c, c)'
    BY <1>4, <1>5 DEF Uses
  <2> QED BY <2>1, <2>2 DEF UsedOnce
<1>20. PostTransmitWhenDone'
  BY <1>3 DEF TransferInv, PostTransmitWhenDone
<1> QED BY <1>2, <1>7, <1>10, <1>11, <1>13, <1>15, <1>17, <1>18, <1>19, <1>20,
           StepKeeps

(* The block at the position of a transfer.                                  *)
LEMMA NextTyped ==
  ASSUME NEW id \in IDs, NEW info, InfoFits(info)
  PROVE  /\ NextBlock(id, info) \in Block
         /\ NextBlock(id, info).kind = "block" /\ NextBlock(id, info).id = id[1]
         /\ Whole(info) => NextBlock(id, info).block = info.finished + 1
         /\ info.finished + 1 \in 1 .. Size[info.file]
         /\ info.finished \in Nat /\ info.file \in Files
<1>1. /\ info.file \in Files /\ info.finished \in Nat
      /\ info.content \in [1 .. Size[info.file] -> Nat]
      /\ info.finished < Size[info.file]
  BY DEF InfoFits, Info
<1>2. Size[info.file] \in Nat
  BY <1>1, TransferAssumption
<1>3. info.finished + 1 \in 1 .. Size[info.file]
  BY <1>1, <1>2
<1>4. info.content[info.finished + 1] \in Nat
  BY <1>1, <1>3
<1>5. id[1] \in Nat
  BY Forms
<1>6. Whole(info) => info.content[info.finished + 1] = info.finished + 1
  BY <1>3 DEF Whole
<1> QED BY <1>1, <1>3, <1>4, <1>5, <1>6 DEF NextBlock, Block

(* The connection and its first message for a transfer.                      *)
FirstOf(id) ==
  IF id[2] = "send" THEN NextBlock(id, data[id]) ELSE [id |-> id[1], kind |-> "get"]

Starting(c, id) ==
  [Begin(c, id) EXCEPT !.trait = id, !.up = TRUE, !.pends = NoID]

(* The connection of a transfer that begins: its first message is the last.  *)
LEMMA Begun ==
  ASSUME TransferInv, NEW c \in DOMAIN conn, NEW id \in IDs,
         id \in DOMAIN data,
         NEW m, m = FirstOf(id), NEW r, r = Starting(c, id)
  PROVE  /\ m \in Block \cup Requested /\ r \in Connection
         /\ r.up /\ r.trait = id /\ r.toServer = Append(conn[c].toServer, m)
         /\ r.toClient = conn[c].toClient /\ r.strait = conn[c].strait
         /\ r.sposted = conn[c].sposted
         /\ r.posted <=> id[2] = "send" \/ conn[c].posted
<1>1. conn[c] \in Connection /\ conn[c].toServer \in Seq(Block \cup Requested)
  BY ConnTypes DEF TransferInv
<1>2. InfoFits(data[id]) /\ id[1] \in Nat
  BY Forms DEF TransferInv, TypeInv
<1>3. m \in Block \cup Requested
  <2>1. CASE id[2] = "send"
    BY <1>2, <2>1, NextTyped DEF FirstOf
  <2>2. CASE id[2] # "send"
    BY <1>2, <2>2 DEF Requested, FirstOf
  <2> QED BY <2>1, <2>2
<1>4. Append(conn[c].toServer, m) \in Seq(Block \cup Requested)
  BY <1>1, <1>3, AppendOf
<1>5. CASE id[2] = "send"
  <2>1. Begin(c, id) = [conn[c] EXCEPT !.posted = TRUE,
                                       !.toServer = Append(conn[c].toServer, m)]
    BY <1>5 DEF Begin, BeginTransmitFile, FirstOf
  <2> QED BY <1>1, <1>3, <1>4, <1>5, <2>1 DEF Connection, Starting
<1>6. CASE id[2] # "send"
  <2>1. Begin(c, id) = [conn[c] EXCEPT !.toServer = Append(conn[c].toServer, m)]
    BY <1>6 DEF Begin, Request, FirstOf
  <2> QED BY <1>1, <1>3, <1>4, <1>6, <2>1 DEF Connection, Starting
<1> QED BY <1>5, <1>6

(* A transfer that a thread or a connection has waited with is begun.        *)
LEMMA StartKeeps ==
  ASSUME TransferInv, NEW c \in DOMAIN conn, NEW id \in IDs, StartTransmit(c, id),
         NEW v, NEW l, v \in {"thread", "pending"}, Bears(v, l, id),
         \A w, k : Uses(w, k, c) => w = v /\ k = l,
         v = "pending" => l = c,
         UNCHANGED <<drawn, data, sdata, listPeer, listWait, toServer, toClient,
             received>>,
         call' \in [Threads -> Caller],
         \A u \in Threads : call'[u].at \in HasConn
             => call'[u].conn \in DOMAIN conn,
         \A u \in Threads : v = "thread" /\ u = l =>
           call'[u].at \notin HasID /\ call'[u].at \notin HasConn
             /\ (call[u].at \in HasConn => call[u].conn = c),
         \A u \in Threads : ~(v = "thread" /\ u = l) => call'[u] = call[u]
  PROVE  TransferInv'
<1> PICK q, m, r :
      q = conn[c].toServer /\ m = FirstOf(id) /\ r = Starting(c, id)
  OBVIOUS
<1>1. TypeInv /\ TransferFits(id) /\ ConnFits(c) /\ UsedOnce(c)
  BY DEF TransferInv
<1>2. Unserved(id) /\ Unsent(id) /\ Unused(id) /\ KeyFits(id) /\ id[1] <= Drawn(id)
  BY <1>1 DEF TransferFits, ReadyFits
<1>3. /\ id \in DOMAIN data /\ data[id].finished = 0 /\ InfoFits(data[id])
      /\ Other(id) \in DOMAIN sdata /\ sdata[Other(id)].finished = 0
      /\ data[id].file = sdata[Other(id)].file
      /\ id[2] = "send" => Whole(data[id])
  BY <1>1, <1>2 DEF Unsent, Unserved, KeyFits, TypeInv
<1>4. /\ m \in Block \cup Requested /\ r \in Connection
      /\ r.up /\ r.trait = id /\ r.toServer = Append(q, m)
      /\ r.toClient = conn[c].toClient /\ r.strait = conn[c].strait
      /\ r.sposted = conn[c].sposted
      /\ r.posted <=> id[2] = "send" \/ conn[c].posted
  BY <1>3, Begun
<1>5. /\ conn' = [conn EXCEPT ![c] = r] /\ transmitting' = transmitting \cup {id}
  BY DEF StartTransmit, Starting
<1>6. /\ conn' \in Seq(Connection) /\ DOMAIN conn' = DOMAIN conn /\ conn'[c] = r
      /\ \A d \in DOMAIN conn : d # c => conn'[d] = conn[d]
      /\ \A d \in DOMAIN conn' : IF conn'[d].up THEN conn'[d].trait \in IDs
                                 ELSE conn'[d].trait = NoID
                                     /\ conn'[d].pends \in IDs
  BY <1>1, <1>4, <1>5, OneConnChanges DEF OneConn
<1>7. TypeInv'
  <2>1. TableFits(data') /\ TableFits(sdata') /\ transmitting' \subseteq IDs
    BY <1>1, <1>5 DEF TypeInv, TableFits
  <2>2. \A u \in Threads : call'[u].at \in HasConn => call'[u].conn \in DOMAIN conn'
    BY <1>6
  <2> QED BY <1>1, <1>6, <2>1, <2>2, ConnTyped
<1>8. \A w, k : Bears(w, k, id) => w = v /\ k = l
  BY <1>1 DEF TransferFits, Once
<1>9. /\ ~Active(c) /\ ~conn[c].posted
      /\ v = "thread" => conn[c].up
  <2>1. Uses("conn", c, c) => FALSE
    OBVIOUS
  <2>2. v = "thread" => ~Uses("pending", c, c)
    OBVIOUS
  <2> QED BY <1>1, <2>1, <2>2 DEF Uses, ConnFits, ActiveFits
<1>10. OnlyEntry(id)
  BY <1>1 DEF OnlyEntry, TypeInv
<1>11. OnlyBearer(id, 0, 0)
  <2>1. CallMoves(id)
    BY DEF CallMoves
  <2>2. ConnMoves(id)
    BY <1>4, <1>6 DEF ConnMoves
  <2>3. drawn.client <= drawn'.client /\ drawn.server <= drawn'.server
    BY <1>1 DEF TypeInv
  <2> QED BY <1>1, <2>1, <2>2, <2>3, QueuesStay, BearersMove
<1>12. \A d \in DOMAIN conn :
         /\ conn[d].trait # id
         /\ Active(d) => conn[d].trait # id
         /\ id[2] = "send" => ~HasBlock(conn[d].toServer, id[1])
         /\ conn[d].sposted = 1 => conn[d].strait # Other(id)
  BY <1>2, WaitingApart DEF Unserved
<1>13. \A n : HasBlock(r.toServer, n) <=> HasBlock(q, n) \/ BlockOf(m, n)
  <2>1. q \in Seq(Block \cup Requested)
    BY <1>1, ConnTypes
  <2>2. \A n : HasBlock(Append(q, m), n) <=> HasBlock(q, n) \/ BlockOf(m, n)
    BY <1>4, <2>1, HasAppend
  <2>3. r.toServer = Append(q, m)
    BY <1>4
  <2> QED BY <2>2, <2>3
<1>14. /\ id[2] = "send" => /\ m \in Block /\ m.kind = "block" /\ m.id = id[1]
                            /\ m.block = 1 /\ id = SendID(id[1])
                            /\ Other(id) = RecvID(id[1])
       /\ id[2] # "send" => /\ m.kind = "get" /\ m.id = id[1] /\ m.kind # "block"
                            /\ id = RecvID(id[1])
       /\ 1 \in 1 .. Size[data[id].file] /\ id[2] \in {"send", "recv"}
  BY <1>3, NextTyped, Forms DEF FirstOf
<1>15. OnlyConn(c, id)
  <2>1. \A d \in DOMAIN conn \ {c} : Apart(d, id)
    BY <1>5, <1>6, <1>12 DEF Apart
  <2>2. \A n \in Nat : HasBlock(conn'[c].toServer, n) =>
          id = SendID(n) \/ HasBlock(conn[c].toServer, n)
    BY <1>6, <1>13, <1>14 DEF BlockOf
  <2>3. conn'[c].posted => conn'[c].trait = id /\ id[2] = "send"
    BY <1>4, <1>6, <1>9
  <2> QED BY <1>4, <1>6, <2>1, <2>2, <2>3 DEF OnlyConn
<1>16. PlacedAt("conn", c, id)'
  <2>1. ASSUME NEW w, NEW k, Bears(w, k, id)' PROVE w = "conn" /\ k = c
    <3>1. CASE w \in {"offer", "answer"}
      BY <1>8, <2>1, <3>1 DEF Bears, Answered
    <3>2. CASE w = "thread"
      <4>1. k \in Threads /\ call'[k].at \in HasID /\ call'[k].id = id
        BY <2>1, <3>2 DEF Bears
      <4>2. ~(v = "thread" /\ k = l)
        BY <4>1
      <4>3. Bears(w, k, id)
        BY <3>2, <4>1, <4>2 DEF Bears
      <4> QED BY <1>8, <3>2, <4>2, <4>3
    <3>3. CASE w = "pending"
      <4>1. k \in DOMAIN conn' /\ ~conn'[k].up /\ conn'[k].pends = id
        BY <2>1, <3>3 DEF Bears
      <4>2. k # c /\ k \in DOMAIN conn /\ conn'[k] = conn[k]
        BY <1>4, <1>6, <4>1
      <4>3. Bears(w, k, id)
        BY <3>3, <4>1, <4>2 DEF Bears
      <4> QED BY <1>8, <3>3, <4>2, <4>3
    <3>4. CASE w = "conn"
      <4>1. k \in DOMAIN conn' /\ conn'[k].up /\ conn'[k].trait = id
        BY <2>1, <3>4 DEF Bears
      <4>2. k # c => Bears(w, k, id)
        BY <1>6, <3>4, <4>1 DEF Bears
      <4> QED BY <1>8, <3>4, <4>2
    <3> QED BY <2>1, <3>1, <3>2, <3>3, <3>4 DEF Bears
  <2> QED BY <2>1 DEF PlacedAt
<1>17. TransferFits(id)'
  <2>1. KeyFits(id)' /\ id[1] <= Drawn(id)'
    BY <1>2 DEF KeyFits, Other, Drawn
  <2> QED BY <1>16, <2>1, ServedFits
<1>18. Active(c)'
  BY <1>4, <1>5, <1>6 DEF Active
<1>19. ConnFits(c)'
  <2>1. ActiveFits(c)'
    BY <1>3, <1>4, <1>6, <1>9, <1>18 DEF ActiveFits
  <2>2. BlocksFit(c)'
    <3>1. m.kind = "block" =>
            /\ RecvID(m.id) \in DOMAIN sdata
            /\ m.block \in 1 .. Size[sdata[RecvID(m.id)].file]
            /\ ~HasBlock(q, m.id)
            /\ m.block = sdata[RecvID(m.id)].finished + 1
      BY <1>3, <1>12, <1>14
    <3>2. conn'[c].toServer = Append(conn[c].toServer, m)
      BY <1>4, <1>6
    <3> QED BY <1>1, <1>4, <3>1, <3>2, AppendFits DEF ConnFits
  <2>3. q \in Seq(Block \cup Requested)
    BY <1>1, ConnTypes
  <2>4. /\ DOMAIN r.toServer = DOMAIN q \cup {Len(q) + 1}
        /\ Len(r.toServer) = Len(q) + 1 /\ r.toServer[Len(q) + 1] = m
        /\ \A i \in DOMAIN q : r.toServer[i] = q[i]
    BY <1>4, <2>3, AppendOf
  <2>5. SendFits(c)'
    <3>1. CASE id[2] = "send"
      <4>1. BlockOf(m, id[1]) /\ HasBlock(r.toServer, id[1])
        BY <1>13, <1>14, <3>1 DEF BlockOf
      <4>2. /\ BlockOf(r.toServer[Len(r.toServer)], id[1])
            /\ r.toServer[Len(r.toServer)].block = data[id].finished + 1
        BY <1>3, <1>14, <2>4, <3>1, <4>1
      <4>3. LastFits(r.toServer, id)'
        BY <1>6, <4>1, <4>2 DEF LastFits, HasBlock, BlockOf
      <4> QED BY <1>4, <1>6, <4>3 DEF SendFits
    <3>2. CASE id[2] # "send"
      BY <1>4, <1>6, <1>9, <3>2 DEF SendFits
    <3> QED BY <3>1, <3>2
  <2>6. conn[c].toClient = << >>
    BY <1>1, <1>9 DEF ConnFits, ComeFits
  <2>7. GetFits(c)'
    <3>1. \A i \in DOMAIN q : q[i].kind # "get"
      BY <1>1, <1>9 DEF ConnFits, GetFits
    <3>2. \A i \in DOMAIN r.toServer : r.toServer[i].kind = "get" =>
            i = Len(r.toServer) /\ id = RecvID(r.toServer[i].id)
      BY <1>14, <2>4, <3>1
    <3>3. Unsent(id)' /\ Unserved(id)'
      BY <1>2 DEF Unsent, Unserved, Other
    <3> QED BY <1>4, <1>6, <1>18, <2>6, <3>2, <3>3 DEF GetFits
  <2>8. ServeFits(c)'
    <3>1. CASE conn[c].sposted = 1
      <4> DEFINE s == conn[c].strait
      <4>1. /\ s \in DOMAIN sdata /\ s[2] = "send" /\ sdata[s].transmitting
            /\ RecvID(s[1]) \notin DOMAIN data
            /\ sdata[s].finished + 1 = Size[sdata[s].file]
        BY <1>1, <1>9, <3>1 DEF ConnFits, ServeFits
      <4> QED BY <1>4, <1>6, <2>6, <3>1, <4>1 DEF ServeFits
    <3>2. CASE conn[c].sposted # 1
      BY <1>4, <1>6, <3>2 DEF ServeFits
    <3> QED BY <3>1, <3>2
  <2>9. ComeFits(c)'
    BY <1>4, <1>6, <2>6 DEF ComeFits
  <2> QED BY <2>1, <2>2, <2>5, <2>7, <2>8, <2>9 DEF ConnFits
<1>20. \A d \in DOMAIN conn \ {c} : \A w, k : Uses(w, k, d)' <=> Uses(w, k, d)
  <2>1. \A d \in DOMAIN conn \ {c} : Active(d)' <=> Active(d)
    BY <1>5, <1>6, <1>12 DEF Active
  <2> QED BY <1>6, <2>1 DEF Uses
<1>21. OnlyUser(c, 0)
  <2>1. ASSUME NEW d \in DOMAIN conn \ {c}
        PROVE  /\ \A w, k : Uses(w, k, d)' =>
                    IF w = "list" THEN Uses(w, k + 0, d) ELSE Uses(w, k, d)
               /\ (\E w, k : Uses(w, k, d)) => \E w, k : Uses(w, k, d)'
    <3>1. \A w, k : w = "list" /\ Uses(w, k, d) => Uses(w, k + 0, d)
      BY <1>1 DEF Uses, TypeInv
    <3> QED BY <1>20, <3>1
  <2> QED BY <2>1 DEF OnlyUser
<1>22. UsedOnce(c)'
  <2>1. ASSUME NEW w, NEW k, Uses(w, k, c)' PROVE w = "conn" /\ k = c
    <3>1. CASE w = "list"
      <4>1. Uses(w, k, c)
        BY <2>1, <3>1 DEF Uses
      <4> QED BY <3>1, <4>1
    <3>2. CASE w = "thread"
      <4>1. k \in Threads /\ call'[k].at \in HasConn /\ call'[k].conn = c
        BY <2>1, <3>2 DEF Uses
      <4>2. ~(v = "thread" /\ k = l)
        BY <4>1
      <4>3. Uses(w, k, c)
        BY <3>2, <4>1, <4>2 DEF Uses
      <4> QED BY <3>2, <4>2, <4>3
    <3>3. CASE w \in {"conn", "pending"}
      BY <1>4, <1>6, <2>1, <3>3 DEF Uses
    <3> QED BY <2>1, <3>1, <3>2, <3>3 DEF Uses
  <2>2. Uses("conn", c, c)'
    BY <1>18 DEF Uses
  <2> QED BY <2>1, <2>2 DEF UsedOnce
<1>23. PostTransmitWhenDone'
  BY DEF TransferInv, PostTransmitWhenDone
<1> QED BY <1>7, <1>10, <1>11, <1>15, <1>17, <1>19, <1>21, <1>22, <1>23, StepKeeps

(* A transfer begins on the free connection that its thread has taken ...    *)
LEMMA PreTransmitKeeps ==
  ASSUME TransferInv, NEW t \in Threads, PreTransmit(t)
  PROVE  TransferInv'
<1> PICK c, id : c = call[t].conn /\ id = call[t].id
  OBVIOUS
<1>1. TypeInv
  BY DEF TransferInv
<1>2. /\ call[t].at = "transmit" /\ id \in IDs /\ c \in DOMAIN conn
      /\ StartTransmit(c, id) /\ call' = [call EXCEPT ![t] = Idle]
      /\ UNCHANGED <<drawn, data, sdata, listPeer, listWait, toServer, toClient,
           received>>
  BY <1>1, CallTypes DEF PreTransmit, At, Return, Become, server, TypeInv, HasConn
<1>3. Bears("thread", t, id) /\ Uses("thread", t, c) /\ UsedOnce(c)
  BY <1>2 DEF Bears, Uses, HasID, HasConn, TransferInv
<1>4. \A w, k : Uses(w, k, c) => w = "thread" /\ k = t
  BY <1>3 DEF UsedOnce
<1>5. /\ call' \in [Threads -> Caller] /\ call'[t] = Idle
      /\ \A u \in Threads : u # t => call'[u] = call[u]
  BY <1>1, <1>2, IdleTyped DEF TypeInv
<1>6. Idle.at \notin HasID /\ Idle.at \notin HasConn
  BY DEF Idle, HasID, HasConn
<1>7. \A u \in Threads : call'[u].at \in HasConn => call'[u].conn \in DOMAIN conn
  BY <1>1, <1>5, <1>6 DEF TypeInv
<1> QED BY <1>2, <1>3, <1>4, <1>5, <1>6, <1>7, StartKeeps

(* ... or on the one that was opened for it.                                 *)
LEMMA ConnectedKeeps ==
  ASSUME TransferInv, NEW t \in Threads, NEW c \in DOMAIN conn, NEW form,
         Connected(t, c, form)
  PROVE  TransferInv'
<1> PICK id : id = conn[c].pends
  OBVIOUS
<1>1. TypeInv
  BY DEF TransferInv
<1>2. /\ ~conn[c].up /\ id \in IDs /\ StartTransmit(c, id) /\ call' = call
      /\ UNCHANGED <<drawn, data, sdata, listPeer, listWait, toServer, toClient,
           received>>
  BY <1>1 DEF Connected, server, TypeInv
<1>3. Bears("pending", c, id) /\ Uses("pending", c, c) /\ UsedOnce(c)
  BY <1>2 DEF Bears, Uses, TransferInv
<1>4. \A w, k : Uses(w, k, c) => w = "pending" /\ k = c
  BY <1>3 DEF UsedOnce
<1>5. /\ call' \in [Threads -> Caller]
      /\ \A u \in Threads : call'[u].at \in HasConn => call'[u].conn \in DOMAIN conn
  BY <1>1, <1>2 DEF TypeInv
<1> QED BY <1>2, <1>3, <1>4, <1>5, StartKeeps

(* What all steps of a transfer that a connection serves have in common: the *)
(* tables keep the entries of the others, ...                                *)
ServedTables(id) ==
  /\ TableFits(data') /\ TableFits(sdata') /\ OnlyEntry(id) /\ KeyFits(id)'
  /\ transmitting' \in {transmitting, transmitting \ {id}}
  /\ UNCHANGED <<drawn, toServer, toClient, listPeer, listWait>>

(* ... at most one thread goes on with the connection, ...                   *)
ServedCalls(c) ==
  /\ call' \in [Threads -> Caller]
  /\ \A u \in Threads : call'[u] = call[u]
       \/ /\ call[u].at \notin HasConn
          /\ call'[u].at \in HasConn /\ call'[u].at \notin HasID
          /\ call'[u].conn = c

(* ... and only this connection has to do with the transfer.                 *)
ServedConn(c, id, r) ==
  /\ OneConn(c, r)
  /\ r.up = conn[c].up /\ r.trait = conn[c].trait /\ r.pends = conn[c].pends
  /\ \A n \in Nat : HasBlock(r.toServer, n) =>
       id = SendID(n) \/ HasBlock(conn[c].toServer, n)
  /\ r.posted => conn[c].posted
  /\ r.sposted = 1 =>
       r.strait = Other(id) \/ (conn[c].sposted = 1 /\ r.strait = conn[c].strait)

ServedApart(c, id) ==
  \A d \in DOMAIN conn \ {c} :
    /\ Active(d) => conn[d].trait # id
    /\ id[2] = "send" => ~HasBlock(conn[d].toServer, id[1])
    /\ conn[d].sposted = 1 => conn[d].strait # Other(id)

(* A step of a transfer that is served, on its connection only.              *)
LEMMA ServedStep ==
  ASSUME TransferInv, NEW c, NEW id \in IDs, NEW r,
         ServedTables(id), ServedCalls(c), ServedConn(c, id, r), ServedApart(c, id),
         \A w, k : Bears(w, k, id) => w = "conn",
         ConnFits(c)', UsedOnce(c)', PostTransmitWhenDone'
  PROVE  TransferInv'
<1>1. TypeInv /\ TransferFits(id) /\ OneConn(c, r) /\ c \in DOMAIN conn
  BY DEF TransferInv, ServedConn, OneConn
<1>2. /\ conn' \in Seq(Connection) /\ DOMAIN conn' = DOMAIN conn /\ conn'[c] = r
      /\ \A d \in DOMAIN conn : d # c => conn'[d] = conn[d]
      /\ \A d \in DOMAIN conn' : IF conn'[d].up THEN conn'[d].trait \in IDs
                                 ELSE conn'[d].trait = NoID
                                     /\ conn'[d].pends \in IDs
  BY <1>1, OneConnChanges
<1>3. TypeInv'
  <2>1. TableFits(data') /\ TableFits(sdata') /\ transmitting' \subseteq IDs
          /\ UNCHANGED <<drawn, listPeer, listWait, toServer, toClient>>
    BY <1>1 DEF ServedTables, TypeInv
  <2>2. \A u \in Threads : call'[u].at \in HasConn => call'[u].conn \in DOMAIN conn'
    BY <1>1, <1>2 DEF ServedCalls, TypeInv
  <2>3. call' \in [Threads -> Caller]
    BY DEF ServedCalls
  <2> QED BY <1>1, <1>2, <2>1, <2>2, <2>3, ConnTyped
<1>4. \A w, k, x : Bears(w, k, x)' => Bears(w, k, x)
  <2> SUFFICES ASSUME NEW w, NEW k, NEW x, Bears(w, k, x)' PROVE Bears(w, k, x)
    OBVIOUS
  <2>1. CASE w \in {"offer", "answer"}
    BY <2>1 DEF Bears, Answered, ServedTables
  <2>2. CASE w = "thread"
    BY <2>2 DEF Bears, ServedCalls
  <2>3. CASE w \in {"pending", "conn"}
    BY <1>2, <2>3 DEF Bears, ServedConn
  <2> QED BY <2>1, <2>2, <2>3 DEF Bears
<1>5. TransferFits(id)' /\ OnlyBearer(id, 0, 0)
  BY <1>1, <1>3, <1>4, ServedKeeps DEF ServedTables
<1>6. OnlyConn(c, id)
  <2>1. ASSUME NEW d \in DOMAIN conn \ {c} PROVE Apart(d, id)
    <3>1. conn[d].trait \in transmitting' <=> conn[d].trait \in transmitting
      <4>1. CASE conn[d].up
        BY <4>1 DEF ServedApart, Active, ServedTables
      <4>2. CASE ~conn[d].up
        <5>1. conn[d].trait = NoID /\ NoID \notin IDs
          BY <1>1, <4>2 DEF TypeInv, NoID, IDs
        <5> QED BY <5>1 DEF ServedTables
      <4> QED BY <4>1, <4>2
    <3> QED BY <1>2, <3>1 DEF Apart, ServedApart
  <2>2. /\ \A n \in Nat : HasBlock(conn'[c].toServer, n) =>
             id = SendID(n) \/ HasBlock(conn[c].toServer, n)
        /\ conn'[c].posted => conn[c].posted /\ conn'[c].trait = conn[c].trait
        /\ conn'[c].sposted = 1 =>
             \/ conn'[c].strait = Other(id)
             \/ conn[c].sposted = 1 /\ conn'[c].strait = conn[c].strait
    BY <1>2 DEF ServedConn
  <2> QED BY <1>1, <1>2, <2>1, <2>2 DEF OnlyConn
<1>7. OnlyUser(c, 0)
  <2>1. ASSUME NEW d \in DOMAIN conn \ {c}
        PROVE  /\ \A w, k : Uses(w, k, d)' =>
                    IF w = "list" THEN Uses(w, k + 0, d) ELSE Uses(w, k, d)
               /\ (\E w, k : Uses(w, k, d)) => \E w, k : Uses(w, k, d)'
    <3>1. Active(d)' <=> Active(d)
      BY <1>2, <1>6 DEF OnlyConn, Apart, Active
    <3>2. \A w, k : Uses(w, k, d)' <=> Uses(w, k, d)
      <4> SUFFICES ASSUME NEW w, NEW k PROVE Uses(w, k, d)' <=> Uses(w, k, d)
        OBVIOUS
      <4>1. CASE w = "list"
        BY <4>1 DEF Uses, ServedTables
      <4>2. CASE w = "thread"
        BY <4>2 DEF Uses, ServedCalls
      <4>3. CASE w \notin {"list", "thread"}
        BY <1>2, <3>1, <4>3 DEF Uses
      <4> QED BY <4>1, <4>2, <4>3
    <3>3. \A w, k : w = "list" /\ Uses(w, k, d) => Uses(w, k + 0, d)
      BY <1>1 DEF Uses, TypeInv
    <3> QED BY <3>2, <3>3
  <2> QED BY <2>1 DEF OnlyUser
<1>8. OnlyEntry(id)
  BY DEF ServedTables
<1> QED BY <1>3, <1>5, <1>6, <1>7, <1>8, StepKeeps

(* The connection goes from its transfer to the thread that lists it, ...    *)
LEMMA HandedOver ==
  ASSUME NEW c, UsedOnce(c), Active(c), ~Active(c)', listPeer' = listPeer,
         conn'[c].up, NEW t \in Threads,
         call'[t].at = "pushPeer", call'[t].conn = c,
         \A u \in Threads : u # t => call'[u] = call[u]
  PROVE  UsedOnce(c)'
<1>1. Uses("conn", c, c)
  BY DEF Uses
<1>2. ASSUME NEW w, NEW k, Uses(w, k, c)' PROVE w = "thread" /\ k = t
  <2>1. CASE w = "list"
    <3>1. Uses("list", k, c)
      BY <1>2, <2>1 DEF Uses
    <3> QED BY <1>1, <3>1 DEF UsedOnce
  <2>2. CASE w = "thread" /\ k # t
    <3>1. Uses("thread", k, c)
      BY <1>2, <2>2 DEF Uses
    <3> QED BY <1>1, <3>1 DEF UsedOnce
  <2> QED BY <1>2, <2>1, <2>2 DEF Uses
<1>3. Uses("thread", t, c)'
  BY DEF Uses, HasConn
<1> QED BY <1>2, <1>3 DEF UsedOnce

(* ... or stays with it.                                                     *)
LEMMA UseStays ==
  ASSUME NEW c \in DOMAIN conn, UsedOnce(c), SameCalls, SameUsers(c)
  PROVE  UsedOnce(c)'
<1>1. \A w, k : Uses(w, k, c)' <=> Uses(w, k, c)
  BY UsersStay
<1> QED BY <1>1 DEF UsedOnce

(* A connection of the client and the file that it sends ...                 *)
LEMMA Sending ==
  ASSUME TransferInv, NEW c \in DOMAIN conn, NEW id, id = conn[c].trait,
         conn[c].posted
  PROVE  /\ id \in IDs /\ id[2] = "send" /\ id[1] \in Nat /\ id = SendID(id[1])
         /\ Other(id) = RecvID(id[1]) /\ id \in DOMAIN data /\ Active(c)
         /\ InfoFits(data[id]) /\ Whole(data[id]) /\ KeyFits(id)
         /\ conn[c].up /\ conn[c].toClient = << >>
         /\ LastFits(conn[c].toServer, id)
         /\ \A i \in DOMAIN conn[c].toServer : conn[c].toServer[i].kind # "get"
         /\ conn[c].sposted = 1 =>
              /\ conn[c].strait \in DOMAIN sdata /\ conn[c].strait[2] = "send"
              /\ sdata[conn[c].strait].transmitting
              /\ RecvID(conn[c].strait[1]) \notin DOMAIN data
              /\ RecvID(conn[c].strait[1]) # id
              /\ sdata[conn[c].strait].finished + 1
                   = Size[sdata[conn[c].strait].file]
         /\ \A w, k : Bears(w, k, id) => w = "conn"
         /\ ServedApart(c, id)
<1>1. ConnFits(c) /\ TypeInv
  BY DEF TransferInv
<1>2. Active(c) /\ id[2] = "send" /\ id \in DOMAIN data /\ conn[c].up
  BY <1>1 DEF ConnFits, ActiveFits, Active
<1>3. id \in IDs /\ InfoFits(data[id])
  BY <1>1, <1>2 DEF TypeInv
<1>4. id[1] \in Nat /\ id = SendID(id[1]) /\ Other(id) = RecvID(id[1])
  BY <1>2, <1>3, Forms
<1>5. TransferFits(id)
  BY <1>3 DEF TransferInv
<1>6. Bears("conn", c, id)
  BY <1>2 DEF Bears
<1>7. KeyFits(id) /\ Whole(data[id]) /\ Once(id)
  BY <1>2, <1>5 DEF TransferFits, KeyFits
<1>8. \A w, k : Bears(w, k, id) => w = "conn" /\ k = c
  BY <1>6, <1>7 DEF Once
<1>9. \A n : id # RecvID(n)
  <2>1. \A n : RecvID(n)[2] = "recv"
    BY DEF RecvID
  <2> QED BY <1>2, <2>1
<1>10. ServedApart(c, id)
  <2> SUFFICES ASSUME NEW d \in DOMAIN conn \ {c}
               PROVE  /\ Active(d) => conn[d].trait # id
                      /\ ~HasBlock(conn[d].toServer, id[1])
                      /\ conn[d].sposted = 1 => conn[d].strait # Other(id)
    BY DEF ServedApart
  <2>1. Active(d) => conn[d].trait # id
    BY <1>8 DEF Active, Bears
  <2>2. ~HasBlock(conn[d].toServer, id[1])
    BY DEF TransferInv, SendsAlone
  <2>3. conn[d].sposted = 1 => conn[d].strait[2] = "send"
    BY DEF TransferInv, ConnFits, ServeFits
  <2>4. Other(id)[2] # "send"
    BY <1>2, <1>3, Forms
  <2> QED BY <2>1, <2>2, <2>3, <2>4
<1>11. conn[c].toClient = << >>
  BY <1>1, <1>2 DEF ConnFits, ComeFits
<1>12. \A i \in DOMAIN conn[c].toServer : conn[c].toServer[i].kind # "get"
  BY <1>1, <1>9 DEF ConnFits, GetFits
<1>13. LastFits(conn[c].toServer, id)
  BY <1>1 DEF ConnFits, SendFits
<1>14. conn[c].sposted = 1 =>
         /\ conn[c].strait \in DOMAIN sdata /\ conn[c].strait[2] = "send"
         /\ sdata[conn[c].strait].transmitting
         /\ RecvID(conn[c].strait[1]) \notin DOMAIN data
         /\ sdata[conn[c].strait].finished + 1 = Size[sdata[conn[c].strait].file]
  BY <1>1, <1>9 DEF ConnFits, ServeFits
<1> QED BY <1>2, <1>3, <1>4, <1>7, <1>8, <1>9, <1>10, <1>11, <1>12, <1>13, <1>14

(* A thread that has finished a transfer has its connection.                 *)
LEMMA PushPeerTyped ==
  ASSUME NEW c \in Nat, NEW reads \in Int
  PROVE  LET r == [at |-> "pushPeer", conn |-> c, reads |-> reads]
         IN r \in Caller /\ r.at = "pushPeer" /\ r.conn = c
BY DEF Caller

(* The thread that takes the end of a transfer.                              *)
LEMMA FinishCalls ==
  ASSUME TypeInv, NEW t \in Threads, At(t, "idle"), NEW c \in DOMAIN conn,
         NEW reads \in Int,
         call' = [call EXCEPT ![t] = [at |-> "pushPeer", conn |-> c,
             reads |-> reads]]
  PROVE  /\ ServedCalls(c) /\ call'[t].at = "pushPeer" /\ call'[t].conn = c
         /\ \A u \in Threads : u # t => call'[u] = call[u]
<1> PICK r : r = [at |-> "pushPeer", conn |-> c, reads |-> reads]
  OBVIOUS
<1>1. r \in Caller /\ r.at = "pushPeer" /\ r.conn = c
  BY ConnTypes, PushPeerTyped
<1>2. call \in [Threads -> Caller] /\ call' = [call EXCEPT ![t] = r]
  BY DEF TypeInv
<1>3. /\ call' \in [Threads -> Caller] /\ call'[t] = r
      /\ \A u \in Threads : u # t => call'[u] = call[u]
  BY <1>1, <1>2
<1> QED BY <1>1, <1>3 DEF ServedCalls, At, HasConn, HasID

(* The calls and the list of free connections stay.                          *)
LEMMA StayCalls ==
  ASSUME TypeInv, call' = call, listPeer' = listPeer, NEW c
  PROVE  ServedCalls(c) /\ SameCalls
BY DEF TypeInv, ServedCalls, SameCalls

(* The blocks to the server and what the server knows of them stay.          *)
LEMMA BlocksStay ==
  ASSUME NEW c, BlocksFit(c), conn'[c].toServer = conn[c].toServer,
         \A n : RecvID(n) \in DOMAIN sdata =>
                 RecvID(n) \in DOMAIN sdata' /\ sdata'[RecvID(n)] = sdata[RecvID(n)]
  PROVE  BlocksFit(c)'
<1> PICK q : q = conn[c].toServer
  OBVIOUS
<1>1. InOrder(q) /\ InOrder(q)'
  BY DEF BlocksFit, InOrder, BlockOf
<1>2. ASSUME NEW i \in DOMAIN q PROVE BlockFits(q, i)'
  <2>1. BlockFits(q, i)
    BY DEF BlocksFit
  <2>2. Leads(q, i)' <=> Leads(q, i)
    BY DEF Leads, BlockOf
  <2> QED BY <2>1, <2>2 DEF BlockFits
<1>3. conn'[c].toServer = q
  OBVIOUS
<1> QED BY <1>1, <1>2, <1>3 DEF BlocksFit, InOrder, BlockFits, Leads, BlockOf

(* The server serves a file of which the client has all blocks.              *)
LEMMA ServedAll ==
  ASSUME NEW c, NEW s, conn'[c].strait = s, conn'[c].toClient = << >>,
         conn'[c].sposted = 1 =>
           /\ s \in DOMAIN sdata' /\ s[2] = "send" /\ sdata'[s].transmitting
           /\ RecvID(s[1]) \notin DOMAIN data'
           /\ sdata'[s].finished + 1 = Size[sdata'[s].file]
  PROVE  ServeFits(c)'
BY DEF ServeFits

(* ... of which the last block has gone out, ...                             *)
LEMMA SentAll ==
  ASSUME TransferInv, NEW t \in Threads, NEW c \in DOMAIN conn,
         EndTransmitFile(t, c), IsFinished(IncFinished(data[conn[c].trait]))
  PROVE  TransferInv'
<1> PICK id, r : id = conn[c].trait /\ r = [conn[c] EXCEPT !.posted = FALSE]
  OBVIOUS
<1>1. TypeInv /\ conn[c].posted
  BY DEF TransferInv, EndTransmitFile
<1>2. /\ id \in IDs /\ id[2] = "send" /\ id[1] \in Nat /\ id = SendID(id[1])
      /\ Other(id) = RecvID(id[1]) /\ id \in DOMAIN data /\ Active(c)
      /\ InfoFits(data[id]) /\ Whole(data[id]) /\ KeyFits(id)
      /\ conn[c].up /\ conn[c].toClient = << >>
      /\ \A i \in DOMAIN conn[c].toServer : conn[c].toServer[i].kind # "get"
      /\ conn[c].sposted = 1 =>
           /\ conn[c].strait \in DOMAIN sdata /\ conn[c].strait[2] = "send"
           /\ sdata[conn[c].strait].transmitting
           /\ RecvID(conn[c].strait[1]) \notin DOMAIN data
           /\ sdata[conn[c].strait].finished + 1 = Size[sdata[conn[c].strait].file]
      /\ \A w, k : Bears(w, k, id) => w = "conn"
      /\ ServedApart(c, id)
  BY <1>1, Sending
<1>3. /\ At(t, "idle") /\ data' = Without(data, id)
      /\ transmitting' = transmitting \ {id}
      /\ call' = [call EXCEPT ![t] = [at |-> "pushPeer", conn |-> c,
           reads |-> Nothing]]
      /\ conn' = [conn EXCEPT ![c].posted = FALSE]
      /\ UNCHANGED <<drawn, sdata, listPeer, listWait, toServer, toClient,
           received>>
  BY DEF EndTransmitFile, Finish, Become, server
<1>4. conn' = [conn EXCEPT ![c] = r]
  BY <1>3
<1>5. /\ r \in Connection /\ r.up /\ r.up = conn[c].up /\ r.trait = id
      /\ r.pends = conn[c].pends /\ ~r.posted /\ r.toServer = conn[c].toServer
      /\ r.toClient = << >> /\ r.sposted = conn[c].sposted
      /\ r.strait = conn[c].strait
  <2>1. conn[c] \in Connection
    BY <1>1, ConnTypes
  <2> QED BY <1>2, <2>1 DEF Connection
<1>6. OneConn(c, r)
  BY <1>2, <1>4, <1>5 DEF OneConn
<1>7. conn'[c] = r /\ DOMAIN conn' = DOMAIN conn
  BY <1>1, <1>6, OneConnChanges
<1>8. /\ DOMAIN data' = DOMAIN data \ {id}
      /\ \A x \in DOMAIN data : x # id => data'[x] = data[x]
  BY <1>3 DEF Without
<1>9. ServedTables(id)
  <2>1. TableFits(data) /\ TableFits(sdata)
    BY <1>1 DEF TypeInv, TableFits
  <2>2. TableFits(data') /\ TableFits(sdata')
    BY <1>3, <2>1, WithoutFits
  <2>3. OnlyEntry(id)
    BY <1>1, <1>3, <1>8, <2>2 DEF OnlyEntry, TypeInv, TableFits
  <2>4. KeyFits(id)'
    BY <1>2, <1>3, <1>8 DEF KeyFits, Drawn, Other
  <2> QED BY <1>3, <2>2, <2>3, <2>4 DEF ServedTables
<1>10. /\ ServedCalls(c) /\ call'[t].at = "pushPeer" /\ call'[t].conn = c
       /\ \A u \in Threads : u # t => call'[u] = call[u]
  <2>1. Nothing \in Int
    BY DEF Nothing
  <2> QED BY <1>1, <1>3, <2>1, FinishCalls
<1>11. ServedConn(c, id, r)
  BY <1>5, <1>6 DEF ServedConn
<1>12. ~Active(c)' /\ conn'[c].up
  <2>1. conn'[c].trait = id /\ conn'[c].up /\ id \notin transmitting'
    BY <1>3, <1>5, <1>7
  <2> QED BY <2>1 DEF Active
<1>13. ConnFits(c)'
  <2>1. ConnFits(c)
    BY DEF TransferInv
  <2>2. ActiveFits(c)' /\ SendFits(c)'
    BY <1>5, <1>7, <1>12 DEF ActiveFits, SendFits
  <2>3. BlocksFit(c)'
    <3>1. conn'[c].toServer = conn[c].toServer /\ BlocksFit(c)
      BY <1>5, <1>7, <2>1 DEF ConnFits
    <3> QED BY <1>3, <3>1, BlocksStay
  <2>4. GetFits(c)' /\ ComeFits(c)'
    BY <1>2, <1>5, <1>7 DEF GetFits, ComeFits
  <2>5. ServeFits(c)'
    <3>1. /\ conn'[c].strait = conn[c].strait /\ conn'[c].toClient = << >>
          /\ conn'[c].sposted = conn[c].sposted
      BY <1>5, <1>7
    <3> PICK s : s = conn[c].strait
      OBVIOUS
    <3>2. conn[c].sposted = 1 =>
            /\ s \in DOMAIN sdata' /\ s[2] = "send" /\ sdata'[s].transmitting
            /\ RecvID(s[1]) \notin DOMAIN data'
            /\ sdata'[s].finished + 1 = Size[sdata'[s].file]
      BY <1>2, <1>3, <1>8
    <3> QED BY <3>1, <3>2, ServedAll
  <2> QED BY <2>2, <2>3, <2>4, <2>5 DEF ConnFits
<1>14. UsedOnce(c)'
  <2>1. UsedOnce(c)
    BY DEF TransferInv
  <2> QED BY <1>2, <1>3, <1>10, <1>12, <2>1, HandedOver
<1>15. PostTransmitWhenDone'
  BY <1>3 DEF TransferInv, PostTransmitWhenDone
<1> QED BY <1>2, <1>9, <1>10, <1>11, <1>13, <1>14, <1>15, ServedStep

(* ... or the next one goes out.                                             *)
LEMMA SentBlock ==
  ASSUME TransferInv, NEW t \in Threads, NEW c \in DOMAIN conn,
         EndTransmitFile(t, c), ~IsFinished(IncFinished(data[conn[c].trait]))
  PROVE  TransferInv'
<1> PICK id, info, m, q, r :
      /\ id = conn[c].trait /\ info = IncFinished(data[id])
      /\ m = NextBlock(id, info) /\ q = conn[c].toServer
      /\ r = [conn[c] EXCEPT !.toServer = Append(@, m)]
  OBVIOUS
<1>1. TypeInv /\ conn[c].posted /\ ConnFits(c)
  BY DEF TransferInv, EndTransmitFile
<1>2. /\ id \in IDs /\ id[2] = "send" /\ id[1] \in Nat /\ id = SendID(id[1])
      /\ Other(id) = RecvID(id[1]) /\ id \in DOMAIN data /\ Active(c)
      /\ InfoFits(data[id]) /\ Whole(data[id]) /\ KeyFits(id)
      /\ conn[c].up /\ conn[c].toClient = << >>
      /\ LastFits(conn[c].toServer, id)
      /\ \A i \in DOMAIN conn[c].toServer : conn[c].toServer[i].kind # "get"
      /\ conn[c].sposted = 1 =>
           /\ conn[c].strait \in DOMAIN sdata /\ conn[c].strait[2] = "send"
           /\ sdata[conn[c].strait].transmitting
           /\ RecvID(conn[c].strait[1]) \notin DOMAIN data
           /\ RecvID(conn[c].strait[1]) # id
           /\ sdata[conn[c].strait].finished + 1 = Size[sdata[conn[c].strait].file]
      /\ \A w, k : Bears(w, k, id) => w = "conn"
      /\ ServedApart(c, id)
  BY <1>1, Sending
<1>3. /\ data' = [data EXCEPT ![id] = info]
      /\ conn' = [conn EXCEPT ![c].toServer = Append(@, NextBlock(id, info))]
      /\ UNCHANGED <<drawn, sdata, transmitting, call, listPeer, listWait, toServer,
                     toClient, received>>
  BY DEF EndTransmitFile, server
<1>4. /\ info.finished = data[id].finished + 1 /\ info.file = data[id].file
      /\ info.content = data[id].content
      /\ info.transmitting = data[id].transmitting
      /\ InfoFits(info) /\ Whole(info)
  <2>1. /\ data[id] \in Info /\ Written(data[id])
        /\ data[id].finished \in Nat /\ data[id].file \in Files
        /\ data[id].finished < Size[data[id].file]
        /\ data[id].content \in [1 .. Size[data[id].file] -> Nat]
    BY <1>2 DEF InfoFits, Info
  <2>2. /\ info \in Info /\ info.finished = data[id].finished + 1
        /\ info.file = data[id].file /\ info.content = data[id].content
        /\ info.transmitting = data[id].transmitting
    BY <2>1 DEF IncFinished, Info
  <2>3. info.finished # Size[info.file]
    BY DEF IsFinished
  <2>4. Size[info.file] \in Nat
    BY <2>1, <2>2, TransferAssumption
  <2>5. info.finished < Size[info.file]
    BY <2>1, <2>2, <2>3, <2>4
  <2>6. Whole(info)
    BY <1>2, <2>2 DEF Whole
  <2>7. Written(info)
    BY <2>1, <2>2, <2>4, <2>5, <2>6 DEF Written, Whole
  <2> QED BY <2>1, <2>2, <2>5, <2>6, <2>7 DEF InfoFits
<1>5. /\ m \in Block /\ m.kind = "block" /\ m.id = id[1]
      /\ m.block = data[id].finished + 2 /\ m.block \in 1 .. Size[data[id].file]
      /\ data[id].finished \in Nat
  <2>1. data[id].finished \in Nat
    BY <1>2, NextTyped
  <2>2. /\ m \in Block /\ m.kind = "block" /\ m.id = id[1]
        /\ m.block = info.finished + 1 /\ info.finished + 1 \in 1 .. Size[info.file]
    BY <1>2, <1>4, NextTyped
  <2> QED BY <1>4, <2>1, <2>2
<1>6. q \in Seq(Block \cup Requested) /\ conn[c] \in Connection
  BY <1>1, ConnTypes
<1>7. /\ DOMAIN Append(q, m) = DOMAIN q \cup {Len(q) + 1}
      /\ Len(Append(q, m)) = Len(q) + 1 /\ Append(q, m)[Len(q) + 1] = m
      /\ \A i \in DOMAIN q : Append(q, m)[i] = q[i]
      /\ Append(q, m) \in Seq(Block \cup Requested)
  BY <1>5, <1>6, AppendOf
<1>8. /\ r \in Connection /\ r.up /\ r.up = conn[c].up /\ r.trait = id
      /\ r.pends = conn[c].pends /\ r.posted /\ r.toServer = Append(q, m)
      /\ r.toClient = << >> /\ r.sposted = conn[c].sposted
      /\ r.strait = conn[c].strait
  BY <1>1, <1>2, <1>6, <1>7 DEF Connection
<1>9. OneConn(c, r)
  BY <1>2, <1>3, <1>8 DEF OneConn
<1>10. conn'[c] = r /\ DOMAIN conn' = DOMAIN conn
  BY <1>1, <1>9, OneConnChanges
<1>11. /\ DOMAIN data' = DOMAIN data /\ data'[id] = info
       /\ \A x \in DOMAIN data : x # id => data'[x] = data[x]
  BY <1>2, <1>3
<1>12. ServedTables(id)
  <2>1. TableFits(data') /\ TableFits(sdata')
    BY <1>1, <1>3, <1>4, <1>11 DEF TypeInv, TableFits
  <2>2. OnlyEntry(id)
    BY <1>3, <1>11, <2>1 DEF OnlyEntry, TableFits
  <2>3. KeyFits(id)'
    BY <1>2, <1>3, <1>4, <1>11 DEF KeyFits, Drawn, Other
  <2> QED BY <1>3, <2>1, <2>2, <2>3 DEF ServedTables
<1>13. ServedCalls(c) /\ SameCalls
  BY <1>1, <1>3, StayCalls
<1>14. \A n : HasBlock(Append(q, m), n) <=> HasBlock(q, n) \/ BlockOf(m, n)
  BY <1>5, <1>6, HasAppend
<1>15. ServedConn(c, id, r)
  <2>1. \A n \in Nat : BlockOf(m, n) => id = SendID(n)
    BY <1>2, <1>5 DEF BlockOf
  <2>2. \A n \in Nat : HasBlock(r.toServer, n) =>
          id = SendID(n) \/ HasBlock(conn[c].toServer, n)
    BY <1>8, <1>14, <2>1
  <2> QED BY <1>1, <1>8, <1>9, <2>2 DEF ServedConn
<1>16. Active(c)' /\ SameUsers(c)
  <2>1. /\ conn'[c].trait = id /\ conn'[c].up /\ id \in transmitting'
        /\ conn'[c].up = conn[c].up /\ c \in DOMAIN conn'
    BY <1>2, <1>3, <1>8, <1>10 DEF Active
  <2> QED BY <1>2, <2>1 DEF Active, SameUsers
<1>17. ConnFits(c)'
  <2>1. ActiveFits(c)'
    BY <1>2, <1>8, <1>10, <1>11, <1>16 DEF ActiveFits
  <2>2. BlocksFit(c)'
    <3>1. CASE HasBlock(q, id[1])
      <4>1. BlockOf(q[Len(q)], id[1]) /\ q[Len(q)].block = data[id].finished + 1
        BY <1>2, <3>1 DEF LastFits
      <4>2. RecvID(id[1]) \in DOMAIN sdata
        <5>1. PICK i \in DOMAIN q : BlockOf(q[i], id[1])
          BY <3>1 DEF HasBlock
        <5> QED BY <1>1, <5>1 DEF ConnFits, BlocksFit, BlockFits, BlockOf
      <4>3. sdata[RecvID(id[1])].file = data[id].file
        BY <1>2, <4>2 DEF KeyFits
      <4>4. m.block = q[Len(q)].block + 1
        BY <1>5, <4>1
      <4> QED BY <1>1, <1>3, <1>5, <1>8, <1>10, <3>1, <4>1, <4>2, <4>3, <4>4,
                 AppendFits DEF ConnFits
    <3>2. CASE ~HasBlock(q, id[1])
      <4>1. Other(id) \in DOMAIN sdata
              /\ sdata[Other(id)].finished = data[id].finished + 1
        <5>1. data[id].finished + 1 # Size[data[id].file]
          BY <1>4 DEF IsFinished
        <5> QED BY <1>2, <3>2, <5>1 DEF LastFits
      <4>2. sdata[Other(id)].file = data[id].file
        BY <1>2, <4>1 DEF KeyFits
      <4>3. m.block = sdata[RecvID(id[1])].finished + 1
        BY <1>2, <1>5, <4>1
      <4> QED BY <1>1, <1>2, <1>3, <1>5, <1>8, <1>10, <3>2, <4>1, <4>2, <4>3,
                 AppendFits DEF ConnFits
    <3> QED BY <3>1, <3>2
  <2>3. SendFits(c)'
    <3>1. HasBlock(Append(q, m), id[1]) /\ BlockOf(m, id[1])
      BY <1>5, <1>14 DEF BlockOf
    <3>2. m.block = info.finished + 1
      BY <1>4, <1>5
    <3> QED BY <1>7, <1>8, <1>10, <1>11, <3>1, <3>2
            DEF SendFits, LastFits, HasBlock, BlockOf
  <2>4. GetFits(c)' /\ ComeFits(c)'
    BY <1>2, <1>5, <1>7, <1>8, <1>10 DEF GetFits, ComeFits
  <2>5. ServeFits(c)'
    <3>1. /\ conn'[c].strait = conn[c].strait /\ conn'[c].toClient = << >>
          /\ conn'[c].sposted = conn[c].sposted
      BY <1>8, <1>10
    <3> PICK s : s = conn[c].strait
      OBVIOUS
    <3>2. conn[c].sposted = 1 =>
            /\ s \in DOMAIN sdata' /\ s[2] = "send" /\ sdata'[s].transmitting
            /\ RecvID(s[1]) \notin DOMAIN data'
            /\ sdata'[s].finished + 1 = Size[sdata'[s].file]
      BY <1>2, <1>3, <1>11
    <3> QED BY <3>1, <3>2, ServedAll
  <2> QED BY <2>1, <2>2, <2>3, <2>4, <2>5 DEF ConnFits
<1>18. UsedOnce(c)'
  BY <1>13, <1>16, UseStays DEF TransferInv
<1>19. PostTransmitWhenDone'
  BY <1>3 DEF TransferInv, PostTransmitWhenDone
<1> QED BY <1>2, <1>12, <1>13, <1>15, <1>17, <1>18, <1>19, ServedStep

(* The client has sent a block, the last one or not.                         *)
LEMMA EndTransmitFileKeeps ==
  ASSUME TransferInv, NEW t \in Threads, NEW c \in DOMAIN conn,
         EndTransmitFile(t, c)
  PROVE  TransferInv'
BY SentAll, SentBlock

(* The next block is written.                                                *)
LEMMA WroteNext ==
  ASSUME NEW info, InfoFits(info), NEW w, w = Write(info, info.finished + 1)
  PROVE  /\ w.file = info.file /\ w.finished = info.finished + 1
         /\ w.transmitting = info.transmitting
         /\ ~IsFinished(w) => InfoFits(w)
         /\ IsFinished(w) => w.finished = Size[w.file] /\ Whole(w)
<1>1. /\ info \in Info /\ Written(info) /\ info.finished \in Nat
      /\ info.file \in Files
      /\ info.finished < Size[info.file]
      /\ info.content \in [1 .. Size[info.file] -> Nat]
  BY DEF InfoFits, Info
<1>2. Size[info.file] \in Nat
  BY <1>1, TransferAssumption
<1> PICK n, k : /\ n = info.finished + 1
                /\ k = [info.content EXCEPT ![n] = n]
  OBVIOUS
<1>3. n \in 1 .. Size[info.file] /\ n \in Nat
  BY <1>1, <1>2
<1>4. /\ k \in [1 .. Size[info.file] -> Nat] /\ k[n] = n
      /\ \A i \in 1 .. Size[info.file] : i # n => k[i] = info.content[i]
  BY <1>1, <1>3
<1>5. k \in Contents
  BY <1>1, <1>4 DEF Contents
<1>6. w = [info EXCEPT !.content = k, !.finished = n]
  <2>1. ~IsFinished(info)
    BY <1>1, <1>2 DEF IsFinished
  <2> QED BY <1>1, <1>3, <2>1 DEF Write, Info
<1>7. /\ w \in Info /\ w.file = info.file /\ w.finished = n /\ w.content = k
      /\ w.transmitting = info.transmitting
  BY <1>1, <1>3, <1>5, <1>6 DEF Info
<1>8. \A i \in 1 .. n : k[i] = i
  <2> SUFFICES ASSUME NEW i \in 1 .. n PROVE k[i] = i
    OBVIOUS
  <2>1. CASE i = n
    BY <1>4, <2>1
  <2>2. CASE i # n
    <3>1. i \in 1 .. info.finished /\ i \in 1 .. Size[info.file]
      BY <1>1, <1>2, <1>3, <2>2
    <3> QED BY <1>1, <1>4, <2>2, <3>1 DEF Written
  <2> QED BY <2>1, <2>2
<1>9. Written(w)
  BY <1>7, <1>8 DEF Written
<1>10. ~IsFinished(w) => InfoFits(w)
  <2>1. ~IsFinished(w) => w.finished < Size[w.file]
    BY <1>2, <1>3, <1>7 DEF IsFinished
  <2> QED BY <1>4, <1>7, <1>9, <2>1 DEF InfoFits
<1>11. IsFinished(w) => w.finished = Size[w.file] /\ Whole(w)
  BY <1>7, <1>8 DEF IsFinished, Whole
<1> QED BY <1>7, <1>10, <1>11

(* What is reported as finished.                                             *)
LEMMA Reported ==
  ASSUME PostTransmitWhenDone, NEW info, Whole(info),
         received' = With(received, info.file, info.content)
  PROVE  PostTransmitWhenDone'
<1>1. /\ DOMAIN received' = DOMAIN received \cup {info.file}
      /\ received'[info.file] = info.content
      /\ \A f \in DOMAIN received : f # info.file => received'[f] = received[f]
  BY DEF With
<1> QED BY <1>1 DEF PostTransmitWhenDone, Whole

(* A connection of the client and the file that it receives.                 *)
LEMMA Receiving ==
  ASSUME TransferInv, NEW c \in DOMAIN conn, NEW id, id = conn[c].trait,
         NEW q, q = conn[c].toClient, q # << >>
  PROVE  /\ id \in IDs /\ id[2] = "recv" /\ id[1] \in Nat /\ id = RecvID(id[1])
         /\ Other(id) = SendID(id[1]) /\ id \in DOMAIN data /\ Active(c)
         /\ InfoFits(data[id]) /\ KeyFits(id) /\ conn[c].up /\ ~conn[c].posted
         /\ q \in Seq(Block)
         /\ \A i \in DOMAIN q :
              q[i].id = id[1] /\ q[i].block = data[id].finished + i
         /\ \A i \in DOMAIN conn[c].toServer : conn[c].toServer[i].kind # "get"
         /\ IF conn[c].sposted = 1
            THEN /\ conn[c].strait = Other(id) /\ Other(id) \in DOMAIN sdata
                 /\ sdata[Other(id)].transmitting
                 /\ InfoFits(sdata[Other(id)])
                 /\ sdata[Other(id)].file = data[id].file
                 /\ data[id].finished + Len(q) = sdata[Other(id)].finished + 1
            ELSE data[id].finished + Len(q) = Size[data[id].file]
         /\ \A w, k : Bears(w, k, id) => w = "conn"
         /\ ServedApart(c, id)
<1>1. ConnFits(c) /\ TypeInv
  BY DEF TransferInv
<1>2. /\ Active(c) /\ id[2] = "recv" /\ id \in DOMAIN data /\ conn[c].up
      /\ \A i \in DOMAIN q : q[i].id = id[1] /\ q[i].block = data[id].finished + i
      /\ IF conn[c].sposted = 1 THEN conn[c].strait = SendID(id[1])
         ELSE data[id].finished + Len(q) = Size[data[id].file]
      /\ ~conn[c].posted
  BY <1>1 DEF ConnFits, ActiveFits, ComeFits, Active
<1>3. id \in IDs /\ InfoFits(data[id]) /\ q \in Seq(Block)
  BY <1>1, <1>2, ConnTypes DEF TypeInv
<1>4. /\ id[1] \in Nat /\ id = RecvID(id[1]) /\ Other(id) = SendID(id[1])
      /\ SendID(id[1])[1] = id[1]
  BY <1>2, <1>3, Forms, FormsOf
<1>5. TransferFits(id) /\ Bears("conn", c, id)
  BY <1>2, <1>3 DEF TransferInv, Bears
<1>6. KeyFits(id) /\ Once(id)
  BY <1>5 DEF TransferFits
<1>7. \A w, k : Bears(w, k, id) => w = "conn" /\ k = c
  BY <1>5, <1>6 DEF Once
<1>8. \A i \in DOMAIN conn[c].toServer : conn[c].toServer[i].kind # "get"
  BY <1>1 DEF ConnFits, GetFits
<1>9. conn[c].sposted = 1 =>
        /\ Other(id) \in DOMAIN sdata /\ sdata[Other(id)].transmitting
        /\ InfoFits(sdata[Other(id)])
        /\ sdata[Other(id)].file = data[id].file
        /\ data[id].finished + Len(q) = sdata[Other(id)].finished + 1
  <2> SUFFICES ASSUME conn[c].sposted = 1
               PROVE  /\ Other(id) \in DOMAIN sdata /\ sdata[Other(id)].transmitting
                      /\ InfoFits(sdata[Other(id)])
                      /\ sdata[Other(id)].file = data[id].file
                      /\ data[id].finished + Len(q) = sdata[Other(id)].finished + 1
    OBVIOUS
  <2>1. conn[c].strait = Other(id) /\ RecvID(Other(id)[1]) = id
    BY <1>2, <1>4
  <2>2. /\ Other(id) \in DOMAIN sdata /\ sdata[Other(id)].transmitting
        /\ data[id].finished + Len(q) = sdata[Other(id)].finished + 1
    BY <1>1, <1>2, <2>1 DEF ConnFits, ServeFits
  <2> QED BY <1>1, <1>2, <1>6, <2>2 DEF KeyFits, TypeInv
<1>10. ServedApart(c, id)
  <2> SUFFICES ASSUME NEW d \in DOMAIN conn \ {c}
               PROVE  /\ Active(d) => conn[d].trait # id
                      /\ conn[d].sposted = 1 => conn[d].strait # Other(id)
    BY <1>2 DEF ServedApart
  <2>1. Active(d) => conn[d].trait # id
    BY <1>7 DEF Active, Bears
  <2>2. ASSUME conn[d].sposted = 1, conn[d].strait = Other(id) PROVE FALSE
    <3>1. RecvID(conn[d].strait[1]) = id
      BY <1>4, <2>2
    <3>2. Active(d) /\ conn[d].trait = id
      BY <1>2, <2>2, <3>1 DEF TransferInv, ConnFits, ServeFits
    <3> QED BY <2>1, <3>2
  <2> QED BY <2>1, <2>2
<1> QED BY <1>2, <1>3, <1>4, <1>6, <1>7, <1>8, <1>9, <1>10

(* The client takes a block of its file.                                     *)
Taking(c) == [conn[c] EXCEPT !.toClient = Tail(@)]

SameMain ==
  UNCHANGED <<drawn, sdata, listPeer, listWait, toServer, toClient>>

Took(c, id, q, r) ==
  /\ r \in Connection /\ r.up /\ r.up = conn[c].up /\ r.trait = id
  /\ r.pends = conn[c].pends /\ ~r.posted /\ r.toServer = conn[c].toServer
  /\ r.toClient = Tail(q) /\ r.sposted = conn[c].sposted
  /\ r.strait = conn[c].strait
  /\ OneConn(c, r) /\ conn'[c] = r /\ DOMAIN conn' = DOMAIN conn
  /\ ServedConn(c, id, r)

(* The oldest block is the one that the client waits for.                    *)
LEMMA GotBlock ==
  ASSUME TransferInv, NEW t \in Threads, NEW c \in DOMAIN conn,
         ClientRecvFileData(t, c),
         NEW id, NEW q, NEW info, NEW r, id = conn[c].trait, q = conn[c].toClient,
         info = Write(data[id], data[id].finished + 1),
         r = Taking(c)
  PROVE  /\ At(t, "idle") /\ q # << >>
         /\ conn' = [conn EXCEPT ![c].toClient = Tail(@)]
         /\ IF IsFinished(info)
            THEN /\ Finish(t, c, id, c)
                 /\ received' = With(received, info.file, info.content)
            ELSE /\ data' = [data EXCEPT ![id] = info]
                 /\ UNCHANGED <<transmitting, call, received>>
         /\ SameMain /\ Took(c, id, q, r)
<1>1. TypeInv
  BY DEF TransferInv
<1>2. q # << >>
  BY DEF ClientRecvFileData
<1>3. /\ id \in IDs /\ id \in DOMAIN data /\ id = RecvID(id[1]) /\ q \in Seq(Block)
      /\ conn[c].up /\ ~conn[c].posted
      /\ \A i \in DOMAIN q : q[i].id = id[1] /\ q[i].block = data[id].finished + i
  <2>1. /\ id \in IDs /\ id \in DOMAIN data /\ id = RecvID(id[1])
        /\ q \in Seq(Block)
        /\ conn[c].up /\ ~conn[c].posted
    BY <1>2, Receiving
  <2>2. \A i \in DOMAIN q : q[i].id = id[1] /\ q[i].block = data[id].finished + i
    BY <1>2 DEF TransferInv, ConnFits, ComeFits
  <2> QED BY <2>1, <2>2
<1>4. /\ Head(q).id = id[1] /\ Head(q).block = data[id].finished + 1
      /\ Tail(q) \in Seq(Block)
  BY <1>2, <1>3, TailOf
<1>5. /\ At(t, "idle") /\ conn' = [conn EXCEPT ![c].toClient = Tail(@)]
      /\ IF IsFinished(info)
         THEN /\ Finish(t, c, id, c)
              /\ received' = With(received, info.file, info.content)
         ELSE /\ data' = [data EXCEPT ![id] = info]
              /\ UNCHANGED <<transmitting, call, received>>
      /\ UNCHANGED <<drawn, sdata, listPeer, listWait, toServer, toClient>>
  <2>1. /\ RecvID(Head(conn[c].toClient).id) = id
        /\ Write(data[id], Head(conn[c].toClient).block) = info
    BY <1>3, <1>4
  <2>2. At(t, "idle") /\ conn' = [conn EXCEPT ![c].toClient = Tail(@)]
    BY DEF ClientRecvFileData
  <2>3. UNCHANGED <<drawn, sdata, listPeer, listWait, toServer, toClient>>
    BY DEF ClientRecvFileData, server
  <2>4. IF IsFinished(info)
        THEN /\ Finish(t, c, id, c)
             /\ received' = With(received, info.file, info.content)
        ELSE /\ data' = [data EXCEPT ![id] = info]
             /\ UNCHANGED <<transmitting, call, received>>
    BY <1>3, <2>1 DEF ClientRecvFileData
  <2> QED BY <2>2, <2>3, <2>4
<1>6. conn[c] \in Connection
  BY <1>1, ConnTypes
<1>7. /\ r \in Connection /\ r.up /\ r.up = conn[c].up /\ r.trait = id
      /\ r.pends = conn[c].pends /\ ~r.posted /\ r.toServer = conn[c].toServer
      /\ r.toClient = Tail(q) /\ r.sposted = conn[c].sposted
      /\ r.strait = conn[c].strait
  BY <1>3, <1>4, <1>6 DEF Connection, Taking
<1>8. conn' = [conn EXCEPT ![c] = r]
  BY <1>5 DEF Taking
<1>9. OneConn(c, r)
  BY <1>3, <1>7, <1>8 DEF OneConn
<1>10. conn'[c] = r /\ DOMAIN conn' = DOMAIN conn
  BY <1>1, <1>9, OneConnChanges
<1>11. ServedConn(c, id, r)
  BY <1>7, <1>9 DEF ServedConn
<1> QED BY <1>2, <1>5, <1>7, <1>9, <1>10, <1>11 DEF SameMain, Took

(* A number above zero is one or more.                                       *)
LEMMA OneOrMore ==
  ASSUME NEW n \in Nat, n > 0
  PROVE  n = 1 \/ n > 1
OBVIOUS

(* Of one message nothing is left, ...                                       *)
LEMMA NoneLeft ==
  ASSUME NEW S, NEW q \in Seq(S), Len(q) = 1
  PROVE  Tail(q) = << >>
<1>1. q # << >>
  BY EmptySeq
<1>2. Tail(q) \in Seq(S) /\ Len(Tail(q)) = 0
  BY <1>1, TailOf
<1> QED BY <1>2, EmptySeq

(* ... and the last block has none behind it.                                *)
LEMMA LastOne ==
  ASSUME NEW a \in Nat, NEW n \in Nat, NEW z \in Nat, n > 0, a + n <= z, a + 1 = z
  PROVE  n = 1
OBVIOUS

(* The last block: the client reports the file, ...                          *)
LEMMA GotAll ==
  ASSUME TransferInv, NEW t \in Threads, NEW c \in DOMAIN conn,
         ClientRecvFileData(t, c),
         IsFinished(Write(data[conn[c].trait], data[conn[c].trait].finished + 1))
  PROVE  TransferInv'
<1> PICK id, q, info, r :
      /\ id = conn[c].trait /\ q = conn[c].toClient
      /\ info = Write(data[id], data[id].finished + 1) /\ r = Taking(c)
  OBVIOUS
<1>1. TypeInv /\ PostTransmitWhenDone /\ ConnFits(c) /\ q # << >>
  BY DEF TransferInv, ClientRecvFileData
<1>2. /\ id \in IDs /\ id[2] = "recv" /\ id[1] \in Nat /\ id = RecvID(id[1])
      /\ Other(id) = SendID(id[1]) /\ id \in DOMAIN data /\ Active(c)
      /\ InfoFits(data[id]) /\ KeyFits(id) /\ conn[c].up /\ ~conn[c].posted
      /\ q \in Seq(Block)
      /\ IF conn[c].sposted = 1
         THEN /\ conn[c].strait = Other(id) /\ Other(id) \in DOMAIN sdata
              /\ sdata[Other(id)].transmitting
              /\ InfoFits(sdata[Other(id)])
              /\ sdata[Other(id)].file = data[id].file
              /\ data[id].finished + Len(q) = sdata[Other(id)].finished + 1
         ELSE data[id].finished + Len(q) = Size[data[id].file]
      /\ ServedApart(c, id)
  BY <1>1, Receiving
<1>3. \A w, k : Bears(w, k, id) => w = "conn"
  BY <1>1, Receiving
<1>4. \A i \in DOMAIN conn[c].toServer : conn[c].toServer[i].kind # "get"
  BY <1>1, <1>2 DEF ConnFits, GetFits
<1>5. /\ At(t, "idle") /\ Finish(t, c, id, c)
      /\ received' = With(received, info.file, info.content)
      /\ UNCHANGED <<drawn, sdata, listPeer, listWait, toServer, toClient>>
      /\ r \in Connection /\ r.up /\ r.up = conn[c].up /\ r.trait = id
      /\ r.pends = conn[c].pends /\ ~r.posted /\ r.toServer = conn[c].toServer
      /\ r.toClient = Tail(q) /\ r.sposted = conn[c].sposted
      /\ r.strait = conn[c].strait
      /\ OneConn(c, r) /\ conn'[c] = r /\ DOMAIN conn' = DOMAIN conn
      /\ ServedConn(c, id, r)
  <2>1. IsFinished(info)
    OBVIOUS
  <2>2. At(t, "idle") /\ SameMain /\ Took(c, id, q, r)
    BY GotBlock
  <2>3. IF IsFinished(info)
        THEN /\ Finish(t, c, id, c)
             /\ received' = With(received, info.file, info.content)
        ELSE /\ data' = [data EXCEPT ![id] = info]
             /\ UNCHANGED <<transmitting, call, received>>
    BY GotBlock
  <2> QED BY <2>1, <2>2, <2>3 DEF SameMain, Took
<1>6. /\ info.finished = data[id].finished + 1 /\ info.file = data[id].file
      /\ data[id].finished + 1 = Size[data[id].file] /\ Whole(info)
  BY <1>2, WroteNext
<1>7. /\ Tail(q) = << >>
      /\ conn[c].sposted = 1 =>
           sdata[Other(id)].finished + 1 = Size[sdata[Other(id)].file]
  <2>1. /\ data[id].finished \in Nat /\ data[id].file \in Files
        /\ Size[data[id].file] \in Nat
    BY <1>2, TransferAssumption DEF InfoFits, Info
  <2>2. /\ Len(q) \in Nat /\ Len(q) > 0
        /\ Len(Tail(q)) = Len(q) - 1 /\ Tail(q) \in Seq(Block)
    BY <1>1, <1>2, TailOf
  <2>3. conn[c].sposted = 1 =>
          /\ sdata[Other(id)].finished \in Nat
          /\ sdata[Other(id)].finished < Size[data[id].file]
    BY <1>2 DEF InfoFits, Info
  <2>4. Len(q) = 1
    <3>1. data[id].finished + Len(q) <= Size[data[id].file]
      <4>1. CASE conn[c].sposted = 1
        <5>1. /\ data[id].finished + Len(q) = sdata[Other(id)].finished + 1
              /\ sdata[Other(id)].finished < Size[data[id].file]
              /\ sdata[Other(id)].finished \in Nat
          BY <1>2, <2>3, <4>1
        <5> QED BY <2>1, <5>1
      <4>2. CASE conn[c].sposted # 1
        <5>1. data[id].finished + Len(q) = Size[data[id].file]
          BY <1>2, <4>2
        <5> QED BY <2>1, <5>1
      <4> QED BY <4>1, <4>2
    <3>2. data[id].finished + 1 = Size[data[id].file]
      BY <1>6
    <3>3. /\ data[id].finished \in Nat /\ Len(q) \in Nat /\ Len(q) > 0
          /\ Size[data[id].file] \in Nat
      BY <2>1, <2>2
    <3> QED BY <3>1, <3>2, <3>3, LastOne
  <2>5. Tail(q) = << >>
    BY <1>2, <2>4, NoneLeft
  <2>6. conn[c].sposted = 1 =>
          sdata[Other(id)].finished + 1 = Size[sdata[Other(id)].file]
    BY <1>2, <1>6, <2>1, <2>3, <2>4
  <2> QED BY <2>5, <2>6
<1>8. /\ data' = Without(data, id) /\ transmitting' = transmitting \ {id}
      /\ call' = [call EXCEPT ![t] = [at |-> "pushPeer", conn |-> c, reads |-> c]]
  BY <1>5 DEF Finish, Become
<1>9. /\ DOMAIN data' = DOMAIN data \ {id}
      /\ \A x \in DOMAIN data : x # id => data'[x] = data[x]
  BY <1>8 DEF Without
<1>10. ServedTables(id)
  <2>1. TableFits(data) /\ TableFits(sdata)
    BY <1>1 DEF TypeInv, TableFits
  <2>2. TableFits(data') /\ TableFits(sdata')
    BY <1>5, <1>8, <2>1, WithoutFits
  <2>3. OnlyEntry(id)
    BY <1>1, <1>5, <1>9, <2>2 DEF OnlyEntry, TypeInv, TableFits
  <2>4. KeyFits(id)'
    BY <1>2, <1>5, <1>9 DEF KeyFits, Drawn, Other
  <2> QED BY <1>5, <1>8, <2>2, <2>3, <2>4 DEF ServedTables
<1>11. /\ ServedCalls(c) /\ call'[t].at = "pushPeer" /\ call'[t].conn = c
       /\ \A u \in Threads : u # t => call'[u] = call[u]
  <2>1. c \in Int
    BY <1>1, ConnTypes
  <2> QED BY <1>1, <1>5, <1>8, <2>1, FinishCalls
<1>12. ~Active(c)' /\ conn'[c].up
  <2>1. conn'[c].trait = id /\ conn'[c].up /\ id \notin transmitting'
    BY <1>5, <1>8
  <2> QED BY <2>1 DEF Active
<1>13. ConnFits(c)'
  <2>1. ActiveFits(c)' /\ SendFits(c)'
    BY <1>5, <1>12 DEF ActiveFits, SendFits
  <2>2. BlocksFit(c)'
    <3>1. conn'[c].toServer = conn[c].toServer /\ BlocksFit(c)
      BY <1>1, <1>5 DEF ConnFits
    <3> QED BY <1>5, <3>1, BlocksStay
  <2>3. GetFits(c)' /\ ComeFits(c)'
    BY <1>4, <1>5, <1>7 DEF GetFits, ComeFits
  <2>4. ServeFits(c)'
    <3>1. /\ conn'[c].strait = conn[c].strait /\ conn'[c].toClient = << >>
          /\ conn'[c].sposted = conn[c].sposted
      BY <1>5, <1>7
    <3> PICK s : s = conn[c].strait
      OBVIOUS
    <3>2. conn[c].sposted = 1 =>
            /\ s \in DOMAIN sdata' /\ s[2] = "send" /\ sdata'[s].transmitting
            /\ RecvID(s[1]) \notin DOMAIN data'
            /\ sdata'[s].finished + 1 = Size[sdata'[s].file]
      <4>1. conn[c].sposted = 1 => s[2] = "send" /\ RecvID(s[1]) = id
        BY <1>2, FormsOf
      <4> QED BY <1>2, <1>5, <1>7, <1>9, <4>1
    <3> QED BY <3>1, <3>2, ServedAll
  <2> QED BY <2>1, <2>2, <2>3, <2>4 DEF ConnFits
<1>14. UsedOnce(c)'
  <2>1. UsedOnce(c)
    BY DEF TransferInv
  <2> QED BY <1>2, <1>5, <1>11, <1>12, <2>1, HandedOver
<1>15. PostTransmitWhenDone'
  BY <1>1, <1>5, <1>6, Reported
<1> QED BY <1>2, <1>3, <1>5, <1>10, <1>11, <1>13, <1>14, <1>15, ServedStep

(* ... or waits for the next one.                                            *)
LEMMA GotNext ==
  ASSUME TransferInv, NEW t \in Threads, NEW c \in DOMAIN conn,
         ClientRecvFileData(t, c),
         ~IsFinished(Write(data[conn[c].trait], data[conn[c].trait].finished + 1))
  PROVE  TransferInv'
<1> PICK id, q, info, r :
      /\ id = conn[c].trait /\ q = conn[c].toClient
      /\ info = Write(data[id], data[id].finished + 1) /\ r = Taking(c)
  OBVIOUS
<1>1. TypeInv /\ PostTransmitWhenDone /\ ConnFits(c) /\ q # << >>
  BY DEF TransferInv, ClientRecvFileData
<1>2. /\ id \in IDs /\ id[2] = "recv" /\ id[1] \in Nat /\ id = RecvID(id[1])
      /\ Other(id) = SendID(id[1]) /\ id \in DOMAIN data /\ Active(c)
      /\ InfoFits(data[id]) /\ KeyFits(id) /\ conn[c].up /\ ~conn[c].posted
      /\ q \in Seq(Block)
      /\ IF conn[c].sposted = 1
         THEN /\ conn[c].strait = Other(id) /\ Other(id) \in DOMAIN sdata
              /\ sdata[Other(id)].transmitting
              /\ InfoFits(sdata[Other(id)])
              /\ sdata[Other(id)].file = data[id].file
              /\ data[id].finished + Len(q) = sdata[Other(id)].finished + 1
         ELSE data[id].finished + Len(q) = Size[data[id].file]
      /\ ServedApart(c, id)
  BY <1>1, Receiving
<1>3. \A w, k : Bears(w, k, id) => w = "conn"
  BY <1>1, Receiving
<1>4. \A i \in DOMAIN conn[c].toServer : conn[c].toServer[i].kind # "get"
  BY <1>1, <1>2 DEF ConnFits, GetFits
<1>5. /\ data' = [data EXCEPT ![id] = info]
      /\ UNCHANGED <<transmitting, call, received>>
      /\ UNCHANGED <<drawn, sdata, listPeer, listWait, toServer, toClient>>
      /\ r \in Connection /\ r.up /\ r.up = conn[c].up /\ r.trait = id
      /\ r.pends = conn[c].pends /\ ~r.posted /\ r.toServer = conn[c].toServer
      /\ r.toClient = Tail(q) /\ r.sposted = conn[c].sposted
      /\ r.strait = conn[c].strait
      /\ OneConn(c, r) /\ conn'[c] = r /\ DOMAIN conn' = DOMAIN conn
      /\ ServedConn(c, id, r)
  <2>1. ~IsFinished(info)
    OBVIOUS
  <2>2. At(t, "idle") /\ SameMain /\ Took(c, id, q, r)
    BY GotBlock
  <2>3. IF IsFinished(info)
        THEN /\ Finish(t, c, id, c)
             /\ received' = With(received, info.file, info.content)
        ELSE /\ data' = [data EXCEPT ![id] = info]
             /\ UNCHANGED <<transmitting, call, received>>
    BY GotBlock
  <2> QED BY <2>1, <2>2, <2>3 DEF SameMain, Took
<1>6. /\ info.finished = data[id].finished + 1 /\ info.file = data[id].file
      /\ InfoFits(info)
  <2>1. ~IsFinished(info)
    OBVIOUS
  <2> QED BY <1>2, <2>1, WroteNext
<1>7. /\ DOMAIN data' = DOMAIN data /\ data'[id] = info
      /\ \A x \in DOMAIN data : x # id => data'[x] = data[x]
  BY <1>2, <1>5
<1>8. ServedTables(id)
  <2>1. TableFits(data') /\ TableFits(sdata')
    BY <1>1, <1>5, <1>6, <1>7 DEF TypeInv, TableFits
  <2>2. OnlyEntry(id)
    BY <1>5, <1>7, <2>1 DEF OnlyEntry, TableFits
  <2>3. KeyFits(id)'
    BY <1>2, <1>5, <1>6, <1>7 DEF KeyFits, Drawn, Other
  <2> QED BY <1>5, <2>1, <2>2, <2>3 DEF ServedTables
<1>9. ServedCalls(c) /\ SameCalls
  BY <1>1, <1>5, StayCalls
<1>10. Active(c)' /\ SameUsers(c)
  <2>1. /\ conn'[c].trait = id /\ conn'[c].up /\ id \in transmitting'
        /\ conn'[c].up = conn[c].up /\ c \in DOMAIN conn'
    BY <1>2, <1>5 DEF Active
  <2> QED BY <1>2, <2>1 DEF Active, SameUsers
<1>11. /\ Len(Tail(q)) = Len(q) - 1 /\ Len(q) \in Nat
       /\ \A i \in DOMAIN Tail(q) : i + 1 \in DOMAIN q /\ Tail(q)[i] = q[i + 1]
       /\ DOMAIN Tail(q) \subseteq Nat
       /\ data[id].finished \in Nat
  BY <1>1, <1>2, TailOf DEF InfoFits, Info
<1>12. info.finished + Len(Tail(q)) = data[id].finished + Len(q)
  BY <1>6, <1>11
<1>13. ConnFits(c)'
  <2>1. ActiveFits(c)' /\ SendFits(c)'
    BY <1>2, <1>5, <1>7, <1>10 DEF ActiveFits, SendFits
  <2>2. BlocksFit(c)'
    <3>1. conn'[c].toServer = conn[c].toServer /\ BlocksFit(c)
      BY <1>1, <1>5 DEF ConnFits
    <3> QED BY <1>5, <3>1, BlocksStay
  <2>3. GetFits(c)'
    BY <1>4, <1>5 DEF GetFits
  <2>4. ServeFits(c)'
    <3>1. /\ conn'[c].toClient = Tail(q) /\ conn'[c].strait = conn[c].strait
          /\ conn'[c].sposted = conn[c].sposted /\ conn'[c].trait = id
      BY <1>5
    <3>2. conn[c].sposted = 1 =>
            /\ conn[c].strait \in DOMAIN sdata /\ conn[c].strait[2] = "send"
            /\ sdata[conn[c].strait].transmitting
            /\ RecvID(conn[c].strait[1]) = id
            /\ info.finished + Len(Tail(q)) = sdata[conn[c].strait].finished + 1
      BY <1>2, <1>12, FormsOf
    <3> QED BY <1>2, <1>5, <1>7, <1>10, <3>1, <3>2 DEF ServeFits
  <2>5. ComeFits(c)'
    <3>1. \A i \in DOMAIN Tail(q) :
            Tail(q)[i].id = id[1] /\ Tail(q)[i].block = info.finished + i
      <4> SUFFICES ASSUME NEW i \in DOMAIN Tail(q)
                   PROVE  /\ Tail(q)[i].id = id[1]
                          /\ Tail(q)[i].block = info.finished + i
        OBVIOUS
      <4>1. \A j \in DOMAIN q : q[j].id = id[1]
              /\ q[j].block = data[id].finished + j
        BY <1>1 DEF ConnFits, ComeFits
      <4> PICK j : j = i + 1
        OBVIOUS
      <4>2. i \in Nat /\ j \in DOMAIN q /\ Tail(q)[i] = q[j]
        BY <1>11
      <4>3. q[j].id = id[1] /\ q[j].block = data[id].finished + j
        BY <4>1, <4>2, Zenon
      <4>4. data[id].finished + j = info.finished + i
        BY <1>6, <1>11, <4>2
      <4> QED BY <4>2, <4>3, <4>4
    <3>2. /\ conn'[c].toClient = Tail(q) /\ conn'[c].strait = conn[c].strait
          /\ conn'[c].sposted = conn[c].sposted /\ conn'[c].trait = id
          /\ data'[id] = info
      BY <1>5, <1>7
    <3>3. IF conn[c].sposted = 1 THEN conn[c].strait = SendID(id[1])
          ELSE info.finished + Len(Tail(q)) = Size[info.file]
      BY <1>2, <1>6, <1>12
    <3> QED BY <1>2, <1>10, <3>1, <3>2, <3>3 DEF ComeFits
  <2> QED BY <2>1, <2>2, <2>3, <2>4, <2>5 DEF ConnFits
<1>14. UsedOnce(c)'
  BY <1>9, <1>10, UseStays DEF TransferInv
<1>15. PostTransmitWhenDone'
  BY <1>1, <1>5 DEF PostTransmitWhenDone
<1> QED BY <1>2, <1>3, <1>5, <1>8, <1>9, <1>13, <1>14, <1>15, ServedStep

(* The client gets a block, the last one or not.                             *)
LEMMA ClientRecvFileDataKeeps ==
  ASSUME TransferInv, NEW t \in Threads, NEW c \in DOMAIN conn,
         ClientRecvFileData(t, c)
  PROVE  TransferInv'
BY GotAll, GotNext

(* The server: a file it has one more block of, or is done with.             *)
Advanced(id) ==
  /\ \A x \in IDs \ {id} :
       /\ x \in DOMAIN sdata' <=> x \in DOMAIN sdata
       /\ x \in DOMAIN sdata => sdata'[x] = sdata[x]
  /\ IF sdata[id].finished + 1 = Size[sdata[id].file]
     THEN id \notin DOMAIN sdata'
     ELSE /\ id \in DOMAIN sdata' /\ sdata'[id].file = sdata[id].file
          /\ sdata'[id].finished = sdata[id].finished + 1

Listed(end) == [end EXCEPT !.slisted = @ + 1]

(* The server marks a transfer: its file and position stay.                  *)
LEMMA StartedFits ==
  ASSUME NEW info, InfoFits(info), NEW s, s = Started(info)
  PROVE  /\ InfoFits(s) /\ s.file = info.file /\ s.finished = info.finished
         /\ s.transmitting
         /\ Whole(info) => Whole(s)
<1>1. /\ info \in Info /\ info.finished \in Nat /\ info.file \in Files
      /\ info.content \in [1 .. Size[info.file] -> Nat]
      /\ info.finished < Size[info.file] /\ Written(info)
  BY DEF InfoFits, Info
<1>2. /\ s \in Info /\ s.file = info.file /\ s.finished = info.finished
      /\ s.transmitting = TRUE /\ s.content = info.content
  BY <1>1 DEF Started, Info
<1> QED BY <1>1, <1>2 DEF InfoFits, Written, Whole

WentOnWith(c, id, info, end, more) ==
  /\ Advanced(id) /\ TableFits(sdata') /\ PostTransmitWhenDone'
  /\ IF IsFinished(info)
     THEN conn' = [conn EXCEPT ![c] = Listed(end)]
     ELSE conn' = [conn EXCEPT ![c] = more] /\ sdata'[id] = info

(* After a block the server erases the transfer or moves its position.       *)
LEMMA WentOn ==
  ASSUME TypeInv, PostTransmitWhenDone, NEW c, NEW id, NEW info, NEW end, NEW more,
         id \in DOMAIN sdata, GoOn(c, id, info, end, more),
         info.file = sdata[id].file, info.finished = sdata[id].finished + 1,
         ~IsFinished(info) => InfoFits(info),
         IsFinished(info) => id[2] = "send" \/ Whole(info)
  PROVE  WentOnWith(c, id, info, end, more)
<1>1. TableFits(sdata)
  BY DEF TypeInv, TableFits
<1>2. CASE IsFinished(info)
  <2>1. /\ sdata' = Without(sdata, id)
        /\ conn' = [conn EXCEPT ![c] = Listed(end)]
        /\ received' = IF id[2] = "send" THEN received
                       ELSE With(received, info.file, info.content)
    BY <1>2 DEF GoOn, Listed
  <2>2. /\ DOMAIN sdata' = DOMAIN sdata \ {id}
        /\ \A x \in DOMAIN sdata : x # id => sdata'[x] = sdata[x]
    BY <2>1 DEF Without
  <2>3. sdata[id].finished + 1 = Size[sdata[id].file]
    BY <1>2 DEF IsFinished
  <2>4. Advanced(id)
    BY <2>2, <2>3 DEF Advanced
  <2>5. PostTransmitWhenDone'
    <3>1. CASE id[2] = "send"
      BY <2>1, <3>1 DEF PostTransmitWhenDone
    <3>2. CASE id[2] # "send"
      BY <1>2, <2>1, <3>2, Reported
    <3> QED BY <3>1, <3>2
  <2>6. TableFits(sdata')
    BY <1>1, <2>1, WithoutFits
  <2> QED BY <1>2, <2>1, <2>3, <2>4, <2>5, <2>6 DEF WentOnWith
<1>3. CASE ~IsFinished(info)
  <2>1. /\ sdata' = [sdata EXCEPT ![id] = info]
        /\ conn' = [conn EXCEPT ![c] = more] /\ received' = received
    BY <1>3 DEF GoOn
  <2>2. /\ DOMAIN sdata' = DOMAIN sdata /\ sdata'[id] = info
        /\ \A x \in DOMAIN sdata : x # id => sdata'[x] = sdata[x]
    BY <2>1
  <2>3. sdata[id].finished + 1 # Size[sdata[id].file]
    BY <1>3 DEF IsFinished
  <2>4. Advanced(id)
    BY <2>2, <2>3 DEF Advanced
  <2>5. PostTransmitWhenDone'
    BY <2>1 DEF PostTransmitWhenDone
  <2>6. TableFits(sdata')
    BY <1>1, <1>3, <2>2 DEF TableFits
  <2> QED BY <1>3, <2>1, <2>2, <2>4, <2>5, <2>6 DEF WentOnWith
<1> QED BY <1>2, <1>3

(* A step of the server on a transfer that the client transmits: the tables  *)
(* of the client and its threads stay.                                       *)
LEMMA ServerTables ==
  ASSUME TypeInv, NEW id \in IDs, Other(id) \in DOMAIN sdata, KeyFits(id),
         Advanced(Other(id)), TableFits(sdata'),
         id[2] = "recv" /\ Other(id) \in DOMAIN sdata' => Whole(sdata'[Other(id)]),
         UNCHANGED <<drawn, data, transmitting, listPeer, listWait, toServer,
             toClient>>
  PROVE  ServedTables(id)
<1>1. TableFits(data')
  BY DEF TypeInv, TableFits
<1>2. OnlyEntry(id)
  <2>1. \A x \in IDs \ {id} : Other(x) \in IDs \ {Other(id)}
    BY Forms
  <2> QED BY <1>1, <2>1 DEF OnlyEntry, Advanced, TableFits
<1>3. KeyFits(id)'
  <2>1. Other(id) \in DOMAIN sdata'
          => sdata'[Other(id)].file = sdata[Other(id)].file
    BY DEF Advanced
  <2>2. Other(id)' = Other(id)
    BY DEF Other
  <2> QED BY <2>1, <2>2 DEF KeyFits, Drawn
<1> QED BY <1>1, <1>2, <1>3 DEF ServedTables

(* The first block in a queue, and the file that it belongs to.              *)
Arrives(c, q, n) ==
  /\ n \in Nat /\ SendID(n) \in IDs /\ Other(SendID(n)) = RecvID(n)
  /\ q \in Seq(Block \cup Requested) /\ BlockOf(q[1], n)
  /\ RecvID(n) \in DOMAIN sdata /\ InfoFits(sdata[RecvID(n)]) /\ KeyFits(SendID(n))
  /\ q[1].block = sdata[RecvID(n)].finished + 1
  /\ \A w, k : Bears(w, k, SendID(n)) => w = "conn"
  /\ ServedApart(c, SendID(n))

(* The oldest block is the one that the server waits for.                    *)
LEMMA Arriving ==
  ASSUME TransferInv, NEW c \in DOMAIN conn, NEW q, q = conn[c].toServer,
         q # << >>, q[1].kind = "block", NEW n, n = q[1].id
  PROVE  Arrives(c, q, n)
<1> PICK id : id = SendID(n)
  OBVIOUS
<1>1. ConnFits(c) /\ TypeInv
  BY DEF TransferInv
<1>2. q \in Seq(Block \cup Requested) /\ 1 \in DOMAIN q
  BY <1>1, ConnTypes, TailOf
<1>3. n \in Nat
  BY <1>1, <1>2, MessageTypes
<1>4. /\ id \in IDs /\ id[1] = n /\ id[2] = "send" /\ Other(id) = RecvID(n)
      /\ RecvID(n)[2] = "recv"
  BY <1>3, FormsOf
<1>5. BlockOf(q[1], n) /\ HasBlock(q, n)
  BY <1>2 DEF BlockOf, HasBlock
<1>6. /\ RecvID(n) \in DOMAIN sdata
      /\ q[1].block = sdata[RecvID(n)].finished + 1
  <2>1. BlockFits(q, 1)
    BY <1>1, <1>2 DEF ConnFits, BlocksFit
  <2>2. Leads(q, 1)
    BY DEF Leads
  <2> QED BY <2>1, <2>2 DEF BlockFits
<1>7. InfoFits(sdata[RecvID(n)])
  BY <1>1, <1>6 DEF TypeInv
<1>8. TransferFits(id)
  BY <1>4 DEF TransferInv
<1>9. ~Unused(id)
  BY <1>4, <1>5 DEF Unused
<1>10. \A w, k : Bears(w, k, id) => w = "conn"
  <2> SUFFICES ASSUME NEW w, NEW k, Bears(w, k, id) PROVE w = "conn"
    OBVIOUS
  <2>1. w # "offer"
    BY <1>8, <1>9 DEF TransferFits, OfferFits
  <2>2. w # "answer"
    BY <1>4, <1>8, <1>9 DEF TransferFits, AnswerFits
  <2>3. w \notin {"thread", "pending"}
    BY <1>8, <1>9 DEF TransferFits, ReadyFits
  <2> QED BY <2>1, <2>2, <2>3 DEF Bears
<1>11. ServedApart(c, id)
  <2> SUFFICES ASSUME NEW d \in DOMAIN conn \ {c}
               PROVE  /\ Active(d) => conn[d].trait # id
                      /\ ~HasBlock(conn[d].toServer, n)
                      /\ conn[d].sposted = 1 => conn[d].strait # Other(id)
    BY <1>4 DEF ServedApart
  <2>1. ConnFits(d)
    BY DEF TransferInv
  <2>2. ~HasBlock(conn[d].toServer, n)
    BY <1>3, <1>5 DEF TransferInv, BlocksApart
  <2>3. conn[d].sposted = 1 => conn[d].strait[2] = "send"
    BY <2>1 DEF ConnFits, ServeFits
  <2>4. ASSUME Active(d), conn[d].trait = id PROVE FALSE
    <3>1. conn[d].posted /\ conn[d].trait[1] = n
      BY <1>4, <2>1, <2>4 DEF ConnFits, ActiveFits
    <3> QED BY <1>5, <3>1 DEF TransferInv, SendsAlone
  <2> QED BY <1>4, <2>2, <2>3, <2>4
<1> QED BY <1>2, <1>3, <1>4, <1>5, <1>6, <1>7, <1>8, <1>10, <1>11
       DEF TransferFits, Arrives

(* What is left of the queue fits the new tables.                            *)
LEMMA NewBlocks ==
  ASSUME NEW c, NEW q, conn'[c].toServer = q, InOrder(q),
         \A i \in DOMAIN q : BlockFits(q, i)'
  PROVE  BlocksFit(c)'
BY DEF BlocksFit, InOrder, BlockFits, Leads, BlockOf

(* What stays in the queue goes on after the block that is taken.            *)
LEMMA TailBlocks ==
  ASSUME TypeInv, NEW c \in DOMAIN conn, BlocksFit(c), NEW q, q = conn[c].toServer,
         q # << >>, q \in Seq(Block \cup Requested), NEW n \in Nat,
         BlockOf(q[1], n),
         RecvID(n) \in DOMAIN sdata, InfoFits(sdata[RecvID(n)]),
         q[1].block = sdata[RecvID(n)].finished + 1,
         conn'[c].toServer = Tail(q), Advanced(RecvID(n))
  PROVE  BlocksFit(c)'
<1> PICK s, z, p : s = sdata[RecvID(n)] /\ z = Size[s.file] /\ p = Tail(q)
  OBVIOUS
<1>1. s.finished \in Nat /\ z \in Nat
  BY TransferAssumption DEF InfoFits, Info
<1>2. /\ p \in Seq(Block \cup Requested) /\ 1 \in DOMAIN q
      /\ Len(q) \in Nat /\ DOMAIN q = 1 .. Len(q)
      /\ \A i \in DOMAIN p : i + 1 \in DOMAIN q /\ p[i] = q[i + 1]
      /\ DOMAIN p = 1 .. Len(p) /\ Len(p) \in Nat
  BY TailOf
<1>3. InOrder(p)
  BY InOrderTail DEF BlocksFit
<1>4. ASSUME NEW i \in DOMAIN p PROVE BlockFits(p, i)'
  <2> PICK j, m, id : j = i + 1 /\ m = q[j] /\ id = RecvID(m.id)
    OBVIOUS
  <2> SUFFICES ASSUME m.kind = "block"
               PROVE  /\ id \in DOMAIN sdata'
                      /\ m.block \in 1 .. Size[sdata'[id].file]
                      /\ Leads(p, i) => m.block = sdata'[id].finished + 1
    BY <1>2 DEF BlockFits, Leads, BlockOf
  <2>1. j \in DOMAIN q /\ j \in Nat /\ j > 1 /\ i \in Nat /\ i > 0 /\ p[i] = m
    BY <1>2
  <2>2. m.id \in Nat /\ id \in IDs
    <3>1. m.id \in Nat
      BY <2>1, MessageTypes
    <3> QED BY <3>1, FormsOf
  <2>3. /\ id \in DOMAIN sdata /\ m.block \in 1 .. Size[sdata[id].file]
        /\ Leads(q, j) => m.block = sdata[id].finished + 1
    BY <2>1 DEF BlocksFit, BlockFits
  <2>4. CASE m.id # n
    <3>1. id # RecvID(n)
      BY <2>4 DEF RecvID
    <3>2. id \in DOMAIN sdata' /\ sdata'[id] = sdata[id]
      BY <2>2, <2>3, <3>1 DEF Advanced
    <3>3. Leads(p, i) => Leads(q, j)
      <4> SUFFICES ASSUME Leads(p, i), NEW h \in 1 .. j - 1
                   PROVE  ~BlockOf(q[h], m.id)
        BY DEF Leads
      <4>1. CASE h = 1
        BY <2>4, <4>1 DEF BlockOf
      <4>2. CASE h # 1
        <5> PICK g : g = h - 1
          OBVIOUS
        <5>1. g \in 1 .. i - 1 /\ g \in DOMAIN p /\ g + 1 = h
          BY <1>2, <2>1, <4>2
        <5>2. p[g] = q[h]
          BY <1>2, <5>1
        <5> QED BY <2>1, <5>1, <5>2 DEF Leads
      <4> QED BY <4>1, <4>2
    <3> QED BY <2>3, <3>2, <3>3
  <2>5. CASE m.id = n
    <3>1. id = RecvID(n) /\ BlockOf(q[j], n) /\ q[1].kind = "block" /\ q[1].id = n
      BY <2>5 DEF BlockOf
    <3>2. /\ m.block = q[1].block + (j - 1)
          /\ \A h \in 1 .. j : BlockOf(q[h], n)
      <4>1. InOrder(q) /\ 1 \in DOMAIN q /\ j \in DOMAIN q /\ 1 < j
        BY <1>2, <2>1 DEF BlocksFit
      <4>2. BlockOf(q[j], q[1].id) /\ q[1].kind = "block" /\ q[1].id = n
        BY <3>1
      <4> QED BY <4>1, <4>2 DEF InOrder
    <3>3. m.block = s.finished + j
      <4> PICK b, f : b = q[1].block /\ f = s.finished
        OBVIOUS
      <4>1. m.block = b + (j - 1)
        BY <3>2
      <4>2. f \in Nat /\ j \in Nat /\ b = f + 1
        BY <1>1, <2>1
      <4> QED BY <4>1, <4>2
    <3>4. m.block \in 1 .. z
      BY <2>3, <3>1
    <3>5. s.finished + 1 # z
      BY <1>1, <2>1, <3>3, <3>4
    <3>6. /\ id \in DOMAIN sdata' /\ sdata'[id].file = s.file
          /\ sdata'[id].finished = s.finished + 1
      BY <3>1, <3>5 DEF Advanced
    <3>7. Leads(p, i) => i = 1
      <4> SUFFICES ASSUME Leads(p, i), i # 1 PROVE FALSE
        OBVIOUS
      <4>1. 1 \in 1 .. i - 1 /\ 1 \in DOMAIN p /\ 2 \in 1 .. j
        BY <1>2, <2>1
      <4>2. p[1] = q[2]
        BY <1>2, <4>1
      <4>3. BlockOf(q[2], n)
        BY <3>2, <4>1
      <4> QED BY <2>1, <2>5, <4>1, <4>2, <4>3 DEF Leads
    <3>8. Leads(p, i) => m.block = s.finished + 2
      BY <1>1, <2>1, <3>3, <3>7
    <3> QED BY <1>1, <3>4, <3>6, <3>8
  <2> QED BY <2>4, <2>5
<1>5. conn'[c].toServer = p
  OBVIOUS
<1> QED BY <1>3, <1>4, <1>5, NewBlocks

(* The block that the client has posted last.                                *)
LEMMA TailSends ==
  ASSUME TransferInv, NEW c \in DOMAIN conn, NEW q, q = conn[c].toServer,
         q # << >>, q \in Seq(Block \cup Requested), NEW n \in Nat,
         BlockOf(q[1], n),
         RecvID(n) \in DOMAIN sdata, InfoFits(sdata[RecvID(n)]), KeyFits(SendID(n)),
         q[1].block = sdata[RecvID(n)].finished + 1,
         conn'[c].toServer = Tail(q), conn'[c].trait = conn[c].trait,
         conn'[c].posted => conn[c].posted, data' = data, Advanced(RecvID(n))
  PROVE  SendFits(c)'
<1> SUFFICES ASSUME conn[c].posted PROVE LastFits(Tail(q), conn[c].trait)'
  BY DEF SendFits, LastFits, HasBlock, BlockOf
<1> PICK id, s : id = conn[c].trait /\ s = sdata[RecvID(n)]
  OBVIOUS
<1>1. /\ id \in IDs /\ id[2] = "send" /\ id[1] \in Nat /\ id = SendID(id[1])
      /\ Other(id) = RecvID(id[1]) /\ id \in DOMAIN data /\ InfoFits(data[id])
      /\ LastFits(q, id)
  BY Sending
<1>2. /\ HasBlock(Tail(q), id[1]) => HasBlock(q, id[1])
      /\ HasBlock(q, id[1]) => BlockOf(q[1], id[1]) \/ HasBlock(Tail(q), id[1])
      /\ Len(q) > 1 => Tail(q)[Len(Tail(q))] = q[Len(q)]
  BY HasTail
<1>3. /\ Len(q) \in Nat /\ Len(q) > 0 /\ Len(Tail(q)) = Len(q) - 1
      /\ Tail(q) \in Seq(Block \cup Requested)
  BY TailOf
<1>4. CASE id[1] # n
  <2>1. ~BlockOf(q[1], id[1])
    BY <1>4 DEF BlockOf
  <2>2. CASE HasBlock(q, id[1])
    <3>1. BlockOf(q[Len(q)], id[1]) /\ q[Len(q)].block = data[id].finished + 1
      BY <1>1, <2>2 DEF LastFits
    <3>2. Len(q) > 1
      <4>1. Len(q) # 1
        BY <2>1, <3>1
      <4> QED BY <1>3, <4>1, OneOrMore
    <3>3. HasBlock(Tail(q), id[1]) /\ Tail(q)[Len(Tail(q))] = q[Len(q)]
      BY <1>2, <2>1, <2>2, <3>2
    <3> QED BY <3>1, <3>3 DEF LastFits, HasBlock, BlockOf
  <2>3. CASE ~HasBlock(q, id[1])
    <3>1. ~HasBlock(Tail(q), id[1])
      BY <1>2, <2>3
    <3>2. RecvID(id[1]) \in IDs \ {RecvID(n)}
      BY <1>1, <1>4, FormsOf
    <3>3. /\ Other(id) \in DOMAIN sdata' <=> Other(id) \in DOMAIN sdata
          /\ Other(id) \in DOMAIN sdata => sdata'[Other(id)] = sdata[Other(id)]
      BY <1>1, <3>2 DEF Advanced
    <3>4. IF Other(id) \in DOMAIN sdata
          THEN sdata[Other(id)].finished = data[id].finished + 1
          ELSE data[id].finished + 1 = Size[data[id].file]
      BY <1>1, <2>3 DEF LastFits
    <3> QED BY <3>1, <3>3, <3>4 DEF LastFits, HasBlock, BlockOf, Other
  <2> QED BY <2>2, <2>3
<1>5. CASE id[1] = n
  <2>1. HasBlock(q, id[1]) /\ id = SendID(n) /\ Other(id) = RecvID(n)
    BY <1>1, <1>3, <1>5, TailOf DEF HasBlock, BlockOf
  <2>2. BlockOf(q[Len(q)], id[1]) /\ q[Len(q)].block = data[id].finished + 1
    BY <1>1, <2>1 DEF LastFits
  <2>3. CASE Len(q) > 1
    <3>1. Tail(q)[Len(Tail(q))] = q[Len(q)]
      BY <1>2, <2>3
    <3>2. HasBlock(Tail(q), id[1])
      <4>1. Len(Tail(q)) \in DOMAIN Tail(q)
        BY <1>3, <2>3
      <4> QED BY <2>2, <3>1, <4>1 DEF HasBlock
    <3> QED BY <2>2, <3>1, <3>2 DEF LastFits, HasBlock, BlockOf
  <2>4. CASE ~(Len(q) > 1)
    <3>1. Len(q) = 1
      BY <1>3, <2>4, OneOrMore
    <3>2. Tail(q) = << >>
      BY <3>1, NoneLeft
    <3>3. ~HasBlock(Tail(q), id[1])
      BY <3>2 DEF HasBlock
    <3>4. s.finished + 1 = data[id].finished + 1 /\ s.file = data[id].file
      BY <1>1, <2>1, <2>2, <3>1 DEF KeyFits
    <3>5. s.finished \in Nat /\ data[id].finished \in Nat
      BY <1>1 DEF InfoFits, Info
    <3>6. IF s.finished + 1 = Size[s.file] THEN RecvID(n) \notin DOMAIN sdata'
          ELSE /\ RecvID(n) \in DOMAIN sdata'
               /\ sdata'[RecvID(n)].finished = s.finished + 1
      BY DEF Advanced
    <3>7. IF Other(id) \in DOMAIN sdata'
          THEN sdata'[Other(id)].finished = data[id].finished + 1
          ELSE data[id].finished + 1 = Size[data[id].file]
      BY <2>1, <3>4, <3>6
    <3> QED BY <3>3, <3>7 DEF LastFits, HasBlock, BlockOf, Other
  <2> QED BY <2>3, <2>4
<1> QED BY <1>4, <1>5

(* An end of a connection at the server but for what it is serving.          *)
SameEnd(r, c) ==
  /\ r \in Connection /\ r.up = conn[c].up /\ r.trait = conn[c].trait
  /\ r.pends = conn[c].pends /\ r.posted = conn[c].posted

Accepted(c, id) == [Direct(conn[c], id) EXCEPT !.toServer = Tail(@)]

(* A connection that is listed as free keeps its messages, ...               *)
LEMMA ListedEnd ==
  ASSUME NEW end \in Connection, NEW r, r = Listed(end)
  PROVE  /\ r \in Connection /\ r.up = end.up /\ r.trait = end.trait
         /\ r.pends = end.pends /\ r.posted = end.posted
         /\ r.toServer = end.toServer /\ r.toClient = end.toClient
         /\ r.strait = end.strait /\ r.sposted = end.sposted
BY SMTT(30) DEF Listed, Connection

(* ... so does one that is directed to its transfer, ...                     *)
LEMMA DirectEnd ==
  ASSUME NEW end \in Connection, NEW id \in IDs, NEW r, r = Direct(end, id)
  PROVE  /\ r \in Connection /\ r.up = end.up /\ r.trait = end.trait
         /\ r.pends = end.pends /\ r.posted = end.posted
         /\ r.toServer = end.toServer /\ r.toClient = end.toClient
         /\ r.sposted = end.sposted
         /\ r.strait = IF sdata[id].transmitting THEN end.strait ELSE id
<1>1. CASE sdata[id].transmitting
  BY <1>1 DEF Direct
<1>2. CASE ~sdata[id].transmitting
  BY <1>2 DEF Direct, Connection
<1> QED BY <1>1, <1>2

AcceptedAs(r, c, q) ==
  /\ SameEnd(r, c) /\ r.toServer = Tail(q)
  /\ r.toClient = conn[c].toClient /\ r.sposted = conn[c].sposted

(* ... and one that has got a block loses only that.                         *)
LEMMA AcceptedEnd ==
  ASSUME TypeInv, NEW c \in DOMAIN conn, NEW id \in IDs,
         NEW q, q = conn[c].toServer, q # << >>, NEW r, r = Accepted(c, id)
  PROVE  AcceptedAs(r, c, q)
<1> PICK end : end = Direct(conn[c], id)
  OBVIOUS
<1>1. conn[c] \in Connection /\ Tail(q) \in Seq(Block \cup Requested)
  BY ConnTypes, TailOf
<1>2. /\ end \in Connection /\ end.up = conn[c].up /\ end.trait = conn[c].trait
      /\ end.pends = conn[c].pends /\ end.posted = conn[c].posted
      /\ end.toServer = conn[c].toServer /\ end.toClient = conn[c].toClient
      /\ end.sposted = conn[c].sposted
  BY <1>1, DirectEnd
<1>3. r = [end EXCEPT !.toServer = Tail(q)]
  BY <1>2 DEF Accepted
<1> QED BY <1>1, <1>2, <1>3 DEF Connection, SameEnd, AcceptedAs

(* It is the only connection that changes.                                   *)
LEMMA SameEndOne ==
  ASSUME TypeInv, NEW c \in DOMAIN conn, NEW r, SameEnd(r, c),
         conn' = [conn EXCEPT ![c] = r]
  PROVE  OneConn(c, r) /\ conn'[c] = r /\ DOMAIN conn' = DOMAIN conn
<1>1. OneConn(c, r)
  <2>1. IF conn[c].up THEN conn[c].trait \in IDs
        ELSE conn[c].trait = NoID /\ conn[c].pends \in IDs
    BY DEF TypeInv
  <2>2. /\ r \in Connection /\ r.up = conn[c].up /\ r.trait = conn[c].trait
        /\ r.pends = conn[c].pends
    BY DEF SameEnd
  <2> QED BY <2>1, <2>2 DEF OneConn
<1> QED BY <1>1, OneConnChanges

(* What it takes from the queue leaves the connection fit.                   *)
LEMMA ArrivedFits ==
  ASSUME TransferInv, NEW c \in DOMAIN conn, NEW q, q = conn[c].toServer,
         q # << >>, q[1].kind = "block", NEW n, n = q[1].id, conn[c].sposted = 0,
         Advanced(RecvID(n)), data' = data, transmitting' = transmitting,
         NEW r, SameEnd(r, c), r.toServer = Tail(q), r.toClient = conn[c].toClient,
         r.sposted = 0, conn'[c] = r, c \in DOMAIN conn'
  PROVE  ConnFits(c)' /\ SameUsers(c)
<1>0. PICK id, rid : id = SendID(n) /\ rid = RecvID(n)
  OBVIOUS
<1>1. TypeInv /\ ConnFits(c)
  BY DEF TransferInv
<1>2. /\ n \in Nat /\ id \in IDs /\ BlockOf(q[1], n)
      /\ q \in Seq(Block \cup Requested)
      /\ rid \in DOMAIN sdata /\ InfoFits(sdata[rid]) /\ KeyFits(id)
      /\ q[1].block = sdata[rid].finished + 1
  <2>1. Arrives(c, q, n)
    BY Arriving
  <2> QED BY <1>0, <2>1, FormsOf DEF Arrives
<1>5. /\ conn'[c].toServer = Tail(q) /\ conn'[c].toClient = conn[c].toClient
      /\ conn'[c].sposted = 0 /\ conn[c].sposted = 0 /\ conn'[c].up = conn[c].up
      /\ conn'[c].trait = conn[c].trait /\ conn'[c].posted = conn[c].posted
  BY DEF SameEnd
<1>3. (Active(c)' <=> Active(c)) /\ SameUsers(c)
  BY <1>5 DEF Active, SameUsers
<1>6. ActiveFits(c)'
  BY <1>1, <1>3, <1>5 DEF ConnFits, ActiveFits
<1>7. BlocksFit(c)'
  BY <1>0, <1>1, <1>2, <1>5, TailBlocks DEF ConnFits
<1>8. SendFits(c)'
  BY <1>0, <1>2, <1>5, TailSends
<1>9. GetFits(c)'
  <2> PICK p, x : p = Tail(q) /\ x = conn[c].trait
    OBVIOUS
  <2>1. ASSUME NEW i \in DOMAIN p, p[i].kind = "get"
        PROVE  /\ i = Len(p) /\ Active(c)' /\ x = RecvID(p[i].id)
               /\ Unsent(x)' /\ Unserved(x)' /\ conn[c].toClient = << >>
    <3> PICK j : j = i + 1
      OBVIOUS
    <3>1. /\ j \in DOMAIN q /\ p[i] = q[j] /\ Len(p) = Len(q) - 1
          /\ i \in Nat /\ Len(q) \in Nat
      BY <1>2, TailOf
    <3>2. /\ j = Len(q) /\ Active(c) /\ x = RecvID(q[j].id)
          /\ Unsent(x) /\ Unserved(x) /\ conn[c].toClient = << >>
      BY <1>1, <2>1, <3>1 DEF ConnFits, GetFits
    <3>3. i = Len(p)
      BY <3>1, <3>2
    <3>4. q[j].id \in Nat
      BY <1>1, <3>1, MessageTypes
    <3>5. Other(x) = SendID(q[j].id) /\ Other(x) \in IDs /\ Other(x) # rid
      <4> PICK k : k = q[j].id
        OBVIOUS
      <4>1. k \in Nat /\ x = RecvID(k)
        BY <3>2, <3>4
      <4>2. Other(x) = SendID(k) /\ SendID(k) \in IDs /\ SendID(k)[2] = "send"
        BY <4>1, FormsOf
      <4>3. rid[2] = "recv"
        BY <1>0, <1>2, FormsOf, Zenon
      <4> QED BY <4>2, <4>3
    <3>6. Unserved(x)'
      BY <1>0, <3>2, <3>5 DEF Unserved, Advanced, Other
    <3>7. Unsent(x)'
      BY <3>2 DEF Unsent
    <3> QED BY <1>3, <3>1, <3>2, <3>3, <3>6, <3>7
  <2>2. /\ conn'[c].toServer = p /\ conn'[c].trait = x
        /\ conn'[c].toClient = conn[c].toClient
    BY <1>5
  <2> QED BY <2>1, <2>2 DEF GetFits, Unsent, Unserved, Other
<1>10. ServeFits(c)'
  BY <1>5 DEF ServeFits
<1>11. ComeFits(c)'
  BY <1>1, <1>3, <1>5 DEF ConnFits, ComeFits
<1> QED BY <1>3, <1>6, <1>7, <1>8, <1>9, <1>10, <1>11 DEF ConnFits

(* A block of a file of the client arrives.                                  *)
LEMMA ServerRecvFileKeeps ==
  ASSUME TransferInv, Prompt = TRUE, NEW c \in DOMAIN conn, ServerRecvFile(c)
  PROVE  TransferInv'
<1>a. PICK q, n : q = conn[c].toServer /\ n = q[1].id
  OBVIOUS
<1>b. PICK id, rid : id = SendID(n) /\ rid = RecvID(n)
  OBVIOUS
<1>1. TypeInv /\ PostTransmitWhenDone /\ ConnFits(c) /\ q # << >>
  BY <1>a DEF TransferInv, ServerRecvFile
<1>2. q \in Seq(Block \cup Requested) /\ Head(q) = q[1]
  BY <1>1, <1>a, ConnTypes, TailOf
<1>3. q[1].kind = "block" /\ conn[c].sposted = 0
  BY <1>2, <1>a DEF ServerRecvFile
<1>4. /\ n \in Nat /\ id \in IDs /\ id[1] = n /\ id[2] = "send" /\ Other(id) = rid
      /\ BlockOf(q[1], n)
      /\ rid \in DOMAIN sdata /\ InfoFits(sdata[rid]) /\ KeyFits(id)
      /\ q[1].block = sdata[rid].finished + 1 /\ ServedApart(c, id)
      /\ \A w, k : Bears(w, k, id) => w = "conn"
  <2>1. Arrives(c, q, n)
    BY <1>1, <1>3, <1>a, Arriving
  <2> QED BY <1>b, <2>1, FormsOf DEF Arrives
<1>6. rid \in IDs /\ rid[2] = "recv"
  BY <1>4, <1>b, FormsOf
<1>c. PICK s, info, end :
      /\ s = Started(sdata[rid]) /\ info = Write(s, s.finished + 1)
      /\ end = Accepted(c, rid)
  OBVIOUS
<1>7. /\ InfoFits(s) /\ s.file = sdata[rid].file /\ s.finished = sdata[rid].finished
      /\ info.file = s.file /\ info.finished = s.finished + 1
      /\ ~IsFinished(info) => InfoFits(info)
      /\ IsFinished(info) => Whole(info)
  <2>1. InfoFits(s) /\ s.file = sdata[rid].file /\ s.finished = sdata[rid].finished
    BY <1>4, <1>c, StartedFits
  <2> QED BY <1>c, <2>1, WroteNext
<1>8. /\ GoOn(c, rid, info, end, end)
      /\ UNCHANGED <<drawn, data, transmitting, listPeer, listWait, call,
                     toServer, toClient>>
  <2>1. /\ RecvID(Head(conn[c].toServer).id) = rid
        /\ Write(Started(sdata[rid]), Head(conn[c].toServer).block) = info
        /\ Accepted(c, rid) = end
    BY <1>2, <1>4, <1>7, <1>a, <1>b, <1>c
  <2>2. GoOn(c, rid, info, end, end)
    BY <1>4, <1>a, <2>1 DEF ServerRecvFile, Accepted
  <2>3. UNCHANGED <<drawn, data, transmitting, listPeer, listWait, call,
                    toServer, toClient>>
    BY DEF ServerRecvFile, client
  <2> QED BY <2>2, <2>3
<1>9. /\ Advanced(rid) /\ TableFits(sdata') /\ PostTransmitWhenDone'
      /\ IF IsFinished(info) THEN conn' = [conn EXCEPT ![c] = Listed(end)]
         ELSE conn' = [conn EXCEPT ![c] = end] /\ sdata'[rid] = info
  <2>1. WentOnWith(c, rid, info, end, end)
    BY <1>1, <1>4, <1>7, <1>8, WentOn
  <2> QED BY <2>1 DEF WentOnWith
<1>10. \E r : /\ SameEnd(r, c) /\ r.toServer = Tail(q)
              /\ r.toClient = conn[c].toClient /\ r.sposted = 0
              /\ conn' = [conn EXCEPT ![c] = r]
  <2>1. /\ SameEnd(end, c) /\ end.toServer = Tail(q)
        /\ end.toClient = conn[c].toClient /\ end.sposted = 0
    <3>1. AcceptedAs(end, c, q)
      BY <1>1, <1>6, <1>a, <1>c, AcceptedEnd
    <3> QED BY <1>3, <3>1 DEF AcceptedAs
  <2>2. CASE IsFinished(info)
    <3> PICK r : r = Listed(end)
      OBVIOUS
    <3>1. /\ SameEnd(r, c) /\ r.toServer = Tail(q)
          /\ r.toClient = conn[c].toClient /\ r.sposted = 0
      BY <2>1, ListedEnd DEF SameEnd
    <3> QED BY <1>9, <2>2, <3>1
  <2>3. CASE ~IsFinished(info)
    BY <1>9, <2>1, <2>3
  <2> QED BY <2>2, <2>3
<1> PICK r : /\ SameEnd(r, c) /\ r.toServer = Tail(q)
             /\ r.toClient = conn[c].toClient /\ r.sposted = 0
             /\ conn' = [conn EXCEPT ![c] = r]
  BY <1>10
<1>11. OneConn(c, r) /\ conn'[c] = r /\ DOMAIN conn' = DOMAIN conn
  BY <1>1, SameEndOne
<1>12. ServedTables(id)
  BY <1>1, <1>4, <1>8, <1>9, ServerTables
<1>13. ServedCalls(c) /\ SameCalls
  BY <1>1, <1>8, StayCalls
<1>14. ServedConn(c, id, r)
  <2>1. \A x : HasBlock(Tail(q), x) => HasBlock(q, x)
    BY <1>1, <1>2, HasTail
  <2> QED BY <1>11, <1>a, <2>1 DEF ServedConn, SameEnd
<1>15. ConnFits(c)' /\ SameUsers(c)
  BY <1>3, <1>1, <1>8, <1>9, <1>11, <1>a, <1>b, ArrivedFits
<1>17. UsedOnce(c)'
  BY <1>13, <1>15, UseStays DEF TransferInv
<1> QED BY <1>4, <1>9, <1>12, <1>13, <1>14, <1>15, <1>17, ServedStep

(* The request for a file arrives, and the first block goes out.             *)
Answering(c, s, m) ==
  [Direct(conn[c], s) EXCEPT !.toServer = Tail(@), !.sposted = @ + 1,
     !.toClient = Append(@, m)]

AnsweredAs(r, c, s, m) ==
  /\ SameEnd(r, c) /\ r.toServer = << >> /\ r.toClient = << m >>
  /\ r.sposted = 1 /\ r.strait = s

(* A connection that answers a request has its first block.                  *)
LEMMA AnsweringEnd ==
  ASSUME TypeInv, NEW c \in DOMAIN conn, NEW s \in IDs, ~sdata[s].transmitting,
         NEW m \in Block, Len(conn[c].toServer) = 1, conn[c].toClient = << >>,
         conn[c].sposted = 0, NEW r, r = Answering(c, s, m)
  PROVE  AnsweredAs(r, c, s, m)
<1> PICK end : end = Direct(conn[c], s)
  OBVIOUS
<1>1. conn[c] \in Connection /\ Tail(conn[c].toServer) = << >>
  BY ConnTypes, NoneLeft
<1>2. /\ end \in Connection /\ end.up = conn[c].up /\ end.trait = conn[c].trait
      /\ end.pends = conn[c].pends /\ end.posted = conn[c].posted
      /\ end.toServer = conn[c].toServer /\ end.toClient = conn[c].toClient
      /\ end.sposted = conn[c].sposted /\ end.strait = s
  BY <1>1, DirectEnd
<1>3. r = [end EXCEPT !.toServer = << >>, !.sposted = 1, !.toClient = << m >>]
  <2>1. /\ Tail(end.toServer) = << >> /\ end.sposted + 1 = 1
        /\ Append(end.toClient, m) = << m >>
    BY <1>1, <1>2
  <2> QED BY <2>1 DEF Answering
<1>4. << >> \in Seq(Block \cup Requested) /\ << m >> \in Seq(Block)
  OBVIOUS
<1> QED BY <1>2, <1>3, <1>4 DEF Connection, SameEnd, AnsweredAs

(* A request is for a transfer of the server that has not begun.             *)
LEMMA Asking ==
  ASSUME TransferInv, NEW c \in DOMAIN conn, NEW q, q = conn[c].toServer,
         q # << >>, q[1].kind = "get", NEW n, n = q[1].id,
         NEW id, id = RecvID(n), NEW s, s = SendID(n)
  PROVE  /\ n \in Nat /\ id \in IDs /\ id[1] = n /\ id[2] = "recv"
         /\ s \in IDs /\ s[1] = n /\ s[2] = "send" /\ Other(id) = s
         /\ Len(q) = 1 /\ Active(c) /\ conn[c].trait = id /\ ~conn[c].posted
         /\ id \in DOMAIN data /\ data[id].finished = 0
         /\ s \in DOMAIN sdata /\ sdata[s].finished = 0 /\ ~sdata[s].transmitting
         /\ InfoFits(sdata[s]) /\ KeyFits(id) /\ Whole(sdata[s])
         /\ conn[c].toClient = << >>
<1>1. ConnFits(c) /\ TypeInv
  BY DEF TransferInv
<1>2. q \in Seq(Block \cup Requested) /\ 1 \in DOMAIN q
  BY <1>1, ConnTypes, TailOf
<1>3. n \in Nat
  BY <1>1, <1>2, MessageTypes
<1>4. /\ id \in IDs /\ id[1] = n /\ id[2] = "recv" /\ Other(id) = s
      /\ s \in IDs /\ s[1] = n /\ s[2] = "send"
  BY <1>3, FormsOf
<1>5. /\ Len(q) = 1 /\ Active(c) /\ conn[c].trait = id
      /\ Unsent(id) /\ Unserved(id) /\ conn[c].toClient = << >>
  BY <1>1, <1>2 DEF ConnFits, GetFits
<1>6. ~conn[c].posted
  BY <1>1, <1>4, <1>5 DEF ConnFits, ActiveFits
<1>7. TransferFits(id)
  BY <1>4 DEF TransferInv
<1>8. /\ s \in DOMAIN sdata /\ sdata[s].finished = 0 /\ ~sdata[s].transmitting
      /\ id \in DOMAIN data /\ data[id].finished = 0
  BY <1>4, <1>5 DEF Unsent, Unserved
<1>9. KeyFits(id) /\ Whole(sdata[s])
  BY <1>4, <1>7, <1>8 DEF TransferFits, KeyFits
<1>10. InfoFits(sdata[s])
  BY <1>1, <1>8 DEF TypeInv
<1> QED BY <1>3, <1>4, <1>5, <1>6, <1>8, <1>9, <1>10

(* A transfer that a connection of the client serves is nowhere else.        *)
LEMMA OnlyServed ==
  ASSUME TransferInv, NEW c \in DOMAIN conn, NEW id \in IDs, Active(c),
         conn[c].trait = id
  PROVE  /\ \A w, k : Bears(w, k, id) => w = "conn"
         /\ \A d \in DOMAIN conn \ {c} : Active(d) => conn[d].trait # id
<1>1. Once(id) /\ Bears("conn", c, id)
  BY DEF TransferInv, TransferFits, Bears, Active
<1>2. \A w, k : Bears(w, k, id) => w = "conn" /\ k = c
  BY <1>1 DEF Once
<1>3. ASSUME NEW d \in DOMAIN conn \ {c}, Active(d) PROVE conn[d].trait # id
  BY <1>2, <1>3 DEF Active, Bears
<1> QED BY <1>2, <1>3

(* The answer is the block that the client waits for.                        *)
LEMMA RequestFits ==
  ASSUME NEW c, NEW n \in Nat, NEW id, NEW s, id = RecvID(n), s = SendID(n),
         NEW m, m.id = n, m.block = 1,
         conn'[c].toServer = << >>, conn'[c].toClient = << m >>,
         conn'[c].sposted = 1, conn'[c].strait = s, conn'[c].trait = id,
         ~conn'[c].posted, Active(c)', id \in DOMAIN data', data'[id].finished = 0,
         s \in DOMAIN sdata', sdata'[s].finished = 0, sdata'[s].transmitting
  PROVE  ConnFits(c)'
<1>1. /\ id[1] = n /\ id[2] = "recv" /\ s[1] = n /\ s[2] = "send"
      /\ RecvID(s[1]) = id /\ SendID(id[1]) = s
  BY FormsOf
<1>2. ActiveFits(c)' /\ SendFits(c)'
  BY <1>1 DEF ActiveFits, SendFits
<1>3. BlocksFit(c)' /\ GetFits(c)'
  BY DEF BlocksFit, GetFits, InOrder
<1>4. Len(<< m >>) = 1 /\ DOMAIN << m >> = {1} /\ << m >>[1] = m
  OBVIOUS
<1>5. ServeFits(c)'
  BY <1>1, <1>4 DEF ServeFits
<1>6. ComeFits(c)'
  BY <1>1, <1>4 DEF ComeFits
<1> QED BY <1>2, <1>3, <1>5, <1>6 DEF ConnFits

(* What ServerSendFile does to the connection.                               *)
LEMMA AnsweringStep ==
  ASSUME NEW c, ServerSendFile(c)
  PROVE  LET h == SendID(Head(conn[c].toServer).id)
         IN conn' = [conn EXCEPT ![c] = Answering(c, h, NextBlock(h, sdata[h]))]
BY DEF ServerSendFile, Answering

(* The server answers a request.                                             *)
LEMMA ServerSendFileKeeps ==
  ASSUME TransferInv, Prompt = TRUE, NEW c \in DOMAIN conn, ServerSendFile(c)
  PROVE  TransferInv'
<1>a. PICK q, n : q = conn[c].toServer /\ n = q[1].id
  OBVIOUS
<1>b. PICK id, s : id = RecvID(n) /\ s = SendID(n)
  OBVIOUS
<1>1. TypeInv /\ PostTransmitWhenDone /\ ConnFits(c) /\ q # << >>
  BY <1>a DEF TransferInv, ServerSendFile
<1>2. q \in Seq(Block \cup Requested) /\ Head(q) = q[1]
  BY <1>1, <1>a, ConnTypes, TailOf
<1>3. q[1].kind = "get" /\ conn[c].sposted = 0
  BY <1>2, <1>a DEF ServerSendFile
<1>4. /\ n \in Nat /\ id \in IDs /\ id[1] = n /\ id[2] = "recv"
      /\ s \in IDs /\ s[1] = n /\ s[2] = "send" /\ Other(id) = s
      /\ Len(q) = 1 /\ Active(c) /\ conn[c].trait = id /\ ~conn[c].posted
      /\ id \in DOMAIN data /\ data[id].finished = 0
      /\ s \in DOMAIN sdata /\ sdata[s].finished = 0 /\ ~sdata[s].transmitting
      /\ InfoFits(sdata[s]) /\ KeyFits(id) /\ Whole(sdata[s])
      /\ conn[c].toClient = << >>
  BY <1>1, <1>3, <1>a, <1>b, Asking
<1>c. PICK m, info : m = NextBlock(s, sdata[s]) /\ info = Started(sdata[s])
  OBVIOUS
<1>5. m \in Block /\ m.kind = "block" /\ m.id = n /\ m.block = 1
  <2>1. /\ m \in Block /\ m.kind = "block" /\ m.id = n
        /\ m.block = sdata[s].finished + 1
    BY <1>4, <1>c, NextTyped
  <2> QED BY <1>4, <2>1
<1>6. /\ InfoFits(info) /\ info.file = sdata[s].file /\ info.finished = 0
      /\ info.transmitting /\ Whole(info)
  <2>1. InfoFits(sdata[s]) /\ Whole(sdata[s]) /\ sdata[s].finished = 0
    BY <1>4
  <2> QED BY <1>c, <2>1, StartedFits
<1>7. /\ conn' = [conn EXCEPT ![c] = Answering(c, s, m)]
      /\ sdata' = [sdata EXCEPT ![s] = info]
      /\ UNCHANGED <<drawn, data, transmitting, listPeer, listWait, call,
                     toServer, toClient, received>>
  <2>1. SendID(Head(conn[c].toServer).id) = s
    BY <1>2, <1>a, <1>b
  <2>2. /\ conn' = [conn EXCEPT ![c] = Answering(c, s, m)]
        /\ sdata' = [sdata EXCEPT ![s] = info]
    <3> DEFINE h == SendID(Head(conn[c].toServer).id)
    <3>1. conn' = [conn EXCEPT ![c] = Answering(c, h, NextBlock(h, sdata[h]))]
      BY AnsweringStep
    <3>2. sdata' = [sdata EXCEPT ![h] = Started(sdata[h])]
      BY DEF ServerSendFile
    <3>3. h = s
      BY <2>1
    <3> QED BY <1>c, <3>1, <3>2, <3>3
  <2>3. UNCHANGED <<drawn, data, transmitting, listPeer, listWait, call,
                    toServer, toClient, received>>
    BY DEF ServerSendFile, client
  <2> QED BY <2>2, <2>3
<1>d. PICK r : r = Answering(c, s, m)
  OBVIOUS
<1>8. /\ SameEnd(r, c) /\ r.toServer = << >> /\ r.toClient = << m >>
      /\ r.sposted = 1 /\ r.strait = s
  <2>1. AnsweredAs(r, c, s, m)
    BY <1>1, <1>3, <1>4, <1>5, <1>a, <1>d, AnsweringEnd
  <2> QED BY <2>1 DEF AnsweredAs
<1>9. OneConn(c, r) /\ conn'[c] = r /\ DOMAIN conn' = DOMAIN conn
  BY <1>1, <1>7, <1>8, <1>d, SameEndOne
<1>10. /\ DOMAIN sdata' = DOMAIN sdata /\ sdata'[s] = info
       /\ \A x \in DOMAIN sdata : x # s => sdata'[x] = sdata[x]
  BY <1>4, <1>7
<1>11. ServedTables(id)
  <2>1. TableFits(data') /\ TableFits(sdata')
    BY <1>1, <1>6, <1>7, <1>10 DEF TypeInv, TableFits
  <2>2. OnlyEntry(id)
    <3>1. \A x \in IDs \ {id} : Other(x) \in IDs \ {s}
      BY <1>4, Forms
    <3> QED BY <1>7, <1>10, <2>1, <3>1 DEF OnlyEntry, TableFits
  <2>3. KeyFits(id)'
    BY <1>4, <1>6, <1>7, <1>10 DEF KeyFits, Drawn, Other
  <2> QED BY <1>7, <2>1, <2>2, <2>3 DEF ServedTables
<1>12. ServedCalls(c) /\ SameCalls
  <2>1. call' = call /\ listPeer' = listPeer
    BY <1>7
  <2> QED BY <1>1, <2>1, StayCalls
<1>13. ServedConn(c, id, r)
  <2>1. \A x : ~HasBlock(r.toServer, x)
    <3>1. r.toServer = << >>
      BY <1>8
    <3> QED BY <3>1 DEF HasBlock
  <2>2. /\ r.up = conn[c].up /\ r.trait = conn[c].trait /\ r.pends = conn[c].pends
        /\ r.posted = conn[c].posted
    BY <1>8 DEF SameEnd
  <2>3. r.strait = Other(id)
    BY <1>4, <1>8
  <2> QED BY <1>9, <2>1, <2>2, <2>3 DEF ServedConn
<1>14. Active(c)' /\ SameUsers(c)
  <2>1. conn'[c].up = conn[c].up /\ conn'[c].trait = conn[c].trait
    BY <1>8, <1>9 DEF SameEnd
  <2> QED BY <1>4, <1>7, <1>9, <2>1 DEF Active, SameUsers
<1>15. ServedApart(c, id)
  <2> SUFFICES ASSUME NEW d \in DOMAIN conn \ {c}
               PROVE  /\ Active(d) => conn[d].trait # id
                      /\ conn[d].sposted = 1 => conn[d].strait # s
    BY <1>4 DEF ServedApart
  <2>1. Active(d) => conn[d].trait # id
    BY <1>4, OnlyServed
  <2>2. conn[d].sposted = 1 => sdata[conn[d].strait].transmitting
    BY DEF TransferInv, ConnFits, ServeFits
  <2> QED BY <1>4, <2>1, <2>2
<1>16. ConnFits(c)'
  <2>1. /\ conn'[c].toServer = << >> /\ conn'[c].toClient = << m >>
        /\ conn'[c].sposted = 1 /\ conn'[c].strait = s
        /\ conn'[c].trait = id /\ ~conn'[c].posted
    BY <1>4, <1>8, <1>9 DEF SameEnd
  <2>2. /\ data'[id].finished = 0 /\ id \in DOMAIN data'
        /\ s \in DOMAIN sdata' /\ sdata'[s].finished = 0 /\ sdata'[s].transmitting
    BY <1>4, <1>6, <1>7, <1>10
  <2> QED BY <1>4, <1>5, <1>14, <2>1, <2>2, <1>b, RequestFits
<1>17. UsedOnce(c)'
  BY <1>12, <1>14, UseStays DEF TransferInv
<1>18. PostTransmitWhenDone'
  BY <1>1, <1>7 DEF PostTransmitWhenDone
<1>19. \A w, k : Bears(w, k, id) => w = "conn"
  BY <1>4, OnlyServed
<1> QED BY <1>4, <1>11, <1>12, <1>13, <1>15, <1>16, <1>17, <1>18, <1>19, ServedStep

(* A block of a file of the server has gone out.                             *)
Serves(c, s, id) ==
  /\ id \in IDs /\ id[1] = s[1] /\ id[2] = "recv"
  /\ s \in IDs /\ s[1] \in Nat /\ s[2] = "send" /\ s = SendID(id[1])
  /\ Other(id) = s
  /\ s \in DOMAIN sdata /\ sdata[s].transmitting /\ InfoFits(sdata[s])
  /\ KeyFits(id) /\ Whole(sdata[s])
  /\ IF id \in DOMAIN data
     THEN /\ Active(c) /\ conn[c].trait = id
          /\ data[id].finished \in Nat /\ data[id].file = sdata[s].file
          /\ data[id].finished + Len(conn[c].toClient) = sdata[s].finished + 1
     ELSE /\ conn[c].toClient = << >>
          /\ sdata[s].finished + 1 = Size[sdata[s].file]

(* A posted send of the server is for the transfer of its connection, ...    *)
LEMMA Serving ==
  ASSUME TransferInv, NEW c \in DOMAIN conn, conn[c].sposted = 1,
         NEW s, s = conn[c].strait, NEW id, id = RecvID(s[1])
  PROVE  Serves(c, s, id)
<1>1. ConnFits(c) /\ TypeInv
  BY DEF TransferInv
<1>2. /\ s \in DOMAIN sdata /\ s[2] = "send" /\ sdata[s].transmitting
      /\ IF id \in DOMAIN data
         THEN /\ Active(c) /\ conn[c].trait = id
              /\ data[id].finished + Len(conn[c].toClient) = sdata[s].finished + 1
         ELSE /\ conn[c].toClient = << >>
              /\ sdata[s].finished + 1 = Size[sdata[s].file]
  BY <1>1 DEF ConnFits, ServeFits
<1>3. s \in IDs /\ InfoFits(sdata[s])
  BY <1>1, <1>2 DEF TypeInv
<1>4. s[1] \in Nat /\ s = SendID(s[1])
  BY <1>2, <1>3, Forms
<1>5. /\ id \in IDs /\ id[1] = s[1] /\ id[2] = "recv" /\ Other(id) = s
      /\ s = SendID(id[1])
  BY <1>4, FormsOf
<1>6. KeyFits(id)
  BY <1>5 DEF TransferInv, TransferFits
<1>7. Whole(sdata[s])
  BY <1>2, <1>5, <1>6 DEF KeyFits
<1>8. id \in DOMAIN data =>
        data[id].finished \in Nat /\ data[id].file = sdata[s].file
  BY <1>1, <1>2, <1>5, <1>6 DEF KeyFits, TypeInv, InfoFits, Info
<1> QED BY <1>2, <1>3, <1>4, <1>5, <1>6, <1>7, <1>8 DEF Serves

(* ... which no other connection has.                                        *)
LEMMA ServesApart ==
  ASSUME TransferInv, NEW c \in DOMAIN conn, conn[c].sposted = 1,
         NEW s, s = conn[c].strait, NEW id, Serves(c, s, id)
  PROVE  ServedApart(c, id) /\ \A w, k : Bears(w, k, id) => w = "conn"
<1>1. /\ id \in IDs /\ id[2] = "recv" /\ Other(id) = s /\ sdata[s].transmitting
      /\ id \in DOMAIN data => Active(c) /\ conn[c].trait = id
  BY DEF Serves
<1>2. TransferFits(id) /\ ~Unserved(id)
  BY <1>1 DEF TransferInv, Unserved
<1>3. ASSUME NEW w, NEW k, Bears(w, k, id) PROVE w = "conn"
  <2>1. w # "offer"
    <3>1. \A n : SendID(n)[2] = "send"
      BY DEF SendID
    <3> QED BY <1>1, <1>3, <3>1 DEF Bears
  <2>2. w # "answer"
    BY <1>2, <1>3 DEF TransferFits, AnswerFits
  <2>3. w \notin {"thread", "pending"}
    BY <1>2, <1>3 DEF TransferFits, ReadyFits
  <2> QED BY <1>3, <2>1, <2>2, <2>3 DEF Bears
<1>4. ASSUME NEW d \in DOMAIN conn \ {c}
      PROVE  /\ Active(d) => conn[d].trait # id
             /\ conn[d].sposted = 1 => conn[d].strait # s
  <2>1. CASE id \in DOMAIN data
    BY <1>1, <2>1, OnlyServed DEF TransferInv, ServeApart
  <2>2. CASE id \notin DOMAIN data
    <3>1. Active(d) => conn[d].trait \in DOMAIN data
      BY DEF TransferInv, ConnFits, ActiveFits
    <3> QED BY <2>2, <3>1 DEF TransferInv, ServeApart
  <2> QED BY <2>1, <2>2
<1> QED BY <1>1, <1>3, <1>4 DEF ServedApart

(* What stays of the connection in both cases.                               *)
LEMMA ServesFits ==
  ASSUME TransferInv, NEW c \in DOMAIN conn,
         NEW s, NEW id, Serves(c, s, id), Advanced(s),
         data' = data, transmitting' = transmitting,
         NEW r, SameEnd(r, c), r.toServer = conn[c].toServer,
         conn'[c] = r, c \in DOMAIN conn'
  PROVE  /\ (Active(c)' <=> Active(c)) /\ SameUsers(c)
         /\ ActiveFits(c)' /\ BlocksFit(c)' /\ SendFits(c)'
<1>1. ConnFits(c) /\ TypeInv
  BY DEF TransferInv
<1>2. /\ conn'[c].toServer = conn[c].toServer /\ conn'[c].up = conn[c].up
      /\ conn'[c].trait = conn[c].trait /\ conn'[c].posted = conn[c].posted
  BY DEF SameEnd
<1>3. s[2] = "send"
  BY DEF Serves
<1>4. (Active(c)' <=> Active(c)) /\ SameUsers(c)
  BY <1>2 DEF Active, SameUsers
<1>5. ActiveFits(c)'
  BY <1>1, <1>2, <1>4 DEF ConnFits, ActiveFits
<1>6. \A n : RecvID(n) \in DOMAIN sdata =>
              RecvID(n) \in DOMAIN sdata' /\ sdata'[RecvID(n)] = sdata[RecvID(n)]
  <2> SUFFICES ASSUME NEW n, RecvID(n) \in DOMAIN sdata
               PROVE  /\ RecvID(n) \in DOMAIN sdata'
                      /\ sdata'[RecvID(n)] = sdata[RecvID(n)]
    OBVIOUS
  <2>1. RecvID(n) # s
    BY <1>3 DEF RecvID
  <2> QED BY <1>1, <2>1 DEF Advanced, TypeInv
<1>7. BlocksFit(c)'
  BY <1>1, <1>2, <1>6, BlocksStay DEF ConnFits
<1>8. SendFits(c)'
  <2> SUFFICES ASSUME conn[c].posted PROVE SendFits(c)'
    BY <1>2 DEF SendFits
  <2> PICK x, q : x = conn[c].trait /\ q = conn[c].toServer
    OBVIOUS
  <2>1. LastFits(q, x) /\ x \in IDs /\ x[2] = "send"
    BY <1>1, Sending DEF ConnFits, SendFits
  <2>2. Other(x) \in IDs /\ Other(x) # s
    BY <1>3, <2>1, Forms
  <2>3. /\ Other(x) \in DOMAIN sdata' <=> Other(x) \in DOMAIN sdata
        /\ Other(x) \in DOMAIN sdata => sdata'[Other(x)] = sdata[Other(x)]
    BY <2>2 DEF Advanced
  <2>4. LastFits(q, x)'
    BY <2>1, <2>3 DEF LastFits, HasBlock, BlockOf, Other
  <2>5. conn'[c].trait = x /\ conn'[c].toServer = q
    BY <1>2
  <2> QED BY <2>4, <2>5 DEF SendFits, LastFits, HasBlock, BlockOf, Other
<1> QED BY <1>4, <1>5, <1>7, <1>8

(* A request in the queue is for another transfer.                           *)
LEMMA ServesGets ==
  ASSUME TransferInv, NEW c \in DOMAIN conn,
         NEW s, NEW id, Serves(c, s, id), Advanced(s), data' = data,
         Active(c)' <=> Active(c), conn'[c].trait = conn[c].trait,
         conn'[c].toServer = conn[c].toServer,
         conn'[c].toClient = conn[c].toClient \/ (Active(c) /\ conn[c].trait = id)
  PROVE  GetFits(c)'
<1> PICK q, x : q = conn[c].toServer /\ x = conn[c].trait
  OBVIOUS
<1>1. ConnFits(c) /\ TypeInv
  BY DEF TransferInv
<1>2. s \in IDs /\ Other(id) = s /\ sdata[s].transmitting
  BY DEF Serves
<1>3. ASSUME NEW i \in DOMAIN q, q[i].kind = "get"
      PROVE  /\ i = Len(q) /\ Active(c)' /\ x = RecvID(q[i].id)
             /\ Unsent(x)' /\ Unserved(x)' /\ conn'[c].toClient = << >>
  <2>1. /\ i = Len(q) /\ Active(c) /\ x = RecvID(q[i].id)
        /\ Unsent(x) /\ Unserved(x) /\ conn[c].toClient = << >>
    BY <1>1, <1>3 DEF ConnFits, GetFits
  <2>2. Other(x) # s
    BY <1>2, <2>1 DEF Unserved
  <2>3. x # id
    BY <1>2, <2>2, Zenon
  <2>4. Unserved(x)'
    <3>1. /\ Other(x) \in DOMAIN sdata /\ sdata[Other(x)].finished = 0
          /\ ~sdata[Other(x)].transmitting
      BY <2>1, Zenon DEF Unserved
    <3>2. Other(x) \in DOMAIN sdata' /\ sdata'[Other(x)] = sdata[Other(x)]
      BY <1>1, <2>2, <3>1, Zenon DEF Advanced, TypeInv
    <3> QED BY <3>1, <3>2, Zenon DEF Unserved, Other
  <2>5. Unsent(x)'
    BY <2>1 DEF Unsent
  <2> QED BY <2>1, <2>3, <2>4, <2>5
<1> QED BY <1>3 DEF GetFits, Unsent, Unserved, Other

(* The last block has gone out, ...                                          *)
LEMMA DoneFits ==
  ASSUME TransferInv, NEW c \in DOMAIN conn, conn[c].sposted = 1,
         NEW s, s = conn[c].strait, NEW id, Serves(c, s, id),
         sdata[s].finished + 1 = Size[sdata[s].file],
         data' = data, Active(c)' <=> Active(c), conn'[c].trait = conn[c].trait,
         conn'[c].toClient = conn[c].toClient, conn'[c].sposted = 0
  PROVE  ServeFits(c)' /\ ComeFits(c)'
<1> PICK q, x : q = conn[c].toClient /\ x = conn[c].trait
  OBVIOUS
<1>1. ServeFits(c)'
  BY DEF ServeFits
<1>2. ASSUME q # << >>
      PROVE  /\ Active(c) /\ x[2] = "recv"
             /\ \A i \in DOMAIN q : q[i].id = x[1]
                  /\ q[i].block = data[x].finished + i
             /\ data[x].finished + Len(q) = Size[data[x].file]
  <2>1. /\ Active(c) /\ x[2] = "recv"
        /\ \A i \in DOMAIN q : q[i].id = x[1] /\ q[i].block = data[x].finished + i
    BY <1>2 DEF TransferInv, ConnFits, ComeFits
  <2>2. /\ id \in DOMAIN data /\ x = id /\ data[id].file = sdata[s].file
        /\ data[id].finished + Len(q) = sdata[s].finished + 1
    BY <1>2 DEF Serves
  <2>3. data[x].finished + Len(q) = Size[data[x].file]
    BY <2>2
  <2> QED BY <2>1, <2>3
<1>3. ComeFits(c)'
  BY <1>2 DEF ComeFits
<1> QED BY <1>1, <1>3

(* ... or the next one goes out.                                             *)
LEMMA MoreFits ==
  ASSUME TransferInv, NEW c \in DOMAIN conn,
         NEW s, s = conn[c].strait, NEW id, Serves(c, s, id), id \in DOMAIN data,
         NEW m \in Block, m.id = s[1], m.block = sdata[s].finished + 2,
         s \in DOMAIN sdata', sdata'[s].transmitting,
         sdata'[s].finished = sdata[s].finished + 1,
         data' = data, Active(c)', conn'[c].trait = conn[c].trait,
         conn'[c].toClient = Append(conn[c].toClient, m), conn'[c].sposted = 1,
         conn'[c].strait = s
  PROVE  ServeFits(c)' /\ ComeFits(c)'
<1> PICK q, p : q = conn[c].toClient /\ p = Append(q, m)
  OBVIOUS
<1>0. PICK a, b, n : a = data[id].finished /\ b = sdata[s].finished /\ n = Len(q)
  OBVIOUS
<1>1. /\ id \in IDs /\ id[1] = s[1] /\ id[2] = "recv" /\ s[2] = "send"
      /\ s = SendID(id[1]) /\ Active(c) /\ conn[c].trait = id
      /\ a \in Nat /\ a + n = b + 1
  BY <1>0 DEF Serves
<1>2. b \in Nat
  BY <1>0 DEF Serves, InfoFits, Info
<1>3. id = RecvID(s[1])
  BY <1>1, Forms
<1>4. q \in Seq(Block)
  BY ConnTypes DEF TransferInv
<1>5. /\ DOMAIN p = DOMAIN q \cup {n + 1} /\ Len(p) = n + 1 /\ n \in Nat
      /\ p[n + 1] = m /\ \A i \in DOMAIN q : p[i] = q[i]
  BY <1>0, <1>4, AppendOf
<1>6. a + (n + 1) = (b + 1) + 1 /\ a + (n + 1) = b + 2
  BY <1>1, <1>2, <1>5
<1>7. ServeFits(c)'
  <2>1. data'[id].finished + Len(p) = sdata'[s].finished + 1
    BY <1>0, <1>5, <1>6
  <2>2. conn'[c].toClient = p
    OBVIOUS
  <2> QED BY <1>1, <1>3, <2>1, <2>2 DEF ServeFits
<1>8. \A i \in DOMAIN p : p[i].id = id[1] /\ p[i].block = a + i
  <2> SUFFICES ASSUME NEW i \in DOMAIN p PROVE p[i].id = id[1] /\ p[i].block = a + i
    OBVIOUS
  <2>1. CASE i \in DOMAIN q
    <3>1. q[i].id = id[1] /\ q[i].block = a + i
      BY <1>0, <1>1, <2>1 DEF TransferInv, ConnFits, ComeFits
    <3> QED BY <1>5, <2>1, <3>1
  <2>2. CASE i = n + 1
    <3>1. m.block = b + 2 /\ b + 2 = a + (n + 1)
      BY <1>0, <1>6
    <3> QED BY <1>1, <1>5, <2>2, <3>1
  <2> QED BY <1>5, <2>1, <2>2
<1>9. ComeFits(c)'
  <2>1. conn'[c].toClient = p /\ conn'[c].trait = id /\ data'[id].finished = a
    BY <1>0, <1>1
  <2> QED BY <1>1, <1>8, <2>1 DEF ComeFits
<1> QED BY <1>7, <1>9

Done(c)    == [conn[c] EXCEPT !.sposted = @ - 1]
More(c, m) == [conn[c] EXCEPT !.toClient = Append(@, m)]

(* A connection whose last block has gone out, ...                           *)
LEMMA DoneEnd ==
  ASSUME TypeInv, NEW c \in DOMAIN conn, conn[c].sposted = 1,
         NEW r, r = Listed(Done(c))
  PROVE  /\ SameEnd(r, c) /\ r.toServer = conn[c].toServer
         /\ r.toClient = conn[c].toClient /\ r.sposted = 0
<1> PICK end : end = Done(c)
  OBVIOUS
<1>1. conn[c] \in Connection
  BY ConnTypes
<1>2. end = [conn[c] EXCEPT !.sposted = 0]
  BY DEF Done
<1>3. /\ end \in Connection /\ end.up = conn[c].up /\ end.trait = conn[c].trait
      /\ end.pends = conn[c].pends /\ end.posted = conn[c].posted
      /\ end.toServer = conn[c].toServer /\ end.toClient = conn[c].toClient
      /\ end.sposted = 0
  BY <1>1, <1>2 DEF Connection
<1> QED BY <1>3, ListedEnd DEF SameEnd

(* ... and one on which another follows.                                     *)
LEMMA MoreEnd ==
  ASSUME TypeInv, NEW c \in DOMAIN conn, NEW m \in Block, NEW r, r = More(c, m)
  PROVE  /\ SameEnd(r, c) /\ r.toServer = conn[c].toServer
         /\ r.toClient = Append(conn[c].toClient, m)
         /\ r.sposted = conn[c].sposted /\ r.strait = conn[c].strait
<1>1. conn[c] \in Connection /\ Append(conn[c].toClient, m) \in Seq(Block)
  BY ConnTypes
<1> QED BY <1>1 DEF More, Connection, SameEnd

(* The position moves over the block that has gone out.                      *)
LEMMA Increased ==
  ASSUME NEW old, InfoFits(old), Whole(old), NEW info, info = IncFinished(old)
  PROVE  /\ info.file = old.file /\ info.finished = old.finished + 1
         /\ info.transmitting = old.transmitting /\ Whole(info)
         /\ ~IsFinished(info) => InfoFits(info)
<1>1. /\ old \in Info /\ Written(old) /\ old.finished \in Nat /\ old.file \in Files
      /\ old.finished < Size[old.file]
      /\ old.content \in [1 .. Size[old.file] -> Nat]
  BY DEF InfoFits, Info
<1>2. /\ info \in Info /\ info.finished = old.finished + 1 /\ info.file = old.file
      /\ info.content = old.content /\ info.transmitting = old.transmitting
  BY <1>1 DEF IncFinished, Info
<1>3. Size[info.file] \in Nat
  BY <1>1, <1>2, TransferAssumption
<1>4. Whole(info)
  BY <1>2 DEF Whole
<1>5. ASSUME ~IsFinished(info) PROVE InfoFits(info)
  <2>1. info.finished < Size[info.file]
    BY <1>1, <1>2, <1>3, <1>5 DEF IsFinished
  <2>2. Written(info)
    BY <1>1, <1>2, <1>3, <1>4, <2>1 DEF Written, Whole
  <2> QED BY <1>1, <1>2, <2>1, <2>2 DEF InfoFits
<1> QED BY <1>2, <1>4, <1>5

(* The send of the server has completed, of the last block or not.           *)
LEMMA ServerEndTransmitKeeps ==
  ASSUME TransferInv, NEW c \in DOMAIN conn, ServerEndTransmit(c)
  PROVE  TransferInv'
<1>a. PICK s : s = conn[c].strait
  OBVIOUS
<1>b. PICK id, info : id = RecvID(s[1]) /\ info = IncFinished(sdata[s])
  OBVIOUS
<1>c. PICK m : m = NextBlock(s, info)
  OBVIOUS
<1>1. TypeInv /\ PostTransmitWhenDone
  BY DEF TransferInv
<1>2. conn[c].sposted = 1
  <2>1. conn[c].sposted > 0 /\ conn[c].sposted \in {0, 1}
    BY <1>1, ConnTypes DEF ServerEndTransmit, Connection
  <2> QED BY <2>1
<1>3. Serves(c, s, id)
  BY <1>2, <1>a, <1>b, Serving
<1>4. ServedApart(c, id) /\ \A w, k : Bears(w, k, id) => w = "conn"
  BY <1>2, <1>3, <1>a, ServesApart
<1>5. /\ id \in IDs /\ id[1] = s[1] /\ id[2] = "recv" /\ s \in IDs /\ s[2] = "send"
      /\ Other(id) = s /\ s \in DOMAIN sdata /\ sdata[s].transmitting
      /\ InfoFits(sdata[s]) /\ KeyFits(id) /\ Whole(sdata[s])
      /\ id \notin DOMAIN data => sdata[s].finished + 1 = Size[sdata[s].file]
      /\ id \in DOMAIN data => Active(c) /\ conn[c].trait = id
  BY <1>3 DEF Serves
<1>6. /\ info.file = sdata[s].file /\ info.finished = sdata[s].finished + 1
      /\ info.transmitting /\ Whole(info)
      /\ ~IsFinished(info) => InfoFits(info)
  BY <1>5, <1>b, Increased
<1>7. GoOn(c, s, info, Done(c), More(c, m))
  BY <1>a, <1>b, <1>c DEF ServerEndTransmit, Done, More
<1>8. UNCHANGED <<drawn, data, transmitting, listPeer, listWait, call,
                  toServer, toClient>>
  BY DEF ServerEndTransmit, client
<1>9. WentOnWith(c, s, info, Done(c), More(c, m))
  BY <1>1, <1>5, <1>6, <1>7, WentOn
<1>10. /\ Advanced(s) /\ TableFits(sdata') /\ PostTransmitWhenDone'
       /\ IsFinished(info) => conn' = [conn EXCEPT ![c] = Listed(Done(c))]
       /\ ~IsFinished(info) =>
            conn' = [conn EXCEPT ![c] = More(c, m)] /\ sdata'[s] = info
  BY <1>9 DEF WentOnWith
<1>11. ServedTables(id)
  <2>1. id[2] = "recv" /\ s \in DOMAIN sdata' => Whole(sdata'[s])
    <3>1. sdata[s].finished + 1 = Size[sdata[s].file] => s \notin DOMAIN sdata'
      BY <1>10 DEF Advanced
    <3>2. IsFinished(info) <=> sdata[s].finished + 1 = Size[sdata[s].file]
      BY <1>6 DEF IsFinished
    <3> QED BY <1>6, <1>10, <3>1, <3>2
  <2> QED BY <1>1, <1>5, <1>8, <1>10, <2>1, ServerTables
<1>12. ServedCalls(c) /\ SameCalls
  <2>1. call' = call /\ listPeer' = listPeer
    BY <1>8
  <2> QED BY <1>1, <2>1, StayCalls
<1>13. CASE IsFinished(info)
  <2> PICK r : r = Listed(Done(c))
    OBVIOUS
  <2>1. /\ SameEnd(r, c) /\ r.toServer = conn[c].toServer
        /\ r.toClient = conn[c].toClient /\ r.sposted = 0
    BY <1>1, <1>2, DoneEnd
  <2>2. OneConn(c, r) /\ conn'[c] = r /\ c \in DOMAIN conn'
    BY <1>1, <1>10, <1>13, <2>1, SameEndOne
  <2>3. ServedConn(c, id, r)
    BY <2>1, <2>2 DEF ServedConn, SameEnd
  <2>4. /\ (Active(c)' <=> Active(c)) /\ SameUsers(c)
        /\ ActiveFits(c)' /\ BlocksFit(c)' /\ SendFits(c)'
    BY <1>3, <1>8, <1>10, <1>a, <2>1, <2>2, ServesFits
  <2>5. /\ conn'[c].trait = conn[c].trait /\ conn'[c].toServer = conn[c].toServer
        /\ conn'[c].toClient = conn[c].toClient /\ conn'[c].sposted = 0
    BY <2>1, <2>2 DEF SameEnd
  <2>6. GetFits(c)'
    BY <1>3, <1>8, <1>10, <1>a, <2>4, <2>5, ServesGets
  <2>7. sdata[s].finished + 1 = Size[sdata[s].file]
    BY <1>6, <1>13 DEF IsFinished
  <2>8. ServeFits(c)' /\ ComeFits(c)'
    BY <1>2, <1>3, <1>8, <2>4, <2>5, <2>7, <1>a, DoneFits
  <2>9. UsedOnce(c)'
    BY <1>12, <2>4, UseStays DEF TransferInv
  <2>10. ConnFits(c)'
    BY <2>4, <2>6, <2>8 DEF ConnFits
  <2> QED BY <1>4, <1>5, <1>10, <1>11, <1>12, <2>3, <2>9, <2>10, ServedStep
<1>14. CASE ~IsFinished(info)
  <2> PICK r : r = More(c, m)
    OBVIOUS
  <2>1. sdata[s].finished + 1 # Size[sdata[s].file] /\ InfoFits(info)
    BY <1>6, <1>14 DEF IsFinished
  <2>2. id \in DOMAIN data /\ Active(c) /\ conn[c].trait = id
    BY <1>5, <2>1
  <2>3. m \in Block /\ m.id = s[1] /\ m.block = sdata[s].finished + 2
    <3>1. m \in Block /\ m.id = s[1] /\ m.block = info.finished + 1
      BY <1>5, <1>6, <1>c, <2>1, NextTyped
    <3>2. sdata[s].finished \in Nat
      BY <1>5 DEF InfoFits, Info
    <3> QED BY <1>6, <3>1, <3>2
  <2>4. /\ SameEnd(r, c) /\ r.toServer = conn[c].toServer
        /\ r.toClient = Append(conn[c].toClient, m)
        /\ r.sposted = conn[c].sposted /\ r.strait = conn[c].strait
    BY <1>1, <2>3, MoreEnd
  <2>5. OneConn(c, r) /\ conn'[c] = r /\ c \in DOMAIN conn'
    BY <1>1, <1>10, <1>14, <2>4, SameEndOne
  <2>6. ServedConn(c, id, r)
    BY <1>2, <2>4, <2>5 DEF ServedConn, SameEnd
  <2>7. /\ (Active(c)' <=> Active(c)) /\ SameUsers(c)
        /\ ActiveFits(c)' /\ BlocksFit(c)' /\ SendFits(c)'
    BY <1>3, <1>8, <1>10, <1>a, <2>4, <2>5, ServesFits
  <2>8. /\ conn'[c].trait = conn[c].trait /\ conn'[c].toServer = conn[c].toServer
        /\ conn'[c].toClient = Append(conn[c].toClient, m)
        /\ conn'[c].sposted = 1 /\ conn'[c].strait = s
    BY <1>2, <1>a, <2>4, <2>5 DEF SameEnd
  <2>9. GetFits(c)'
    BY <1>3, <1>8, <1>10, <1>a, <2>2, <2>7, <2>8, ServesGets
  <2>10. /\ s \in DOMAIN sdata' /\ sdata'[s].transmitting
         /\ sdata'[s].finished = sdata[s].finished + 1
    BY <1>6, <1>10, <1>14, <2>1 DEF Advanced
  <2>11. ServeFits(c)' /\ ComeFits(c)'
    BY <1>3, <1>8, <2>2, <2>3, <2>7, <2>8, <2>10, <1>a, MoreFits
  <2>12. UsedOnce(c)'
    BY <1>12, <2>7, UseStays DEF TransferInv
  <2>13. ConnFits(c)'
    BY <2>7, <2>9, <2>11 DEF ConnFits
  <2> QED BY <1>4, <1>5, <1>10, <1>11, <1>12, <2>6, <2>12, <2>13, ServedStep
<1> QED BY <1>13, <1>14

-----------------------------------------------------------------------------
(* At the start nothing is under way.                                        *)
LEMMA TransferInit == Init => TransferInv
<1> SUFFICES ASSUME Init PROVE TransferInv
  OBVIOUS
<1>1. /\ drawn = [client |-> 0, server |-> 0]
      /\ data = << >> /\ sdata = << >> /\ transmitting = {}
      /\ listPeer = << >> /\ listWait = << >> /\ conn = << >>
      /\ toServer = << >> /\ toClient = << >> /\ received = << >>
      /\ call = [t \in Threads |-> Idle]
  BY DEF Init
<1>2. DOMAIN << >> = {} /\ \A S : << >> \in Seq(S)
  OBVIOUS
<1>3. Idle \in Caller /\ Idle.at \notin HasID /\ Idle.at \notin HasConn
  BY DEF Idle, Caller, HasID, HasConn, Nothing
<1>4. TypeInv
  <2>1. drawn \in [client : Nat, server : Nat]
    BY <1>1
  <2>2. call \in [Threads -> Caller]
          /\ \A t \in Threads : call[t].at \notin HasConn
    BY <1>1, <1>3
  <2> QED BY <1>1, <1>2, <2>1, <2>2 DEF TypeInv
<1>5. \A w, k, id : ~Bears(w, k, id)
  BY <1>1, <1>2, <1>3 DEF Bears
<1>6. ASSUME NEW id \in IDs PROVE TransferFits(id)
  <2>1. KeyFits(id)
    BY <1>1, <1>2 DEF KeyFits
  <2>2. Once(id) /\ OfferFits(id) /\ AnswerFits(id) /\ ReadyFits(id)
    BY <1>5 DEF Once, OfferFits, AnswerFits, ReadyFits
  <2> QED BY <1>5, <2>1, <2>2 DEF TransferFits
<1>7. PostTransmitWhenDone
  BY <1>1, <1>2 DEF PostTransmitWhenDone
<1>8. DOMAIN conn = {}
  BY <1>1, <1>2
<1>9. BlocksApart /\ SendsAlone /\ ServeApart
  BY <1>8 DEF BlocksApart, SendsAlone, ServeApart
<1> QED BY <1>4, <1>6, <1>7, <1>8, <1>9 DEF TransferInv

(* Every step of the client keeps the invariant: one case for each action.   *)
LEMMA ClientKeeps ==
  ASSUME TransferInv, NEW t \in Threads, Client(t)
  PROVE  TransferInv'
<1>1. CASE TestLimit(t)
  BY <1>1, TestLimitKeeps
<1>2. CASE PushWait(t)
  BY <1>2, PushWaitKeeps
<1>3. CASE Prepare(t)
  BY <1>3, PrepareKeeps
<1>4. CASE PopPeer(t)
  BY <1>4, PopPeerKeeps
<1>5. CASE PreTransmit(t)
  BY <1>5, PreTransmitKeeps
<1>6. CASE AddPending(t)
  BY <1>6, AddPendingKeeps
<1>7. CASE PushPeer(t)
  BY <1>7, PushPeerKeeps
<1>8. CASE TestWait(t)
  BY <1>8, TestWaitKeeps
<1>9. CASE PopWait(t)
  BY <1>9, PopWaitKeeps
<1>10. CASE ClientSendFile(t)
  BY <1>10, ClientSendFileKeeps
<1>11. CASE ClientRecvFile(t)
  BY <1>11, ClientRecvFileKeeps
<1>12. ASSUME NEW c \in DOMAIN conn,
              ClientSendFileFinal(t, c) \/ ClientRecvFileFinal(t, c)
       PROVE  TransferInv'
  BY <1>12, ConnectedKeeps DEF ClientSendFileFinal, ClientRecvFileFinal
<1>13. ASSUME NEW c \in DOMAIN conn, EndTransmitFile(t, c) PROVE TransferInv'
  BY <1>13, EndTransmitFileKeeps
<1>14. ASSUME NEW c \in DOMAIN conn, ClientRecvFileData(t, c) PROVE TransferInv'
  BY <1>14, ClientRecvFileDataKeeps
<1> QED
  BY <1>1, <1>2, <1>3, <1>4, <1>5, <1>6, <1>7, <1>8, <1>9, <1>10, <1>11, <1>12,
     <1>13, <1>14 DEF Client

(* So do the steps of the server, ...                                        *)
LEMMA ServerKeeps ==
  ASSUME TransferInv, Prompt = TRUE, Server
  PROVE  TransferInv'
<1>1. CASE ServerOffered
  BY <1>1, ServerOfferedKeeps
<1>2. CASE ServerAsked
  BY <1>2, ServerAskedKeeps
<1>3. ASSUME NEW c \in DOMAIN conn, ServerRecvFile(c) PROVE TransferInv'
  BY <1>3, ServerRecvFileKeeps
<1>4. ASSUME NEW c \in DOMAIN conn, ServerSendFile(c) PROVE TransferInv'
  BY <1>4, ServerSendFileKeeps
<1>5. ASSUME NEW c \in DOMAIN conn, ServerEndTransmit(c) PROVE TransferInv'
  BY <1>5, ServerEndTransmitKeeps
<1> QED BY <1>1, <1>2, <1>3, <1>4, <1>5 DEF Server

(* ... a step that changes nothing ...                                       *)
LEMMA IdleKeeps ==
  ASSUME TransferInv, UNCHANGED vars
  PROVE  TransferInv'
<1>1. UNCHANGED <<drawn, data, sdata, transmitting, listPeer, listWait, call,
                  toServer, toClient, conn, received>>
  BY DEF vars, client, net, server
<1>2. TypeInv /\ TypeInv' /\ (TypeInv' <=> TypeInv)
  BY <1>1 DEF TransferInv, TypeInv
<1>3. \A w, k, id : Bears(w, k, id)' <=> Bears(w, k, id)
  BY <1>1 DEF Bears
<1>4. \A w, k, c : Uses(w, k, c)' <=> Uses(w, k, c)
  BY <1>1 DEF Uses, Active
<1>5. OnlyBearer(NoID, 0, 0) /\ OnlyUser(0, 0)
  <2>1. /\ DOMAIN toServer \subseteq Nat /\ DOMAIN toClient \subseteq Nat
        /\ DOMAIN listPeer \subseteq Nat
        /\ drawn.client \in Nat /\ drawn.server \in Nat
    <3>1. /\ drawn \in [client : Nat, server : Nat]
          /\ listPeer \in Seq(Nat) /\ toServer \in Seq(MainToServer)
          /\ toClient \in Seq(MainToClient)
      BY <1>2 DEF TypeInv
    <3>2. \A S, q : q \in Seq(S) => DOMAIN q \subseteq Nat
      OBVIOUS
    <3> QED BY <3>1, <3>2
  <2>2. \A k \in Nat : k + 0 = k
    OBVIOUS
  <2>3. \A w, k, x : Bears(w, k, x) =>
          (w = "offer" => k \in DOMAIN toServer)
            /\ (w = "answer" => k \in DOMAIN toClient)
    BY DEF Bears
  <2>4. \A w, k, c : Uses(w, k, c) /\ w = "list" => k \in DOMAIN listPeer
    BY DEF Uses
  <2>5. OnlyBearer(NoID, 0, 0)
    BY <1>1, <1>3, <2>1, <2>2, <2>3 DEF OnlyBearer
  <2>6. OnlyUser(0, 0)
    BY <1>4, <2>1, <2>2, <2>4 DEF OnlyUser
  <2> QED BY <2>5, <2>6
<1>6. 0 \notin DOMAIN conn
  BY <1>2 DEF TypeInv
<1> QED BY <1>1, <1>2, <1>5, <1>6, QuietKeeps

(* ... and with them every step.                                             *)
LEMMA NextKeeps ==
  ASSUME Prompt = TRUE, TransferInv, [Next]_vars
  PROVE  TransferInv'
<1>1. ASSUME NEW t \in Threads, Client(t) PROVE TransferInv'
  BY <1>1, ClientKeeps
<1>2. CASE Server
  BY <1>2, ServerKeeps
<1>3. ASSUME NEW f \in Files, Ask(f) PROVE TransferInv'
  BY <1>3, AskKeeps
<1>4. CASE UNCHANGED vars
  BY <1>4, IdleKeeps
<1> QED BY <1>1, <1>2, <1>3, <1>4 DEF Next, Step

-----------------------------------------------------------------------------
(* The invariant says that a file is intact.                                 *)
LEMMA IntactInv == TransferInv => FileIntact
BY DEF TransferInv, TypeInv, InfoFits, FileIntact

(* A set with one element at most, which is there or not.                    *)
LEMMA AtMostOne ==
  ASSUME NEW S, \A x, y \in S : x = y
  PROVE  Cardinality(S) = IF S = {} THEN 0 ELSE 1
<1>1. CASE S = {}
  BY <1>1, FS_EmptySet
<1>2. CASE S # {}
  <2>1. PICK x : x \in S
    BY <1>2
  <2>2. S = {x}
    BY <2>1
  <2> QED BY <1>2, <2>2, FS_Singleton
<1> QED BY <1>1, <1>2

(* A connection is used once: four places, of which one has it.              *)
LEMMA OneUser ==
  ASSUME TransferInv, NEW c \in DOMAIN conn
  PROVE  Users(c) = 1
<1>0. PICK L, T, C :
        /\ L = {i \in DOMAIN listPeer : listPeer[i] = c}
        /\ T = {t \in Threads : /\ call[t].at \in {"transmit", "pushPeer"}
                                /\ call[t].conn = c}
        /\ C = {id \in transmitting : conn[c].trait = id}
  OBVIOUS
<1>1. UsedOnce(c) /\ TypeInv
  BY DEF TransferInv
<1>2. \A i : i \in L <=> Uses("list", i, c)
  BY <1>0 DEF Uses
<1>3. \A t : t \in T <=> Uses("thread", t, c)
  BY <1>0 DEF Uses, HasConn
<1>4. /\ C = IF Active(c) THEN {conn[c].trait} ELSE {}
      /\ Active(c) <=> Uses("conn", c, c)
  <2>1. ~conn[c].up => conn[c].trait \notin transmitting
    BY <1>1 DEF TypeInv, NoID, IDs
  <2> QED BY <1>0, <2>1 DEF Uses, Active
<1>5. ~conn[c].up <=> Uses("pending", c, c)
  BY DEF Uses
<1>6. \A w, k : Uses(w, k, c) =>
        w \in {"list", "thread", "conn", "pending"}
          /\ (w \in {"conn", "pending"} => k = c)
  BY DEF Uses
<1>7. /\ Cardinality(L) = IF L = {} THEN 0 ELSE 1
      /\ Cardinality(T) = IF T = {} THEN 0 ELSE 1
      /\ Cardinality(C) = IF C = {} THEN 0 ELSE 1
  <2>1. /\ \A x, y \in L : x = y
        /\ \A x, y \in T : x = y
        /\ \A x, y \in C : x = y
    BY <1>1, <1>2, <1>3, <1>4 DEF UsedOnce
  <2> QED BY <2>1, AtMostOne
<1>8. \/ L # {} /\ T = {} /\ C = {} /\ conn[c].up
      \/ L = {} /\ T # {} /\ C = {} /\ conn[c].up
      \/ L = {} /\ T = {} /\ C # {} /\ conn[c].up
      \/ L = {} /\ T = {} /\ C = {} /\ ~conn[c].up
  <2> PICK w, k : Uses(w, k, c)
    BY <1>1 DEF UsedOnce
  <2>1. \A v, l : Uses(v, l, c) => v = w
    BY <1>1 DEF UsedOnce
  <2>2. L # {} <=> w = "list"
    BY <1>2, <2>1
  <2>3. T # {} <=> w = "thread"
    BY <1>3, <2>1
  <2>4. C # {} <=> w = "conn"
    BY <1>4, <1>6, <2>1
  <2>5. ~conn[c].up <=> w = "pending"
    BY <1>5, <1>6, <2>1
  <2> QED BY <1>6, <2>2, <2>3, <2>4, <2>5
<1>9. Users(c) = Cardinality(L) + Cardinality(T) + Cardinality(C)
                   + (IF conn[c].up THEN 0 ELSE 1)
  BY <1>0 DEF Users
<1> QED BY <1>7, <1>8, <1>9

(* So every connection has one user.                                         *)
LEMMA OneTransferInv == TransferInv => OneTransferAtATime
BY OneUser DEF OneTransferAtATime

-----------------------------------------------------------------------------
(* The invariant holds in every state when completions are prompt.           *)
LEMMA TransferAlways ==
  ASSUME Prompt = TRUE
  PROVE  Spec => []TransferInv
<1>1. TransferInv /\ [Next]_vars => TransferInv'
  BY NextKeeps
<1> QED BY <1>1, TransferInit, PTL DEF Spec

(* A receiver has the blocks of its own file up to its position, in order,   *)
(* and all of them when it reports the file as finished: ClientRecvFileData, *)
(* ServerRecvFile and PostTransmit of I_Peer, whatever transfers share the   *)
(* connections.                                                              *)
THEOREM FileStaysIntact ==
  ASSUME Prompt = TRUE
  PROVE  Spec => []FileIntact
BY TransferAlways, IntactInv, PTL

(* A data connection is listed as free once, taken by one thread, serves one *)
(* transfer or is still being opened: BSyncPopPointer of PreTransmit() and   *)
(* BSyncPushPointer of PostTransmit() never give it to two.                  *)
THEOREM OneTransferAlways ==
  ASSUME Prompt = TRUE
  PROVE  Spec => []OneTransferAtATime
BY TransferAlways, OneTransferInv, PTL

(* EndTransmitFile of the server counts a completed send for the transfer    *)
(* that was sent: without Prompt it may count it for the next one on the same*)
(* connection, so nothing else makes it do so.                               *)
THEOREM CompletionsCountRight ==
  ASSUME Prompt = TRUE
  PROVE  Spec => []PostTransmitWhenDone
BY TransferAlways, PTL DEF TransferInv
=============================================================================

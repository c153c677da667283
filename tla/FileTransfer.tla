---------------------------- MODULE FileTransfer ----------------------------
(* Files between a client and a server: InitSendFile() and the other file   *)
(* functions of I_Peer on the tables of BClientDataPeer and BDataPeer.  An  *)
(* offer of a file, an acknowledgement, a question for a file and the reply *)
(* travel on the main connection; the blocks travel on data connections,    *)
(* which the client opens when none is free and keeps for later files.      *)
(* A step of the client is one critical section; a handler of the server,   *)
(* which shares nothing between two transfers, is one step.  What the       *)
(* application does is what the functions are made for: it answers every    *)
(* message, opens a connection for a pending transfer and begins again with *)
(* the waiting file it is notified of.                                      *)
EXTENDS Integers, Sequences, FiniteSets, SequencesExt, TLC

CONSTANTS
  Uploads, Downloads,  \* the files that the application sends and asks for
  Size,                \* Size[f]: how many blocks the file has, at least one
  IOThreads,           \* threads that take the completions of the client
  Limits,              \* values of m_nMaxSend of the client; 0 is no limit
  Prompt               \* TRUE: the completion of a send is handled before
                       \* the next message of the other side

VARIABLES
  maxSend,       \* m_nMaxSend
  asked,         \* the files the application has begun with
  drawn,         \* how many IDs NewID() has drawn on each side
  data,          \* m_mapData of the client: ID to file, position, content
  pending, transmitting, listPeer, listWait,   \* its BPeerDataInfo
  call,          \* the function a client thread runs, and its locals
  toServer, toClient,   \* messages on the main connection
  conn,          \* the data connections opened so far, with their two ends
  sdata,         \* m_mapData of the server
  received       \* history: what the receiver reports as finished

client == <<data, pending, transmitting, listPeer, listWait>>
net    == <<toServer, toClient, conn>>
server == <<drawn, sdata>>
vars   == <<maxSend, asked, drawn, client, call, net, sdata, received>>

Files   == Uploads \cup Downloads
Threads == {"user"} \cup IOThreads
Main    == 0     \* a thread reads the main connection, a data connection,
Nothing == -1    \* or nothing: a connection has one reader at a time
Idle    == [at |-> "idle", reads |-> Nothing]

(* A file has a block: BDataInfo::MapFile() does not prepare an empty one.   *)
ASSUME TransferAssumption == Size \in [Files -> Nat \ {0}]

(* BDT_ID and BDT_RECVID: the sender's and the receiver's form of an ID     *)
SendID(n) == <<n, "send">>

RecvIDMistake(n) == <<n, "send">>     \* the bit is not set

RecvID(n) == <<n, "recv">>

NoID == <<0, "none">>

At(t, place)  == call[t].at = place
Become(t, r)  == call' = [call EXCEPT ![t] = r]
Return(t)     == Become(t, Idle)
Free(reader)  == \A t \in Threads : call[t].reads # reader
Without(f, k) == [x \in DOMAIN f \ {k} |-> f[x]]
With(f, k, v) == [x \in DOMAIN f \cup {k} |-> IF x = k THEN v ELSE f[x]]

-----------------------------------------------------------------------------
(* BDataInfo: PrepareForSend() and PrepareForRecv(), Read() and Write()     *)

DataInfo(f, has) ==
  [file |-> f, finished |-> 0, transmitting |-> FALSE,
   content |-> [i \in 1..Size[f] |-> IF has THEN i ELSE 0]]

IsFinished(info) == info.finished = Size[info.file]

(* Read() leaves the position to EndTransmitFile() ...                      *)
NextBlock(id, info) ==
  [id |-> id[1], kind |-> "block", block |-> info.content[info.finished + 1]]

(* ... Write() moves it, and keeps only what fits.                          *)
Write(info, block) ==
  IF IsFinished(info) THEN info
  ELSE [info EXCEPT !.content[info.finished + 1] = block, !.finished = @ + 1]

IncFinished(info) == [info EXCEPT !.finished = @ + 1]

Init ==
  /\ maxSend \in Limits
  /\ asked = {}
  /\ drawn = [client |-> 0, server |-> 0]
  /\ data = << >> /\ sdata = << >>
  /\ pending = {} /\ transmitting = {} /\ listPeer = << >> /\ listWait = << >>
  /\ call = [t \in Threads |-> Idle]
  /\ toServer = << >> /\ toClient = << >> /\ conn = << >>
  /\ received = << >>

-----------------------------------------------------------------------------
(* The client: InitSendFile(), from the user or for a file that waited      *)

(* The application sends a file, or asks the server for one.                *)
Ask(f) ==
  /\ f \notin asked /\ At("user", "idle")
  /\ asked' = asked \cup {f}
  /\ IF f \in Uploads
     THEN /\ Become("user", [at |-> "testLimit", file |-> f, reads |-> Nothing])
          /\ UNCHANGED toServer
     ELSE /\ toServer' = Append(toServer, [kind |-> "ask", file |-> f])
          /\ UNCHANGED call
  /\ UNCHANGED <<maxSend, client, toClient, conn, server, received>>

TestLimit(t) ==
  /\ At(t, "testLimit")
  /\ Become(t, [call[t] EXCEPT !.at =
       IF maxSend # 0 /\ Cardinality(transmitting) >= maxSend
       THEN "pushWait" ELSE "prepare"])
  /\ UNCHANGED <<client, net, server, received>>

PushWait(t) ==
  /\ At(t, "pushWait")
  /\ listWait' = Append(listWait, call[t].file)
  /\ Return(t)
  /\ UNCHANGED <<data, pending, transmitting, listPeer, net, server, received>>

(* The ID is drawn and the file offered to the server with it.              *)
Prepare(t) ==
  LET n == drawn.client + 1
      f == call[t].file
  IN /\ At(t, "prepare")
     /\ drawn' = [drawn EXCEPT !.client = n]
     /\ data' = With(data, SendID(n), DataInfo(f, TRUE))
     /\ toServer' = Append(toServer, [kind |-> "offer", id |-> n, file |-> f])
     /\ Return(t)
     /\ UNCHANGED <<pending, transmitting, listPeer, listWait, toClient, conn,
                    sdata, received>>

-----------------------------------------------------------------------------
(* The client: a data connection for a transfer that is prepared            *)

(* BeginTransmitFile(): the block at the position of the transfer is sent.  *)
BeginTransmitFile(c, id) ==
  [conn[c] EXCEPT !.posted = TRUE, !.toServer = Append(@, NextBlock(id, data[id]))]

(* A receiver sends the request for the file instead.                       *)
Request(c, id) ==
  [conn[c] EXCEPT !.toServer = Append(@, [id |-> id[1], kind |-> "get"])]

Begin(c, id) ==
  IF id[2] = "send" THEN BeginTransmitFile(c, id) ELSE Request(c, id)

(* Transmit(), and what PreTransmit() does for a connection it has popped   *)
StartTransmit(c, id) ==
  /\ pending' = pending \ {id}
  /\ transmitting' = transmitting \cup {id}
  /\ conn' = [conn EXCEPT ![c] =
       [Begin(c, id) EXCEPT !.trait = id, !.up = TRUE, !.pends = NoID]]

Message(t, kind) ==
  /\ At(t, "idle") /\ toClient # << >> /\ Head(toClient).kind = kind
  /\ Free(Main)
  /\ toClient' = Tail(toClient)
  /\ UNCHANGED <<pending, transmitting, listPeer, listWait, toServer, conn,
                 server, received>>

ToPreTransmit(t, id) == Become(t, [at |-> "popPeer", id |-> id, reads |-> Main])

(* An acknowledged file is sent.                                            *)
ClientSendFile(t) ==
  /\ Message(t, "ack")
  /\ ToPreTransmit(t, SendID(Head(toClient).id))
  /\ UNCHANGED data

(* A file that was asked for is prepared with InitRecvFile() and requested. *)
ClientRecvFile(t) ==
  LET m == Head(toClient)
  IN /\ Message(t, "reply")
     /\ ToPreTransmit(t, RecvID(m.id))
     /\ data' = With(data, RecvID(m.id), DataInfo(m.file, FALSE))

(* PreTransmit(): a free connection is taken ...                            *)
PopPeerMistake(t) ==     \* BSyncPeekPointer: the connection stays listed
  /\ At(t, "popPeer")
  /\ Become(t, IF listPeer = << >> THEN [call[t] EXCEPT !.at = "open"]
               ELSE [at |-> "transmit", id |-> call[t].id, reads |-> Main,
                     conn |-> Head(listPeer)])
  /\ UNCHANGED <<client, net, server, received>>

PopPeer(t) ==
  /\ At(t, "popPeer")
  /\ IF listPeer = << >>
     THEN Become(t, [call[t] EXCEPT !.at = "open"]) /\ UNCHANGED listPeer
     ELSE /\ Become(t, [at |-> "transmit", id |-> call[t].id, reads |-> Main,
                        conn |-> Head(listPeer)])
          /\ listPeer' = Tail(listPeer)
  /\ UNCHANGED <<data, pending, transmitting, listWait, net, server, received>>

PreTransmit(t) ==
  /\ At(t, "transmit")
  /\ StartTransmit(call[t].conn, call[t].id)
  /\ Return(t)
  /\ UNCHANGED <<data, listPeer, listWait, toServer, toClient, server, received>>

(* ... or the transfer is left pending and the application opens one.       *)
AddPending(t) ==
  /\ At(t, "open")
  /\ pending' = pending \cup {call[t].id}
  /\ conn' = Append(conn,
       [pends |-> call[t].id, up |-> FALSE, trait |-> NoID, posted |-> FALSE,
        toServer |-> << >>, toClient |-> << >>,
        strait |-> NoID, sposted |-> 0, slisted |-> 0])
  /\ Return(t)
  /\ UNCHANGED <<data, transmitting, listPeer, listWait, toServer, toClient,
                 server, received>>

(* The application goes on when the connection it has opened is up.         *)
Connected(t, c, form) ==
  /\ At(t, "idle") /\ ~conn[c].up /\ conn[c].pends[2] = form
  /\ StartTransmit(c, conn[c].pends)
  /\ UNCHANGED <<data, listPeer, listWait, call, toServer, toClient, server,
                 received>>

ClientSendFileFinal(t, c) == Connected(t, c, "send")
ClientRecvFileFinal(t, c) == Connected(t, c, "recv")

-----------------------------------------------------------------------------
(* The client: the blocks, and PostTransmit() after the last one            *)

(* The end of a transfer up to GetTransmitting(); the thread goes on with   *)
(* PushPeer().                                                              *)
Finish(t, c, id, reads) ==
  /\ data' = Without(data, id)
  /\ transmitting' = transmitting \ {id}
  /\ Become(t, [at |-> "pushPeer", conn |-> c, reads |-> reads])

EndTransmitFile(t, c) ==
  LET id   == conn[c].trait
      info == IncFinished(data[id])
  IN /\ At(t, "idle") /\ conn[c].posted
     /\ IF IsFinished(info)
        THEN /\ Finish(t, c, id, Nothing)
             /\ conn' = [conn EXCEPT ![c].posted = FALSE]
        ELSE /\ data' = [data EXCEPT ![id] = info]
             /\ conn' = [conn EXCEPT ![c].toServer =
                                       Append(@, NextBlock(id, info))]
             /\ UNCHANGED <<transmitting, call>>
     /\ UNCHANGED <<pending, listPeer, listWait, toServer, toClient, server,
                    received>>

ClientRecvFileData(t, c) ==
  LET m    == Head(conn[c].toClient)
      id   == RecvID(m.id)
      info == Write(data[id], m.block)
  IN /\ At(t, "idle") /\ conn[c].toClient # << >> /\ Free(c)
     /\ conn' = [conn EXCEPT ![c].toClient = Tail(@)]
     /\ IF id \notin DOMAIN data THEN UNCHANGED <<data, transmitting, call, received>>
        ELSE IF IsFinished(info)
        THEN /\ Finish(t, c, id, c)
             /\ received' = With(received, info.file, info.content)
        ELSE /\ data' = [data EXCEPT ![id] = info]
             /\ UNCHANGED <<transmitting, call, received>>
     /\ UNCHANGED <<pending, listPeer, listWait, toServer, toClient, server>>

PushPeer(t) ==
  /\ At(t, "pushPeer")
  /\ listPeer' = Append(listPeer, call[t].conn)
  /\ Become(t, [at |-> "testWait", reads |-> call[t].reads])
  /\ UNCHANGED <<data, pending, transmitting, listWait, net, server, received>>

TestWaitMistake(t) ==     \* the waiting list is not looked at
  /\ At(t, "testWait")
  /\ Return(t)
  /\ UNCHANGED <<client, net, server, received>>

TestWait(t) ==
  /\ At(t, "testWait")
  /\ IF listWait = << >> THEN Return(t)
     ELSE Become(t, [call[t] EXCEPT !.at = "popWait"])
  /\ UNCHANGED <<client, net, server, received>>

PopWaitMistake(t) ==     \* NotifyFileNext() is not given the file
  /\ At(t, "popWait")
  /\ listWait' = IF listWait = << >> THEN << >> ELSE Tail(listWait)
  /\ Return(t)
  /\ UNCHANGED <<data, pending, transmitting, listPeer, net, server, received>>

(* Another thread may have taken the last one by now.                       *)
PopWait(t) ==
  /\ At(t, "popWait")
  /\ IF listWait = << >> THEN Return(t) /\ UNCHANGED listWait
     ELSE /\ listWait' = Tail(listWait)
          /\ Become(t, [at |-> "testLimit", file |-> Head(listWait),
                        reads |-> call[t].reads])
  /\ UNCHANGED <<data, pending, transmitting, listPeer, net, server, received>>

Client(t) ==
  \/ TestLimit(t) \/ PushWait(t) \/ Prepare(t)
  \/ PopPeer(t) \/ PreTransmit(t) \/ AddPending(t)
  \/ PushPeer(t) \/ TestWait(t) \/ PopWait(t)
  \/ /\ t \in IOThreads
     /\ \/ ClientSendFile(t) \/ ClientRecvFile(t)
        \/ \E c \in DOMAIN conn :
             \/ ClientSendFileFinal(t, c) \/ EndTransmitFile(t, c)
             \/ ClientRecvFileFinal(t, c) \/ ClientRecvFileData(t, c)

-----------------------------------------------------------------------------
(* The server                                                               *)

(* InitRecvFile() for an offer, which is acknowledged ...                   *)
ServerOffered ==
  LET m == Head(toServer)
  IN /\ toServer # << >> /\ m.kind = "offer"
     /\ toServer' = Tail(toServer)
     /\ sdata' = With(sdata, RecvID(m.id), DataInfo(m.file, FALSE))
     /\ toClient' = Append(toClient, [kind |-> "ack", id |-> m.id])
     /\ UNCHANGED <<drawn, client, call, conn, received>>

(* ... and InitSendFile() for a file that is asked for: the server draws an *)
(* ID of its own.                                                           *)
ServerAsked ==
  LET m == Head(toServer)
      n == drawn.server + 1
  IN /\ toServer # << >> /\ m.kind = "ask"
     /\ toServer' = Tail(toServer)
     /\ drawn' = [drawn EXCEPT !.server = n]
     /\ sdata' = With(sdata, SendID(n), DataInfo(m.file, TRUE))
     /\ toClient' = Append(toClient, [kind |-> "reply", id |-> n, file |-> m.file])
     /\ UNCHANGED <<client, call, conn, received>>

(* TransmitDirectly(): only the first message of a transfer sets m_traitVal *)
Direct(end, id) == IF sdata[id].transmitting THEN end ELSE [end EXCEPT !.strait = id]
Started(info)   == [info EXCEPT !.transmitting = TRUE]

(* After a block: PostTransmit() erases a finished transfer and lists its   *)
(* connection as free (the server never takes one from that list), and the  *)
(* application learns of it; otherwise the connection goes on as "more".    *)
GoOn(c, id, info, end, more) ==
  IF IsFinished(info)
  THEN /\ sdata' = Without(sdata, id)
       /\ conn' = [conn EXCEPT ![c] = [end EXCEPT !.slisted = @ + 1]]
       /\ received' = IF id[2] = "send" THEN received
                      ELSE With(received, info.file, info.content)
  ELSE /\ sdata' = [sdata EXCEPT ![id] = info]
       /\ conn' = [conn EXCEPT ![c] = more]
       /\ UNCHANGED received

Drop(c) ==
  /\ conn' = [conn EXCEPT ![c].toServer = Tail(@)]
  /\ UNCHANGED <<sdata, received>>

ServerRecvFile(c) ==
  LET m   == Head(conn[c].toServer)
      id  == RecvID(m.id)
      end == [Direct(conn[c], id) EXCEPT !.toServer = Tail(@)]
  IN /\ conn[c].toServer # << >> /\ m.kind = "block"
     /\ Prompt => conn[c].sposted = 0
     /\ IF id \notin DOMAIN sdata THEN Drop(c)
        ELSE GoOn(c, id, Write(Started(sdata[id]), m.block), end, end)
     /\ UNCHANGED <<drawn, client, call, toServer, toClient>>

ServerSendFile(c) ==
  LET m  == Head(conn[c].toServer)
      id == SendID(m.id)
  IN /\ conn[c].toServer # << >> /\ m.kind = "get"
     /\ Prompt => conn[c].sposted = 0
     /\ conn' = [conn EXCEPT ![c] =
          [Direct(conn[c], id) EXCEPT !.toServer = Tail(@), !.sposted = @ + 1,
             !.toClient = Append(@, NextBlock(id, sdata[id]))]]
     /\ sdata' = [sdata EXCEPT ![id] = Started(@)]
     /\ UNCHANGED <<drawn, client, call, toServer, toClient, received>>

(* EndTransmitFile() of the server works on what m_traitVal points to now;  *)
(* when that was deleted what it does is undefined and it has no step.      *)
ServerEndTransmit(c) ==
  LET id   == conn[c].strait
      info == IncFinished(sdata[id])
  IN /\ conn[c].sposted > 0 /\ id \in DOMAIN sdata
     /\ GoOn(c, id, info, [conn[c] EXCEPT !.sposted = @ - 1],
             [conn[c] EXCEPT !.toClient = Append(@, NextBlock(id, info))])
     /\ UNCHANGED <<drawn, client, call, toServer, toClient>>

Server ==
  \/ ServerOffered \/ ServerAsked
  \/ \E c \in DOMAIN conn :
       ServerRecvFile(c) \/ ServerSendFile(c) \/ ServerEndTransmit(c)

Step == /\ (\E t \in Threads : Client(t)) \/ Server
        /\ UNCHANGED <<maxSend, asked>>

Next == Step \/ \E f \in Files : Ask(f)

Spec == Init /\ [][Next]_vars

(* Every step moves a file forward and none can be repeated without end:    *)
(* fair threads and a fair network are weak fairness of the steps together. *)
FairSpec == Spec /\ WF_vars(Step)

-----------------------------------------------------------------------------
(* Properties                                                               *)

Written(info) == \A i \in 1..info.finished : info.content[i] = i

(* "Call this function when transmitting is done" (PostTransmit): the       *)
(* receiver has every block of a file that it reports as finished.          *)
PostTransmitWhenDone ==
  \A f \in DOMAIN received : \A i \in 1..Size[f] : received[f][i] = i

(* A receiver has the blocks of its own file up to its position, in order,  *)
(* whatever transfers share the IDs and the connections, and every block    *)
(* in the end; with Prompt completions of the server's sends.               *)
FileIntact ==
  /\ \A id \in DOMAIN data : Written(data[id])
  /\ \A id \in DOMAIN sdata : Written(sdata[id])
  /\ PostTransmitWhenDone

(* A data connection serves one transfer at a time: it is listed as free    *)
(* once, and only when no transfer and no thread has it.                    *)
Users(c) ==
  Cardinality({i \in DOMAIN listPeer : listPeer[i] = c})
    + Cardinality({t \in Threads : /\ call[t].at \in {"transmit", "pushPeer"}
                                   /\ call[t].conn = c})
    + Cardinality({id \in transmitting : conn[c].trait = id})
    + (IF conn[c].up THEN 0 ELSE 1)

OneTransferAtATime == \A c \in DOMAIN conn : Users(c) = 1

(* Every file that is begun with is received in the end, unless it was put  *)
(* on the waiting list when no transfer was left that would look there.     *)
Stranded(f) == /\ f \in Range(listWait) /\ transmitting = {} /\ pending = {}
               /\ \A t \in Threads : At(t, "idle")

TransferEnds ==
  \A f \in Files : f \in asked ~> f \in DOMAIN received \/ Stranded(f)

(* A file that waits while another is transmitting is begun again.          *)
WaitersServed ==
  \A f \in Uploads :
    f \in Range(listWait) /\ transmitting # {} ~> f \notin Range(listWait)
============================================================================

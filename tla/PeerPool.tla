------------------------------ MODULE PeerPool ------------------------------
(* Where the peers of a BNetIOExecutionUnit are (Windows build): the tables *)
(* of clients and servers, the peers and pending accepts of each server,    *)
(* and the two lists of closed peers from which the next connection takes   *)
(* its peer.  A step is one critical section or one call of the system.     *)
(* Reads of data, writes and reference counts are in module Peer; servers   *)
(* of data connections are left out.  An aborted completion changes nothing *)
(* and is no step.  A thread that would use a deleted server has no further *)
(* step: what the code does then is undefined.                              *)
EXTENDS Integers, Sequences, FiniteSets, FiniteSetsExt

CONSTANTS
  Users, IOThreads,
  Cookies,       \* keys of m_clients
  Accepts,       \* ncc.nAccepts
  MaxPeers, MaxServers,
  MaxCalls, MaxEvents, MaxFailures    \* bounds: objects, calls of the
                 \* application, these and the completions together, and
                 \* calls that fail

AllThreads == Users \cup IOThreads

(* A cleared peer has the id 0 (I_Peer::Clear()), which the proofs take for *)
(* no cookie.  CreateKey_RandomNumber() draws any unsigned int; its one draw *)
(* of 0 is left out.                                                        *)
ConstantsAllowed == 0 \notin Cookies /\ Accepts \in Nat

VARIABLES
  peer,          \* the peers created so far
  passive,       \* m_listPassiveClosed
  proactive,     \* m_listProactiveClosed
  clients,       \* m_clients: the peer of a cookie, or 0
  servers,       \* m_servers: the cookies, which number the servers
  server,        \* the server objects created so far
  call,          \* what a thread is doing, and its locals
  raced,         \* history: peers that two threads have handled at a time
  overlapped,    \* history: servers closed while another thread handled them
  strayed,       \* history: peers of such a server, and those given a cookie
                 \* that another peer still carried
  lost,          \* history: accepts of a server that failed
  abandoned,     \* history: peers whose CreateAccept() failed
  failures,      \* how many calls have failed,
  calls, events  \* the application has made, and completions were taken

lists   == <<passive, proactive>>
tables  == <<clients, servers>>
history == <<lost, abandoned, failures>>
vars    == <<peer, lists, tables, server, call, raced, overlapped, strayed,
             history, calls, events>>

None == 0
Idle == [at |-> "idle", peer |-> None, srv |-> None, listen |-> None,
         more |-> 0, then |-> "idle", to |-> "proactive"]

(* A new BPeer; srv stands for m_pServer and m_nServerID, op for the one    *)
(* overlapped operation that is pending.                                    *)
NewPeer == [alive |-> TRUE, sock |-> FALSE, isServer |-> FALSE, id |-> None,
            srv |-> None, flag |-> "none", op |-> "none"]

Init ==
  /\ peer = << >> /\ passive = << >> /\ proactive = << >>
  /\ clients = [c \in Cookies |-> None]
  /\ servers = {} /\ server = << >>
  /\ call = [t \in AllThreads |-> Idle]
  /\ raced = {} /\ overlapped = {} /\ strayed = {}
  /\ lost = [s \in 1 .. MaxServers |-> 0]
  /\ abandoned = {} /\ failures = 0 /\ calls = 0 /\ events = 0

At(t, step)    == call[t].at = step
P(t)           == call[t].peer
Go(t, step)    == call' = [call EXCEPT ![t].at = step]
Free(t, s, map) == server[s].lock[map] \in {None, t}
Fail           == failures < MaxFailures /\ failures' = failures + 1
Return(t)      == call' = [call EXCEPT ![t] = Idle]
Continue(t)    == call' = [call EXCEPT ![t] =
  IF @.then = "idle" THEN Idle
  ELSE [@ EXCEPT !.at = call[t].then, !.peer = None]]
Listening(l)   == peer[l].isServer /\ peer[l].sock

(* Destroy() of p, after which the thread goes on at step "then".           *)
Destroy(t, p, flag, then) ==
  /\ peer' = [peer EXCEPT ![p].flag = flag]
  /\ call' = [call EXCEPT ![t].peer = p, ![t].at = "close", ![t].then = then]

-----------------------------------------------------------------------------
(* AcquirePeer()                                                            *)

AcquirePassive(t) ==
  /\ At(t, "passive")
  /\ IF passive # << >>
     THEN /\ call' = [call EXCEPT ![t].peer = Head(passive), ![t].at = "create"]
          /\ passive' = Tail(passive)
     ELSE Go(t, "proactive") /\ UNCHANGED passive
  /\ UNCHANGED <<peer, proactive, tables, server, history>>

AcquireProactiveMistake(t) ==
  /\ At(t, "proactive")
  /\ proactive # << >>
  /\ call' = [call EXCEPT ![t].peer = Head(proactive), ![t].at = "create"]
  /\ UNCHANGED <<peer, lists, tables, server, history>>

AcquireProactive(t) ==
  /\ At(t, "proactive")
  /\ proactive # << >>
  /\ call' = [call EXCEPT ![t].peer = Head(proactive), ![t].at = "create"]
  /\ proactive' = Tail(proactive)
  /\ UNCHANGED <<peer, passive, tables, server, history>>

AcquireNew(t) ==
  /\ At(t, "proactive")
  /\ proactive = << >>
  /\ Len(peer) < MaxPeers
  /\ peer' = Append(peer, NewPeer)
  /\ call' = [call EXCEPT ![t].peer = Len(peer) + 1, ![t].at = "create"]
  /\ UNCHANGED <<lists, tables, server, history>>

-----------------------------------------------------------------------------
(* Close() and Reclaim()                                                    *)

CloseSocket(t) ==
  /\ At(t, "close") /\ peer[P(t)].flag # "reuse"
  /\ peer' = [peer EXCEPT ![P(t)].sock = FALSE, ![P(t)].op = "none"]
  /\ Go(t, "unlist")
  /\ UNCHANGED <<lists, tables, server, history>>

(* An accepted peer that the remote left keeps its socket: DisconnectEx().  *)
BeginDisconnect(t) ==
  /\ At(t, "close") /\ peer[P(t)].flag = "reuse"
  /\ \/ /\ peer[P(t)].sock
        /\ peer' = [peer EXCEPT ![P(t)].op = "disconnect"]
        /\ UNCHANGED failures
     \/ Fail /\ UNCHANGED peer
  /\ Continue(t)
  /\ UNCHANGED <<lists, tables, server, lost, abandoned>>

(* Reclaim() of a listening peer: RemoveServer() finds nothing, as          *)
(* CloseServer() has removed the entry; CloseSocket() comes before.         *)
ReclaimServer(t) ==
  /\ At(t, "unlist") /\ peer[P(t)].isServer
  /\ servers' = servers \ {peer[P(t)].id}
  /\ call' = [call EXCEPT ![t].at = "list", ![t].to = "proactive"]
  /\ UNCHANGED <<peer, lists, clients, server, history>>

ReclaimAccepted(t) ==
  LET s == peer[P(t)].srv
  IN /\ At(t, "unlist") /\ ~peer[P(t)].isServer /\ s # None
     /\ server[s].alive /\ Free(t, s, "peers")
     /\ server' = [server EXCEPT ![s].peers = @ \ {P(t)}]
     /\ call' = [call EXCEPT ![t].at = "list", ![t].to = "passive"]
     /\ UNCHANGED <<peer, lists, tables, history>>

ReclaimClient(t) ==
  /\ At(t, "unlist") /\ ~peer[P(t)].isServer /\ peer[P(t)].srv = None
  /\ clients' = [c \in Cookies |->
                   IF c = peer[P(t)].id THEN None ELSE clients[c]]
  /\ call' = [call EXCEPT ![t].at = "list", ![t].to = "proactive"]
  /\ UNCHANGED <<peer, lists, servers, server, history>>

(* Clear() leaves the socket alone.                                         *)
Cleared(p) == [peer[p] EXCEPT !.isServer = FALSE, !.id = None, !.srv = None,
                              !.flag = "none"]

AddClosed(t) ==
  /\ At(t, "list")
  /\ peer' = [peer EXCEPT ![P(t)] = Cleared(P(t))]
  /\ IF call[t].to = "passive"
     THEN passive' = Append(passive, P(t)) /\ UNCHANGED proactive
     ELSE proactive' = Append(proactive, P(t)) /\ UNCHANGED passive
  /\ Continue(t)
  /\ UNCHANGED <<tables, server, history>>

-----------------------------------------------------------------------------
(* PostAccept(): "more" peers are still to be posted for the listening peer *)

CreateAccept(t) ==
  /\ At(t, "create") /\ call[t].listen # None
  /\ peer' = [peer EXCEPT ![P(t)].sock = TRUE,
                          ![P(t)].srv = peer[call[t].listen].srv]
  /\ Go(t, "begin")
  /\ UNCHANGED <<lists, tables, server, history>>

(* A peer whose CreateAccept() fails is left where nothing finds it, and    *)
(* the accepts that were to follow are not posted.                          *)
CreateAcceptFails(t) ==
  /\ At(t, "create") /\ call[t].listen # None
  /\ Fail
  /\ abandoned' = abandoned \cup {P(t)}
  /\ lost' = [lost EXCEPT ![call[t].srv] = @ + call[t].more]
  /\ Return(t)
  /\ UNCHANGED <<peer, lists, tables, server>>

(* AcceptEx() comes first, AddPendingAccept() after it.                     *)
BeginAccept(t) ==
  /\ At(t, "begin") /\ Listening(call[t].listen)
  /\ peer' = [peer EXCEPT ![P(t)].op = "accept"]
  /\ call' = [call EXCEPT ![t].at = "pend", ![t].more = @ - 1]
  /\ UNCHANGED <<lists, tables, server, history>>

BeginAcceptFails(t) ==
  /\ At(t, "begin")
  /\ IF Listening(call[t].listen)
     THEN Fail /\ lost' = [lost EXCEPT ![call[t].srv] = @ + call[t].more]
     ELSE UNCHANGED <<failures, lost>>
  /\ peer' = [peer EXCEPT ![P(t)].flag = "close"]
  /\ call' = [call EXCEPT ![t].at = "close", ![t].then = "idle", ![t].more = 0]
  /\ UNCHANGED <<lists, tables, server, abandoned>>

AddPendingAccept(t) ==
  LET s == peer[call[t].listen].srv
  IN /\ At(t, "pend") /\ s # None /\ server[s].alive /\ Free(t, s, "pending")
     /\ server' = [server EXCEPT ![s].pending = @ \cup {P(t)}]
     /\ IF call[t].more = 0 THEN Return(t)
        ELSE call' = [call EXCEPT ![t].peer = None, ![t].at = "passive"]
     /\ UNCHANGED <<peer, lists, tables, history>>

-----------------------------------------------------------------------------
(* Listen(), and the completions of accepts                                 *)

Listen(t) ==
  LET s == Len(server) + 1
      l == Len(peer) + 1
  IN /\ At(t, "idle") /\ s <= MaxServers /\ l <= MaxPeers
     /\ peer' = Append(peer, [NewPeer EXCEPT !.sock = TRUE, !.isServer = TRUE,
                                             !.id = s, !.srv = s])
     /\ server' = Append(server,
          [alive |-> TRUE, running |-> TRUE, sp |-> l, peers |-> {},
           pending |-> {}, lock |-> [peers |-> None, pending |-> None]])
     /\ servers' = servers \cup {s}
     /\ call' = [call EXCEPT ![t].at = "join", ![t].srv = s, ![t].listen = l,
                             ![t].more = Accepts]
     /\ UNCHANGED <<lists, clients, history>>

Join(t) ==
  /\ At(t, "join")
  /\ Go(t, "passive")
  /\ UNCHANGED <<peer, lists, tables, server, history>>

(* RemoveServer() deletes the server, which deletes its peer.               *)
JoinFails(t) ==
  /\ At(t, "join")
  /\ Fail
  /\ servers' = servers \ {call[t].srv}
  /\ server' = [server EXCEPT ![call[t].srv].alive = FALSE,
                              ![call[t].srv].running = FALSE]
  /\ peer' = [peer EXCEPT ![call[t].listen].alive = FALSE,
                          ![call[t].listen].sock = FALSE]
  /\ Return(t)
  /\ UNCHANGED <<lists, clients, lost, abandoned>>

(* ExecuteIO() takes the completion of an accept, whose key is the          *)
(* listening peer.                                                          *)
TakeAccept(t, p, step) ==
  /\ At(t, "idle") /\ peer[p].op = "accept" /\ peer[p].srv # None
  /\ peer' = [peer EXCEPT ![p].op = "none"]
  /\ call' = [call EXCEPT ![t] = [Idle EXCEPT !.at = step, !.peer = p, !.more = 1,
                 !.srv = peer[p].srv, !.listen = server[peer[p].srv].sp]]
  /\ UNCHANGED <<lists, tables, server, lost, abandoned>>

Accepted(t, p)     == TakeAccept(t, p, "endAccept") /\ UNCHANGED failures
AcceptFailed(t, p) == TakeAccept(t, p, "acceptFailed") /\ Fail

(* The server of a listening peer: a server that is deleted has no answer.  *)
Running(l)  == peer[l].srv # None /\ server[peer[l].srv].alive
                 /\ server[peer[l].srv].running
Stopped(l)  == peer[l].srv # None /\ server[peer[l].srv].alive
                 /\ ~server[peer[l].srv].running

(* FinishPending(): the peer is no longer pending ...                       *)
FinishPending(t, step) ==
  LET l == call[t].listen
  IN /\ At(t, step) /\ Running(l) /\ Free(t, peer[l].srv, "pending")
     /\ server' = [server EXCEPT ![peer[l].srv].pending = @ \ {P(t)}]
     /\ UNCHANGED <<lists, tables, history>>

(* ... and when the accept has failed it is closed, ...                     *)
FinishFailed(t) ==
  /\ FinishPending(t, "acceptFailed")
  /\ Destroy(t, P(t), "close", "passive")

(* ... otherwise it becomes one of the server's peers.                      *)
EndAccept(t) ==
  /\ FinishPending(t, "endAccept")
  /\ peer[P(t)].flag = "none"
  /\ Go(t, "addPeer")
  /\ UNCHANGED peer

EndAcceptReturns(t) ==
  /\ \/ At(t, "endAccept") /\ (peer[P(t)].flag # "none" \/ Stopped(call[t].listen))
     \/ At(t, "acceptFailed")
          /\ (~peer[call[t].listen].isServer \/ Stopped(call[t].listen))
  /\ Return(t)
  /\ UNCHANGED <<peer, lists, tables, server, history>>

(* UpdateContext() fails: nothing is posted in the place of this accept.    *)
EndAcceptFails(t) ==
  /\ At(t, "endAccept") /\ peer[P(t)].flag = "none" /\ Running(call[t].listen)
  /\ Fail
  /\ lost' = [lost EXCEPT ![call[t].srv] = @ + 1]
  /\ Return(t)
  /\ UNCHANGED <<peer, lists, tables, server, abandoned>>

AddPeer(t) ==
  LET s == peer[call[t].listen].srv
  IN /\ At(t, "addPeer") /\ s # None /\ server[s].alive /\ Free(t, s, "peers")
     /\ server' = [server EXCEPT ![s].peers = @ \cup {P(t)}]
     /\ Go(t, "notify")
     /\ UNCHANGED <<peer, lists, tables, history>>

(* NotifyAccepted() of a handler that wants the connection: the first read  *)
(* is begun.                                                                *)
WantedMistake(t) ==
  /\ At(t, "notify")
  /\ peer' = [peer EXCEPT ![P(t)].op = IF peer[P(t)].sock THEN "read" ELSE @]
  /\ Return(t)
  /\ UNCHANGED <<lists, tables, server, history>>

Wanted(t) ==
  /\ At(t, "notify")
  /\ peer' = [peer EXCEPT ![P(t)].op = IF peer[P(t)].sock THEN "read" ELSE @]
  /\ call' = [call EXCEPT ![t].peer = None, ![t].at = "passive"]
  /\ UNCHANGED <<lists, tables, server, history>>

(* A handler that does not: CloseServerItem(), if the server is listed.     *)
Unwanted(t) ==
  /\ At(t, "notify")
  /\ IF peer[call[t].listen].id \in servers
     THEN call' = [call EXCEPT ![t].at = "closeItem", ![t].then = "passive"]
     ELSE call' = [call EXCEPT ![t].peer = None, ![t].at = "passive"]
  /\ UNCHANGED <<peer, lists, tables, server, history>>

(* JoinTheCircle() fails before the handler is told.                        *)
JoinAcceptedFails(t) ==
  /\ At(t, "notify")
  /\ Fail
  /\ lost' = [lost EXCEPT ![call[t].srv] = @ + 1]
  /\ Return(t)
  /\ UNCHANGED <<peer, lists, tables, server, abandoned>>

(* CloseServerItem() of an accepted peer, by the application ...            *)
CloseServerItem(t, p) ==
  /\ At(t, "idle")
  /\ \E s \in servers :
       /\ p \in server[s].peers
       /\ call' = [call EXCEPT ![t].at = "closeItem", ![t].peer = p, ![t].srv = s]
  /\ UNCHANGED <<peer, lists, tables, server, history>>

(* ... and the part that it shares with Unwanted: only the thread that      *)
(* removes the peer from the server's peers destroys it.                    *)
RemovePeer(t) ==
  LET s == call[t].srv
  IN /\ At(t, "closeItem") /\ server[s].alive /\ Free(t, s, "peers")
     /\ server' = [server EXCEPT ![s].peers = @ \ {P(t)}]
     /\ IF P(t) \in server[s].peers
        THEN Destroy(t, P(t), "close", call[t].then)
        ELSE Continue(t) /\ UNCHANGED peer
     /\ UNCHANGED <<lists, tables, history>>

-----------------------------------------------------------------------------
(* CloseServer(): the entry, the listening peer, the accepted peers under   *)
(* m_cs, the pending ones under m_csPendingAccept                           *)

CloseServer(t, s) ==
  /\ At(t, "idle") /\ s \in servers
  /\ ~\E u \in AllThreads : At(u, "join") /\ call[u].srv = s
  /\ servers' = servers \ {s}
  /\ call' = [call EXCEPT ![t].at = "stop", ![t].srv = s]
  /\ UNCHANGED <<peer, lists, clients, server, history>>

Stop(t) ==
  LET s == call[t].srv
  IN /\ At(t, "stop")
     /\ server' = [server EXCEPT ![s].running = FALSE]
     /\ Destroy(t, server[s].sp, "close", "peers")
     /\ UNCHANGED <<lists, tables, history>>

(* One of the two maps, whose lock is held until it is empty.               *)
CloseAll(t, map, next) ==
  LET s == call[t].srv
  IN /\ At(t, map) /\ Free(t, s, map)
     /\ \/ \E p \in server[s][map] :
             /\ server' = [server EXCEPT ![s][map] = @ \ {p}, ![s].lock[map] = t]
             /\ Destroy(t, p, "close", map)
        \/ /\ server[s][map] = {}
           /\ server' = [server EXCEPT ![s].lock[map] = None]
           /\ Go(t, next)
           /\ UNCHANGED peer
     /\ UNCHANGED <<lists, tables, history>>

CloseClients(t) == CloseAll(t, "peers", "pending")
ClosePending(t) == CloseAll(t, "pending", "delete")

Delete(t) ==
  /\ At(t, "delete")
  /\ server' = [server EXCEPT ![call[t].srv].alive = FALSE]
  /\ Return(t)
  /\ UNCHANGED <<peer, lists, tables, history>>

-----------------------------------------------------------------------------
(* Clients: Connect(), CloseClient() and the completions                    *)

Connect(t) ==
  /\ At(t, "idle")
  /\ Go(t, "proactive")
  /\ UNCHANGED <<peer, lists, tables, server, history>>

CreateClient(t) ==
  /\ At(t, "create") /\ call[t].listen = None
  /\ peer' = [peer EXCEPT ![P(t)].sock = TRUE]
  /\ Go(t, "addClient")
  /\ UNCHANGED <<lists, tables, server, history>>

(* Create() or ActAsClient() fails.                                         *)
CreateClientFails(t) ==
  /\ At(t, "create") /\ call[t].listen = None
  /\ Fail
  /\ peer' = [peer EXCEPT ![P(t)].alive = FALSE, ![P(t)].sock = FALSE]
  /\ Return(t)
  /\ UNCHANGED <<lists, tables, server, lost, abandoned>>

AddClientMistake(t) ==
  /\ At(t, "addClient")
  /\ \E c \in Cookies :
       /\ clients[c] = None
       /\ clients' = [clients EXCEPT ![c] = P(t)]
  /\ Go(t, "connect")
  /\ UNCHANGED <<peer, lists, servers, server, history>>

AddClient(t) ==
  /\ At(t, "addClient")
  /\ \E c \in Cookies :
       /\ clients[c] = None
       /\ clients' = [clients EXCEPT ![c] = P(t)]
       /\ peer' = [peer EXCEPT ![P(t)].id = c]
  /\ Go(t, "connect")
  /\ UNCHANGED <<lists, servers, server, history>>

(* JoinTheCircle() fails: the entry and the peer are removed.               *)
JoinClientFails(t) ==
  /\ At(t, "connect")
  /\ Fail
  /\ clients' = [clients EXCEPT ![peer[P(t)].id] = None]
  /\ peer' = [peer EXCEPT ![P(t)].alive = FALSE, ![P(t)].sock = FALSE]
  /\ Return(t)
  /\ UNCHANGED <<lists, servers, server, lost, abandoned>>

BeginConnect(t) ==
  /\ At(t, "connect")
  /\ peer' = [peer EXCEPT ![P(t)].op = "connect"]
  /\ Return(t)
  /\ UNCHANGED <<lists, tables, server, history>>

(* HandleError(): the peer stays where it is, but is closed on a time-out.  *)
BeginConnectFails(t) ==
  /\ At(t, "connect")
  /\ Fail
  /\ \/ Return(t) /\ UNCHANGED peer
     \/ Destroy(t, P(t), "close", "idle")
  /\ UNCHANGED <<lists, tables, server, lost, abandoned>>

CloseClient(t, c) ==
  LET p == clients[c]
  IN /\ At(t, "idle") /\ p # None
     /\ ~\E u \in AllThreads : At(u, "connect") /\ P(u) = p
     /\ clients' = [clients EXCEPT ![c] = None]
     /\ Destroy(t, p, "close", "idle")
     /\ UNCHANGED <<lists, servers, server, history>>

(* A completion of p: the thread that takes it goes on at "step".           *)
Take(t, p, op, step) ==
  /\ At(t, "idle") /\ peer[p].op = op
  /\ peer' = [peer EXCEPT ![p].op = "none"]
  /\ call' = [call EXCEPT ![t].at = step, ![t].peer = p, ![t].srv = peer[p].srv]
  /\ UNCHANGED <<lists, tables, server, lost, abandoned>>

(* The connection is up; or it timed out, or was refused.                   *)
TakeConnect(t, p) ==
  \/ Take(t, p, "connect", "endConnect") /\ UNCHANGED failures
  \/ Take(t, p, "connect", "timedOut") /\ Fail
  \/ /\ At(t, "idle") /\ peer[p].op = "connect"
     /\ Fail
     /\ peer' = [peer EXCEPT ![p].op = "none"]
     /\ UNCHANGED <<call, lists, tables, server, lost, abandoned>>

(* EndConnect() begins the first read.                                      *)
EndConnect(t) ==
  /\ At(t, "endConnect")
  /\ peer' = [peer EXCEPT ![P(t)].op =
                IF peer[P(t)].sock /\ peer[P(t)].flag = "none" THEN "read" ELSE @]
  /\ Return(t)
  /\ UNCHANGED <<lists, tables, server, history>>

TimedOut(t) ==
  /\ At(t, "timedOut")
  /\ Destroy(t, P(t), "close", "idle")
  /\ UNCHANGED <<lists, tables, server, history>>

(* The remote has closed: ERROR_NETNAME_DELETED, or a read of no bytes.     *)
TakeRead(t, p) == Take(t, p, "read", "unavailable") /\ UNCHANGED failures

DestroyUnavailabilityMistake(t) ==
  /\ At(t, "unavailable")
  /\ Destroy(t, P(t), "reuse", "idle")
  /\ UNCHANGED <<lists, tables, server, history>>

DestroyUnavailability(t) ==
  LET accepted == ~peer[P(t)].isServer /\ peer[P(t)].srv # None
  IN /\ At(t, "unavailable")
     /\ Destroy(t, P(t), IF accepted THEN "reuse" ELSE "close", "idle")
     /\ UNCHANGED <<lists, tables, server, history>>

(* EndDisconnect() reclaims a peer whose socket can be used again.          *)
TakeDisconnect(t, p) == Take(t, p, "disconnect", "unlist") /\ UNCHANGED failures

-----------------------------------------------------------------------------
AcquirePeer(t) == AcquirePassive(t) \/ AcquireProactive(t) \/ AcquireNew(t)
Close(t)       == CloseSocket(t) \/ BeginDisconnect(t)
Reclaim(t)     == \/ ReclaimServer(t) \/ ReclaimAccepted(t) \/ ReclaimClient(t)
                  \/ AddClosed(t)
PostAccept(t)  == \/ CreateAccept(t) \/ CreateAcceptFails(t) \/ BeginAccept(t)
                  \/ BeginAcceptFails(t) \/ AddPendingAccept(t)
Accept(t)      == \/ EndAccept(t) \/ EndAcceptFails(t) \/ EndAcceptReturns(t)
                  \/ FinishFailed(t) \/ AddPeer(t) \/ Wanted(t) \/ Unwanted(t)
                  \/ JoinAcceptedFails(t)
Serve(t)       == \/ Join(t) \/ JoinFails(t) \/ Stop(t) \/ CloseClients(t)
                  \/ ClosePending(t) \/ Delete(t) \/ RemovePeer(t)
Client(t)      == \/ CreateClient(t) \/ CreateClientFails(t) \/ AddClient(t)
                  \/ JoinClientFails(t) \/ BeginConnect(t) \/ BeginConnectFails(t)
                  \/ EndConnect(t) \/ TimedOut(t) \/ DestroyUnavailability(t)

User(t) ==
  \/ Listen(t) \/ Connect(t)
  \/ \E s \in servers : CloseServer(t, s)
  \/ \E c \in Cookies : CloseClient(t, c)
  \/ \E p \in DOMAIN peer : CloseServerItem(t, p)

ExecuteIO(t) ==
  \E p \in DOMAIN peer :
    \/ Accepted(t, p) \/ AcceptFailed(t, p) \/ TakeConnect(t, p)
    \/ TakeRead(t, p) \/ TakeDisconnect(t, p)

(* Two threads that have to do with one peer, or one server.                *)
Meet(t, u)  == t # u /\ call[t].peer = call[u].peer
Raced       == {P(t) : t \in {t \in AllThreads : \E u \in AllThreads : Meet(t, u)}}
Closing     == {"stop", "peers", "pending", "delete"}
Overlapped  == {call[t].srv : t \in {t \in AllThreads :
                  /\ call[t].at \in Closing \/ call[t].then \in Closing
                  /\ \E u \in AllThreads \ {t} : call[u].srv = call[t].srv}}

(* CloseClient() has removed the entry of a peer that it is about to close, *)
(* Reclaim() removes that of the same cookie once more.                     *)
Reused      == {clients[c] : c \in {c \in Cookies :
                  \E p \in DOMAIN peer \ {clients[c]} :
                    /\ peer[p].id = c /\ ~peer[p].isServer
                    /\ peer[p].alive \/ \E t \in AllThreads : P(t) = p}}

(* The connections of a server that another thread handled as it closed.    *)
OfOverlapped == {p \in DOMAIN peer : peer[p].srv \in overlapped}
                  \cup {P(t) : t \in {t \in AllThreads : call[t].srv \in overlapped}}

Step(t) ==
  \/ AcquirePeer(t) \/ Close(t) \/ Reclaim(t) \/ PostAccept(t) \/ Accept(t)
  \/ Serve(t) \/ Client(t)

Next ==
  /\ \/ (\E t \in AllThreads : Step(t)) /\ UNCHANGED <<calls, events>>
     \/ /\ \E t \in Users : User(t)
        /\ calls < MaxCalls /\ calls + events < MaxEvents
        /\ calls' = calls + 1
        /\ UNCHANGED events
     \/ /\ \E t \in IOThreads : ExecuteIO(t)
        /\ calls + events < MaxEvents /\ events' = events + 1
        /\ UNCHANGED calls
  /\ raced' = (raced \cup Raced') \ {None}
  /\ overlapped' = overlapped \cup Overlapped'
  /\ strayed' = (strayed \cup Reused' \cup OfOverlapped') \ {None}

Spec == Init /\ [][Next]_vars

-----------------------------------------------------------------------------
Times(seq, p)  == Cardinality({i \in DOMAIN seq : seq[i] = p})
Held(p)        == \E t \in AllThreads : P(t) = p
Kept(s, p)     == \/ p \in server[s].peers \/ p \in server[s].pending
                  \/ p = server[s].sp /\ peer[p].isServer
Known          == {p \in DOMAIN peer :
                     peer[p].alive /\ p \notin raced \cup strayed}

(* A peer that no two threads have handled at a time, whose server was not  *)
(* closed while another thread handled one of its connections, and whose    *)
(* cookie no other peer still carries, is in at most one of the tables and  *)
(* closed lists, and once: nobody can acquire it while it is in use.        *)
(* It is in one unless a thread is at work on it or its CreateAccept() has  *)
(* failed: none is forgotten, also not by CloseServer().                    *)
PeersInOnePlace ==
  \A p \in Known :
    LET places == Times(passive, p) + Times(proactive, p)
                    + Cardinality({c \in Cookies : clients[c] = p})
                    + Cardinality({s \in DOMAIN server :
                                     server[s].alive /\ Kept(s, p)})
    IN /\ places <= 1
       /\ places = 1 \/ Held(p) \/ p \in abandoned

(* Such a peer carries the key under which it is registered, so Reclaim()   *)
(* finds its entry; and in a closed list nothing of its last connection is  *)
(* left: no key, no server, no flag and no pending operation.               *)
KeysMatch ==
  \A p \in Known :
    /\ \A c \in Cookies : clients[c] = p => Held(p) \/ peer[p].id = c
    /\ \A s \in DOMAIN server :
         server[s].alive /\ Kept(s, p) => peer[p].srv = s
    /\ Times(passive, p) + Times(proactive, p) > 0 =>
         peer[p] = Cleared(p) /\ peer[p].op = "none"

(* A running server keeps as many accepts posted, or about to be posted by  *)
(* the thread that ended one, as Listen() was asked for, less those that    *)
(* failed: a refused, an aborted and a served connection are all replaced.  *)
AcceptsKept ==
  \A s \in DOMAIN server :
    LET posted  == {p \in DOMAIN peer : peer[p].op = "accept" /\ peer[p].srv = s}
        posting == {t \in AllThreads : call[t].srv = s /\ call[t].more > 0}
    IN server[s].running /\ raced = {} =>
         Cardinality(posted) + MapThenSumSet(LAMBDA t : call[t].more, posting)
           = Accepts - lost[s]
============================================================================

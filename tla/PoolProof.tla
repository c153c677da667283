------------------------------ MODULE PoolProof ------------------------------
(*****************************************************************************)
(* Proofs about PeerPool, for any threads, cookies, peers, servers, calls    *)
(* and failures: a peer that no two threads have disturbed is in use or on   *)
(* one list of closed peers, once, and carries the keys of its place.        *)
(*                                                                           *)
(* The first part states the inductive invariant PoolInv: where the place of *)
(* a thread says that its peer is, what a pending operation needs, who is    *)
(* left to close a server, and what the history variables have taken in.     *)
(* Most steps are quiet: they are about one peer that does not listen, and   *)
(* QuietStep leaves only this peer to consider.  The steps about listening   *)
(* peers and servers have SpecialStep, those that create a peer GrowsStep.   *)
(* Between them there is one lemma for each step of PeerPool; the last part  *)
(* puts them together.                                                       *)
(*****************************************************************************)
EXTENDS PeerPool, SequenceTheorems, FiniteSetTheorems, TLAPS

-----------------------------------------------------------------------------
(* Types.  A thread handles a peer except at the places in Resting.          *)
PoolPeer ==
  [alive : BOOLEAN, sock : BOOLEAN, isServer : BOOLEAN,
   id : Cookies \cup Nat, srv : Nat, flag : {"none", "close", "reuse"},
   op : {"none", "accept", "connect", "read", "disconnect"}]

PoolServer ==
  [alive : BOOLEAN, running : BOOLEAN, sp : Nat, peers : SUBSET Nat,
   pending : SUBSET Nat,
   lock : [peers : AllThreads \cup {0}, pending : AllThreads \cup {0}]]

Resting == {"idle", "passive", "proactive", "join", "stop", "peers",
            "pending", "delete"}
Closes  == {"close", "unlist", "list"}
Serving == {"begin", "pend", "endAccept", "acceptFailed", "addPeer", "notify"}
Working == {"create", "addClient", "connect", "endConnect", "timedOut",
            "unavailable", "closeItem"} \cup Serving \cup Closes

PoolCaller ==
  [at : Resting \cup Working, peer : Nat, srv : Nat, listen : Nat, more : Int,
   then : {"idle", "passive", "peers", "pending"},
   to : {"passive", "proactive"}]

PoolTypeOK ==
  /\ peer \in Seq(PoolPeer)
  /\ server \in Seq(PoolServer)
  /\ call \in [AllThreads -> PoolCaller]
  /\ passive \in Seq(1 .. Len(peer))
  /\ proactive \in Seq(1 .. Len(peer))
  /\ clients \in [Cookies -> 0 .. Len(peer)]
  /\ servers \subseteq 1 .. Len(server)

(* Nothing refers to a peer or a server that is not there.                   *)
PoolInRange ==
  /\ \A p \in DOMAIN peer : peer[p].srv \in 0 .. Len(server)
  /\ \A s \in DOMAIN server :
       /\ server[s].sp \in DOMAIN peer
       /\ server[s].peers \cup server[s].pending \subseteq DOMAIN peer
  /\ \A t \in AllThreads :
       /\ call[t].srv \in 0 .. Len(server)
       /\ call[t].listen \in 0 .. Len(peer)
       /\ call[t].peer \in 0 .. Len(peer)

-----------------------------------------------------------------------------
(* What the place of a thread says of its locals.                            *)
Closer(t) == call[t].at \in Closing \/ call[t].then \in Closing

ThreadFits(t) ==
  /\ call[t].at \in Resting <=> call[t].peer = 0
  /\ call[t].at = "idle" => call[t] = Idle
  /\ call[t].at \in Serving \cup {"join"} => call[t].listen # 0
  /\ call[t].listen # 0 => call[t].srv # 0
  /\ Closer(t) => call[t].at \in Closing \cup Closes
  /\ Closer(t) \/ call[t].at \in {"closeItem", "join"} =>
       call[t].srv # 0
  /\ Closer(t) => call[t].srv \notin servers
  /\ \A u \in AllThreads :
       Closer(t) /\ Closer(u) /\ call[u].srv = call[t].srv => u = t

(* A listening peer is the one of its server, and in none of the tables and  *)
(* lists of the others.  Only CloseServer() handles it.                      *)
ListenerFits(l) ==
  peer[l].isServer =>
    /\ peer[l].srv # 0 /\ server[peer[l].srv].sp = l
    /\ peer[l].id = peer[l].srv /\ peer[l].op = "none"
    /\ \A i \in DOMAIN passive : passive[i] # l
    /\ \A i \in DOMAIN proactive : proactive[i] # l
    /\ \A c \in Cookies : clients[c] # l
    /\ \A s \in DOMAIN server : l \notin server[s].peers \cup server[s].pending
    /\ peer[l].alive => server[peer[l].srv].alive
    /\ \A t \in AllThreads : call[t].peer = l =>
         /\ call[t].at \in Closes /\ call[t].then = "peers"
         /\ call[t].srv = peer[l].srv
         /\ call[t].at = "close" => peer[l].flag = "close"

(* A server that lives is listed or being closed, by one thread; that has    *)
(* cleared its listening peer before it comes to the other peers.            *)
ServerFits(s) ==
  /\ \A r \in DOMAIN server : server[r].sp = server[s].sp => r = s
  /\ s \in servers => /\ server[s].alive /\ server[s].running
                      /\ peer[server[s].sp].isServer
  /\ server[s].alive =>
       s \in servers \/ \E t \in AllThreads :
                          Closer(t) /\ call[t].srv = s
  /\ \A t \in AllThreads : Closer(t) /\ call[t].srv = s =>
       /\ peer[server[s].sp].isServer =>
            call[t].at = "stop" \/ call[t].peer = server[s].sp
       /\ call[t].at = "stop" => peer[server[s].sp].isServer

(* As long as Listen() has not joined, nobody else knows its server.         *)
JoinFits(t) ==
  LET s == call[t].srv
      l == call[t].listen
  IN call[t].at = "join" =>
       /\ s \in servers /\ server[s].sp = l
       /\ server[s].peers = {} /\ server[s].pending = {}
       /\ \A p \in DOMAIN peer : p # l => peer[p].srv # s
       /\ \A u \in AllThreads : u # t =>
            call[u].srv # s /\ call[u].listen # l

(* The server for which a thread accepts is that of the listening peer.      *)
ListenFits(t) ==
  call[t].listen # 0 /\ peer[call[t].listen].isServer =>
    peer[call[t].listen].srv = call[t].srv

-----------------------------------------------------------------------------
(* What the history variables keep.                                          *)
HistoryFits ==
  /\ \A t, u \in AllThreads :
       t # u /\ call[t].peer = call[u].peer /\ call[t].peer # 0 =>
         call[t].peer \in raced
  /\ \A t, u \in AllThreads :
       t # u /\ Closer(t) /\ call[u].srv = call[t].srv =>
         call[t].srv \in overlapped
  /\ \A c \in Cookies, p \in DOMAIN peer :
       /\ clients[c] # 0 /\ clients[c] # p /\ peer[p].id = c
       /\ ~peer[p].isServer
       /\ peer[p].alive \/ \E t \in AllThreads : call[t].peer = p
       => clients[c] \in strayed
  /\ \A p \in DOMAIN peer : peer[p].srv \in overlapped => p \in strayed
  /\ \A t \in AllThreads :
       call[t].peer # 0 /\ call[t].srv \in overlapped =>
         call[t].peer \in strayed

-----------------------------------------------------------------------------
(* Where a peer is.                                                          *)
Blank(p) ==
  /\ ~peer[p].isServer /\ peer[p].id = 0 /\ peer[p].srv = 0
  /\ peer[p].flag = "none" /\ peer[p].op = "none"

Listed(p) == \/ \E i \in DOMAIN passive : passive[i] = p
             \/ \E i \in DOMAIN proactive : proactive[i] = p

ListedOnce(p) ==
  /\ \A i, j \in DOMAIN passive : passive[i] = p /\ passive[j] = p => i = j
  /\ \A i, j \in DOMAIN proactive : proactive[i] = p /\ proactive[j] = p
       => i = j
  /\ \A i \in DOMAIN passive, j \in DOMAIN proactive :
       passive[i] = p => proactive[j] # p

Registered(p) == \E c \in Cookies : clients[c] = p

Serves(s, p) ==
  s \in DOMAIN server /\ server[s].alive /\ p \in server[s].peers

Awaits(s, p) ==
  s \in DOMAIN server /\ server[s].alive /\ p \in server[s].pending

Nowhere(p) ==
  /\ ~Listed(p) /\ ~Registered(p)
  /\ \A s \in DOMAIN server : p \notin server[s].peers \cup server[s].pending

Taken(p) == \E t \in AllThreads : call[t].peer = p

(* A peer that nobody has disturbed is in one place, under the key that it   *)
(* carries, ...                                                              *)
PlaceFits(p) ==
  /\ ListedOnce(p)
  /\ Listed(p) => Blank(p) /\ ~Taken(p)
  /\ \A c \in Cookies : clients[c] = p =>
       peer[p].id = c /\ peer[p].srv = 0 /\ ~peer[p].isServer
  /\ \A s \in DOMAIN server : p \in server[s].peers \cup server[s].pending =>
       peer[p].srv = s
  /\ \A s \in DOMAIN server : p \in server[s].peers
       => p \notin server[s].pending
  /\ \/ Taken(p) \/ p \in abandoned \/ Listed(p) \/ Registered(p)
     \/ peer[p].isServer
     \/ \E s \in DOMAIN server : Serves(s, p) \/ Awaits(s, p)

(* ... and there what its pending operation needs, ...                       *)
OperationFits(p) ==
  /\ peer[p].op = "accept"  => peer[p].flag = "none" /\ Awaits(peer[p].srv, p)
  /\ peer[p].op = "connect" => peer[p].flag = "none" /\ Registered(p)
  /\ peer[p].op = "read" =>
       peer[p].flag = "none" /\ (Registered(p) \/ Serves(peer[p].srv, p))
  /\ peer[p].op = "disconnect" => Serves(peer[p].srv, p)

(* ... or where the thread that handles it has brought it.                   *)
Resolved(t) == peer[call[t].listen].isServer

PhaseFits(t) ==
  LET p == call[t].peer
      s == call[t].srv
      at == call[t].at
  IN /\ at \in {"create", "addClient"} => Blank(p) /\ Nowhere(p)
     /\ at = "begin" =>
          /\ Nowhere(p) /\ peer[p].flag = "none" /\ peer[p].op = "none"
          /\ Resolved(t) => peer[p].srv = s
     /\ at = "pend" =>
          /\ Nowhere(p) /\ peer[p].flag = "none" /\ peer[p].op = "accept"
          /\ Resolved(t) /\ peer[p].srv = s
     /\ at \in {"endAccept", "acceptFailed"} =>
          /\ Awaits(s, p) /\ Resolved(t)
          /\ peer[p].flag = "none" /\ peer[p].op = "none"
     /\ at = "addPeer" =>
          /\ Nowhere(p) /\ Resolved(t) /\ peer[p].srv = s
          /\ peer[p].flag = "none" /\ peer[p].op = "none"
     /\ at = "notify" =>
          Serves(s, p) /\ peer[p].flag = "none" /\ peer[p].op = "none"
     /\ at = "closeItem" => p \in server[s].peers
     /\ at \in {"connect", "endConnect", "timedOut"} =>
          Registered(p) /\ peer[p].flag = "none" /\ peer[p].op = "none"
     /\ at = "unavailable" =>
          /\ Registered(p) \/ Serves(peer[p].srv, p)
          /\ peer[p].flag = "none" /\ peer[p].op = "none"
     /\ at = "close" /\ peer[p].flag = "reuse" =>
          Serves(peer[p].srv, p) /\ peer[p].op = "none"
     /\ at \in Closes =>
          ~Listed(p) /\ \A r \in DOMAIN server : p \notin server[r].pending
     /\ at \in {"unlist", "list"} => peer[p].op = "none"
     /\ at = "list" => Nowhere(p)

(* A thread that closes a server leaves no peer behind.                      *)
CloserFits(t) ==
  LET s == call[t].srv
  IN Closer(t) =>
       /\ call[t].at \in {"pending", "delete"} \/ call[t].then = "pending"
            => server[s].peers \cap Known = {}
       /\ call[t].at = "delete" => server[s].pending \cap Known = {}

PoolInv ==
  /\ PoolTypeOK /\ PoolInRange /\ HistoryFits
  /\ \A t \in AllThreads :
       ThreadFits(t) /\ JoinFits(t) /\ ListenFits(t) /\ CloserFits(t)
  /\ \A l \in DOMAIN peer : ListenerFits(l)
  /\ \A s \in DOMAIN server : ServerFits(s)
  /\ \A p \in Known : PlaceFits(p) /\ (Taken(p) \/ OperationFits(p))
  /\ \A t \in AllThreads :
       call[t].peer \in Known => PhaseFits(t)

-----------------------------------------------------------------------------
(* Most steps are about one peer that does not listen: how they leave the    *)
(* other peers ...                                                           *)
OnlyPeer(p) ==
  /\ peer' \in Seq(PoolPeer) /\ Len(peer') = Len(peer)
  /\ \A q \in DOMAIN peer : q # p => peer'[q] = peer[q]
  /\ p \in DOMAIN peer => /\ ~peer[p].isServer /\ ~peer'[p].isServer
                          /\ peer'[p].alive => peer[p].alive

(* ... and the other threads, ...                                            *)
OnlyThread(t) ==
  /\ call' \in [AllThreads -> PoolCaller]
  /\ \A u \in AllThreads : u # t => call'[u] = call[u]

(* ... where the other peers are, ...                                        *)
OnlyPlace(p) ==
  /\ passive' \in Seq(1 .. Len(peer)) /\ proactive' \in Seq(1 .. Len(peer))
  /\ clients' \in [Cookies -> 0 .. Len(peer)]
  /\ \A q \in DOMAIN peer : q # p =>
       (Listed(q)' <=> Listed(q)) /\ (ListedOnce(q) => ListedOnce(q)')
  /\ \A c \in Cookies :
       \/ clients'[c] = clients[c]
       \/ clients'[c] \in {0, p} /\ clients[c] \notin Known' \ {p}
  /\ abandoned \subseteq abandoned'

OnlyServed(p) ==
  /\ server' \in Seq(PoolServer) /\ Len(server') = Len(server)
  /\ servers' = servers
  /\ \A s \in DOMAIN server :
       /\ server'[s].alive = server[s].alive
       /\ server'[s].running = server[s].running
       /\ server'[s].sp = server[s].sp
       /\ \A q \in Nat : q # p =>
            /\ q \in server'[s].peers <=> q \in server[s].peers
            /\ q \in server'[s].pending <=> q \in server[s].pending

(* ... and what the step may do with the locals of its thread.               *)
Linked(t, s) == /\ call[t].at # "join" /\ call[t].listen # 0
                /\ s = peer[call[t].listen].srv

LocalsFit(t, p) ==
  /\ call[t].peer \in {0, p} /\ call'[t].peer \in {0, p}
  /\ p \in 0 .. Len(peer)
  /\ call'[t].at \in Resting <=> call'[t].peer = 0
  /\ call'[t].at = "idle" => call'[t] = Idle
  /\ call'[t].at \in Serving => call'[t].listen # 0
  /\ call'[t].at \notin {"join", "stop"} /\ call[t].at # "stop"
  /\ Closer(t)' <=> Closer(t)
  /\ Closer(t) => /\ call'[t].srv = call[t].srv
                  /\ call'[t].at \in Closing \cup Closes
  /\ call'[t].at = "closeItem" => call'[t].srv # 0
  /\ \/ call'[t].srv \in {call[t].srv, 0}
     \/ p \in DOMAIN peer /\ call'[t].srv = peer[p].srv
     \/ /\ call'[t].srv \in DOMAIN server
        /\ p \in server[call'[t].srv].peers
  /\ \/ call'[t].listen = 0
     \/ /\ call'[t].listen = call[t].listen
        /\ call'[t].srv = call[t].srv
     \/ /\ p \in DOMAIN peer /\ peer[p].srv # 0
        /\ call'[t].srv = peer[p].srv
        /\ call'[t].listen = server[peer[p].srv].sp

ServesFit(t, p) ==
  /\ p \in DOMAIN peer =>
       peer'[p].srv \in {peer[p].srv, 0} \/ Linked(t, peer'[p].srv)
  /\ \A s \in DOMAIN server :
       p \in server'[s].peers \cup server'[s].pending =>
       \/ p \in server[s].peers \cup server[s].pending
       \/ p # 0 /\ Linked(t, s)

Quiet(t, p) ==
  /\ OnlyPeer(p) /\ OnlyThread(t) /\ OnlyPlace(p) /\ OnlyServed(p)
  /\ LocalsFit(t, p) /\ ServesFit(t, p)

-----------------------------------------------------------------------------
(* What the types say of the sequences: a peer and a server are found under  *)
(* their number.                                                             *)
LEMMA PoolDomains ==
  ASSUME PoolTypeOK
  PROVE  /\ DOMAIN peer = 1 .. Len(peer) /\ Len(peer) \in Nat
         /\ DOMAIN server = 1 .. Len(server) /\ Len(server) \in Nat
         /\ \A p \in DOMAIN peer : peer[p] \in PoolPeer
         /\ \A s \in DOMAIN server : server[s] \in PoolServer
         /\ \A i \in DOMAIN passive : passive[i] \in DOMAIN peer
         /\ \A i \in DOMAIN proactive : proactive[i] \in DOMAIN peer
BY DEF PoolTypeOK

(* What they say of the locals of a thread.                                  *)
LEMMA CallerFields ==
  ASSUME NEW t \in AllThreads, PoolTypeOK
  PROVE  /\ call[t].at \in Resting \cup Working
         /\ call[t].peer \in Nat /\ call[t].srv \in Nat
         /\ call[t].listen \in Nat /\ call[t].more \in Int
         /\ call[t].then \in {"idle", "passive", "peers", "pending"}
         /\ call[t].to \in {"passive", "proactive"}
BY DEF PoolTypeOK, PoolCaller

(* A quiet step creates no peer and no server, keeps the types and does not  *)
(* change who closes a server, ...                                           *)
LEMMA QuietDomains ==
  ASSUME PoolTypeOK, NEW t \in AllThreads, NEW p \in Nat, Quiet(t, p)
  PROVE  /\ DOMAIN peer' = DOMAIN peer /\ DOMAIN server' = DOMAIN server
         /\ PoolTypeOK'
         /\ \A u \in AllThreads : u # t => (Closer(u)' <=> Closer(u))
<1>1. DOMAIN peer' = DOMAIN peer /\ DOMAIN server' = DOMAIN server
  BY PoolDomains DEF Quiet, OnlyPeer, OnlyServed
<1>2. PoolTypeOK'
  BY DEF Quiet, OnlyPeer, OnlyThread, OnlyServed, OnlyPlace, PoolTypeOK
<1>3. \A u \in AllThreads : u # t => (Closer(u)' <=> Closer(u))
  BY DEF Quiet, OnlyThread, Closer
<1> QED BY <1>1, <1>2, <1>3

(* ... keeps the locals of every thread in line with its place, ...          *)
LEMMA QuietThreads ==
  ASSUME PoolTypeOK, NEW t \in AllThreads, NEW p \in Nat, Quiet(t, p),
         \A u \in AllThreads : ThreadFits(u)
  PROVE  \A u \in AllThreads : ThreadFits(u)'
<1>1. /\ \A u \in AllThreads : u # t => call'[u] = call[u]
      /\ \A u \in AllThreads : u # t => (Closer(u)' <=> Closer(u))
      /\ servers' = servers
  BY QuietDomains DEF Quiet, OnlyThread, OnlyServed
<1>2. ThreadFits(t)'
  <2>1. /\ Closer(t)' <=> Closer(t)
        /\ Closer(t) => /\ call'[t].srv = call[t].srv
                        /\ call'[t].at \in Closing \cup Closes
    BY DEF Quiet, LocalsFit
  <2>2. /\ Closer(t) => call[t].srv # 0 /\ call[t].srv \notin servers
        /\ \A u \in AllThreads :
             Closer(t) /\ Closer(u) /\ call[u].srv = call[t].srv => u = t
    BY DEF ThreadFits
  <2>3. /\ call'[t].at \in Resting <=> call'[t].peer = 0
        /\ call'[t].at = "idle" => call'[t] = Idle
        /\ call'[t].at \in Serving \cup {"join"} => call'[t].listen # 0
        /\ call'[t].at \in {"closeItem", "join"} => call'[t].srv # 0
    BY DEF Quiet, LocalsFit
  <2>4. call'[t].listen # 0 => call'[t].srv # 0
    BY DEF Quiet, LocalsFit, ThreadFits
  <2> QED BY <1>1, <2>1, <2>2, <2>3, <2>4 DEF ThreadFits
<1>3. ASSUME NEW u \in AllThreads, u # t PROVE ThreadFits(u)'
  <2>1. Closer(t)' => Closer(t) /\ call'[t].srv = call[t].srv
    BY DEF Quiet, LocalsFit
  <2>2. ThreadFits(u)
    OBVIOUS
  <2>3. /\ call'[u] = call[u]
        /\ Closer(u)' <=> Closer(u)
    BY <1>1, <1>3
  <2> QED BY <1>1, <2>1, <2>2, <2>3 DEF ThreadFits
<1> QED BY <1>2, <1>3

(* ... the listening peers for which threads accept, ...                     *)
LEMMA QuietListens ==
  ASSUME PoolTypeOK, PoolInRange, NEW t \in AllThreads, NEW p \in Nat,
         Quiet(t, p), \A u \in AllThreads : ListenFits(u),
         \A l \in DOMAIN peer : ListenerFits(l),
         \A s \in DOMAIN server : ServerFits(s)
  PROVE  \A u \in AllThreads : ListenFits(u)'
<1>1. \A l \in DOMAIN peer : peer'[l].isServer => peer'[l] = peer[l]
  BY DEF Quiet, OnlyPeer
<1>2. ListenFits(t)'
  <2>0. SUFFICES ASSUME call'[t].listen # 0,
                        peer'[call'[t].listen].isServer
                 PROVE  peer'[call'[t].listen].srv = call'[t].srv
    BY DEF ListenFits
  <2>1. CASE call'[t].listen = call[t].listen
               /\ call'[t].srv = call[t].srv
    <3>1. call[t].listen \in DOMAIN peer
      BY <2>0, <2>1, PoolDomains DEF PoolInRange
    <3> QED BY <2>0, <2>1, <3>1, <1>1 DEF ListenFits
  <2>2. CASE /\ p \in DOMAIN peer /\ peer[p].srv # 0
             /\ call'[t].srv = peer[p].srv
             /\ call'[t].listen = server[peer[p].srv].sp
    <3>1. peer[p].srv \in DOMAIN server
      BY <2>2, PoolDomains DEF PoolInRange
    <3>2. call'[t].listen \in DOMAIN peer
      BY <2>2, <3>1 DEF PoolInRange
    <3> DEFINE l == call'[t].listen
    <3>3. /\ peer'[l] = peer[l] /\ peer[l].srv # 0
          /\ server[peer[l].srv].sp = l
      BY <3>2, <2>0, <1>1 DEF ListenerFits
    <3>4. peer[l].srv \in DOMAIN server
      BY <3>2, <3>3, PoolDomains DEF PoolInRange
    <3>5. peer[l].srv = peer[p].srv
      BY <3>1, <3>3, <3>4, <2>2 DEF ServerFits
    <3> QED BY <2>2, <3>3, <3>5
  <2> QED BY <2>0, <2>1, <2>2 DEF Quiet, LocalsFit
<1>3. ASSUME NEW u \in AllThreads, u # t PROVE ListenFits(u)'
  <2>1. call'[u] = call[u]
    BY <1>3 DEF Quiet, OnlyThread
  <2>2. call[u].listen # 0 => call[u].listen \in DOMAIN peer
    BY PoolDomains DEF PoolInRange
  <2> QED BY <2>1, <2>2, <1>1 DEF ListenFits
<1> QED BY <1>2, <1>3

(* ... and every reference in range, ...                                     *)
LEMMA QuietRange ==
  ASSUME PoolTypeOK, PoolInRange, NEW t \in AllThreads, NEW p \in Nat,
         Quiet(t, p)
  PROVE  PoolInRange'
<1>1. /\ DOMAIN peer' = DOMAIN peer /\ DOMAIN server' = DOMAIN server
      /\ Len(peer') = Len(peer) /\ Len(server') = Len(server)
  BY QuietDomains DEF Quiet, OnlyPeer, OnlyServed
<1>2. \A r \in 0 .. Len(peer) : r # 0 => r \in DOMAIN peer
  BY PoolDomains
<1>3. ASSUME NEW q \in DOMAIN peer PROVE peer'[q].srv \in 0 .. Len(server)
  <2>1. CASE q # p
    BY <2>1, <1>3 DEF Quiet, OnlyPeer, PoolInRange
  <2>2. CASE q = p
    <3>1. 0 \in 0 .. Len(server)
      BY PoolDomains
    <3>2. call[t].listen # 0 =>
            peer[call[t].listen].srv \in 0 .. Len(server)
      BY <1>2 DEF PoolInRange
    <3> QED BY <2>2, <3>1, <3>2 DEF Quiet, ServesFit, Linked, PoolInRange
  <2> QED BY <2>1, <2>2
<1>4. ASSUME NEW s \in DOMAIN server
      PROVE  /\ server'[s].sp \in DOMAIN peer
             /\ server'[s].peers \cup server'[s].pending \subseteq DOMAIN peer
  <2>1. server'[s].sp \in DOMAIN peer
    BY DEF Quiet, OnlyServed, PoolInRange
  <2>2. server'[s] \in PoolServer
    BY <1>1 DEF Quiet, OnlyServed
  <2>3. ASSUME NEW q \in server'[s].peers \cup server'[s].pending
        PROVE  q \in DOMAIN peer
    <3>1. q \in Nat
      BY <2>2, <2>3 DEF PoolServer
    <3>2. CASE q # p
      BY <3>1, <3>2, <2>3 DEF Quiet, OnlyServed, PoolInRange
    <3>3. CASE q = p
      <4>1. CASE q = 0
        <5>1. ~(0 \in server[s].peers \cup server[s].pending)
          BY PoolDomains DEF PoolInRange
        <5> QED BY <5>1, <4>1, <3>3, <2>3 DEF Quiet, ServesFit
      <4>2. CASE q # 0
        BY <4>2, <3>3, <1>2 DEF Quiet, LocalsFit
      <4> QED BY <4>1, <4>2
    <3> QED BY <3>2, <3>3
  <2> QED BY <2>1, <2>3
<1>5. ASSUME NEW u \in AllThreads
      PROVE  /\ call'[u].srv \in 0 .. Len(server)
             /\ call'[u].listen \in 0 .. Len(peer)
             /\ call'[u].peer \in 0 .. Len(peer)
  <2>1. CASE u # t
    BY <2>1 DEF Quiet, OnlyThread, PoolInRange
  <2>2. CASE u = t
    <3>0. /\ 0 \in 0 .. Len(server) /\ 0 \in 0 .. Len(peer)
          /\ DOMAIN server \subseteq 0 .. Len(server)
          /\ DOMAIN peer \subseteq 0 .. Len(peer)
      BY PoolDomains
    <3>1. call'[u].srv \in 0 .. Len(server)
      BY <2>2, <3>0 DEF Quiet, LocalsFit, PoolInRange
    <3>2. p \in DOMAIN peer /\ peer[p].srv # 0 =>
            server[peer[p].srv].sp \in DOMAIN peer
      BY PoolDomains DEF PoolInRange
    <3>3. call'[u].listen \in 0 .. Len(peer)
      BY <2>2, <3>0, <3>2 DEF Quiet, LocalsFit, PoolInRange
    <3>4. call'[u].peer \in 0 .. Len(peer)
      BY <2>2, <3>0 DEF Quiet, LocalsFit, PoolInRange
    <3> QED BY <3>1, <3>3, <3>4
  <2> QED BY <2>1, <2>2
<1> QED BY <1>1, <1>3, <1>4, <1>5 DEF PoolInRange

(* ... leaves the listening peers where they are, ...                        *)
LEMMA QuietListeners ==
  ASSUME PoolTypeOK, PoolInRange, NEW t \in AllThreads, NEW p \in Nat,
         Quiet(t, p), \A l \in DOMAIN peer : ListenerFits(l)
  PROVE  \A l \in DOMAIN peer' : ListenerFits(l)'
<1>1. DOMAIN peer' = DOMAIN peer /\ DOMAIN server' = DOMAIN server
  BY QuietDomains
<1>2. SUFFICES ASSUME NEW l \in DOMAIN peer, peer'[l].isServer
               PROVE  ListenerFits(l)'
  BY <1>1 DEF ListenerFits
<1>3. l # p /\ peer'[l] = peer[l] /\ l # 0 /\ l \in Nat
  BY <1>2, PoolDomains DEF Quiet, OnlyPeer
<1>4. /\ peer[l].srv # 0 /\ server[peer[l].srv].sp = l
      /\ peer[l].id = peer[l].srv /\ peer[l].op = "none"
      /\ ~Listed(l)
      /\ \A c \in Cookies : clients[c] # l
      /\ \A s \in DOMAIN server : l \notin server[s].peers \cup server[s].pending
      /\ peer[l].alive => server[peer[l].srv].alive
  BY <1>2, <1>3 DEF ListenerFits, Listed
<1>5. peer[l].srv \in DOMAIN server
  BY <1>4, PoolDomains DEF PoolInRange
<1>6. /\ server'[peer[l].srv].sp = l
      /\ peer[l].alive => server'[peer[l].srv].alive
  BY <1>4, <1>5 DEF Quiet, OnlyServed
<1>7. ~Listed(l)'
  BY <1>3, <1>4 DEF Quiet, OnlyPlace
<1>8. \A c \in Cookies : clients'[c] # l
  BY <1>3, <1>4 DEF Quiet, OnlyPlace
<1>9. \A s \in DOMAIN server : l \notin server'[s].peers \cup server'[s].pending
  BY <1>3, <1>4 DEF Quiet, OnlyServed
<1>10. ASSUME NEW u \in AllThreads, call'[u].peer = l
       PROVE  /\ call'[u].at \in Closes /\ call'[u].then = "peers"
              /\ call'[u].srv = peer[l].srv
              /\ call'[u].at = "close" => peer[l].flag = "close"
  <2>1. u # t
    BY <1>3, <1>10 DEF Quiet, LocalsFit
  <2>2. call'[u] = call[u]
    BY <2>1 DEF Quiet, OnlyThread
  <2> QED BY <1>2, <1>3, <1>10, <2>2 DEF ListenerFits
<1> QED BY <1>1, <1>3, <1>4, <1>6, <1>7, <1>8, <1>9, <1>10
           DEF ListenerFits, Listed

(* ... and their servers listed or being closed, ...                         *)
LEMMA QuietServers ==
  ASSUME PoolTypeOK, PoolInRange, NEW t \in AllThreads, NEW p \in Nat,
         Quiet(t, p), \A s \in DOMAIN server : ServerFits(s)
  PROVE  \A s \in DOMAIN server' : ServerFits(s)'
<1>1. /\ DOMAIN server' = DOMAIN server /\ servers' = servers
      /\ \A s \in DOMAIN server :
           /\ server'[s].alive = server[s].alive
           /\ server'[s].running = server[s].running
           /\ server'[s].sp = server[s].sp
  BY QuietDomains DEF Quiet, OnlyServed
<1>2. /\ \A u \in AllThreads : Closer(u)' <=> Closer(u)
      /\ \A u \in AllThreads :
           Closer(u) => call'[u].srv = call[u].srv
      /\ \A u \in AllThreads : u # t => call'[u] = call[u]
  BY QuietDomains DEF Quiet, LocalsFit, OnlyThread
<1>3. \A q \in DOMAIN peer : peer'[q].isServer <=> peer[q].isServer
  BY DEF Quiet, OnlyPeer
<1>4. /\ call'[t].at # "stop" /\ call[t].at # "stop"
      /\ call[t].peer \in {0, p}
      /\ p \in DOMAIN peer => ~peer[p].isServer
  BY DEF Quiet, LocalsFit, OnlyPeer
<1>5. SUFFICES ASSUME NEW s \in DOMAIN server PROVE ServerFits(s)'
  BY <1>1
<1>6. server[s].sp \in DOMAIN peer /\ server[s].sp # 0
  BY PoolDomains DEF PoolInRange
<1>7. ServerFits(s)
  OBVIOUS
<1>8. ASSUME NEW u \in AllThreads, Closer(u), call[u].srv = s
      PROVE  /\ peer'[server[s].sp].isServer =>
                   call'[u].at = "stop" \/ call'[u].peer = server[s].sp
             /\ call'[u].at = "stop" => peer'[server[s].sp].isServer
  <2>1. /\ peer[server[s].sp].isServer =>
             call[u].at = "stop" \/ call[u].peer = server[s].sp
        /\ call[u].at = "stop" => peer[server[s].sp].isServer
    BY <1>7, <1>8 DEF ServerFits
  <2>2. CASE u # t
    BY <2>1, <2>2, <1>2, <1>3, <1>6
  <2>3. CASE u = t
    BY <2>1, <2>3, <1>3, <1>4, <1>6
  <2> QED BY <2>2, <2>3
<1>9. \A u \in AllThreads : Closer(u)' /\ call'[u].srv = s =>
        Closer(u) /\ call[u].srv = s
  BY <1>2
<1>10. \A r \in DOMAIN server' : server'[r].sp = server'[s].sp => r = s
  BY <1>1, <1>7 DEF ServerFits
<1>11. s \in servers' => /\ server'[s].alive /\ server'[s].running
                         /\ peer'[server'[s].sp].isServer
  BY <1>1, <1>3, <1>6, <1>7 DEF ServerFits
<1>12. server'[s].alive =>
         s \in servers' \/ \E u \in AllThreads :
                             Closer(u)' /\ call'[u].srv = s
  BY <1>1, <1>2, <1>7 DEF ServerFits
<1> QED BY <1>1, <1>8, <1>9, <1>10, <1>11, <1>12 DEF ServerFits

(* ... and the server of a Listen() that has not joined to its thread.       *)
LEMMA QuietJoins ==
  ASSUME PoolTypeOK, PoolInRange, NEW t \in AllThreads, NEW p \in Nat,
         Quiet(t, p), \A u \in AllThreads : JoinFits(u),
         \A u \in AllThreads : ThreadFits(u),
         \A s \in DOMAIN server : ServerFits(s)
  PROVE  \A u \in AllThreads : JoinFits(u)'
<1>1. /\ DOMAIN server' = DOMAIN server /\ servers' = servers
      /\ DOMAIN peer' = DOMAIN peer
  BY QuietDomains DEF Quiet, OnlyServed
<1> SUFFICES ASSUME NEW u \in AllThreads, call'[u].at = "join"
             PROVE  JoinFits(u)'
  BY DEF JoinFits
<1>2. u # t /\ call'[u] = call[u] /\ call[u].at = "join"
  BY DEF Quiet, LocalsFit, OnlyThread
<1> DEFINE s == call[u].srv
           l == call[u].listen
<1>3. /\ s \in servers /\ server[s].sp = l
      /\ server[s].peers = {} /\ server[s].pending = {}
      /\ \A q \in DOMAIN peer : q # l => peer[q].srv # s
      /\ \A w \in AllThreads : w # u =>
           call[w].srv # s /\ call[w].listen # l
  BY <1>2 DEF JoinFits
<1>4. s \in DOMAIN server /\ s # 0 /\ l \in DOMAIN peer /\ l # 0
        /\ peer[l].isServer
  BY <1>2, <1>3, PoolDomains DEF PoolTypeOK, PoolInRange, ServerFits
<1>5. p \in DOMAIN peer => p # l /\ peer[p].srv # s
  BY <1>3, <1>4 DEF Quiet, OnlyPeer
<1>6. ~Linked(t, s)
  <2>1. call[t].listen # 0 => call[t].listen \in DOMAIN peer
    BY PoolDomains DEF PoolInRange
  <2> QED BY <2>1, <1>2, <1>3 DEF Linked
<1>7. server'[s].sp = l
  BY <1>3, <1>4 DEF Quiet, OnlyServed
<1>8. server'[s].peers = {} /\ server'[s].pending = {}
  <2>1. server'[s] \in PoolServer
    BY <1>1, <1>4 DEF Quiet, OnlyServed
  <2>2. \A q \in Nat : q # p
          => q \notin server'[s].peers \cup server'[s].pending
    BY <1>3, <1>4 DEF Quiet, OnlyServed
  <2>3. p \notin server'[s].peers \cup server'[s].pending
    BY <1>3, <1>4, <1>6 DEF Quiet, ServesFit
  <2> QED BY <2>1, <2>2, <2>3 DEF PoolServer
<1>9. \A q \in DOMAIN peer : q # l => peer'[q].srv # s
  <2>1. \A q \in DOMAIN peer : q # p /\ q # l => peer'[q].srv # s
    BY <1>3 DEF Quiet, OnlyPeer
  <2>2. p \in DOMAIN peer => peer'[p].srv # s
    BY <1>4, <1>5, <1>6 DEF Quiet, ServesFit
  <2> QED BY <2>1, <2>2
<1>10. ASSUME NEW w \in AllThreads, w # u
       PROVE  call'[w].srv # s /\ call'[w].listen # l
  <2>1. CASE w # t
    BY <2>1, <1>10, <1>3 DEF Quiet, OnlyThread
  <2>2. CASE w = t
    <3>1. call'[t].srv # s
      BY <1>2, <1>3, <1>4, <1>5 DEF Quiet, LocalsFit
    <3>2. p \in DOMAIN peer /\ peer[p].srv # 0 => server[peer[p].srv].sp # l
      <4>1. p \in DOMAIN peer /\ peer[p].srv # 0
              => peer[p].srv \in DOMAIN server
        BY PoolDomains DEF PoolInRange
      <4> QED BY <4>1, <1>3, <1>4, <1>5 DEF ServerFits
    <3>3. call'[t].listen # l
      BY <1>2, <1>3, <1>4, <3>2 DEF Quiet, LocalsFit
    <3> QED BY <2>2, <3>1, <3>3
  <2> QED BY <2>1, <2>2
<1> QED BY <1>1, <1>2, <1>3, <1>7, <1>8, <1>9, <1>10 DEF JoinFits

-----------------------------------------------------------------------------
(* The history variables of PeerPool take in what a step has brought about.  *)
HistoryStep ==
  /\ raced' = (raced \cup Raced') \ {0}
  /\ overlapped' = overlapped \cup Overlapped'
  /\ strayed' = (strayed \cup Reused' \cup OfOverlapped') \ {0}

(* The history variables take in every meeting of two threads, every reused  *)
(* cookie and every server that is closed under a thread.                    *)
LEMMA HistoryKept ==
  ASSUME PoolTypeOK, PoolTypeOK', HistoryStep
  PROVE  HistoryFits'
<1>1. ASSUME NEW t \in AllThreads, NEW u \in AllThreads, t # u,
             call'[t].peer = call'[u].peer, call'[t].peer # 0
      PROVE  call'[t].peer \in raced'
  BY <1>1 DEF HistoryStep, Raced, Meet, P
<1>2. ASSUME NEW t \in AllThreads, NEW u \in AllThreads, t # u,
             Closer(t)', call'[u].srv = call'[t].srv
      PROVE  call'[t].srv \in overlapped'
  BY <1>2 DEF HistoryStep, Overlapped, Closer
<1>3. DOMAIN peer' = 1 .. Len(peer') /\ Len(peer') \in Nat
  BY DEF PoolTypeOK
<1>4. ASSUME NEW c \in Cookies, NEW p \in DOMAIN peer',
             clients'[c] # 0, clients'[c] # p, peer'[p].id = c,
                 ~peer'[p].isServer,
             peer'[p].alive \/ \E t \in AllThreads : call'[t].peer = p
      PROVE  clients'[c] \in strayed'
  <2>1. clients'[c] \in Reused'
    BY <1>4 DEF Reused, P
  <2> QED BY <2>1, <1>4 DEF HistoryStep
<1>5. ASSUME NEW p \in DOMAIN peer', peer'[p].srv \in overlapped'
      PROVE  p \in strayed'
  <2>1. p \in OfOverlapped'
    BY <1>5 DEF OfOverlapped
  <2> QED BY <2>1, <1>3 DEF HistoryStep
<1>6. ASSUME NEW t \in AllThreads, call'[t].peer # 0,
             call'[t].srv \in overlapped'
      PROVE  call'[t].peer \in strayed'
  <2>1. call'[t].peer \in OfOverlapped'
    BY <1>6 DEF OfOverlapped, P
  <2> QED BY <2>1, <1>6 DEF HistoryStep
<1> QED BY <1>1, <1>2, <1>4, <1>5, <1>6 DEF HistoryFits

(* Nobody becomes undisturbed: a peer that is known after a step was known   *)
(* before it.                                                                *)
LEMMA KnownBack ==
  ASSUME PoolTypeOK, HistoryStep, NEW q \in Known', q \in DOMAIN peer,
         peer'[q].alive => peer[q].alive
  PROVE  q \in Known
<1>1. q # 0
  BY PoolDomains
<1> QED BY <1>1 DEF HistoryStep, Known

-----------------------------------------------------------------------------
(* A quiet step keeps every known peer in its place, when the peers it moves *)
(* are in a thread's hand (Busy), a peer enters the maps of a server from the *)
(* hand of a thread that does not close it, and a closer leaves a map empty. *)
Busy(t, p) == p = 0 \/ call[t].peer = p \/ call'[t].peer = p

AddsFit(t, p) ==
  \A s \in DOMAIN server :
    /\ p \in Known /\ p \in Known'
    /\ \/ p \in server'[s].peers \ server[s].peers
       \/ p \in server'[s].pending \ server[s].pending
    => call[t].srv = s /\ call[t].peer = p /\ ~Closer(t)

LeavesFit(t) ==
  LET s == call[t].srv
  IN Closer(t) =>
       /\ call'[t].at \in {"pending", "delete"} \/ call'[t].then = "pending"
            => \/ call[t].at \in {"pending", "delete"}
               \/ call[t].then = "pending"
               \/ server[s].peers = {}
       /\ call'[t].at = "delete" =>
            call[t].at = "delete" \/ server[s].pending = {}

(* A step that leaves a peer where it is keeps what is known of it.          *)
Still(q) ==
  /\ q \in DOMAIN peer /\ peer'[q] = peer[q]
  /\ Listed(q)' <=> Listed(q)
  /\ ListedOnce(q) => ListedOnce(q)'
  /\ \A c \in Cookies : clients'[c] = q <=> clients[c] = q
  /\ DOMAIN server \subseteq DOMAIN server'
  /\ \A s \in DOMAIN server' :
       /\ q \in server'[s].peers <=> s \in DOMAIN server
            /\ q \in server[s].peers
       /\ q \in server'[s].pending <=> s \in DOMAIN server
            /\ q \in server[s].pending
  /\ \A s : /\ Serves(s, q)' <=> Serves(s, q)
            /\ Awaits(s, q)' <=> Awaits(s, q)
  /\ q \in abandoned => q \in abandoned'

(* A peer about which a step changes nothing stays in its place, with what   *)
(* its operation needs, ...                                                  *)
LEMMA StillPlaces ==
  ASSUME NEW q, Still(q), Taken(q)' <=> Taken(q),
         PlaceFits(q), Taken(q) \/ OperationFits(q)
  PROVE  PlaceFits(q)' /\ (Taken(q)' \/ OperationFits(q)')
<1>1. /\ peer'[q] = peer[q] /\ (Listed(q)' <=> Listed(q)) /\ ListedOnce(q)'
      /\ \A s : /\ Serves(s, q)' <=> Serves(s, q)
                /\ Awaits(s, q)' <=> Awaits(s, q)
      /\ q \in abandoned => q \in abandoned'
      /\ DOMAIN server \subseteq DOMAIN server'
  BY DEF Still, PlaceFits
<1>2. Registered(q)' <=> Registered(q)
  BY DEF Registered, Still
<1>3. Listed(q)' => Blank(q)' /\ ~Taken(q)'
  BY <1>1 DEF PlaceFits, Blank
<1>4. \A c \in Cookies : clients'[c] = q =>
        peer'[q].id = c /\ peer'[q].srv = 0 /\ ~peer'[q].isServer
  BY <1>1 DEF PlaceFits, Still
<1>5. \A s \in DOMAIN server' : q
        \in server'[s].peers \cup server'[s].pending =>
        peer'[q].srv = s
  BY <1>1 DEF PlaceFits, Still
<1>6. \A s \in DOMAIN server' : q \in server'[s].peers
        => q \notin server'[s].pending
  BY DEF PlaceFits, Still
<1>7. \/ Taken(q)' \/ q \in abandoned' \/ Listed(q)' \/ Registered(q)'
      \/ peer'[q].isServer
      \/ \E s \in DOMAIN server' : Serves(s, q)' \/ Awaits(s, q)'
  BY <1>1, <1>2 DEF PlaceFits
<1>8. PlaceFits(q)'
  BY <1>1, <1>3, <1>4, <1>5, <1>6, <1>7 DEF PlaceFits
<1>9. OperationFits(q) => OperationFits(q)'
  BY <1>1, <1>2 DEF OperationFits
<1> QED BY <1>8, <1>9

(* ... and where the thread that handles it has brought it.                  *)
LEMMA StillPhases ==
  ASSUME NEW w, NEW q, Still(q), call'[w] = call[w],
         call[w].peer = q, PhaseFits(w),
         call[w].at \in Serving => (Resolved(w)' <=> Resolved(w)),
         call[w].at = "closeItem" => call[w].srv \in DOMAIN server
  PROVE  PhaseFits(w)'
<1>1. /\ peer'[q] = peer[q] /\ (Listed(q)' <=> Listed(q))
      /\ \A s : /\ Serves(s, q)' <=> Serves(s, q)
                /\ Awaits(s, q)' <=> Awaits(s, q)
  BY DEF Still
<1>2. Registered(q)' <=> Registered(q)
  BY DEF Registered, Still
<1>3. Nowhere(q) => Nowhere(q)'
  BY <1>1, <1>2 DEF Nowhere, Still
<1>4. Blank(q)' <=> Blank(q)
  BY <1>1 DEF Blank
<1>5. /\ call[w].at = "closeItem" => q \in server'[call[w].srv].peers
      /\ call[w].at \in Closes =>
           \A r \in DOMAIN server' : q \notin server'[r].pending
  BY DEF PhaseFits, Still
<1>6. /\ (call[w].at \in {"create", "addClient"} => Blank(q)' /\ Nowhere(q)')
      /\ (call[w].at = "list" => Nowhere(q)')
      /\ (call[w].at \in Closes => ~Listed(q)')
  BY <1>1, <1>3, <1>4 DEF PhaseFits
<1>7. /\ call[w].at \in {"begin", "pend", "addPeer"} => Nowhere(q)'
  BY <1>3 DEF PhaseFits
<1>8. call'[w].peer = q /\ call'[w] = call[w]
  OBVIOUS
<1> QED BY <1>1, <1>2, <1>5, <1>6, <1>7, <1>8 DEF PhaseFits, Serving

(* A quiet step changes nothing about the other peers that are known after   *)
(* it, ...                                                                   *)
LEMMA QuietStill ==
  ASSUME PoolTypeOK, NEW t \in AllThreads, NEW p \in Nat, Quiet(t, p),
         NEW q \in Known', q # p
  PROVE  Still(q)
<1>2. DOMAIN peer' = DOMAIN peer /\ DOMAIN server' = DOMAIN server
  BY QuietDomains
<1>3. q \in DOMAIN peer /\ q \in Nat /\ q # 0 /\ peer'[q] = peer[q]
  BY <1>2, PoolDomains DEF Quiet, OnlyPeer, Known
<1>6. /\ Listed(q)' <=> Listed(q)
      /\ ListedOnce(q) => ListedOnce(q)'
  BY <1>3 DEF Quiet, OnlyPlace
<1>8. \A c \in Cookies : clients'[c] = q <=> clients[c] = q
  BY <1>3 DEF Quiet, OnlyPlace
<1>10. \A s \in DOMAIN server :
         /\ q \in server'[s].peers <=> q \in server[s].peers
         /\ q \in server'[s].pending <=> q \in server[s].pending
  BY <1>3 DEF Quiet, OnlyServed
<1>11. \A s : /\ Serves(s, q)' <=> Serves(s, q)
              /\ Awaits(s, q)' <=> Awaits(s, q)
  BY <1>2, <1>10 DEF Quiet, OnlyServed, Serves, Awaits
<1>12. q \in abandoned => q \in abandoned'
  BY DEF Quiet, OnlyPlace
<1> QED BY <1>2, <1>3, <1>6, <1>8, <1>10, <1>11, <1>12 DEF Still

(* ... which stay in their places, ...                                       *)
LEMMA QuietPlaces ==
  ASSUME PoolInv, NEW t \in AllThreads, NEW p \in Nat, Quiet(t, p),
         HistoryStep, NEW q \in Known', q # p
  PROVE  PlaceFits(q)' /\ (Taken(q)' \/ OperationFits(q)')
<1>1. PoolTypeOK
  BY DEF PoolInv
<1>2. Still(q)
  BY <1>1, QuietStill
<1>3. q \in DOMAIN peer /\ q # 0 /\ peer'[q] = peer[q]
  BY <1>1, <1>2, PoolDomains DEF Still
<1>4. q \in Known
  BY <1>1, <1>3, KnownBack
<1>5. PlaceFits(q) /\ (Taken(q) \/ OperationFits(q))
  BY <1>4 DEF PoolInv
<1>6. /\ Taken(q)' <=> Taken(q)
  BY <1>3 DEF Quiet, OnlyThread, LocalsFit, Taken
<1> QED BY <1>2, <1>5, <1>6, StillPlaces

(* ... and apart from the peer that the step handles, ...                    *)
LEMMA BusyApart ==
  ASSUME PoolInv, NEW t \in AllThreads, NEW p \in Nat, Quiet(t, p),
         HistoryStep, HistoryFits', Busy(t, p),
         NEW w \in AllThreads, w # t, NEW q \in Known',
         call'[w].peer = q
  PROVE  q # p
<1>1. PoolTypeOK /\ PoolInRange /\ HistoryFits
  BY DEF PoolInv
<1>2. DOMAIN peer' = DOMAIN peer
  BY <1>1, QuietDomains
<1>3. call'[w] = call[w] /\ call[w].peer = q
  BY DEF Quiet, OnlyThread
<1>4. q \in DOMAIN peer /\ q \in Nat /\ q # 0
  BY <1>1, <1>2, <1>3, PoolDomains DEF Known
<1>5. SUFFICES ASSUME q = p PROVE FALSE
  OBVIOUS
<1>6. peer'[q].alive => peer[q].alive
  BY <1>4, <1>5 DEF Quiet, OnlyPeer
<1>7. q \in Known
  BY <1>1, <1>3, <1>4, <1>6, KnownBack
<1>8. CASE call[t].peer = p
  BY <1>1, <1>3, <1>4, <1>5, <1>7, <1>8 DEF HistoryFits, Known
<1>9. CASE call'[t].peer = p
  BY <1>3, <1>4, <1>5, <1>9 DEF HistoryFits, Known
<1> QED BY <1>4, <1>5, <1>8, <1>9 DEF Busy

(* ... where the other threads have brought them.                            *)
LEMMA QuietPhases ==
  ASSUME PoolInv, NEW t \in AllThreads, NEW p \in Nat, Quiet(t, p),
         HistoryStep, NEW w \in AllThreads, w # t,
         NEW q \in Known', q # p, call'[w].peer = q
  PROVE  PhaseFits(w)'
<1>1. PoolTypeOK /\ PoolInRange
  BY DEF PoolInv
<1>2. Still(q)
  BY <1>1, QuietStill
<1>3. call'[w] = call[w] /\ call[w].peer = q
  BY DEF Quiet, OnlyThread
<1>4. q \in DOMAIN peer /\ peer'[q] = peer[q]
  BY <1>2 DEF Still
<1>5. q \in Known
  BY <1>1, <1>3, <1>4, KnownBack
<1>6. PhaseFits(w)
  BY <1>3, <1>5 DEF PoolInv
<1>7. call[w].at \in Serving => (Resolved(w)' <=> Resolved(w))
  <2>1. ASSUME call[w].at \in Serving
        PROVE  call[w].listen \in DOMAIN peer
    <3>1. ThreadFits(w)
      BY DEF PoolInv
    <3> QED BY <1>1, <2>1, <3>1, PoolDomains DEF ThreadFits, PoolInRange
  <2>2. \A l \in DOMAIN peer : peer'[l].isServer <=> peer[l].isServer
    BY DEF Quiet, OnlyPeer
  <2> QED BY <1>3, <2>1, <2>2 DEF Resolved
<1>8. call[w].at = "closeItem" => call[w].srv \in DOMAIN server
  <2>1. ThreadFits(w)
    BY DEF PoolInv
  <2> QED BY <1>1, <2>1, PoolDomains DEF ThreadFits, PoolInRange
<1> QED BY <1>2, <1>3, <1>6, <1>7, <1>8, StillPhases

(* Who closes a server still leaves no peer behind.                          *)
LEMMA QuietClosers ==
  ASSUME PoolInv, NEW t \in AllThreads, NEW p \in Nat, Quiet(t, p),
         HistoryStep, AddsFit(t, p), LeavesFit(t)
  PROVE  \A w \in AllThreads : CloserFits(w)'
<1>1. PoolTypeOK /\ PoolInRange /\ HistoryFits
  BY DEF PoolInv
<1>2. DOMAIN peer' = DOMAIN peer /\ DOMAIN server' = DOMAIN server
  BY <1>1, QuietDomains
<1> SUFFICES ASSUME NEW w \in AllThreads, Closer(w)' PROVE CloserFits(w)'
  BY DEF CloserFits
<1> DEFINE s == call[w].srv
<1>3. /\ Closer(w) /\ call'[w].srv = s
      /\ w # t => call'[w] = call[w]
  BY <1>1, QuietDomains DEF Quiet, LocalsFit, OnlyThread
<1>4. s \in DOMAIN server
  <2>1. ThreadFits(w)
    BY DEF PoolInv
  <2> QED BY <1>1, <1>3, <2>1, PoolDomains DEF ThreadFits, PoolInRange
<1>5. /\ CloserFits(w)
  BY DEF PoolInv
<1>6. \A q \in Known' : q \in DOMAIN peer => q \in Known
  <2>1. \A q \in DOMAIN peer : peer'[q].alive => peer[q].alive
    BY DEF Quiet, OnlyPeer
  <2> QED BY <1>1, <2>1, KnownBack
<1>7. ASSUME NEW q \in Known',
             \/ q \in server'[s].peers \ server[s].peers
             \/ q \in server'[s].pending \ server[s].pending
      PROVE  FALSE
  <2>1. q \in DOMAIN peer /\ q \in Nat /\ q # 0
    BY <1>1, <1>2, PoolDomains DEF Known
  <2>2. CASE q # p
    BY <1>4, <1>7, <2>1, <2>2 DEF Quiet, OnlyServed
  <2>3. CASE q = p
    <3>1. SUFFICES ASSUME call[t].srv = s, call[t].peer = p, ~Closer(t)
                   PROVE  FALSE
      BY <1>4, <1>6, <1>7, <2>1, <2>3 DEF AddsFit
    <3>2. w # t
      BY <1>3, <3>1
    <3>3. p \in strayed
      BY <1>1, <1>3, <2>1, <2>3, <3>1, <3>2 DEF HistoryFits
    <3> QED BY <1>6, <2>1, <2>3, <3>3 DEF Known
  <2> QED BY <2>2, <2>3
<1>8. /\ call'[w].at \in {"pending", "delete"} \/ call'[w].then = "pending"
           => server[s].peers \cap Known = {}
      /\ call'[w].at = "delete" => server[s].pending \cap Known = {}
  BY <1>3, <1>5 DEF CloserFits, LeavesFit
<1>9. \A q \in Known' : q \in DOMAIN peer
  BY <1>2 DEF Known
<1>10. /\ server'[s].peers \cap Known' \subseteq server[s].peers \cap Known
       /\ server'[s].pending \cap Known' \subseteq
            server[s].pending \cap Known
  BY <1>6, <1>7, <1>9
<1>11. call'[w].srv = s
  BY <1>3
<1>12. /\ call'[w].at \in {"pending", "delete"} \/ call'[w].then = "pending"
           => server'[s].peers \cap Known' = {}
       /\ call'[w].at = "delete" => server'[s].pending \cap Known' = {}
  BY <1>8, <1>10
<1> QED BY <1>11, <1>12 DEF CloserFits

Stands(p) == PlaceFits(p) /\ (Taken(p) \/ OperationFits(p))

(* So only the peer of the step is left to consider, ...                     *)
LEMMA QuietRest ==
  ASSUME PoolInv, NEW t \in AllThreads, NEW p \in Nat, Quiet(t, p),
         HistoryStep, AddsFit(t, p), LeavesFit(t),
         p \in Known' => Stands(p)',
         \A w \in AllThreads :
           p \in Known' /\ call'[w].peer = p => PhaseFits(w)'
  PROVE  PoolInv'
<1>1. PoolTypeOK /\ PoolInRange
  BY DEF PoolInv
<1>2. PoolTypeOK' /\ DOMAIN peer' = DOMAIN peer
  BY <1>1, QuietDomains
<1>3. HistoryFits'
  BY <1>1, <1>2, HistoryKept
<1>4. PoolInRange' /\ \A w \in AllThreads : ThreadFits(w)'
  BY <1>1, QuietRange, QuietThreads DEF PoolInv
<1>5. /\ \A w \in AllThreads : JoinFits(w)'
      /\ \A w \in AllThreads : ListenFits(w)'
  BY <1>1, QuietJoins, QuietListens DEF PoolInv
<1>6. /\ \A w \in AllThreads : CloserFits(w)'
  BY <1>1, QuietClosers
<1>7. /\ \A l \in DOMAIN peer' : ListenerFits(l)'
      /\ \A s \in DOMAIN server' : ServerFits(s)'
  BY <1>1, QuietListeners, QuietServers DEF PoolInv
<1>8. ASSUME NEW q \in Known'
      PROVE  PlaceFits(q)' /\ (Taken(q)' \/ OperationFits(q)')
  BY QuietPlaces DEF Stands
<1>9. ASSUME NEW w \in AllThreads, call'[w].peer \in Known'
      PROVE  PhaseFits(w)'
  <2>1. CASE call'[w].peer = p
    BY <1>9, <2>1
  <2>2. CASE call'[w].peer # p /\ w # t
    BY <1>9, <2>2, QuietPhases
  <2>3. CASE call'[w].peer # p /\ w = t
    <3>1. call'[t].peer # 0
      BY <1>1, <1>2, <1>9, <2>3, PoolDomains DEF Known
    <3> QED BY <2>3, <3>1 DEF Quiet, LocalsFit
  <2> QED BY <2>1, <2>2, <2>3
<1> QED BY <1>2, <1>3, <1>4, <1>5, <1>6, <1>7, <1>8, <1>9 DEF PoolInv

(* ... and of the threads that handle it only the one that takes the step.   *)
LEMMA QuietStep ==
  ASSUME PoolInv, NEW t \in AllThreads, NEW p \in Nat, Quiet(t, p),
         HistoryStep, Busy(t, p), AddsFit(t, p), LeavesFit(t),
         p \in Known' => Stands(p)',
         p \in Known' /\ call'[t].peer = p => PhaseFits(t)'
  PROVE  PoolInv'
<1>1. HistoryFits'
  BY QuietDomains, HistoryKept DEF PoolInv
<1>2. ASSUME NEW w \in AllThreads, p \in Known', call'[w].peer = p
      PROVE  PhaseFits(w)'
  <2>1. CASE w # t
    BY <1>1, <1>2, <2>1, BusyApart
  <2>2. CASE w = t
    BY <1>2, <2>2
  <2> QED BY <2>1, <2>2
<1> QED BY <1>2, QuietRest

-----------------------------------------------------------------------------
(* Most quiet steps do not touch the tables either.                          *)
TablesKept == /\ UNCHANGED <<passive, proactive, clients, servers, server>>
              /\ abandoned \subseteq abandoned'

(* A step that leaves the tables and lists alone leaves every peer in its    *)
(* place.                                                                    *)
LEMMA KeptTables ==
  ASSUME PoolTypeOK, TablesKept, NEW p \in Nat
  PROVE  /\ OnlyPlace(p) /\ OnlyServed(p)
         /\ Listed(p)' <=> Listed(p)
         /\ ListedOnce(p)' <=> ListedOnce(p)
         /\ Registered(p)' <=> Registered(p)
         /\ \A s : (Serves(s, p)' <=> Serves(s, p))
                     /\ (Awaits(s, p)' <=> Awaits(s, p))
         /\ Nowhere(p)' <=> Nowhere(p)
<1>1. \A q : /\ Listed(q)' <=> Listed(q)
             /\ ListedOnce(q)' <=> ListedOnce(q)
  BY DEF TablesKept, Listed, ListedOnce
<1>2. OnlyPlace(p)
  BY <1>1 DEF TablesKept, OnlyPlace, PoolTypeOK
<1>3. OnlyServed(p)
  BY DEF TablesKept, OnlyServed, PoolTypeOK
<1>4. /\ Registered(p)' <=> Registered(p)
      /\ \A s : (Serves(s, p)' <=> Serves(s, p))
                  /\ (Awaits(s, p)' <=> Awaits(s, p))
  BY DEF TablesKept, Registered, Serves, Awaits
<1>5. Nowhere(p)' <=> Nowhere(p)
  BY <1>1, <1>4 DEF TablesKept, Nowhere
<1> QED BY <1>1, <1>2, <1>3, <1>4, <1>5

(* What is known of the peer that a thread handles, and of its server.       *)
LEMMA Handles ==
  ASSUME PoolInv, NEW t \in AllThreads, call[t].at \notin Resting,
         NEW p \in Nat, call[t].peer = p
  PROVE  /\ p \in DOMAIN peer /\ p # 0 /\ p \in 0 .. Len(peer)
         /\ peer[p] \in PoolPeer
         /\ call[t].srv \in 0 .. Len(server)
         /\ call[t].listen \in 0 .. Len(peer)
         /\ call[t].at \notin Closes => ~peer[p].isServer /\ ~Closer(t)
         /\ peer[p].isServer => call[t].then = "peers"
         /\ call[t].at \in Serving => call[t].listen \in DOMAIN peer
         /\ p \in Known => PlaceFits(p) /\ PhaseFits(t) /\ ~Listed(p)
         /\ Taken(p)
<1>1. /\ PoolTypeOK /\ PoolInRange /\ ThreadFits(t)
      /\ \A l \in DOMAIN peer : ListenerFits(l)
  BY DEF PoolInv
<1>2. p \in DOMAIN peer /\ p # 0 /\ p \in 0 .. Len(peer)
        /\ peer[p] \in PoolPeer
  BY <1>1, PoolDomains DEF ThreadFits, PoolInRange
<1>3. /\ call[t].srv \in 0 .. Len(server)
      /\ call[t].listen \in 0 .. Len(peer)
      /\ call[t].at \in Serving => call[t].listen \in DOMAIN peer
  BY <1>1, PoolDomains DEF ThreadFits, PoolInRange
<1>4. /\ peer[p].isServer => call[t].at \in Closes /\ call[t].then = "peers"
  BY <1>1, <1>2 DEF ListenerFits
<1>5. call[t].at \notin Closes => ~Closer(t)
  BY <1>1 DEF ThreadFits, Closing, Resting
<1>6. Taken(p)
  BY DEF Taken
<1>7. p \in Known => PlaceFits(p) /\ PhaseFits(t) /\ ~Listed(p)
  BY <1>6 DEF PoolInv, PlaceFits
<1> QED BY <1>2, <1>3, <1>4, <1>5, <1>6, <1>7

(* A step that leaves the tables alone, and the key of a peer in one.        *)
LEMMA InPlaceStep ==
  ASSUME PoolInv, HistoryStep, NEW t \in AllThreads, NEW p \in DOMAIN peer,
         OnlyPeer(p), OnlyThread(t), LocalsFit(t, p), LeavesFit(t),
             TablesKept,
         Busy(t, p),
         \/ peer'[p].id = peer[p].id /\ peer'[p].srv = peer[p].srv
         \/ Linked(t, peer'[p].srv) /\ (p \in Known' => Nowhere(p)),
         p \in Known' =>
           /\ ~Listed(p)
           /\ call'[t].peer = p => PhaseFits(t)'
           /\ call'[t].peer # p =>
                /\ OperationFits(p)'
                /\ \/ p \in abandoned' \/ Registered(p)
                   \/ \E s \in DOMAIN server : Serves(s, p) \/ Awaits(s, p)
  PROVE  PoolInv'
<1>1. PoolTypeOK /\ p \in Nat
  BY PoolDomains DEF PoolInv
<1>2. Quiet(t, p) /\ AddsFit(t, p)
  <2>1. OnlyPlace(p) /\ OnlyServed(p)
    BY <1>1, KeptTables
  <2>2. server' = server
    BY DEF TablesKept
  <2>3. ServesFit(t, p)
    BY <1>1, <2>2 DEF ServesFit
  <2>4. AddsFit(t, p)
    BY <2>2 DEF AddsFit
  <2> QED BY <2>1, <2>3, <2>4 DEF Quiet
<1>3. ASSUME p \in Known' PROVE Stands(p)'
  <2>1. p \in Known
    BY <1>1, <1>3, KnownBack DEF OnlyPeer
  <2>2. PlaceFits(p)
    BY <2>1 DEF PoolInv
  <2>3. call'[t].peer = p => Taken(p)'
    BY DEF Taken
  <2>4. ListedOnce(p)' /\ ~Listed(p)'
    BY <1>1, <1>3, <2>2, KeptTables DEF PlaceFits
  <2>5. ~peer'[p].isServer
    BY DEF OnlyPeer
  <2>6. \A c \in Cookies : clients'[c] = p =>
          peer'[p].id = c /\ peer'[p].srv = 0 /\ ~peer'[p].isServer
    BY <1>3, <2>2, <2>5 DEF PlaceFits, TablesKept, Nowhere, Registered
  <2>7. /\ \A s \in DOMAIN server' :
             p \in server'[s].peers \cup server'[s].pending
                 => peer'[p].srv = s
        /\ \A s \in DOMAIN server' : p \in server'[s].peers
             => p \notin server'[s].pending
    BY <1>3, <2>2 DEF PlaceFits, TablesKept, Nowhere
  <2>8. \/ Taken(p)' \/ p \in abandoned' \/ Listed(p)' \/ Registered(p)'
        \/ \E s \in DOMAIN server' : Serves(s, p)' \/ Awaits(s, p)'
    BY <1>1, <1>3, <2>3, KeptTables DEF TablesKept
  <2>9. PlaceFits(p)'
    BY <2>4, <2>6, <2>7, <2>8 DEF PlaceFits
  <2> QED BY <1>3, <2>3, <2>9 DEF Stands
<1> QED BY <1>1, <1>2, <1>3, QuietStep

-----------------------------------------------------------------------------
(* The ways in which the locals of a thread change.                          *)
LEMMA CallType ==
  ASSUME PoolTypeOK, NEW t \in AllThreads
  PROVE  call \in [AllThreads -> PoolCaller] /\ call[t] \in PoolCaller
BY DEF PoolTypeOK

(* Go() moves a thread on, ...                                               *)
LEMMA GoFields ==
  ASSUME PoolTypeOK, NEW t \in AllThreads, NEW at \in Resting \cup Working,
         Go(t, at)
  PROVE  /\ OnlyThread(t) /\ call'[t].at = at
         /\ call'[t].peer = call[t].peer
         /\ call'[t].srv = call[t].srv
         /\ call'[t].listen = call[t].listen
         /\ call'[t].then = call[t].then
BY DEF Go, OnlyThread, PoolTypeOK, PoolCaller

(* ... Return() ends its call, ...                                           *)
LEMMA ReturnFields ==
  ASSUME PoolTypeOK, NEW t \in AllThreads, Return(t)
  PROVE  OnlyThread(t) /\ call'[t] = Idle
BY DEF Return, OnlyThread, PoolTypeOK, PoolCaller, Idle, None,
       Resting, Working

(* ... so that it is idle, ...                                               *)
LEMMA IdleFields ==
  /\ Idle.at = "idle" /\ Idle.peer = 0 /\ Idle.srv = 0
  /\ Idle.listen = 0 /\ Idle.more = 0 /\ Idle.then = "idle"
BY DEF Idle, None

(* ... Destroy() sends it to Close() with a peer, ...                        *)
LEMMA DestroyFields ==
  ASSUME PoolTypeOK, NEW t \in AllThreads, NEW p \in Nat,
         NEW flag, NEW then \in {"idle", "passive", "peers", "pending"},
         Destroy(t, p, flag, then)
  PROVE  /\ OnlyThread(t) /\ call'[t].at = "close"
         /\ call'[t].peer = p
         /\ call'[t].srv = call[t].srv
         /\ call'[t].listen = call[t].listen
         /\ call'[t].then = then
<1> DEFINE r == [call[t] EXCEPT !.peer = p, !.at = "close", !.then = then]
<1>1. /\ r \in PoolCaller
      /\ r.at = "close" /\ r.peer = p /\ r.then = then
      /\ r.srv = call[t].srv /\ r.listen = call[t].listen
  BY CallType DEF PoolCaller, Working, Closes
<1>2. call' = [call EXCEPT ![t] = r]
  BY CallType DEF Destroy
<1> HIDE DEF r
<1> QED BY <1>1, <1>2, CallType DEF OnlyThread

(* ... and Continue() brings it back from there.                             *)
LEMMA ContinueFields ==
  ASSUME PoolTypeOK, NEW t \in AllThreads, Continue(t)
  PROVE  /\ OnlyThread(t)
         /\ call[t].then = "idle" => call'[t] = Idle
         /\ call[t].then # "idle" =>
              /\ call'[t].at = call[t].then /\ call'[t].peer = 0
              /\ call'[t].srv = call[t].srv
              /\ call'[t].listen = call[t].listen
              /\ call'[t].then = call[t].then
<1> DEFINE r == [call[t] EXCEPT !.at = call[t].then, !.peer = 0]
<1>1. call[t].then = "idle" => Return(t)
  BY CallType DEF Continue, Return
<1>2. CASE call[t].then = "idle"
  BY <1>1, <1>2, ReturnFields
<1>3. CASE call[t].then # "idle"
  <2>1. /\ r \in PoolCaller /\ r.at = call[t].then /\ r.peer = 0
        /\ r.srv = call[t].srv /\ r.listen = call[t].listen
        /\ r.then = call[t].then
    BY CallType DEF PoolCaller, Resting
  <2>2. call' = [call EXCEPT ![t] = r]
    BY <1>3, CallType DEF Continue, None
  <2> HIDE DEF r
  <2> QED BY <1>3, <2>1, <2>2, CallType DEF OnlyThread
<1> QED BY <1>2, <1>3

(* A thread that does not close a server may end its call.                   *)
LEMMA ReturnLocals ==
  ASSUME PoolInv, NEW t \in AllThreads, NEW p \in 0 .. Len(peer),
         Return(t), call[t].peer \in {0, p}, ~Closer(t)
  PROVE  /\ OnlyThread(t) /\ LocalsFit(t, p) /\ LeavesFit(t)
         /\ call'[t].peer = 0
<1>1. PoolTypeOK
  BY DEF PoolInv
<1>2. call[t].at # "stop"
  BY DEF Closer, Closing
<1>3. ~Closer(t)'
  BY <1>1, ReturnFields, IdleFields DEF Closer, Closing
<1> QED BY <1>1, <1>2, <1>3, ReturnFields, IdleFields
        DEF LocalsFit, LeavesFit, Resting, Serving

(* A thread that has closed a peer goes back to what it was doing.           *)
LEMMA ContinueLocals ==
  ASSUME PoolInv, NEW t \in AllThreads, NEW p \in 0 .. Len(peer),
         Continue(t), call[t].peer = p, p # 0,
         call[t].at \in Closes \cup {"closeItem"}
  PROVE  /\ OnlyThread(t) /\ LocalsFit(t, p) /\ LeavesFit(t)
         /\ call'[t].peer = 0
<1>1. PoolTypeOK /\ ThreadFits(t)
  BY DEF PoolInv
<1>2. call[t].then \in {"idle", "passive", "peers", "pending"}
  BY <1>1, CallerFields
<1>3. Closer(t)' <=> Closer(t)
  BY <1>1, <1>2, ContinueFields, IdleFields
     DEF Closer, Closing, Closes, ThreadFits
<1>4. call'[t].peer = 0 /\ call'[t].at \in Resting
  BY <1>1, <1>2, ContinueFields, IdleFields DEF Resting
<1>5. Closer(t) => /\ call'[t].srv = call[t].srv
                   /\ call'[t].at = call[t].then
                   /\ call'[t].then = call[t].then
                   /\ call'[t].at \in Closing
  BY <1>1, ContinueFields DEF Closer, Closing, Closes
<1>6. LeavesFit(t)
  BY <1>5, <1>2 DEF LeavesFit
<1>7. LocalsFit(t, p)
  <2>1. call'[t].at \notin {"join", "stop", "closeItem"} \cup Serving
    BY <1>1, <1>2, ContinueFields, IdleFields DEF Serving
  <2>2. call[t].at # "stop"
    BY DEF Closes
  <2>3. call'[t].at = "idle" => call'[t] = Idle
    BY <1>1, <1>2, ContinueFields
  <2>4. /\ call'[t].srv \in {call[t].srv, 0}
        /\ \/ call'[t].listen = 0
           \/ /\ call'[t].listen = call[t].listen
              /\ call'[t].srv = call[t].srv
    BY <1>1, ContinueFields, IdleFields
  <2> QED BY <1>3, <1>4, <1>5, <2>1, <2>2, <2>3, <2>4 DEF LocalsFit
<1> QED BY <1>1, <1>4, <1>6, <1>7, ContinueFields

(* A thread that does not close a server goes on with its peer.              *)
LEMMA StayLocals ==
  ASSUME PoolInv, NEW t \in AllThreads, NEW p \in 0 .. Len(peer),
         call[t].peer \in {0, p}, ~Closer(t),
         call'[t].peer \in {0, p},
         call'[t].srv = call[t].srv,
         call'[t].listen = call[t].listen,
         call'[t].at \in Resting <=> call'[t].peer = 0,
         call'[t].at \notin Closing \cup {"join", "idle"},
         call'[t].then \notin Closing,
         call'[t].at \in Serving => call[t].listen # 0,
         call'[t].at = "closeItem" => call[t].srv # 0
  PROVE  LocalsFit(t, p) /\ LeavesFit(t)
<1>1. ~Closer(t)' /\ call[t].at # "stop" /\ call'[t].at # "stop"
  BY DEF Closer, Closing
<1> QED BY <1>1 DEF LocalsFit, LeavesFit

(* A thread that closes a peer goes on with it.                              *)
LEMMA CloseLocals ==
  ASSUME PoolInv, NEW t \in AllThreads, NEW p \in 0 .. Len(peer),
         call[t].peer = p, p # 0,
         call[t].at \in Closes, call'[t].at \in Closes,
         call'[t].peer = p,
         call'[t].srv = call[t].srv,
         call'[t].listen = call[t].listen,
         call'[t].then = call[t].then
  PROVE  LocalsFit(t, p) /\ LeavesFit(t)
<1>1. /\ call[t].at \notin Closing /\ call'[t].at \notin Closing
      /\ call'[t].at \notin Resting \cup Serving \cup {"closeItem"}
      /\ call[t].at # "stop"
  BY DEF Closes, Closing, Resting, Serving
<1>2. Closer(t)' <=> Closer(t)
  BY <1>1 DEF Closer
<1>3. LeavesFit(t)
  BY <1>1 DEF LeavesFit, Closing
<1>4. call'[t].at \notin {"idle", "join", "stop"}
  BY DEF Closes
<1> QED BY <1>1, <1>2, <1>3, <1>4 DEF LocalsFit

(* A step that writes one peer leaves the others alone.                      *)
LEMMA PeerUpdate ==
  ASSUME PoolTypeOK, NEW p \in DOMAIN peer, ~peer[p].isServer,
         NEW r \in PoolPeer, ~r.isServer, r.alive => peer[p].alive,
         peer' = [peer EXCEPT ![p] = r]
  PROVE  OnlyPeer(p) /\ peer'[p] = r
BY DEF PoolTypeOK, OnlyPeer

(* Close() of a peer that does not listen closes its socket; its pending     *)
(* operation is gone.                                                        *)
LEMMA CloseSocketStep ==
  ASSUME PoolInv, HistoryStep, NEW t \in AllThreads, CloseSocket(t),
         ~peer[call[t].peer].isServer
  PROVE  PoolInv'
<1> PICK p \in Nat : call[t].peer = p
  BY CallerFields DEF PoolInv
<1>1. PoolTypeOK /\ call[t].at = "close" /\ peer[p].flag # "reuse"
  BY DEF PoolInv, CloseSocket, At, P
<1>2. /\ p \in DOMAIN peer /\ p # 0 /\ p \in 0 .. Len(peer)
      /\ peer[p] \in PoolPeer
      /\ p \in Known => PlaceFits(p) /\ PhaseFits(t) /\ ~Listed(p)
  BY <1>1, Handles DEF Resting
<1> DEFINE r == [peer[p] EXCEPT !.sock = FALSE, !.op = "none"]
<1>3. /\ r \in PoolPeer /\ r.op = "none" /\ r.id = peer[p].id
      /\ r.srv = peer[p].srv /\ r.alive = peer[p].alive
      /\ r.isServer = peer[p].isServer
  BY <1>2 DEF PoolPeer
<1>4. peer' = [peer EXCEPT ![p] = r]
  BY <1>1, <1>2 DEF CloseSocket, P, PoolTypeOK
<1> HIDE DEF r
<1>5. OnlyPeer(p) /\ peer'[p] = r
  BY <1>1, <1>2, <1>3, <1>4, PeerUpdate
<1>6. Go(t, "unlist") /\ TablesKept
  BY DEF CloseSocket, lists, tables, history, TablesKept
<1>7. /\ OnlyThread(t) /\ call'[t].at = "unlist" /\ call'[t].peer = p
      /\ LocalsFit(t, p) /\ LeavesFit(t)
  BY <1>1, <1>2, <1>6, GoFields, CloseLocals DEF Working, Closes
<1>8. p \in Known' => p \in Known
  BY <1>1, <1>2, <1>3, <1>5, KnownBack
<1>9. p \in Known' => PhaseFits(t)'
  BY <1>1, <1>2, <1>3, <1>5, <1>6, <1>7, <1>8, KeptTables
     DEF PhaseFits, Closes, TablesKept
<1> QED BY <1>2, <1>3, <1>5, <1>6, <1>7, <1>8, <1>9, InPlaceStep DEF Busy

(* A step that writes no peer leaves them alone.                             *)
LEMMA PeerKept ==
  ASSUME PoolTypeOK, NEW p \in Nat, p \in DOMAIN peer => ~peer[p].isServer,
         peer' = peer
  PROVE  OnlyPeer(p)
BY DEF PoolTypeOK, OnlyPeer

(* DisconnectEx() is begun on a peer that stays with its server.             *)
LEMMA BeginDisconnectStep ==
  ASSUME PoolInv, HistoryStep, NEW t \in AllThreads,
         BeginDisconnect(t)
  PROVE  PoolInv'
<1> PICK p \in Nat : call[t].peer = p
  BY CallerFields DEF PoolInv
<1>1. PoolTypeOK /\ call[t].at = "close" /\ peer[p].flag = "reuse"
  BY DEF PoolInv, BeginDisconnect, At, P
<1>2. /\ p \in DOMAIN peer /\ p # 0 /\ p \in 0 .. Len(peer)
      /\ peer[p] \in PoolPeer
      /\ p \in Known => PlaceFits(p) /\ PhaseFits(t) /\ ~Listed(p)
  BY <1>1, Handles DEF Resting
<1>3. ~peer[p].isServer
  BY <1>1, <1>2 DEF PoolInv, ListenerFits
<1> DEFINE r == [peer[p] EXCEPT !.op = "disconnect"]
<1>4. /\ r \in PoolPeer /\ r.op = "disconnect" /\ r.id = peer[p].id
      /\ r.srv = peer[p].srv /\ r.alive = peer[p].alive
      /\ r.isServer = peer[p].isServer /\ r.flag = peer[p].flag
  BY <1>2 DEF PoolPeer
<1>5. peer' = peer \/ peer' = [peer EXCEPT ![p] = r]
  BY <1>1, <1>2 DEF BeginDisconnect, P, PoolTypeOK
<1> HIDE DEF r
<1>6. OnlyPeer(p) /\ peer'[p] \in {r, peer[p]}
  BY <1>1, <1>2, <1>3, <1>4, <1>5, PeerUpdate, PeerKept
<1>7. Continue(t) /\ TablesKept
  BY DEF BeginDisconnect, lists, tables, TablesKept
<1>8. OnlyThread(t) /\ call'[t].peer = 0 /\ LocalsFit(t, p) /\ LeavesFit(t)
  BY <1>1, <1>2, <1>7, ContinueLocals DEF Closes
<1>9. p \in Known' => p \in Known
  BY <1>1, <1>2, <1>4, <1>6, KnownBack
<1>10. ASSUME p \in Known'
       PROVE  OperationFits(p)' /\ \E s \in DOMAIN server : Serves(s, p)
  <2>1. Serves(peer[p].srv, p) /\ peer[p].op = "none"
    BY <1>1, <1>2, <1>9, <1>10 DEF PhaseFits
  <2>2. /\ peer'[p].op \in {"none", "disconnect"}
        /\ peer'[p].srv = peer[p].srv
    BY <1>4, <1>6, <2>1
  <2>3. Serves(peer[p].srv, p)'
    BY <2>1, <2>2, <1>7 DEF TablesKept, Serves
  <2> QED BY <2>1, <2>2, <2>3 DEF OperationFits, Serves
<1> QED BY <1>2, <1>4, <1>6, <1>7, <1>8, <1>9, <1>10, InPlaceStep DEF Busy

(* CreateAccept() gives a peer its socket and its server.                    *)
LEMMA CreateAcceptStep ==
  ASSUME PoolInv, HistoryStep, NEW t \in AllThreads,
         CreateAccept(t)
  PROVE  PoolInv'
<1> PICK p \in Nat : call[t].peer = p
  BY CallerFields DEF PoolInv
<1>1. PoolTypeOK /\ call[t].at = "create" /\ call[t].listen # 0
  BY DEF PoolInv, CreateAccept, At, P, None
<1>2. /\ p \in DOMAIN peer /\ p # 0 /\ p \in 0 .. Len(peer)
      /\ peer[p] \in PoolPeer /\ ~peer[p].isServer /\ ~Closer(t)
      /\ call[t].listen \in 0 .. Len(peer)
      /\ p \in Known => PlaceFits(p) /\ PhaseFits(t) /\ ~Listed(p)
  BY <1>1, Handles DEF Resting, Closes
<1> DEFINE l == call[t].listen
           r == [peer[p] EXCEPT !.sock = TRUE, !.srv = peer[l].srv]
<1>3. l \in DOMAIN peer /\ peer[l].srv \in Nat
  BY <1>1, <1>2, PoolDomains DEF PoolPeer
<1>4. /\ r \in PoolPeer /\ r.op = peer[p].op /\ r.id = peer[p].id
      /\ r.srv = peer[l].srv /\ r.alive = peer[p].alive
      /\ r.isServer = peer[p].isServer /\ r.flag = peer[p].flag
  BY <1>2, <1>3 DEF PoolPeer
<1>5. peer' = [peer EXCEPT ![p] = r]
  BY <1>1, <1>2 DEF CreateAccept, P, PoolTypeOK
<1> HIDE DEF r
<1>6. OnlyPeer(p) /\ peer'[p] = r
  BY <1>1, <1>2, <1>4, <1>5, PeerUpdate
<1>7. Go(t, "begin") /\ TablesKept
  BY DEF CreateAccept, lists, tables, history, TablesKept
<1>8. /\ OnlyThread(t) /\ call'[t].peer = p /\ call'[t].at = "begin"
      /\ call'[t].listen = l /\ call'[t].srv = call[t].srv
      /\ call'[t].then = call[t].then
  BY <1>1, <1>7, GoFields DEF Working, Serving
<1>9. LocalsFit(t, p) /\ LeavesFit(t)
  <2>1. call'[t].then \notin Closing
    BY <1>2, <1>8 DEF Closer
  <2> QED BY <1>1, <1>2, <1>8, <2>1, StayLocals DEF Closing, Resting
<1>10. p \in Known' => p \in Known
  BY <1>1, <1>2, <1>4, <1>6, KnownBack
<1>11. ASSUME p \in Known'
       PROVE  PhaseFits(t)' /\ Nowhere(p)
  <2>1. Blank(p) /\ Nowhere(p)
    BY <1>1, <1>2, <1>10, <1>11 DEF PhaseFits
  <2>2. Nowhere(p)'
    BY <1>1, <1>7, <2>1, KeptTables
  <2>3. peer'[p].flag = "none" /\ peer'[p].op = "none"
    BY <1>4, <1>6, <2>1 DEF Blank
  <2>4. Resolved(t)' => peer'[p].srv = call[t].srv
    <3>1. Resolved(t)' => peer[l].isServer
      BY <1>3, <1>8, <1>6 DEF Resolved, OnlyPeer
    <3>2. peer[l].isServer => peer[l].srv = call[t].srv
      BY <1>1 DEF PoolInv, ListenFits
    <3> QED BY <3>1, <3>2, <1>4, <1>6
  <2> QED BY <1>8, <2>1, <2>2, <2>3, <2>4 DEF PhaseFits, Closes
<1>12. Linked(t, peer'[p].srv)
  BY <1>1, <1>4, <1>6 DEF Linked
<1> QED BY <1>2, <1>4, <1>6, <1>7, <1>8, <1>9, <1>10, <1>11, <1>12,
           InPlaceStep
        DEF Busy

(* A peer whose CreateAccept() fails is in no table, and counted as          *)
(* abandoned.                                                                *)
LEMMA CreateAcceptFailsStep ==
  ASSUME PoolInv, HistoryStep, NEW t \in AllThreads,
         CreateAcceptFails(t)
  PROVE  PoolInv'
<1> PICK p \in Nat : call[t].peer = p
  BY CallerFields DEF PoolInv
<1>1. /\ PoolTypeOK /\ call[t].at = "create" /\ peer' = peer
      /\ Return(t) /\ p \in abandoned' /\ TablesKept
  BY DEF PoolInv, CreateAcceptFails, At, P, lists, tables,
         TablesKept
<1>2. /\ p \in DOMAIN peer /\ p # 0 /\ p \in 0 .. Len(peer)
      /\ ~peer[p].isServer /\ ~Closer(t)
      /\ p \in Known => PlaceFits(p) /\ PhaseFits(t) /\ ~Listed(p)
  BY <1>1, Handles DEF Resting, Closes
<1>3. OnlyPeer(p)
  BY <1>1, <1>2, PeerKept
<1>4. OnlyThread(t) /\ call'[t].peer = 0 /\ LocalsFit(t, p) /\ LeavesFit(t)
  BY <1>1, <1>2, ReturnLocals
<1>5. p \in Known' => p \in Known
  BY <1>1, <1>2, KnownBack
<1>6. p \in Known' => OperationFits(p)'
  BY <1>1, <1>2, <1>5 DEF PhaseFits, Blank, OperationFits
<1> QED BY <1>1, <1>2, <1>3, <1>4, <1>5, <1>6, InPlaceStep DEF Busy

(* A thread lets go of a peer that is in one of the tables.                  *)
LEMMA LetGoStep ==
  ASSUME PoolInv, HistoryStep, NEW t \in AllThreads,
         call[t].at \notin Resting \cup Closes,
         Return(t), peer' = peer, TablesKept,
         NEW p \in Nat, call[t].peer = p,
         p \in Known /\ PlaceFits(p) /\ PhaseFits(t) =>
           /\ peer[p].op = "none"
           /\ Registered(p) \/ \E s \in DOMAIN server : Serves(s,
                p) \/ Awaits(s, p)
  PROVE  PoolInv'
<1>1. PoolTypeOK
  BY DEF PoolInv
<1>2. /\ p \in DOMAIN peer /\ p # 0 /\ p \in 0 .. Len(peer)
      /\ ~peer[p].isServer /\ ~Closer(t)
      /\ p \in Known => PlaceFits(p) /\ PhaseFits(t) /\ ~Listed(p)
  BY Handles
<1>3. OnlyPeer(p)
  BY <1>1, <1>2, PeerKept
<1>4. OnlyThread(t) /\ call'[t].peer = 0 /\ LocalsFit(t, p) /\ LeavesFit(t)
  BY <1>2, ReturnLocals
<1>5. p \in Known' => p \in Known
  BY <1>1, <1>2, KnownBack
<1>6. p \in Known' => OperationFits(p)'
  BY <1>2, <1>5 DEF OperationFits
<1> QED BY <1>2, <1>3, <1>4, <1>5, <1>6, InPlaceStep DEF Busy

(* EndAccept() returns early, or fails, and leaves its peer in the table.    *)
LEMMA EndAcceptReturnsStep ==
  ASSUME PoolInv, HistoryStep, NEW t \in AllThreads,
         EndAcceptReturns(t) \/ EndAcceptFails(t)
           \/ JoinAcceptedFails(t)
  PROVE  PoolInv'
<1> PICK p \in Nat : call[t].peer = p
  BY CallerFields DEF PoolInv
<1>1. /\ call[t].at \in {"endAccept", "acceptFailed", "notify"}
      /\ peer' = peer /\ Return(t)
  BY DEF EndAcceptReturns, EndAcceptFails, JoinAcceptedFails, At
<1>2. TablesKept
  BY DEF EndAcceptReturns, EndAcceptFails, JoinAcceptedFails,
         lists, tables, history, TablesKept
<1>3. PhaseFits(t) =>
        /\ peer[p].op = "none"
        /\ \E s \in DOMAIN server : Serves(s, p) \/ Awaits(s, p)
  BY <1>1 DEF PhaseFits, Serves, Awaits
<1> QED BY <1>1, <1>2, <1>3, LetGoStep DEF Resting, Closes

(* AcceptEx() is begun before the peer is in the table of pending accepts.   *)
LEMMA BeginAcceptStep ==
  ASSUME PoolInv, HistoryStep, NEW t \in AllThreads,
         BeginAccept(t)
  PROVE  PoolInv'
<1> PICK p \in Nat : call[t].peer = p
  BY CallerFields DEF PoolInv
<1> DEFINE l == call[t].listen
           r == [peer[p] EXCEPT !.op = "accept"]
           c == [call[t] EXCEPT !.at = "pend", !.more = @ - 1]
<1>1. /\ PoolTypeOK /\ call[t].at = "begin" /\ peer[l].isServer
  BY DEF PoolInv, BeginAccept, At, P, Listening
<1>2. /\ p \in DOMAIN peer /\ p # 0 /\ p \in 0 .. Len(peer)
      /\ peer[p] \in PoolPeer /\ ~peer[p].isServer /\ ~Closer(t)
      /\ l \in DOMAIN peer
      /\ p \in Known => PlaceFits(p) /\ PhaseFits(t) /\ ~Listed(p)
  BY <1>1, Handles DEF Resting, Closes, Serving
<1>3. /\ r \in PoolPeer /\ r.op = "accept" /\ r.id = peer[p].id
      /\ r.srv = peer[p].srv /\ r.alive = peer[p].alive
      /\ r.isServer = peer[p].isServer /\ r.flag = peer[p].flag
  BY <1>2 DEF PoolPeer
<1>4. peer' = [peer EXCEPT ![p] = r] /\ TablesKept
  BY <1>1, <1>2 DEF BeginAccept, P, PoolTypeOK, lists, tables,
                    history, TablesKept
<1> HIDE DEF r
<1>5. OnlyPeer(p) /\ peer'[p] = r
  BY <1>1, <1>2, <1>3, <1>4, PeerUpdate
<1>6. /\ c \in PoolCaller /\ c.at = "pend" /\ c.peer = p
      /\ c.srv = call[t].srv /\ c.listen = l /\ c.then = call[t].then
  <2>1. call[t].more - 1 \in Int /\ "pend" \in Resting \cup Working
    BY <1>1, CallerFields DEF Working, Serving
  <2> QED BY <1>1, <2>1, CallType DEF PoolCaller
<1>7. call' = [call EXCEPT ![t] = c]
  BY <1>1, CallType DEF BeginAccept
<1> HIDE DEF c
<1>8. OnlyThread(t) /\ call'[t] = c
  BY <1>1, <1>6, <1>7, CallType DEF OnlyThread
<1>9. LocalsFit(t, p) /\ LeavesFit(t)
  <2>1. call'[t].then \notin Closing
    BY <1>2, <1>6, <1>8 DEF Closer
  <2>2. l # 0
    BY <1>1, <1>2, PoolDomains
  <2> QED BY <1>1, <1>2, <1>6, <1>8, <2>1, <2>2, StayLocals
          DEF Closing, Resting, Serving
<1>10. p \in Known' => p \in Known
  BY <1>1, <1>2, <1>3, <1>5, KnownBack
<1>11. ASSUME p \in Known' PROVE PhaseFits(t)'
  <2>1. Nowhere(p) /\ peer[p].flag = "none" /\ peer[p].srv = call[t].srv
    BY <1>1, <1>2, <1>10, <1>11 DEF PhaseFits, Resolved
  <2>2. Nowhere(p)'
    BY <1>1, <1>4, <2>1, KeptTables
  <2>3. Resolved(t)'
    BY <1>1, <1>2, <1>5, <1>6, <1>8 DEF Resolved, OnlyPeer
  <2> QED BY <1>3, <1>5, <1>6, <1>8, <2>1, <2>2, <2>3 DEF PhaseFits, Closes
<1> QED BY <1>2, <1>3, <1>4, <1>5, <1>6, <1>8, <1>9, <1>10, <1>11, InPlaceStep
        DEF Busy

(* A peer whose AcceptEx() fails is closed.                                  *)
LEMMA BeginAcceptFailsStep ==
  ASSUME PoolInv, HistoryStep, NEW t \in AllThreads,
         BeginAcceptFails(t)
  PROVE  PoolInv'
<1> PICK p \in Nat : call[t].peer = p
  BY CallerFields DEF PoolInv
<1> DEFINE r == [peer[p] EXCEPT !.flag = "close"]
           c == [call[t] EXCEPT !.at = "close", !.then = "idle", !.more = 0]
<1>1. /\ PoolTypeOK /\ call[t].at = "begin"
  BY DEF PoolInv, BeginAcceptFails, At
<1>2. /\ p \in DOMAIN peer /\ p # 0 /\ p \in 0 .. Len(peer)
      /\ peer[p] \in PoolPeer /\ ~peer[p].isServer /\ ~Closer(t)
      /\ p \in Known => PlaceFits(p) /\ PhaseFits(t) /\ ~Listed(p)
  BY <1>1, Handles DEF Resting, Closes, Serving
<1>3. /\ r \in PoolPeer /\ r.op = peer[p].op /\ r.id = peer[p].id
      /\ r.srv = peer[p].srv /\ r.alive = peer[p].alive
      /\ r.isServer = peer[p].isServer /\ r.flag = "close"
  BY <1>2 DEF PoolPeer
<1>4. peer' = [peer EXCEPT ![p] = r]
  BY <1>1, <1>2 DEF BeginAcceptFails, P, PoolTypeOK
<1>5. TablesKept
  BY DEF BeginAcceptFails, lists, tables, TablesKept
<1> HIDE DEF r
<1>6. OnlyPeer(p) /\ peer'[p] = r
  BY <1>1, <1>2, <1>3, <1>4, PeerUpdate
<1>7. /\ c \in PoolCaller /\ c.at = "close" /\ c.peer = p
      /\ c.srv = call[t].srv /\ c.listen = call[t].listen /\ c.then = "idle"
  <2> DEFINE d == [call[t] EXCEPT !.at = "close", !.then = "idle"]
  <2>1. "close" \in Resting \cup Working /\ 0 \in Int
    BY DEF Working, Closes
  <2>2. /\ d \in PoolCaller /\ d.at = "close" /\ d.peer = p /\ d.then = "idle"
        /\ d.srv = call[t].srv /\ d.listen = call[t].listen
    BY <1>1, <2>1, CallType DEF PoolCaller
  <2>3. c = [d EXCEPT !.more = 0]
    BY <1>1, CallType DEF PoolCaller
  <2> HIDE DEF c, d
  <2> QED BY <2>1, <2>2, <2>3 DEF PoolCaller
<1>8. call' = [call EXCEPT ![t] = c]
  BY <1>1, CallType DEF BeginAcceptFails
<1> HIDE DEF c
<1>9. OnlyThread(t) /\ call'[t] = c
  BY <1>1, <1>7, <1>8, CallType DEF OnlyThread
<1>10. LocalsFit(t, p) /\ LeavesFit(t)
  BY <1>1, <1>2, <1>7, <1>9, StayLocals DEF Closing, Resting, Serving
<1>11. p \in Known' => p \in Known
  BY <1>1, <1>2, <1>3, <1>6, KnownBack
<1>12. ASSUME p \in Known' PROVE PhaseFits(t)'
  <2>1. Nowhere(p)
    BY <1>1, <1>2, <1>11, <1>12 DEF PhaseFits
  <2>2. Nowhere(p)'
    BY <1>1, <1>5, <2>1, KeptTables
  <2> QED BY <1>3, <1>6, <1>7, <1>9, <2>2 DEF PhaseFits, Closes, Nowhere
<1> QED BY <1>2, <1>3, <1>5, <1>6, <1>7, <1>9, <1>10, <1>11, <1>12,
           InPlaceStep
        DEF Busy

(* The first read of an accepted peer, which is in the table of its server.  *)
LEMMA WantedStep ==
  ASSUME PoolInv, HistoryStep, NEW t \in AllThreads,
         Wanted(t)
  PROVE  PoolInv'
<1> PICK p \in Nat : call[t].peer = p
  BY CallerFields DEF PoolInv
<1> DEFINE op == IF peer[p].sock THEN "read" ELSE peer[p].op
           r == [peer[p] EXCEPT !.op = op]
           c == [call[t] EXCEPT !.peer = 0, !.at = "passive"]
<1>1. /\ PoolTypeOK /\ call[t].at = "notify"
  BY DEF PoolInv, Wanted, At
<1>2. /\ p \in DOMAIN peer /\ p # 0 /\ p \in 0 .. Len(peer)
      /\ peer[p] \in PoolPeer /\ ~peer[p].isServer /\ ~Closer(t)
      /\ p \in Known => PlaceFits(p) /\ PhaseFits(t) /\ ~Listed(p)
  BY <1>1, Handles DEF Resting, Closes, Serving
<1>3. /\ r \in PoolPeer /\ r.op \in {"read", peer[p].op} /\ r.id = peer[p].id
      /\ r.srv = peer[p].srv /\ r.alive = peer[p].alive
      /\ r.isServer = peer[p].isServer /\ r.flag = peer[p].flag
  BY <1>2 DEF PoolPeer
<1>4. peer' = [peer EXCEPT ![p] = r]
  BY <1>1, <1>2 DEF Wanted, P, PoolTypeOK
<1>5. TablesKept
  BY DEF Wanted, lists, tables, history, TablesKept
<1> HIDE DEF r
<1>6. OnlyPeer(p) /\ peer'[p] = r
  BY <1>1, <1>2, <1>3, <1>4, PeerUpdate
<1>7. /\ c \in PoolCaller /\ c.at = "passive" /\ c.peer = 0
      /\ c.srv = call[t].srv /\ c.listen = call[t].listen
      /\ c.then = call[t].then
  BY <1>1, CallType DEF PoolCaller, Resting
<1>8. call' = [call EXCEPT ![t] = c]
  BY <1>1, CallType DEF Wanted, None
<1> HIDE DEF c
<1>9. OnlyThread(t) /\ call'[t] = c
  BY <1>1, <1>7, <1>8, CallType DEF OnlyThread
<1>10. LocalsFit(t, p) /\ LeavesFit(t)
  <2>1. call'[t].then \notin Closing
    BY <1>2, <1>7, <1>9 DEF Closer
  <2> QED BY <1>1, <1>2, <1>7, <1>9, <2>1, StayLocals
          DEF Closing, Resting, Serving
<1>11. p \in Known' => p \in Known
  BY <1>1, <1>2, <1>3, <1>6, KnownBack
<1>12. ASSUME p \in Known'
       PROVE  OperationFits(p)' /\ \E s \in DOMAIN server : Serves(s, p)
  <2>1. PICK s \in DOMAIN server :
          Serves(s, p) /\ peer[p].flag = "none" /\ peer[p].op = "none"
    BY <1>1, <1>2, <1>11, <1>12 DEF PhaseFits, Serves
  <2>2. peer'[p].srv = s
    BY <1>2, <1>3, <1>6, <1>11, <1>12, <2>1 DEF PlaceFits, Serves
  <2>3. Serves(s, p)'
    BY <2>1, <1>5 DEF Serves, TablesKept
  <2> QED BY <1>3, <1>6, <2>1, <2>2, <2>3 DEF OperationFits
<1> QED BY <1>2, <1>3, <1>5, <1>6, <1>7, <1>9, <1>10, <1>11, <1>12,
           InPlaceStep
        DEF Busy

(* A handler that does not want the connection closes it.                    *)
LEMMA UnwantedStep ==
  ASSUME PoolInv, HistoryStep, NEW t \in AllThreads,
         Unwanted(t)
  PROVE  PoolInv'
<1> PICK p \in Nat : call[t].peer = p
  BY CallerFields DEF PoolInv
<1> DEFINE c == [call[t] EXCEPT !.peer = 0, !.at = "passive"]
           d == [call[t] EXCEPT !.at = "closeItem", !.then = "passive"]
<1>1. /\ PoolTypeOK /\ call[t].at = "notify" /\ peer' = peer
  BY DEF PoolInv, Unwanted, At
<1>2. /\ p \in DOMAIN peer /\ p # 0 /\ p \in 0 .. Len(peer)
      /\ ~peer[p].isServer /\ ~Closer(t)
      /\ p \in Known => PlaceFits(p) /\ PhaseFits(t) /\ ~Listed(p)
      /\ call[t].listen \in DOMAIN peer
  BY <1>1, Handles DEF Resting, Closes, Serving
<1>3. call[t].srv # 0
  BY <1>1, <1>2, PoolDomains DEF PoolInv, ThreadFits
<1>4. TablesKept
  BY DEF Unwanted, lists, tables, history, TablesKept
<1>5. OnlyPeer(p)
  BY <1>1, <1>2, PeerKept
<1>6. /\ c \in PoolCaller /\ c.at = "passive" /\ c.peer = 0
      /\ c.srv = call[t].srv /\ c.listen = call[t].listen
      /\ c.then = call[t].then
      /\ d \in PoolCaller /\ d.at = "closeItem" /\ d.peer = p
      /\ d.srv = call[t].srv /\ d.listen = call[t].listen
      /\ d.then = "passive"
  BY <1>1, CallType DEF PoolCaller, Resting, Working
<1>7. call' = [call EXCEPT ![t] = c] \/ call' = [call EXCEPT ![t] = d]
  BY <1>1, CallType DEF Unwanted, None
<1> HIDE DEF c, d
<1>8. OnlyThread(t) /\ call'[t] \in {c, d}
  BY <1>1, <1>6, <1>7, CallType DEF OnlyThread
<1>9. LocalsFit(t, p) /\ LeavesFit(t)
  <2>1. call'[t].then \notin Closing
    BY <1>2, <1>6, <1>8 DEF Closer, Closing
  <2> QED BY <1>1, <1>2, <1>3, <1>6, <1>8, <2>1, StayLocals
          DEF Closing, Resting, Serving
<1>10. p \in Known' => p \in Known
  BY <1>1, <1>2, KnownBack
<1>11. ASSUME p \in Known'
       PROVE  /\ call'[t].peer = p => PhaseFits(t)'
              /\ OperationFits(p)' /\ \E s \in DOMAIN server : Serves(s, p)
  <2> DEFINE s == call[t].srv
  <2>1. Serves(s, p) /\ peer[p].flag = "none" /\ peer[p].op = "none"
    BY <1>1, <1>2, <1>10, <1>11 DEF PhaseFits
  <2>2. OperationFits(p)'
    BY <1>1, <2>1 DEF OperationFits
  <2>3. call'[t].peer = p => PhaseFits(t)'
    <3>1. SUFFICES ASSUME call'[t] = d PROVE PhaseFits(t)'
      BY <1>2, <1>6, <1>8
    <3>2. p \in server'[s].peers
      BY <1>4, <2>1 DEF Serves, TablesKept
    <3> QED BY <1>6, <3>1, <3>2 DEF PhaseFits, Closes
  <2> QED BY <2>1, <2>2, <2>3 DEF Serves
<1> QED BY <1>1, <1>2, <1>4, <1>5, <1>6, <1>8, <1>9, <1>10, <1>11, InPlaceStep
        DEF Busy

(* A thread destroys the peer that it handles, and that is in a table.       *)
LEMMA DestroyStep ==
  ASSUME PoolInv, HistoryStep, NEW t \in AllThreads,
         call[t].at \notin Resting \cup Closes,
         NEW p \in Nat, call[t].peer = p,
         NEW flag \in {"close", "reuse"},
         Destroy(t, p, flag, "idle"), TablesKept,
         p \in Known /\ PlaceFits(p) /\ PhaseFits(t) =>
           /\ \A s \in DOMAIN server : p \notin server[s].pending
           /\ flag = "reuse" => Serves(peer[p].srv, p) /\ peer[p].op = "none"
  PROVE  PoolInv'
<1> DEFINE r == [peer[p] EXCEPT !.flag = flag]
<1>1. PoolTypeOK
  BY DEF PoolInv
<1>2. /\ p \in DOMAIN peer /\ p # 0 /\ p \in 0 .. Len(peer)
      /\ peer[p] \in PoolPeer /\ ~peer[p].isServer /\ ~Closer(t)
      /\ p \in Known => PlaceFits(p) /\ PhaseFits(t) /\ ~Listed(p)
  BY Handles
<1>3. /\ r \in PoolPeer /\ r.op = peer[p].op /\ r.id = peer[p].id
      /\ r.srv = peer[p].srv /\ r.alive = peer[p].alive
      /\ r.isServer = peer[p].isServer /\ r.flag = flag
  BY <1>2 DEF PoolPeer
<1>4. peer' = [peer EXCEPT ![p] = r]
  BY <1>1, <1>2 DEF Destroy, PoolTypeOK
<1> HIDE DEF r
<1>5. OnlyPeer(p) /\ peer'[p] = r
  BY <1>1, <1>2, <1>3, <1>4, PeerUpdate
<1>6. /\ OnlyThread(t) /\ call'[t].at = "close" /\ call'[t].peer = p
      /\ call'[t].srv = call[t].srv
      /\ call'[t].listen = call[t].listen
      /\ call'[t].then = "idle"
  BY <1>1, DestroyFields
<1>7. LocalsFit(t, p) /\ LeavesFit(t)
  BY <1>2, <1>6, StayLocals DEF Closing, Resting, Serving
<1>8. p \in Known' => p \in Known
  BY <1>1, <1>2, <1>3, <1>5, KnownBack
<1>9. ASSUME p \in Known' PROVE PhaseFits(t)'
  <2>1. /\ \A s \in DOMAIN server' : p \notin server'[s].pending
        /\ flag = "reuse" => Serves(peer[p].srv, p) /\ peer[p].op = "none"
    BY <1>2, <1>8, <1>9 DEF TablesKept
  <2>2. peer'[p].srv = peer[p].srv /\ peer'[p].op = peer[p].op
    BY <1>3, <1>5
  <2>3. flag = "reuse" => p \in server'[peer[p].srv].peers
                           /\ peer[p].srv \in DOMAIN server'
                           /\ server'[peer[p].srv].alive
    BY <2>1 DEF TablesKept, Serves
  <2>4. ~Listed(p)'
    BY <1>1, <1>2, <1>8, <1>9, KeptTables
  <2> QED BY <1>3, <1>5, <1>6, <2>1, <2>2, <2>3, <2>4
             DEF PhaseFits, Closes, Serves
<1> QED BY <1>2, <1>3, <1>5, <1>6, <1>7, <1>8, <1>9, InPlaceStep DEF Busy

(* A connection that is registered, or served, is not awaited.               *)
LEMMA NotAwaited ==
  ASSUME NEW p, PlaceFits(p), Registered(p) \/ Serves(peer[p].srv, p),
         PoolTypeOK
  PROVE  \A s \in DOMAIN server : p \notin server[s].pending
<1>1. DOMAIN server = 1 .. Len(server) /\ Len(server) \in Nat
  BY PoolDomains
<1>2. CASE Registered(p)
  BY <1>1, <1>2 DEF PlaceFits, Registered
<1>3. CASE Serves(peer[p].srv, p)
  BY <1>3 DEF PlaceFits, Serves
<1> QED BY <1>2, <1>3

(* A connection that timed out, or that the remote has left, is closed.      *)
LEMMA ClientDestroysStep ==
  ASSUME PoolInv, HistoryStep, NEW t \in AllThreads,
         TimedOut(t) \/ DestroyUnavailability(t)
  PROVE  PoolInv'
<1> PICK p \in Nat : call[t].peer = p
  BY CallerFields DEF PoolInv
<1> DEFINE accepted == ~peer[p].isServer /\ peer[p].srv # 0
           flag == IF call[t].at = "unavailable" /\ accepted
                   THEN "reuse" ELSE "close"
<1>1. /\ PoolTypeOK /\ call[t].at \in {"timedOut", "unavailable"}
  BY DEF PoolInv, TimedOut, DestroyUnavailability, At
<1>2. Destroy(t, p, flag, "idle")
  BY DEF TimedOut, DestroyUnavailability, At, P, None
<1>3. TablesKept
  BY DEF TimedOut, DestroyUnavailability, lists, tables,
         history, TablesKept
<1>4. ASSUME PlaceFits(p), PhaseFits(t)
      PROVE  /\ \A s \in DOMAIN server : p \notin server[s].pending
             /\ flag = "reuse"
                  => Serves(peer[p].srv, p) /\ peer[p].op = "none"
  <2>1. /\ Registered(p) \/ Serves(peer[p].srv, p)
        /\ peer[p].op = "none"
    BY <1>1, <1>4 DEF PhaseFits
  <2>2. flag = "reuse" => ~Registered(p)
    BY <1>4 DEF PlaceFits, Registered
  <2> QED BY <1>1, <1>4, <2>1, <2>2, NotAwaited
<1>5. flag \in {"close", "reuse"}
  OBVIOUS
<1> HIDE DEF flag
<1> QED BY <1>1, <1>2, <1>3, <1>4, <1>5, DestroyStep DEF Resting, Closes

(* A client whose ConnectEx() fails stays registered, or is closed.          *)
LEMMA BeginConnectFailsStep ==
  ASSUME PoolInv, HistoryStep, NEW t \in AllThreads,
         BeginConnectFails(t)
  PROVE  PoolInv'
<1> PICK p \in Nat : call[t].peer = p
  BY CallerFields DEF PoolInv
<1>1. /\ PoolTypeOK /\ call[t].at = "connect"
      /\ \/ Return(t) /\ peer' = peer
         \/ Destroy(t, p, "close", "idle")
  BY DEF PoolInv, BeginConnectFails, At, P
<1>2. TablesKept
  BY DEF BeginConnectFails, lists, tables, TablesKept
<1>3. PhaseFits(t) => Registered(p) /\ peer[p].op = "none"
  BY <1>1 DEF PhaseFits
<1>4. CASE Return(t) /\ peer' = peer
  BY <1>1, <1>2, <1>3, <1>4, LetGoStep DEF Resting, Closes
<1>5. CASE Destroy(t, p, "close", "idle")
  BY <1>1, <1>2, <1>3, <1>5, DestroyStep, NotAwaited DEF Resting, Closes
<1> QED BY <1>1, <1>4, <1>5

(* Create() gives a peer the socket of a client.                             *)
LEMMA CreateClientStep ==
  ASSUME PoolInv, HistoryStep, NEW t \in AllThreads,
         CreateClient(t)
  PROVE  PoolInv'
<1> PICK p \in Nat : call[t].peer = p
  BY CallerFields DEF PoolInv
<1> DEFINE r == [peer[p] EXCEPT !.sock = TRUE]
<1>1. /\ PoolTypeOK /\ call[t].at = "create"
  BY DEF PoolInv, CreateClient, At
<1>2. /\ p \in DOMAIN peer /\ p # 0 /\ p \in 0 .. Len(peer)
      /\ peer[p] \in PoolPeer /\ ~peer[p].isServer /\ ~Closer(t)
      /\ p \in Known => PlaceFits(p) /\ PhaseFits(t) /\ ~Listed(p)
  BY <1>1, Handles DEF Resting, Closes
<1>3. /\ r \in PoolPeer /\ r.op = peer[p].op /\ r.id = peer[p].id
      /\ r.srv = peer[p].srv /\ r.alive = peer[p].alive
      /\ r.isServer = peer[p].isServer /\ r.flag = peer[p].flag
  BY <1>2 DEF PoolPeer
<1>4. peer' = [peer EXCEPT ![p] = r]
  BY <1>1, <1>2 DEF CreateClient, P, PoolTypeOK
<1> HIDE DEF r
<1>5. OnlyPeer(p) /\ peer'[p] = r
  BY <1>1, <1>2, <1>3, <1>4, PeerUpdate
<1>6. Go(t, "addClient") /\ TablesKept
  BY DEF CreateClient, lists, tables, history, TablesKept
<1>7. /\ OnlyThread(t) /\ call'[t].peer = p /\ call'[t].at = "addClient"
      /\ call'[t].listen = call[t].listen
      /\ call'[t].srv = call[t].srv
      /\ call'[t].then = call[t].then
  BY <1>1, <1>6, GoFields DEF Working
<1>8. LocalsFit(t, p) /\ LeavesFit(t)
  <2>1. call'[t].then \notin Closing
    BY <1>2, <1>7 DEF Closer
  <2> QED BY <1>1, <1>2, <1>7, <2>1, StayLocals DEF Closing, Resting, Serving
<1>9. p \in Known' => p \in Known
  BY <1>1, <1>2, <1>3, <1>5, KnownBack
<1>10. ASSUME p \in Known' PROVE PhaseFits(t)'
  <2>1. Blank(p) /\ Nowhere(p)
    BY <1>1, <1>2, <1>9, <1>10 DEF PhaseFits
  <2>2. Blank(p)'
    BY <1>2, <1>3, <1>5, <2>1 DEF Blank
  <2>3. Nowhere(p)'
    BY <1>1, <1>6, <2>1, KeptTables
  <2> QED BY <1>7, <2>2, <2>3 DEF PhaseFits, Closes
<1> QED BY <1>2, <1>3, <1>5, <1>6, <1>7, <1>8, <1>9, <1>10, InPlaceStep
           DEF Busy

(* The first read, or the connection, is begun, and the thread returns; or   *)
(* the peer is deleted.                                                      *)
LEMMA ClientReturnsStep ==
  ASSUME PoolInv, HistoryStep, NEW t \in AllThreads,
         call[t].at \notin Resting \cup Closes,
         NEW p \in Nat, call[t].peer = p,
         Return(t), TablesKept,
         NEW r \in PoolPeer, peer' = [peer EXCEPT ![p] = r],
         r.id = peer[p].id, r.srv = peer[p].srv,
             r.isServer = peer[p].isServer,
         r.alive => peer[p].alive,
         r.alive /\ PhaseFits(t) =>
           /\ Registered(p) /\ r.flag = "none"
           /\ r.op \in {"none", "connect", "read"}
  PROVE  PoolInv'
<1>1. PoolTypeOK
  BY DEF PoolInv
<1>2. /\ p \in DOMAIN peer /\ p # 0 /\ p \in 0 .. Len(peer)
      /\ ~peer[p].isServer /\ ~Closer(t)
      /\ p \in Known => PlaceFits(p) /\ PhaseFits(t) /\ ~Listed(p)
  BY Handles
<1>3. OnlyPeer(p) /\ peer'[p] = r
  BY <1>1, <1>2, PeerUpdate
<1>4. OnlyThread(t) /\ call'[t].peer = 0 /\ LocalsFit(t, p) /\ LeavesFit(t)
  BY <1>2, ReturnLocals
<1>5. p \in Known' => p \in Known
  BY <1>1, <1>2, <1>3, KnownBack
<1>6. ASSUME p \in Known' PROVE OperationFits(p)' /\ Registered(p)
  <2>1. Registered(p) /\ r.flag = "none"
          /\ r.op \in {"none", "connect", "read"}
    BY <1>2, <1>3, <1>5, <1>6 DEF Known
  <2>2. Registered(p)'
    BY <1>1, <2>1, KeptTables
  <2> QED BY <1>3, <2>1, <2>2 DEF OperationFits
<1> QED BY <1>2, <1>3, <1>4, <1>5, <1>6, InPlaceStep DEF Busy

(* When it fails, the peer is deleted, and was in no table.                  *)
LEMMA CreateClientFailsStep ==
  ASSUME PoolInv, HistoryStep, NEW t \in AllThreads,
         CreateClientFails(t)
  PROVE  PoolInv'
<1> PICK p \in Nat : call[t].peer = p
  BY CallerFields DEF PoolInv
<1> DEFINE r == [peer[p] EXCEPT !.alive = FALSE, !.sock = FALSE]
<1>1. /\ PoolTypeOK /\ call[t].at = "create" /\ Return(t)
  BY DEF PoolInv, CreateClientFails, At
<1>2. p \in DOMAIN peer /\ peer[p] \in PoolPeer
  BY <1>1, Handles DEF Resting
<1>3. /\ r \in PoolPeer /\ ~r.alive /\ r.id = peer[p].id
      /\ r.srv = peer[p].srv /\ r.isServer = peer[p].isServer
  BY <1>2 DEF PoolPeer
<1>4. peer' = [peer EXCEPT ![p] = r]
  BY <1>1, <1>2 DEF CreateClientFails, P, PoolTypeOK
<1>5. TablesKept
  BY DEF CreateClientFails, lists, tables, TablesKept
<1> HIDE DEF r
<1> QED BY <1>1, <1>3, <1>4, <1>5, ClientReturnsStep DEF Resting, Closes

(* ConnectEx() and the first read are begun on a peer that is registered.    *)
LEMMA ConnectsStep ==
  ASSUME PoolInv, HistoryStep, NEW t \in AllThreads,
         BeginConnect(t) \/ EndConnect(t)
  PROVE  PoolInv'
<1> PICK p \in Nat : call[t].peer = p
  BY CallerFields DEF PoolInv
<1> DEFINE op == IF call[t].at = "connect" THEN "connect"
                 ELSE IF peer[p].sock /\ peer[p].flag = "none" THEN "read"
                 ELSE peer[p].op
           r == [peer[p] EXCEPT !.op = op]
<1>1. /\ PoolTypeOK /\ call[t].at \in {"connect", "endConnect"}
      /\ Return(t)
  BY DEF PoolInv, BeginConnect, EndConnect, At
<1>2. p \in DOMAIN peer /\ peer[p] \in PoolPeer
  BY <1>1, Handles DEF Resting
<1>3. /\ r \in PoolPeer /\ r.op \in {"connect", "read", peer[p].op}
      /\ r.id = peer[p].id /\ r.flag = peer[p].flag /\ r.alive = peer[p].alive
      /\ r.srv = peer[p].srv /\ r.isServer = peer[p].isServer
  BY <1>2 DEF PoolPeer
<1>4. peer' = [peer EXCEPT ![p] = r]
  BY <1>1, <1>2 DEF BeginConnect, EndConnect, At, P, PoolTypeOK
<1>5. TablesKept
  BY DEF BeginConnect, EndConnect, lists, tables, history,
         TablesKept
<1>6. PhaseFits(t)
        => Registered(p) /\ peer[p].flag = "none" /\ peer[p].op = "none"
  BY <1>1 DEF PhaseFits
<1> HIDE DEF r
<1>7. call[t].at \notin Resting \cup Closes
  BY <1>1 DEF Resting, Closes
<1> QED BY <1>1, <1>3, <1>4, <1>5, <1>6, <1>7, ClientReturnsStep

(* What the locals of an idle thread are.                                    *)
LEMMA IdleThread ==
  ASSUME PoolInv, NEW t \in AllThreads, call[t].at = "idle"
  PROVE  /\ call[t] = Idle /\ call[t].peer = 0 /\ ~Closer(t)
         /\ call[t].srv = 0 /\ call[t].listen = 0
         /\ call[t].then = "idle"
<1>1. call[t] = Idle
  BY DEF PoolInv, ThreadFits
<1> QED BY <1>1, IdleFields DEF Closer, Closing

(* An idle thread takes a peer that nobody handles.                          *)
LEMMA TakeStep ==
  ASSUME PoolInv, HistoryStep, NEW t \in AllThreads,
         call[t].at = "idle", NEW p \in DOMAIN peer, ~peer[p].isServer,
         TablesKept, NEW r \in PoolPeer, peer' = [peer EXCEPT ![p] = r],
         r.id = peer[p].id, r.srv = peer[p].srv,
             r.isServer = peer[p].isServer,
         r.alive = peer[p].alive,
         NEW c \in PoolCaller, call' = [call EXCEPT ![t] = c],
         c.at \notin Resting, c.peer = p, c.then = "idle",
         c.at = "closeItem" => c.srv # 0,
         c.at \in Serving => c.listen # 0,
         \/ c.srv = peer[p].srv
         \/ c.srv \in DOMAIN server /\ p \in server[c.srv].peers,
         \/ c.listen = 0
         \/ /\ c.srv = peer[p].srv /\ c.srv # 0
            /\ c.listen = server[peer[p].srv].sp,
         p \in Known' /\ PlaceFits(p) /\ OperationFits(p) /\ HistoryFits'
           => ~Blank(p) /\ (~Listed(p) => PhaseFits(t)')
  PROVE  PoolInv'
<1>1. PoolTypeOK
  BY DEF PoolInv
<1>2. p \in Nat /\ p # 0 /\ p \in 0 .. Len(peer)
  BY <1>1, PoolDomains
<1>3. OnlyPeer(p) /\ peer'[p] = r
  BY <1>1, PeerUpdate
<1>4. OnlyThread(t) /\ call'[t] = c
  BY <1>1, CallType DEF OnlyThread
<1>5. call[t].peer = 0 /\ ~Closer(t)
  BY IdleThread
<1>6. c.at \notin Closing \cup {"idle", "join", "stop"}
  BY DEF Closing, Resting
<1>7. ~Closer(t)'
  BY <1>4, <1>6 DEF Closer, Closing
<1>8. LocalsFit(t, p) /\ LeavesFit(t)
  BY <1>2, <1>4, <1>5, <1>6, <1>7 DEF LocalsFit, LeavesFit
<1>9. ASSUME p \in Known' PROVE ~Listed(p) /\ PhaseFits(t)'
  <2>1. p \in Known
    BY <1>1, <1>3, <1>9, KnownBack
  <2>2. PoolTypeOK'
    BY <1>1, <1>2, <1>3, <1>4, KeptTables, QuietDomains
       DEF PoolTypeOK, OnlyPeer, OnlyThread, TablesKept
  <2>3. HistoryFits'
    BY <1>1, <2>2, HistoryKept
  <2>4. ~Taken(p)
    <3>1. SUFFICES ASSUME NEW u \in AllThreads, call[u].peer = p
                   PROVE  FALSE
      BY DEF Taken
    <3>2. u # t
      BY <1>2, <1>5, <3>1
    <3>3. call'[u].peer = p /\ call'[t].peer = p
      BY <1>4, <3>1, <3>2 DEF OnlyThread
    <3>4. p \in raced'
      BY <1>2, <2>3, <3>2, <3>3 DEF HistoryFits
    <3> QED BY <1>9, <3>4 DEF Known
  <2>5. PlaceFits(p) /\ OperationFits(p)
    BY <2>1, <2>4 DEF PoolInv
  <2>6. ~Blank(p) /\ (~Listed(p) => PhaseFits(t)')
    BY <1>9, <2>3, <2>5
  <2>7. ~Listed(p)
    BY <2>5, <2>6 DEF PlaceFits
  <2> QED BY <2>6, <2>7
<1>10. TablesKept /\ Busy(t, p) /\ call'[t].peer = p
  BY <1>4 DEF Busy
<1> QED BY <1>3, <1>4, <1>8, <1>9, <1>10, InPlaceStep

(* Take(), by the operation whose completion it is.                          *)
LEMMA TakesStep ==
  ASSUME PoolInv, HistoryStep, NEW t \in AllThreads,
         NEW p \in DOMAIN peer,
         NEW op \in {"connect", "read", "disconnect"},
         NEW at \in {"endConnect", "timedOut", "unavailable", "unlist"},
         op = "connect" => at \in {"endConnect", "timedOut"},
         op = "read" => at = "unavailable",
         op = "disconnect" => at = "unlist",
         Take(t, p, op, at)
  PROVE  PoolInv'
<1> DEFINE r == [peer[p] EXCEPT !.op = "none"]
           c == [call[t] EXCEPT !.at = at, !.peer = p, !.srv = peer[p].srv]
<1>1. PoolTypeOK /\ call[t].at = "idle" /\ peer[p].op = op
  BY DEF PoolInv, Take, At
<1>2. peer[p] \in PoolPeer /\ p \in Nat
  BY <1>1, PoolDomains
<1>3. ~peer[p].isServer
  BY <1>1 DEF PoolInv, ListenerFits
<1>4. /\ r \in PoolPeer /\ r.op = "none"
      /\ r.id = peer[p].id /\ r.flag = peer[p].flag /\ r.alive = peer[p].alive
      /\ r.srv = peer[p].srv /\ r.isServer = peer[p].isServer
  BY <1>2 DEF PoolPeer
<1>5. peer' = [peer EXCEPT ![p] = r] /\ TablesKept
  BY <1>1, <1>2 DEF Take, PoolTypeOK, TablesKept, lists, tables
<1>6. /\ c \in PoolCaller /\ c.at = at /\ c.peer = p /\ c.srv = peer[p].srv
      /\ c.listen = call[t].listen /\ c.then = call[t].then
  <2>1. at \in Working /\ peer[p].srv \in Nat
    BY <1>2 DEF Working, Closes, PoolPeer
  <2> QED BY <1>1, <1>2, <2>1, CallType DEF PoolCaller
<1>7. call' = [call EXCEPT ![t] = c]
  BY <1>1, CallType DEF Take
<1> HIDE DEF r, c
<1>8. c.listen = 0 /\ c.then = "idle"
  BY <1>1, <1>6, IdleThread
<1>9. peer'[p] = r /\ call'[t] = c
  BY <1>1, <1>5, <1>7, CallType DEF PoolTypeOK
<1>10. at \notin Resting /\ at \notin Serving /\ at # "closeItem"
  BY DEF Resting, Serving
<1>11. ASSUME PlaceFits(p), OperationFits(p), p \in Known'
       PROVE  ~Blank(p) /\ (~Listed(p) => PhaseFits(t)')
  <2>1. ~Blank(p)
    BY <1>1 DEF Blank
  <2>2. CASE op = "connect"
    <3>1. Registered(p) /\ peer[p].flag = "none"
      BY <1>1, <1>11, <2>2 DEF OperationFits
    <3>2. Registered(p)'
      BY <1>1, <1>2, <1>5, <3>1, KeptTables
    <3> QED BY <1>4, <1>6, <1>9, <2>1, <2>2, <3>1, <3>2 DEF PhaseFits, Closes
  <2>3. CASE op = "read"
    <3>1. /\ Registered(p) \/ Serves(peer[p].srv, p)
          /\ peer[p].flag = "none"
      BY <1>1, <1>11, <2>3 DEF OperationFits
    <3>2. Registered(p)' \/ Serves(peer'[p].srv, p)
      BY <1>1, <1>2, <1>4, <1>5, <1>9, <3>1, KeptTables
    <3>3. Registered(p)' \/ Serves(peer[p].srv, p)'
      BY <1>4, <1>5, <1>9, <3>2 DEF TablesKept, Serves
    <3> QED BY <1>4, <1>6, <1>9, <2>1, <2>3, <3>1, <3>3
               DEF PhaseFits, Closes, Serves
  <2>4. CASE op = "disconnect"
    <3>1. Serves(peer[p].srv, p)
      BY <1>1, <1>11, <2>4 DEF OperationFits
    <3>2. \A s \in DOMAIN server' : p \notin server'[s].pending
      BY <1>1, <1>5, <1>11, <3>1, NotAwaited DEF TablesKept
    <3>3. ~Listed(p) => ~Listed(p)'
      BY <1>1, <1>2, <1>5, KeptTables
    <3> QED BY <1>4, <1>6, <1>9, <2>1, <2>4, <3>2, <3>3 DEF PhaseFits, Closes
  <2> QED BY <2>1, <2>2, <2>3, <2>4
<1> QED BY <1>1, <1>3, <1>4, <1>5, <1>6, <1>7, <1>8, <1>10, <1>11, TakeStep

(* The completion of an accept: its peer awaits it in the table of the       *)
(* server.                                                                   *)
LEMMA TakeAcceptStep ==
  ASSUME PoolInv, HistoryStep, NEW t \in AllThreads,
         NEW p \in DOMAIN peer, NEW at \in {"endAccept", "acceptFailed"},
         TakeAccept(t, p, at)
  PROVE  PoolInv'
<1> DEFINE r == [peer[p] EXCEPT !.op = "none"]
           s == peer[p].srv
           l == server[s].sp
           c == [Idle EXCEPT !.at = at, !.peer = p, !.more = 1, !.srv = s,
                                  !.listen = l]
<1>1. PoolTypeOK /\ call[t].at = "idle" /\ peer[p].op = "accept" /\ s # 0
  BY DEF PoolInv, TakeAccept, At, None
<1>2. /\ peer[p] \in PoolPeer /\ p \in Nat
      /\ s \in DOMAIN server /\ l \in DOMAIN peer /\ l # 0 /\ l \in Nat
           /\ s \in Nat
  BY <1>1, PoolDomains DEF PoolInv, PoolInRange
<1>3. ~peer[p].isServer
  BY <1>1 DEF PoolInv, ListenerFits
<1>4. /\ r \in PoolPeer /\ r.op = "none"
      /\ r.id = peer[p].id /\ r.flag = peer[p].flag /\ r.alive = peer[p].alive
      /\ r.srv = peer[p].srv /\ r.isServer = peer[p].isServer
  BY <1>2 DEF PoolPeer
<1>5. peer' = [peer EXCEPT ![p] = r] /\ TablesKept
  BY <1>1, <1>2 DEF TakeAccept, PoolTypeOK, TablesKept, lists, tables
<1>6. /\ c \in PoolCaller /\ c.at = at /\ c.peer = p /\ c.srv = s
      /\ c.listen = l /\ c.then = "idle"
  <2> DEFINE d == [Idle EXCEPT !.at = at, !.peer = p]
             e == [d EXCEPT !.srv = s, !.listen = l]
  <2>1. at \in Working /\ 1 \in Int
    BY DEF Working, Serving
  <2>2. Idle \in PoolCaller
    BY <1>1, CallType, IdleThread
  <2>3. /\ d \in PoolCaller /\ d.at = at /\ d.peer = p /\ d.then = "idle"
    BY <1>2, <2>1, <2>2, IdleFields DEF PoolCaller
  <2>4. c = [e EXCEPT !.more = 1]
    BY <2>2, <2>3 DEF PoolCaller
  <2> HIDE DEF c, d
  <2>5. /\ e \in PoolCaller /\ e.at = at /\ e.peer = p /\ e.then = "idle"
        /\ e.srv = s /\ e.listen = l
    BY <1>2, <2>3 DEF PoolCaller
  <2> HIDE DEF e
  <2> QED BY <2>1, <2>4, <2>5 DEF PoolCaller
<1>7. call' = [call EXCEPT ![t] = c]
  BY <1>1, CallType DEF TakeAccept
<1> HIDE DEF r, c
<1>8. peer'[p] = r /\ call'[t] = c
  BY <1>1, <1>5, <1>7, CallType DEF PoolTypeOK
<1>9. at \notin Resting /\ at \in Serving /\ at # "closeItem"
  BY DEF Resting, Serving
<1>10. ASSUME PlaceFits(p), OperationFits(p), p \in Known', HistoryFits'
       PROVE  ~Blank(p) /\ PhaseFits(t)'
  <2>1. peer[p].flag = "none" /\ Awaits(s, p)
    BY <1>1, <1>10 DEF OperationFits
  <2>2. s \in servers
    <3>1. SUFFICES ASSUME NEW w \in AllThreads, Closer(w), call[w].srv = s
                   PROVE  FALSE
      BY <1>2, <2>1 DEF PoolInv, ServerFits, Awaits
    <3>2. w # t
      BY <1>1, <3>1, IdleThread
    <3>3. call'[w] = call[w] /\ Closer(w)'
      BY <1>1, <1>7, <3>1, <3>2, CallType DEF Closer
    <3>4. s \in overlapped'
      BY <1>6, <1>8, <1>10, <3>1, <3>2, <3>3 DEF HistoryFits
    <3>5. p \in strayed'
      BY <1>6, <1>8, <1>10, <1>2, <1>1, <3>4, PoolDomains DEF HistoryFits
    <3> QED BY <1>10, <3>5 DEF Known
  <2>3. peer[l].isServer
    BY <1>2, <2>2 DEF PoolInv, ServerFits
  <2>4. Resolved(t)'
    <3>1. l # p
      BY <1>3, <2>3
    <3>2. peer'[l] = peer[l]
      BY <1>1, <1>2, <1>5, <3>1 DEF PoolTypeOK
    <3> QED BY <1>6, <1>8, <2>3, <3>2 DEF Resolved
  <2>5. s \in DOMAIN server' /\ server'[s].alive /\ p \in server'[s].pending
    BY <2>1, <1>5 DEF Awaits, TablesKept
  <2>6. ~Blank(p)
    BY <1>1 DEF Blank
  <2> QED BY <1>4, <1>6, <1>8, <2>1, <2>4, <2>5, <2>6
             DEF PhaseFits, Closes, Awaits
<1> QED BY <1>1, <1>2, <1>3, <1>4, <1>5, <1>6, <1>7, <1>9, <1>10, TakeStep

(* CloseServerItem() looks a peer up and does not take it out yet.           *)
LEMMA CloseServerItemStep ==
  ASSUME PoolInv, HistoryStep, NEW t \in AllThreads,
         NEW p \in DOMAIN peer, CloseServerItem(t, p)
  PROVE  PoolInv'
<1>1. PoolTypeOK /\ call[t].at = "idle" /\ peer' = peer /\ TablesKept
  BY DEF PoolInv, CloseServerItem, At, lists, tables,
         history, TablesKept
<1>2. PICK s \in servers :
        /\ p \in server[s].peers
        /\ call' = [call EXCEPT ![t].at = "closeItem", ![t].peer = p,
                                        ![t].srv = s]
  BY DEF CloseServerItem
<1> DEFINE c == [call[t] EXCEPT !.at = "closeItem", !.peer = p, !.srv = s]
<1>3. /\ s \in DOMAIN server /\ s # 0 /\ s \in Nat /\ p \in Nat
      /\ peer[p] \in PoolPeer
  BY <1>1, PoolDomains DEF PoolTypeOK
<1>4. ~peer[p].isServer
  BY <1>2, <1>3 DEF PoolInv, ListenerFits
<1>5. peer' = [peer EXCEPT ![p] = peer[p]]
  BY <1>1 DEF PoolTypeOK
<1>6. /\ c \in PoolCaller /\ c.at = "closeItem" /\ c.peer = p /\ c.srv = s
      /\ c.listen = call[t].listen /\ c.then = call[t].then
  <2>1. "closeItem" \in Working
    BY DEF Working
  <2> QED BY <1>1, <1>3, <2>1, CallType DEF PoolCaller
<1>7. call' = [call EXCEPT ![t] = c]
  BY <1>1, <1>2, CallType
<1> HIDE DEF c
<1>8. call'[t] = c /\ c.listen = 0 /\ c.then = "idle"
  BY <1>1, <1>6, <1>7, CallType, IdleThread
<1>9. c.at \notin Resting \cup Serving
  BY <1>6 DEF Resting, Serving
<1>10. ASSUME PlaceFits(p) PROVE ~Blank(p) /\ PhaseFits(t)'
  <2>1. ~Blank(p)
    BY <1>2, <1>3, <1>10 DEF PlaceFits, Blank
  <2>2. p \in server'[s].peers
    BY <1>1, <1>2 DEF TablesKept
  <2> QED BY <1>6, <1>8, <2>1, <2>2 DEF PhaseFits, Closes
<1> QED BY <1>1, <1>2, <1>3, <1>4, <1>5, <1>6, <1>7, <1>8, <1>9, <1>10,
           TakeStep

(* One of the maps of a server changes.                                      *)
ServerMaps(s, ps, qs) ==
  /\ server' \in Seq(PoolServer) /\ Len(server') = Len(server)
  /\ DOMAIN server' = DOMAIN server
  /\ \A r \in DOMAIN server : r # s => server'[r] = server[r]
  /\ server'[s].alive = server[s].alive
       /\ server'[s].running = server[s].running
  /\ server'[s].sp = server[s].sp
  /\ server'[s].peers = ps /\ server'[s].pending = qs

(* A step that changes the accepted peers of one server, ...                 *)
LEMMA PeersSet ==
  ASSUME PoolTypeOK, NEW s \in DOMAIN server, NEW ps \in SUBSET Nat,
         server' = [server EXCEPT ![s].peers = ps]
  PROVE  ServerMaps(s, ps, server[s].pending)
<1> DEFINE r == [server[s] EXCEPT !.peers = ps]
<1>1. /\ r \in PoolServer /\ r.peers = ps /\ r.pending = server[s].pending
      /\ r.alive = server[s].alive /\ r.running = server[s].running
      /\ r.sp = server[s].sp
  BY PoolDomains DEF PoolServer
<1>2. server' = [server EXCEPT ![s] = r]
  BY DEF PoolTypeOK
<1> HIDE DEF r
<1>3. server \in Seq(PoolServer)
  BY DEF PoolTypeOK
<1>4. server' \in Seq(PoolServer) /\ Len(server') = Len(server)
  BY <1>1, <1>2, <1>3
<1>5. /\ \A q \in DOMAIN server : q # s => server'[q] = server[q]
      /\ server'[s] = r /\ DOMAIN server' = DOMAIN server
  BY <1>2, <1>3
<1> QED BY <1>1, <1>4, <1>5 DEF ServerMaps

(* ... or its pending accepts, ...                                           *)
LEMMA PendingSet ==
  ASSUME PoolTypeOK, NEW s \in DOMAIN server, NEW qs \in SUBSET Nat,
         server' = [server EXCEPT ![s].pending = qs]
  PROVE  ServerMaps(s, server[s].peers, qs)
<1> DEFINE r == [server[s] EXCEPT !.pending = qs]
<1>1. /\ r \in PoolServer /\ r.pending = qs /\ r.peers = server[s].peers
      /\ r.alive = server[s].alive /\ r.running = server[s].running
      /\ r.sp = server[s].sp
  BY PoolDomains DEF PoolServer
<1>2. server' = [server EXCEPT ![s] = r]
  BY DEF PoolTypeOK
<1> HIDE DEF r
<1>3. server \in Seq(PoolServer)
  BY DEF PoolTypeOK
<1>4. server' \in Seq(PoolServer) /\ Len(server') = Len(server)
  BY <1>1, <1>2, <1>3
<1>5. /\ \A q \in DOMAIN server : q # s => server'[q] = server[q]
      /\ server'[s] = r /\ DOMAIN server' = DOMAIN server
  BY <1>2, <1>3
<1> QED BY <1>1, <1>4, <1>5 DEF ServerMaps

(* ... both of which are sets of peers, ...                                  *)
LEMMA ServerSets ==
  ASSUME PoolTypeOK, NEW s \in DOMAIN server
  PROVE  server[s].peers \in SUBSET Nat /\ server[s].pending \in SUBSET Nat
BY PoolDomains DEF PoolServer

(* ... leaves the other peers to their servers.                              *)
LEMMA MapsServed ==
  ASSUME PoolTypeOK, NEW s \in DOMAIN server, NEW p \in Nat,
         NEW ps, NEW qs, ServerMaps(s, ps, qs), servers' = servers,
         ps \ {p} = server[s].peers \ {p}, qs \ {p} = server[s].pending \ {p}
  PROVE  OnlyServed(p) /\ DOMAIN server' = DOMAIN server
<1>1. DOMAIN server' = DOMAIN server
  BY PoolDomains DEF ServerMaps
<1>2. \A r \in DOMAIN server :
        /\ server'[r].alive = server[r].alive
        /\ server'[r].running = server[r].running
        /\ server'[r].sp = server[r].sp
  BY DEF ServerMaps
<1>3. \A r \in DOMAIN server : \A q \in Nat : q # p =>
        /\ q \in server'[r].peers <=> q \in server[r].peers
        /\ q \in server'[r].pending <=> q \in server[r].pending
  BY DEF ServerMaps
<1> QED BY <1>1, <1>2, <1>3 DEF OnlyServed, ServerMaps

(* What a step leaves of the lists.                                          *)
ListsKept == UNCHANGED <<passive, proactive, clients>>
    /\ abandoned \subseteq abandoned'

(* A step that leaves the lists and the clients alone.                       *)
LEMMA KeptLists ==
  ASSUME PoolTypeOK, ListsKept, NEW p \in Nat
  PROVE  /\ OnlyPlace(p)
         /\ Listed(p)' <=> Listed(p)
         /\ Registered(p)' <=> Registered(p)
<1>1. \A q : /\ Listed(q)' <=> Listed(q)
             /\ ListedOnce(q)' <=> ListedOnce(q)
  BY DEF ListsKept, Listed, ListedOnce
<1>2. OnlyPlace(p)
  BY <1>1 DEF ListsKept, OnlyPlace, PoolTypeOK
<1> QED BY <1>1, <1>2 DEF ListsKept, Registered

(* A peer that is nowhere is in its place as long as a thread handles it.    *)
LEMMA NowhereStands ==
  ASSUME NEW p \in Nat, Nowhere(p)', Taken(p)' PROVE Stands(p)'
BY DEF Nowhere, Stands, PlaceFits, Listed, ListedOnce, Registered

(* A step that changes the maps of one server; where the peer is then.       *)
LEMMA MapStep ==
  ASSUME PoolInv, HistoryStep, NEW t \in AllThreads, NEW p \in Nat,
         NEW s \in DOMAIN server, NEW ps, NEW qs, ServerMaps(s, ps, qs),
         servers' = servers, ListsKept,
         ps \ {p} = server[s].peers \ {p}, qs \ {p} = server[s].pending \ {p},
         OnlyPeer(p), peer'[p].id = peer[p].id, peer'[p].srv = peer[p].srv,
         OnlyThread(t), LocalsFit(t, p), LeavesFit(t), Busy(t, p),
         p \in ps \ server[s].peers \/ p \in qs \ server[s].pending =>
           p # 0 /\ Linked(t, s) /\ ~Closer(t) /\ call[t].peer = p,
         p \in Known' /\ p \in Known /\ PlaceFits(p) =>
           /\ p \in ps \ server[s].peers \/ p \in qs \ server[s].pending =>
                call[t].srv = s /\ peer[p].srv = s
           /\ p \in ps => p \notin qs
           /\ ~Listed(p)
           /\ call'[t].peer = p => PhaseFits(t)'
           /\ call'[t].peer # p => OperationFits(p)' /\ Awaits(s, p)'
  PROVE  PoolInv'
<1>1. PoolTypeOK
  BY DEF PoolInv
<1>2. OnlyServed(p) /\ DOMAIN server' = DOMAIN server /\ OnlyPlace(p)
  <2>1. OnlyServed(p) /\ DOMAIN server' = DOMAIN server
    BY <1>1, MapsServed
  <2> QED BY <1>1, <2>1, KeptLists
<1>3. \A r \in DOMAIN server : r # s => server'[r] = server[r]
  BY DEF ServerMaps
<1>4. server'[s].peers = ps /\ server'[s].pending = qs
  BY DEF ServerMaps
<1>5. \A r \in DOMAIN server :
        p \in server'[r].peers \cup server'[r].pending =>
          \/ p \in server[r].peers \cup server[r].pending
          \/ r = s
               /\ (p \in ps \ server[s].peers \/ p \in qs \ server[s].pending)
  BY <1>3, <1>4
<1>6. ServesFit(t, p)
  BY <1>5 DEF ServesFit
<1>7. Quiet(t, p)
  BY <1>2, <1>6 DEF Quiet
<1>8. p \in Known => p \in DOMAIN peer /\ PlaceFits(p)
  BY DEF PoolInv, Known
<1>9. p \in Known' => p \in Known
  <2>1. p \in Known' => p \in DOMAIN peer
    BY <1>1, PoolDomains DEF OnlyPeer, Known
  <2> QED BY <1>1, <2>1, KnownBack DEF OnlyPeer
<1>10. p \in Known' => PhaseFits(t)' \/ call'[t].peer # p
  BY <1>8, <1>9
<1>11. ASSUME p \in Known' PROVE Stands(p)'
  <2>1. /\ PlaceFits(p) /\ p \in DOMAIN peer /\ ~Listed(p)
        /\ p \in ps \ server[s].peers \/ p \in qs \ server[s].pending =>
             peer[p].srv = s
        /\ p \in ps => p \notin qs
    BY <1>8, <1>9, <1>11
  <2>2. ~Listed(p)' /\ (Registered(p)' <=> Registered(p))
    BY <1>1, <2>1, KeptLists
  <2>3. ListedOnce(p)'
    BY <2>2 DEF Listed, ListedOnce
  <2>4. \A c \in Cookies : clients'[c] = p =>
          peer'[p].id = c /\ peer'[p].srv = 0 /\ ~peer'[p].isServer
    BY <2>1 DEF PlaceFits, ListsKept, OnlyPeer
  <2>5. \A r \in DOMAIN server' :
          p \in server'[r].peers \cup server'[r].pending => peer'[p].srv = r
    BY <1>2, <1>5, <2>1 DEF PlaceFits
  <2>6. \A r \in DOMAIN server' : p \in server'[r].peers
          => p \notin server'[r].pending
    BY <1>2, <1>3, <1>4, <2>1 DEF PlaceFits
  <2>7. \/ Taken(p)'
        \/ OperationFits(p)' /\ Awaits(s, p)'
    BY <1>8, <1>9, <1>11 DEF Taken
  <2>8. PlaceFits(p)'
    BY <2>2, <2>3, <2>4, <2>5, <2>6, <2>7, <1>2 DEF PlaceFits
  <2> QED BY <2>7, <2>8 DEF Stands
<1>12. AddsFit(t, p)
  <2>1. ASSUME NEW r \in DOMAIN server, p \in Known, p \in Known',
               \/ p \in server'[r].peers \ server[r].peers
               \/ p \in server'[r].pending \ server[r].pending
        PROVE  call[t].srv = r /\ call[t].peer = p /\ ~Closer(t)
    <3>1. /\ r = s
               /\ (p \in ps \ server[s].peers \/ p \in qs \ server[s].pending)
      BY <1>3, <1>4, <2>1
    <3>2. p # 0 /\ Linked(t, s) /\ ~Closer(t) /\ call[t].peer = p
      BY <3>1
    <3>3. call[t].srv = s
      BY <1>8, <2>1, <3>1
    <3> QED BY <3>1, <3>2, <3>3
  <2> QED BY <2>1 DEF AddsFit
<1> QED BY <1>7, <1>10, <1>11, <1>12, QuietStep

(* A peer that is not written keeps its keys.                                *)
LEMMA PeerSame ==
  ASSUME PoolTypeOK, NEW p \in DOMAIN peer, ~peer[p].isServer, peer' = peer
  PROVE  OnlyPeer(p) /\ peer'[p].id = peer[p].id /\ peer'[p].srv = peer[p].srv
BY PeerKept, PoolDomains

(* The server of a peer is there.                                            *)
LEMMA SrvInRange ==
  ASSUME PoolInv, NEW q \in DOMAIN peer, peer[q].srv # 0
  PROVE  peer[q].srv \in DOMAIN server
BY PoolDomains DEF PoolInv, PoolInRange

(* AddPendingAccept() puts the peer, which is nowhere, into the table.       *)
LEMMA AddPendingAcceptStep ==
  ASSUME PoolInv, HistoryStep, NEW t \in AllThreads,
         AddPendingAccept(t)
  PROVE  PoolInv'
<1> PICK p \in Nat : call[t].peer = p
  BY CallerFields DEF PoolInv
<1> DEFINE l == call[t].listen
           c == [call[t] EXCEPT !.peer = 0, !.at = "passive"]
<1> PICK s \in Nat : s = peer[l].srv
  <2>1. PoolTypeOK /\ call[t].at = "pend"
    BY DEF PoolInv, AddPendingAccept, At
  <2>2. l \in DOMAIN peer
    BY <2>1, CallerFields, Handles DEF Resting, Serving
  <2> QED BY <2>1, <2>2, PoolDomains DEF PoolPeer
<1>1. PoolTypeOK /\ call[t].at = "pend" /\ s # 0
  BY Zenon DEF PoolInv, AddPendingAccept, At, None
<1>0. peer' = peer /\ servers' = servers /\ ListsKept
  BY Zenon DEF AddPendingAccept, lists, tables, history, ListsKept
<1>2. /\ p \in DOMAIN peer /\ p # 0 /\ p \in 0 .. Len(peer)
      /\ ~peer[p].isServer /\ ~Closer(t) /\ l \in DOMAIN peer
      /\ p \in Known => PlaceFits(p) /\ PhaseFits(t) /\ ~Listed(p)
  BY <1>1, Handles DEF Resting, Closes, Serving
<1>3. s \in DOMAIN server
  BY <1>1, <1>2, SrvInRange
<1> DEFINE qs == server[s].pending \cup {p}
<1>4. /\ ServerMaps(s, server[s].peers, qs)
      /\ qs \ {p} = server[s].pending \ {p}
  <2>1. qs \in SUBSET Nat
    BY <1>1, <1>3, ServerSets
  <2>2. server' = [server EXCEPT ![s].pending = qs]
    BY DEF AddPendingAccept, P
  <2> QED BY <1>1, <1>3, <2>1, <2>2, PendingSet
<1>5. OnlyPeer(p) /\ peer'[p].id = peer[p].id /\ peer'[p].srv = peer[p].srv
  BY <1>0, <1>1, <1>2, PeerSame
<1>6. /\ c \in PoolCaller /\ c.at = "passive" /\ c.peer = 0
      /\ c.srv = call[t].srv /\ c.listen = call[t].listen
      /\ c.then = call[t].then
  BY <1>1, CallType DEF PoolCaller, Resting
<1>7. Return(t) \/ call' = [call EXCEPT ![t] = c]
  BY <1>1, CallType DEF AddPendingAccept, None
<1> HIDE DEF c
<1>8. OnlyThread(t) /\ LocalsFit(t, p) /\ LeavesFit(t) /\ call'[t].peer = 0
  <2>1. CASE Return(t)
    BY <1>2, <2>1, ReturnLocals
  <2>2. CASE call' = [call EXCEPT ![t] = c]
    <3>1. OnlyThread(t) /\ call'[t] = c
      BY <1>1, <1>6, <2>2, CallType DEF OnlyThread
    <3>2. call'[t].then \notin Closing
      BY <1>2, <1>6, <3>1 DEF Closer
    <3> QED BY <1>1, <1>2, <1>6, <3>1, <3>2, StayLocals
            DEF Closing, Resting, Serving
  <2> QED BY <1>7, <2>1, <2>2
<1>9. ASSUME p \in Known, p \in Known', PlaceFits(p)
      PROVE  /\ call[t].srv = s /\ peer[p].srv = s
             /\ p \notin server[s].peers /\ ~Listed(p)
             /\ OperationFits(p)' /\ Awaits(s, p)'
  <2>1. /\ Nowhere(p) /\ peer[p].flag = "none" /\ peer[p].op = "accept"
        /\ Resolved(t) /\ peer[p].srv = call[t].srv
    BY <1>1, <1>2, <1>9 DEF PhaseFits
  <2>2. call[t].srv = s
    BY <1>1, <1>2, <2>1, PoolDomains DEF PoolInv, ListenFits, Resolved
  <2>3. Awaits(s, p)'
    <3>1. server[s].alive
      BY Zenon DEF AddPendingAccept
    <3>2. /\ server'[s].alive /\ p \in server'[s].pending
          /\ DOMAIN server' = DOMAIN server
      BY <1>4, <3>1, Zenon DEF ServerMaps
    <3> QED BY <1>3, <3>2, Zenon DEF Awaits
  <2>4. OperationFits(p)'
    BY <1>0, <2>1, <2>2, <2>3 DEF OperationFits
  <2> QED BY <1>2, <1>3, <1>9, <2>1, <2>2, <2>3, <2>4 DEF Nowhere
<1>10. Linked(t, s)
  BY <1>1, <1>2, PoolDomains DEF Linked
<1> HIDE DEF qs
<1> QED BY <1>0, <1>2, <1>3, <1>4, <1>5, <1>8, <1>9, <1>10, MapStep DEF Busy

(* A thread that accepts finds the server of its listening peer.             *)
LEMMA ListenSrv ==
  ASSUME PoolInv, NEW t \in AllThreads, call[t].at \in Serving
  PROVE  peer[call[t].listen].srv \in Nat
<1>1. PoolTypeOK /\ call[t].listen \in DOMAIN peer
  BY CallerFields, Handles DEF PoolInv, Resting, Serving
<1> QED BY <1>1, PoolDomains DEF PoolPeer

(* FinishPending() of p, for server s: what it needs, and what it does.      *)
Finishing(t, p, s) ==
  /\ call[t].peer = p
  /\ s \in DOMAIN server /\ servers' = servers /\ ListsKept
  /\ ServerMaps(s, server[s].peers, server[s].pending \ {p})
  /\ p \in Known =>
       /\ p \in server[s].pending /\ call[t].srv = s /\ peer[p].srv = s
       /\ Resolved(t) /\ peer[p].flag = "none" /\ peer[p].op = "none"
       /\ \A c \in Cookies : clients[c] # p
       /\ \A r \in DOMAIN server :
            p \notin server[r].peers /\ (p \in server[r].pending => r = s)

(* What FinishPending() does, in terms of its peer and its server.           *)
LEMMA FinishPendingFacts ==
  ASSUME PoolInv, NEW t \in AllThreads,
         NEW at \in {"endAccept", "acceptFailed"}, FinishPending(t, at)
  PROVE  \E p \in Nat, s \in Nat : Finishing(t, p, s)
<1> PICK p \in Nat : call[t].peer = p
  BY CallerFields DEF PoolInv
<1>0. PoolTypeOK /\ call[t].at = at
  BY Zenon DEF PoolInv, FinishPending, At
<1> PICK s \in Nat : s = peer[call[t].listen].srv
  BY <1>0, ListenSrv DEF Serving
<1>1. PoolTypeOK /\ call[t].at = at /\ s # 0 /\ server[s].alive
  BY Zenon DEF PoolInv, FinishPending, At, Running, None
<1>2. servers' = servers /\ ListsKept
  BY Zenon DEF FinishPending, lists, tables, history, ListsKept
<1>3. server' = [server EXCEPT ![s].pending = @ \ {p}]
  BY DEF FinishPending, P
<1>4. /\ call[t].listen \in DOMAIN peer /\ p \in DOMAIN peer /\ p # 0
      /\ p \in Known => PlaceFits(p) /\ PhaseFits(t) /\ ~Listed(p)
  BY <1>1, Handles DEF Resting, Closes, Serving
<1>5. s \in DOMAIN server
  BY <1>1, <1>4, SrvInRange
<1>6. ServerMaps(s, server[s].peers, server[s].pending \ {p})
  <2>1. server[s].pending \ {p} \in SUBSET Nat
    BY <1>1, <1>5, ServerSets
  <2> QED BY <1>1, <1>3, <1>5, <2>1, PendingSet
<1>7. ASSUME p \in Known
      PROVE  /\ p \in server[s].pending /\ call[t].srv = s /\ peer[p].srv = s
             /\ Resolved(t) /\ peer[p].flag = "none" /\ peer[p].op = "none"
             /\ \A c \in Cookies : clients[c] # p
             /\ \A r \in DOMAIN server :
                  p \notin server[r].peers /\ (p \in server[r].pending
                      => r = s)
  <2>1. /\ Awaits(call[t].srv, p) /\ Resolved(t)
        /\ peer[p].flag = "none" /\ peer[p].op = "none"
    BY <1>1, <1>4, <1>7 DEF PhaseFits
  <2>2. call[t].srv = s
    BY <1>1, <1>4, <2>1, PoolDomains DEF PoolInv, ListenFits, Resolved
  <2>3. p \in server[s].pending /\ peer[p].srv = s
    BY <1>4, <1>5, <1>7, <2>1, <2>2 DEF PlaceFits, Awaits
  <2>4. \A c \in Cookies : clients[c] # p
    BY <1>1, <1>4, <1>7, <2>3 DEF PlaceFits
  <2>5. \A r \in DOMAIN server :
          p \notin server[r].peers /\ (p \in server[r].pending => r = s)
    BY <1>4, <1>7, <2>3 DEF PlaceFits
  <2> QED BY <2>1, <2>2, <2>3, <2>4, <2>5
<1>8. Finishing(t, p, s)
  BY <1>2, <1>5, <1>6, <1>7 DEF Finishing
<1> QED BY <1>8

(* An accepted peer is taken out of the pending accepts ...                  *)
LEMMA EndAcceptStep ==
  ASSUME PoolInv, HistoryStep, NEW t \in AllThreads,
         EndAccept(t)
  PROVE  PoolInv'
<1>1. PoolTypeOK /\ call[t].at = "endAccept" /\ FinishPending(t, "endAccept")
  BY Zenon DEF PoolInv, EndAccept, FinishPending, At
<1>0. PICK p \in Nat, s \in Nat : Finishing(t, p, s)
  BY <1>1, FinishPendingFacts
<1>2. call[t].peer = p /\ peer' = peer /\ Go(t, "addPeer")
  BY <1>0, Zenon DEF EndAccept, Finishing
<1>3. /\ p \in DOMAIN peer /\ p # 0 /\ p \in 0 .. Len(peer)
      /\ ~peer[p].isServer /\ ~Closer(t)
      /\ call[t].listen \in DOMAIN peer
      /\ p \in Known => ~Listed(p)
  BY <1>1, <1>2, Handles DEF Resting, Closes, Serving
<1>4. /\ s \in DOMAIN server /\ servers' = servers /\ ListsKept
      /\ ServerMaps(s, server[s].peers, server[s].pending \ {p})
  BY <1>0 DEF Finishing
<1>5. p \in Known =>
        /\ p \in server[s].pending /\ call[t].srv = s /\ peer[p].srv = s
        /\ Resolved(t) /\ peer[p].flag = "none" /\ peer[p].op = "none"
        /\ \A c \in Cookies : clients[c] # p
        /\ \A r \in DOMAIN server :
             p \notin server[r].peers /\ (p \in server[r].pending => r = s)
  BY <1>0 DEF Finishing
<1>6. OnlyPeer(p) /\ peer'[p].id = peer[p].id /\ peer'[p].srv = peer[p].srv
  BY <1>1, <1>2, <1>3, PeerSame
<1>7. /\ OnlyThread(t) /\ call'[t].peer = p /\ call'[t].at = "addPeer"
      /\ call'[t].listen = call[t].listen
      /\ call'[t].srv = call[t].srv
      /\ call'[t].then = call[t].then
  BY <1>1, <1>2, GoFields DEF Working, Serving
<1>8. LocalsFit(t, p) /\ LeavesFit(t)
  <2>1. call'[t].then \notin Closing /\ call[t].listen # 0
    BY <1>1, <1>3, <1>7, PoolDomains DEF Closer
  <2> QED BY <1>2, <1>3, <1>7, <2>1, StayLocals DEF Closing, Resting
<1>9. ASSUME p \in Known PROVE ~Listed(p) /\ PhaseFits(t)'
  <2>1. ~Listed(p)' /\ ~Registered(p)'
    BY <1>1, <1>3, <1>4, <1>5, <1>9, KeptLists DEF Registered
  <2>2. \A r \in DOMAIN server' : p \notin server'[r].peers \cup server'[r].pending
    BY <1>4, <1>5, <1>9 DEF ServerMaps
  <2>3. Nowhere(p)'
    BY <2>1, <2>2 DEF Nowhere
  <2>4. Resolved(t)'
    BY <1>2, <1>5, <1>7, <1>9 DEF Resolved
  <2> QED BY <1>2, <1>3, <1>5, <1>7, <1>9, <2>3, <2>4 DEF PhaseFits, Closes
<1> QED BY <1>2, <1>4, <1>5, <1>6, <1>7, <1>8, <1>9, MapStep DEF Busy

(* (a peer whose accept failed too, to be closed)                            *)
LEMMA FinishFailedStep ==
  ASSUME PoolInv, HistoryStep, NEW t \in AllThreads,
         FinishFailed(t)
  PROVE  PoolInv'
<1>1. /\ PoolTypeOK /\ call[t].at = "acceptFailed"
      /\ FinishPending(t, "acceptFailed")
  BY Zenon DEF PoolInv, FinishFailed, FinishPending, At
<1>0. PICK p \in Nat, s \in Nat : Finishing(t, p, s)
  BY <1>1, FinishPendingFacts
<1> DEFINE r == [peer[p] EXCEPT !.flag = "close"]
<1>2. call[t].peer = p /\ Destroy(t, p, "close", "passive")
  BY <1>0, Zenon DEF FinishFailed, P, Finishing
<1>3. /\ p \in DOMAIN peer /\ p # 0 /\ p \in 0 .. Len(peer)
           /\ peer[p] \in PoolPeer
      /\ ~peer[p].isServer /\ ~Closer(t)
      /\ p \in Known => ~Listed(p)
  BY <1>1, <1>2, Handles DEF Resting, Closes, Serving
<1>4. /\ s \in DOMAIN server /\ servers' = servers /\ ListsKept
      /\ ServerMaps(s, server[s].peers, server[s].pending \ {p})
  BY <1>0 DEF Finishing
<1>5. p \in Known =>
        \A q \in DOMAIN server :
          p \notin server[q].peers /\ (p \in server[q].pending => q = s)
  BY <1>0 DEF Finishing
<1>6. /\ r \in PoolPeer /\ r.op = peer[p].op /\ r.id = peer[p].id
      /\ r.srv = peer[p].srv /\ r.alive = peer[p].alive
      /\ r.isServer = peer[p].isServer /\ r.flag = "close"
  BY <1>3 DEF PoolPeer
<1>7. peer' = [peer EXCEPT ![p] = r]
  BY <1>1, <1>2, <1>3 DEF Destroy, PoolTypeOK
<1> HIDE DEF r
<1>8. OnlyPeer(p) /\ peer'[p] = r
  BY <1>1, <1>3, <1>6, <1>7, PeerUpdate
<1>9. /\ OnlyThread(t) /\ call'[t].at = "close" /\ call'[t].peer = p
      /\ call'[t].srv = call[t].srv
      /\ call'[t].listen = call[t].listen
      /\ call'[t].then = "passive"
  BY <1>1, <1>2, DestroyFields
<1>10. LocalsFit(t, p) /\ LeavesFit(t)
  BY <1>2, <1>3, <1>9, StayLocals DEF Closing, Resting, Serving
<1>11. ASSUME p \in Known PROVE ~Listed(p) /\ PhaseFits(t)'
  <2>1. ~Listed(p)'
    BY <1>1, <1>3, <1>4, <1>11, KeptLists
  <2>2. \A q \in DOMAIN server' : p \notin server'[q].pending
    <3>1. p \notin server'[s].pending
      BY <1>4 DEF ServerMaps
    <3>2. \A q \in DOMAIN server : q # s => p \notin server[q].pending
      BY <1>5, <1>11
    <3>3. /\ DOMAIN server' = DOMAIN server
          /\ \A q \in DOMAIN server : q # s => server'[q] = server[q]
      BY <1>4 DEF ServerMaps
    <3> QED BY <3>1, <3>2, <3>3
  <2> QED BY <1>3, <1>6, <1>8, <1>9, <1>11, <2>1, <2>2 DEF PhaseFits, Closes
<1>12. p \notin server[s].pending \ {p}
  OBVIOUS
<1> QED BY <1>2, <1>4, <1>6, <1>8, <1>9, <1>10, <1>11, <1>12, MapStep DEF Busy

(* ... before it is put into the peers of its server.                        *)
LEMMA AddPeerStep ==
  ASSUME PoolInv, HistoryStep, NEW t \in AllThreads,
         AddPeer(t)
  PROVE  PoolInv'
<1> PICK p \in Nat : call[t].peer = p
  BY CallerFields DEF PoolInv
<1>1. PoolTypeOK /\ call[t].at = "addPeer"
  BY Zenon DEF PoolInv, AddPeer, At
<1> PICK s \in Nat : s = peer[call[t].listen].srv
  BY <1>1, ListenSrv DEF Serving
<1>2. peer' = peer /\ servers' = servers /\ ListsKept /\ Go(t, "notify")
  BY Zenon DEF AddPeer, lists, tables, history, ListsKept
<1>3. s # 0 /\ server[s].alive
  BY Zenon DEF AddPeer, None
<1>4. /\ p \in DOMAIN peer /\ p # 0 /\ p \in 0 .. Len(peer)
      /\ ~peer[p].isServer /\ ~Closer(t)
      /\ call[t].listen \in DOMAIN peer
      /\ p \in Known => PlaceFits(p) /\ PhaseFits(t) /\ ~Listed(p)
  BY <1>1, Handles DEF Resting, Closes, Serving
<1>5. s \in DOMAIN server
  BY <1>3, <1>4, SrvInRange
<1> DEFINE ps == server[s].peers \cup {p}
<1>6. ServerMaps(s, ps, server[s].pending) /\ ps \ {p} = server[s].peers \ {p}
  <2>1. ps \in SUBSET Nat
    BY <1>1, <1>5, ServerSets
  <2>2. server' = [server EXCEPT ![s].peers = ps]
    BY DEF AddPeer, P
  <2> QED BY <1>1, <1>5, <2>1, <2>2, PeersSet
<1>7. OnlyPeer(p) /\ peer'[p].id = peer[p].id /\ peer'[p].srv = peer[p].srv
  BY <1>1, <1>2, <1>4, PeerSame
<1>8. /\ OnlyThread(t) /\ call'[t].peer = p /\ call'[t].at = "notify"
      /\ call'[t].listen = call[t].listen
      /\ call'[t].srv = call[t].srv
      /\ call'[t].then = call[t].then
  BY <1>1, <1>2, GoFields DEF Working, Serving
<1>9. LocalsFit(t, p) /\ LeavesFit(t)
  <2>1. call'[t].then \notin Closing /\ call[t].listen # 0
    BY <1>1, <1>4, <1>8, PoolDomains DEF Closer
  <2> QED BY <1>4, <1>8, <2>1, StayLocals DEF Closing, Resting
<1>10. ASSUME p \in Known
       PROVE  /\ call[t].srv = s /\ peer[p].srv = s
              /\ p \notin server[s].pending /\ ~Listed(p) /\ PhaseFits(t)'
  <2>1. /\ Nowhere(p) /\ peer[p].flag = "none" /\ peer[p].op = "none"
        /\ Resolved(t) /\ peer[p].srv = call[t].srv
    BY <1>1, <1>4, <1>10 DEF PhaseFits
  <2>2. call[t].srv = s
    BY <1>1, <1>4, <2>1, PoolDomains DEF PoolInv, ListenFits, Resolved
  <2>3. server'[s].alive /\ p \in server'[s].peers /\ s \in DOMAIN server'
    BY <1>3, <1>5, <1>6, Zenon DEF ServerMaps
  <2>4. PhaseFits(t)'
    BY <1>2, <1>4, <1>8, <2>1, <2>2, <2>3 DEF PhaseFits, Closes, Serves
  <2> QED BY <1>4, <1>5, <1>10, <2>1, <2>2, <2>4 DEF Nowhere
<1>11. Linked(t, s)
  BY <1>1, <1>4, PoolDomains DEF Linked
<1> HIDE DEF ps
<1> QED BY <1>2, <1>4, <1>5, <1>6, <1>7, <1>8, <1>9, <1>10, <1>11, MapStep
           DEF Busy

(* CloseServerItem() closes the peer only if it takes it out of the table    *)
(* itself.                                                                   *)
LEMMA RemovePeerStep ==
  ASSUME PoolInv, HistoryStep, NEW t \in AllThreads,
         RemovePeer(t)
  PROVE  PoolInv'
<1> PICK p \in Nat, s \in Nat : call[t].peer = p /\ call[t].srv = s
  BY CallerFields DEF PoolInv
<1>1. PoolTypeOK /\ call[t].at = "closeItem"
  BY Zenon DEF PoolInv, RemovePeer, At
<1>2. /\ p \in DOMAIN peer /\ p # 0 /\ p \in 0 .. Len(peer)
           /\ peer[p] \in PoolPeer
      /\ ~peer[p].isServer /\ ~Closer(t) /\ s \in 0 .. Len(server)
      /\ p \in Known => PlaceFits(p) /\ PhaseFits(t) /\ ~Listed(p)
  BY <1>1, Handles DEF Resting, Closes
<1>3. s \in DOMAIN server
  <2>1. s # 0
    BY <1>1 DEF PoolInv, ThreadFits
  <2> QED BY <1>1, <1>2, <2>1, PoolDomains
<1>4. servers' = servers /\ ListsKept
  BY Zenon DEF RemovePeer, lists, tables, history, ListsKept
<1> DEFINE ps == server[s].peers \ {p}
<1>5. ServerMaps(s, ps, server[s].pending) /\ ps \ {p} = server[s].peers \ {p}
  <2>1. ps \in SUBSET Nat
    BY <1>1, <1>3, ServerSets
  <2>2. server' = [server EXCEPT ![s].peers = ps]
    BY DEF RemovePeer, P
  <2> QED BY <1>1, <1>3, <2>1, <2>2, PeersSet
<1>6. call[t].then \in {"idle", "passive"}
  BY <1>1, <1>2, CallerFields DEF Closer, Closing
<1>7. CASE p \in server[s].peers
  <2> DEFINE r == [peer[p] EXCEPT !.flag = "close"]
  <2>1. Destroy(t, p, "close", call[t].then)
    BY <1>7, Zenon DEF RemovePeer, P
  <2>2. /\ r \in PoolPeer /\ r.op = peer[p].op /\ r.id = peer[p].id
        /\ r.srv = peer[p].srv /\ r.alive = peer[p].alive
        /\ r.isServer = peer[p].isServer /\ r.flag = "close"
    BY <1>2 DEF PoolPeer
  <2>3. peer' = [peer EXCEPT ![p] = r]
    BY <1>1, <1>2, <2>1 DEF Destroy, PoolTypeOK
  <2> HIDE DEF r
  <2>4. OnlyPeer(p) /\ peer'[p] = r
    BY <1>1, <1>2, <2>2, <2>3, PeerUpdate
  <2>5. /\ OnlyThread(t) /\ call'[t].at = "close" /\ call'[t].peer = p
        /\ call'[t].srv = call[t].srv
        /\ call'[t].listen = call[t].listen
        /\ call'[t].then = call[t].then
    BY <1>1, <1>6, <2>1, DestroyFields
  <2>6. LocalsFit(t, p) /\ LeavesFit(t)
    BY <1>2, <1>6, <2>5, StayLocals DEF Closing, Resting, Serving
  <2>7. ASSUME p \in Known
        PROVE  p \notin server[s].pending /\ ~Listed(p) /\ PhaseFits(t)'
    <3>1. \A q \in DOMAIN server : p \notin server[q].pending
      BY <1>2, <1>3, <1>7, <2>7 DEF PlaceFits
    <3>2. \A q \in DOMAIN server' : p \notin server'[q].pending
      BY <1>5, <3>1 DEF ServerMaps
    <3>3. ~Listed(p)'
      BY <1>1, <1>2, <1>4, <2>7, KeptLists
    <3> QED BY <1>2, <1>3, <2>2, <2>4, <2>5, <2>7, <3>1, <3>2, <3>3
            DEF PhaseFits, Closes
  <2>8. p \notin ps
    OBVIOUS
  <2> HIDE DEF ps
  <2> QED BY <1>3, <1>4, <1>5, <2>2, <2>4, <2>5, <2>6, <2>7, <2>8, MapStep
             DEF Busy
<1>8. CASE p \notin server[s].peers
  <2>1. Continue(t) /\ peer' = peer
    BY <1>8, Zenon DEF RemovePeer, P
  <2>2. OnlyPeer(p) /\ peer'[p].id = peer[p].id /\ peer'[p].srv = peer[p].srv
    BY <1>1, <1>2, <2>1, PeerSame
  <2>3. OnlyThread(t) /\ call'[t].peer = 0 /\ LocalsFit(t, p) /\ LeavesFit(t)
    BY <1>1, <1>2, <2>1, ContinueLocals
  <2>4. p \notin Known
    BY <1>1, <1>2, <1>8 DEF PhaseFits
  <2>5. p \notin ps
    OBVIOUS
  <2> HIDE DEF ps
  <2> QED BY <1>3, <1>4, <1>5, <2>2, <2>3, <2>4, <2>5, MapStep DEF Busy
<1> QED BY <1>7, <1>8

(* Reclaim() takes an accepted peer out of the table of its server.          *)
LEMMA ReclaimAcceptedStep ==
  ASSUME PoolInv, HistoryStep, NEW t \in AllThreads,
         ReclaimAccepted(t)
  PROVE  PoolInv'
<1> PICK p \in Nat : call[t].peer = p
  BY CallerFields DEF PoolInv
<1>1. PoolTypeOK /\ call[t].at = "unlist"
  BY Zenon DEF PoolInv, ReclaimAccepted, At
<1>2. /\ p \in DOMAIN peer /\ p # 0 /\ p \in 0 .. Len(peer)
           /\ peer[p] \in PoolPeer
      /\ p \in Known => PlaceFits(p) /\ PhaseFits(t) /\ ~Listed(p)
  BY <1>1, Handles DEF Resting, Closes
<1> PICK s \in Nat : s = peer[p].srv
  BY <1>2 DEF PoolPeer
<1>3. ~peer[p].isServer /\ s # 0 /\ peer' = peer
  BY Zenon DEF ReclaimAccepted, P, None
<1>4. s \in DOMAIN server
  BY <1>2, <1>3, SrvInRange
<1>5. servers' = servers /\ ListsKept
  BY Zenon DEF ReclaimAccepted, lists, tables, history, ListsKept
<1> DEFINE ps == server[s].peers \ {p}
<1>6. ServerMaps(s, ps, server[s].pending) /\ ps \ {p} = server[s].peers \ {p}
  <2>1. ps \in SUBSET Nat
    BY <1>1, <1>4, ServerSets
  <2>2. server' = [server EXCEPT ![s].peers = ps]
    BY DEF ReclaimAccepted, P
  <2> QED BY <1>1, <1>4, <2>1, <2>2, PeersSet
<1> DEFINE c == [call[t] EXCEPT !.at = "list", !.to = "passive"]
<1>7. /\ c \in PoolCaller /\ c.at = "list" /\ c.peer = p
      /\ c.srv = call[t].srv /\ c.listen = call[t].listen
      /\ c.then = call[t].then
  BY <1>1, CallType DEF PoolCaller, Working, Closes
<1>8. call' = [call EXCEPT ![t] = c]
  BY <1>1, CallType DEF ReclaimAccepted
<1> HIDE DEF c
<1>9. OnlyThread(t) /\ call'[t] = c
  BY <1>1, <1>7, <1>8, CallType DEF OnlyThread
<1>10. LocalsFit(t, p) /\ LeavesFit(t)
  BY <1>1, <1>2, <1>7, <1>9, CloseLocals DEF Closes
<1>11. OnlyPeer(p) /\ peer'[p].id = peer[p].id /\ peer'[p].srv = peer[p].srv
  BY <1>1, <1>2, <1>3, PeerSame
<1>12. ASSUME p \in Known
       PROVE  p \notin server[s].pending /\ ~Listed(p) /\ PhaseFits(t)'
  <2>1. /\ \A q \in DOMAIN server : p \notin server[q].pending
        /\ peer[p].op = "none"
    BY <1>1, <1>2, <1>12 DEF PhaseFits, Closes
  <2>2. \A q \in DOMAIN server : p \in server[q].peers => q = s
    BY <1>2, <1>12 DEF PlaceFits
  <2>3. \A c_1 \in Cookies : clients[c_1] # p
    BY <1>2, <1>3, <1>12 DEF PlaceFits
  <2>4. ~Listed(p)' /\ ~Registered(p)'
    BY <1>1, <1>2, <1>5, <1>12, <2>3, KeptLists DEF Registered
  <2>5. \A q \in DOMAIN server' : p \notin server'[q].peers \cup server'[q].pending
    BY <1>6, <2>1, <2>2 DEF ServerMaps
  <2>6. Nowhere(p)'
    BY <2>4, <2>5 DEF Nowhere
  <2> QED BY <1>2, <1>3, <1>4, <1>7, <1>9, <1>12, <2>1, <2>4, <2>5, <2>6
          DEF PhaseFits, Closes
<1>13. p \notin ps
  OBVIOUS
<1> HIDE DEF ps
<1> QED BY <1>4, <1>5, <1>6, <1>7, <1>9, <1>10, <1>11, <1>12, <1>13, MapStep
           DEF Busy

-----------------------------------------------------------------------------
(* CloseServer() takes one peer out of one of the two maps, ...              *)
LEMMA CloserFacts ==
  ASSUME PoolInv, NEW t \in AllThreads, call[t].at \in Closing
  PROVE  /\ Closer(t) /\ call[t].peer = 0
         /\ call[t].srv \in DOMAIN server /\ call[t].srv # 0
<1>1. Closer(t) /\ call[t].at \in Resting
  BY DEF Closer, Closing, Resting
<1> QED BY <1>1, PoolDomains DEF PoolInv, ThreadFits, PoolInRange

(* A sequence of which entries are replaced.                                 *)
LEMMA SameDomain ==
  ASSUME NEW S, NEW f \in Seq(S), NEW g, DOMAIN g = DOMAIN f,
         g = [x \in DOMAIN f |-> g[x]], \A x \in DOMAIN f : g[x] \in S
  PROVE  g \in Seq(S) /\ Len(g) = Len(f)
<1>1. DOMAIN f = 1 .. Len(f) /\ Len(f) \in Nat
  OBVIOUS
<1>2. g \in [1 .. Len(f) -> S]
  BY <1>1
<1> QED BY <1>1, <1>2

(* A step that changes one of the two maps of a server and its lock, ...     *)
LEMMA MapsChanged ==
  ASSUME PoolTypeOK, NEW t \in AllThreads \cup {0}, NEW s \in DOMAIN server,
         NEW map \in {"peers", "pending"}, NEW S \in SUBSET Nat,
         server' = [x \in DOMAIN server |-> server'[x]],
         server'[s] = [[server[s] EXCEPT ![map] = S] EXCEPT
                        !.lock = [[server[s] EXCEPT ![map]
                            = S].lock EXCEPT ![map] = t]],
         \A x \in DOMAIN server : x # s => server'[x] = server[x],
         DOMAIN server' = DOMAIN server
  PROVE  ServerMaps(s, IF map = "peers" THEN S ELSE server[s].peers,
                       IF map = "pending" THEN S ELSE server[s].pending)
<1>1. server[s] \in PoolServer /\ server \in Seq(PoolServer)
  BY PoolDomains DEF PoolTypeOK
<1> PICK q : q = [server[s] EXCEPT ![map] = S]
  OBVIOUS
<1>2. /\ q \in PoolServer
      /\ q.peers = IF map = "peers" THEN S ELSE server[s].peers
      /\ q.pending = IF map = "pending" THEN S ELSE server[s].pending
      /\ q.alive = server[s].alive /\ q.running = server[s].running
      /\ q.sp = server[s].sp /\ q.lock = server[s].lock
  BY <1>1 DEF PoolServer
<1> PICK k : k = [q.lock EXCEPT ![map] = t]
  OBVIOUS
<1>3. k \in [peers : AllThreads \cup {0}, pending : AllThreads \cup {0}]
  BY <1>2 DEF PoolServer
<1> PICK r : r = [q EXCEPT !.lock = k]
  OBVIOUS
<1>4. /\ r \in PoolServer
      /\ r.peers = q.peers /\ r.pending = q.pending
      /\ r.alive = q.alive /\ r.running = q.running /\ r.sp = q.sp
  BY <1>2, <1>3 DEF PoolServer
<1>5. server'[s] = r
  OBVIOUS
<1>6. ASSUME NEW x \in DOMAIN server PROVE server'[x] \in PoolServer
  <2>1. CASE x = s
    BY <1>4, <1>5, <2>1
  <2>2. CASE x # s
    <3>1. server'[x] = server[x]
      BY <2>2
    <3> QED BY <3>1, PoolDomains
  <2> QED BY <2>1, <2>2
<1>7. server' \in Seq(PoolServer) /\ Len(server') = Len(server)
  BY <1>1, <1>6, SameDomain
<1> QED BY <1>2, <1>4, <1>5, <1>7 DEF ServerMaps

(* ... as CloseAll() does, ...                                               *)
LEMMA MapsSet ==
  ASSUME PoolTypeOK, NEW t \in AllThreads \cup {0}, NEW s \in DOMAIN server,
         NEW map \in {"peers", "pending"}, NEW S \in SUBSET Nat,
         server' = [server EXCEPT ![s][map] = S, ![s].lock[map] = t]
  PROVE  ServerMaps(s, IF map = "peers" THEN S ELSE server[s].peers,
                       IF map = "pending" THEN S ELSE server[s].pending)
<1>1. server[s] \in PoolServer /\ server \in Seq(PoolServer)
  BY PoolDomains DEF PoolTypeOK
<1>2. /\ server' = [x \in DOMAIN server |-> server'[x]]
      /\ server'[s] = [[server[s] EXCEPT ![map] = S] EXCEPT
                        !.lock = [[server[s] EXCEPT ![map]
                            = S].lock EXCEPT ![map] = t]]
      /\ \A x \in DOMAIN server : x # s => server'[x] = server[x]
      /\ DOMAIN server' = DOMAIN server
  BY <1>1
<1> QED BY <1>2, MapsChanged, Zenon

(* ... or only the lock.                                                     *)
LEMMA LockSet ==
  ASSUME PoolTypeOK, NEW s \in DOMAIN server, NEW map \in {"peers",
           "pending"},
         server' = [server EXCEPT ![s].lock[map] = 0]
  PROVE  ServerMaps(s, server[s].peers, server[s].pending)
<1>1. server[s] \in PoolServer /\ server \in Seq(PoolServer)
  BY PoolDomains DEF PoolTypeOK
<1> PICK k : k = [server[s].lock EXCEPT ![map] = 0]
  OBVIOUS
<1>2. k \in [peers : AllThreads \cup {0}, pending : AllThreads \cup {0}]
  BY <1>1 DEF PoolServer
<1> PICK r : r = [server[s] EXCEPT !.lock = k]
  OBVIOUS
<1>3. /\ r \in PoolServer
      /\ r.peers = server[s].peers /\ r.pending = server[s].pending
      /\ r.alive = server[s].alive /\ r.running = server[s].running
      /\ r.sp = server[s].sp
  BY <1>1, <1>2 DEF PoolServer
<1>4. server' = [server EXCEPT ![s] = r]
  BY <1>1
<1>5. /\ \A q \in DOMAIN server : q # s => server'[q] = server[q]
      /\ server'[s] = r /\ DOMAIN server' = DOMAIN server
  BY <1>1, <1>4
<1>6. server' \in Seq(PoolServer) /\ Len(server') = Len(server)
  BY <1>1, <1>3, <1>4
<1> QED BY <1>3, <1>5, <1>6 DEF ServerMaps

(* One turn of the loop of CloseClients() over a map of the server.          *)
ClosesOne(t, map, p) ==
  LET s == call[t].srv
  IN /\ p \in server[s][map]
     /\ server' = [server EXCEPT ![s][map] = @ \ {p}, ![s].lock[map] = t]
     /\ Destroy(t, p, "close", map)

(* The peer that CloseServer() takes out of a map is closed.                 *)
LEMMA CloseOneStep ==
  ASSUME PoolInv, HistoryStep, NEW t \in AllThreads,
         NEW map \in {"peers", "pending"}, call[t].at = map,
         NEW p, ClosesOne(t, map, p), ListsKept, servers' = servers
  PROVE  PoolInv'
<1> PICK s \in Nat : s = call[t].srv
  BY CallerFields DEF PoolInv
<1>0. p \in server[s][map] /\ Destroy(t, p, "close", map)
  BY DEF ClosesOne
<1>1. PoolTypeOK /\ PoolInRange /\ Closer(t) /\ call[t].peer = 0
  BY CloserFacts DEF PoolInv, Closing
<1>2. s \in DOMAIN server /\ s # 0
  BY CloserFacts DEF Closing
<1>3. p \in server[s].peers \cup server[s].pending
  BY <1>0, <1>1, <1>2, PoolDomains DEF PoolServer
<1>4. p \in DOMAIN peer /\ peer[p] \in PoolPeer
  BY <1>1, <1>2, <1>3, PoolDomains DEF PoolInRange
<1>5. p \in Nat /\ p # 0 /\ p \in 0 .. Len(peer)
  BY <1>1, <1>4, PoolDomains
<1>6. ~peer[p].isServer
  BY <1>2, <1>3, <1>4 DEF PoolInv, ListenerFits
<1> DEFINE r == [peer[p] EXCEPT !.flag = "close"]
<1>7. /\ r \in PoolPeer /\ r.op = peer[p].op /\ r.id = peer[p].id
      /\ r.srv = peer[p].srv /\ r.alive = peer[p].alive
      /\ r.isServer = peer[p].isServer /\ r.flag = "close"
  BY <1>4 DEF PoolPeer
<1>8. peer' = [peer EXCEPT ![p] = r]
  BY <1>0, <1>1, <1>4 DEF Destroy, PoolTypeOK
<1> HIDE DEF r
<1>9. OnlyPeer(p) /\ peer'[p] = r
  BY <1>1, <1>4, <1>6, <1>7, <1>8, PeerUpdate
<1>10. /\ OnlyThread(t) /\ call'[t].at = "close" /\ call'[t].peer = p
       /\ call'[t].srv = call[t].srv
       /\ call'[t].listen = call[t].listen
       /\ call'[t].then = map
  BY <1>0, <1>1, <1>5, DestroyFields
<1>11. LocalsFit(t, p)
  BY <1>1, <1>5, <1>10
     DEF LocalsFit, Closer, Closing, Closes, Resting, Serving
<1>12. LeavesFit(t)
  BY <1>10 DEF LeavesFit
<1> PICK S : S = server[s][map] \ {p}
  OBVIOUS
<1> PICK ps : ps = IF map = "peers" THEN S ELSE server[s].peers
  OBVIOUS
<1> PICK qs : qs = IF map = "pending" THEN S ELSE server[s].pending
  OBVIOUS
<1>13. ServerMaps(s, ps, qs)
  <2>1. S \in SUBSET Nat
    BY <1>1, <1>2, ServerSets
  <2>2. server' = [server EXCEPT ![s][map] = S, ![s].lock[map] = t]
    BY <1>1, <1>2 DEF PoolTypeOK, ClosesOne
  <2>3. ServerMaps(s, IF map = "peers" THEN S ELSE server[s].peers,
                      IF map = "pending" THEN S ELSE server[s].pending)
    BY <1>1, <1>2, <2>1, <2>2, MapsSet, Zenon
  <2> QED BY <2>3, Zenon
<1>14. /\ ps \ {p} = server[s].peers \ {p}
            /\ qs \ {p} = server[s].pending \ {p}
       /\ ps \subseteq server[s].peers /\ qs \subseteq server[s].pending
       /\ map = "peers" => p \notin ps /\ p \in server[s].peers
       /\ map = "pending" => p \notin qs /\ p \in server[s].pending
  BY <1>0
<1>15. ASSUME p \in Known, PlaceFits(p)
       PROVE  (p \in ps => p \notin qs) /\ ~Listed(p) /\ PhaseFits(t)'
  <2>1. peer[p].srv = s /\ ~Blank(p) /\ ~Listed(p)
    BY <1>2, <1>3, <1>15 DEF PlaceFits, Blank
  <2>2. \A q \in DOMAIN server : p \in server[q].pending => q = s
    BY <1>15, <2>1 DEF PlaceFits
  <2>3. p \in server[s].peers => p \notin server[s].pending
    BY <1>2, <1>15 DEF PlaceFits
  <2>4. p \notin qs
    BY <1>3, <1>14, <2>3
  <2>5. \A q \in DOMAIN server' : p \notin server'[q].pending
    BY <2>2, <2>4, <1>13 DEF ServerMaps
  <2>6. ~Listed(p)'
    BY <1>1, <1>5, <2>1, KeptLists
  <2> QED BY <2>1, <2>4, <2>5, <2>6, <1>7, <1>9, <1>10 DEF PhaseFits, Closes
<1> QED BY <1>2, <1>5, <1>7, <1>9, <1>10, <1>11, <1>12, <1>13, <1>14, <1>15,
           MapStep DEF Busy

(* ... and goes on when the map is empty.                                    *)
ClosesNone(t, map, next) ==
  LET s == call[t].srv
  IN /\ server[s][map] = {}
     /\ server' = [server EXCEPT ![s].lock[map] = 0]
     /\ Go(t, next) /\ peer' = peer

(* An empty map is left, and nobody has been left behind in it.              *)
LEMMA CloseNoMoreStep ==
  ASSUME PoolInv, HistoryStep, NEW t \in AllThreads,
         NEW map, NEW next, <<map, next>> \in {<<"peers", "pending">>,
                                               <<"pending", "delete">>},
         call[t].at = map, ClosesNone(t, map, next), ListsKept,
         servers' = servers
  PROVE  PoolInv'
<1> PICK s \in Nat : s = call[t].srv
  BY CallerFields DEF PoolInv
<1>9. /\ server[s][map] = {} /\ server' = [server EXCEPT ![s].lock[map] = 0]
      /\ Go(t, next) /\ peer' = peer
  BY DEF ClosesNone
<1>0. /\ map \in {"peers", "pending"} /\ next \in {"pending", "delete"}
      /\ map = "peers" <=> next = "pending"
  OBVIOUS
<1>1. PoolTypeOK /\ PoolInRange /\ Closer(t) /\ call[t].peer = 0
  BY <1>0, CloserFacts DEF PoolInv, Closing
<1>2. s \in DOMAIN server /\ s # 0
  BY <1>0, CloserFacts DEF Closing
<1>3. ServerMaps(s, server[s].peers, server[s].pending)
  BY <1>0, <1>1, <1>2, <1>9, LockSet
<1>4. /\ OnlyThread(t) /\ call'[t].at = next
      /\ call'[t].peer = 0
      /\ call'[t].srv = call[t].srv
      /\ call'[t].listen = call[t].listen
      /\ call'[t].then = call[t].then
  <2>1. next \in Resting \cup Working
    BY <1>0 DEF Resting
  <2> QED BY <1>1, <1>9, <2>1, GoFields
<1>5. OnlyPeer(0) /\ 0 \in 0 .. Len(peer) /\ 0 \notin DOMAIN peer
  BY <1>1, <1>9, PoolDomains DEF OnlyPeer, PoolTypeOK
<1>6. LocalsFit(t, 0)
  BY <1>0, <1>1, <1>4, <1>5
     DEF LocalsFit, Closer, Closing, Closes, Resting, Serving
<1>7. LeavesFit(t)
  <2>1. CASE map = "peers"
    BY <1>0, <1>4, <1>9, <2>1 DEF LeavesFit
  <2>2. CASE map = "pending"
    BY <1>0, <1>4, <1>9, <2>2 DEF LeavesFit
  <2> QED BY <1>0, <2>1, <2>2
<1>8. 0 \notin Known
  BY <1>5 DEF Known
<1> QED BY <1>2, <1>3, <1>4, <1>5, <1>6, <1>7, <1>8, <1>9, MapStep DEF Busy

(* So it goes for the accepted peers and for the pending ones.               *)
LEMMA CloseAllStep ==
  ASSUME PoolInv, HistoryStep, NEW t \in AllThreads,
         CloseClients(t) \/ ClosePending(t)
  PROVE  PoolInv'
<1>1. PICK map \in {"peers", "pending"}, next \in {"pending", "delete"} :
        /\ <<map, next>> \in {<<"peers", "pending">>, <<"pending", "delete">>}
        /\ CloseAll(t, map, next)
  BY DEF CloseClients, ClosePending
<1>2. ListsKept /\ servers' = servers /\ call[t].at = map
  BY <1>1, Zenon DEF CloseAll, At, lists, tables, history,
     ListsKept
<1>3. (\E p : ClosesOne(t, map, p)) \/ ClosesNone(t, map, next)
  BY <1>1, Zenon DEF CloseAll, None, ClosesOne, ClosesNone
<1> QED BY <1>1, <1>2, <1>3, CloseOneStep, CloseNoMoreStep

(* Steps without a peer.                                                     *)
LEMMA ZeroStep ==
  ASSUME PoolInv, HistoryStep, NEW t \in AllThreads, peer' = peer,
         TablesKept, OnlyThread(t), LocalsFit(t, 0), LeavesFit(t)
  PROVE  PoolInv'
<1>1. PoolTypeOK /\ 0 \notin DOMAIN peer
  BY PoolDomains DEF PoolInv
<1>2. OnlyPeer(0)
  BY <1>1 DEF OnlyPeer, PoolTypeOK
<1>3. OnlyPlace(0) /\ OnlyServed(0)
  BY <1>1, KeptTables
<1>4. ServesFit(t, 0)
  BY <1>1 DEF ServesFit, TablesKept
<1>5. AddsFit(t, 0) /\ Busy(t, 0)
  BY <1>1 DEF AddsFit, Busy, Known
<1>6. 0 \notin Known'
  BY <1>1 DEF Known
<1> QED BY <1>2, <1>3, <1>4, <1>5, <1>6, QuietStep DEF Quiet

(* A thread that handles no peer goes on to acquire one.                     *)
LEMMA GoZeroStep ==
  ASSUME PoolInv, HistoryStep, NEW t \in AllThreads, peer' = peer,
         TablesKept, NEW at \in {"passive", "proactive"}, Go(t, at),
         call[t].at \in {"idle", "join", "passive"}
  PROVE  PoolInv'
<1>1. PoolTypeOK /\ ThreadFits(t)
  BY DEF PoolInv
<1>2. /\ OnlyThread(t) /\ call'[t].at = at
      /\ call'[t].peer = call[t].peer
      /\ call'[t].srv = call[t].srv
      /\ call'[t].listen = call[t].listen
      /\ call'[t].then = call[t].then
  BY <1>1, GoFields DEF Resting
<1>3. call[t].peer = 0 /\ ~Closer(t)
  BY <1>1 DEF ThreadFits, Resting, Closing, Closes
<1>4. 0 \in 0 .. Len(peer)
  BY <1>1, PoolDomains
<1>5. LocalsFit(t, 0) /\ LeavesFit(t)
  BY <1>2, <1>3, <1>4, StayLocals DEF Closer, Closing, Resting, Serving
<1> QED BY <1>2, <1>5, ZeroStep

(* Connect() begins to acquire a peer, ...                                   *)
LEMMA ConnectStep ==
  ASSUME PoolInv, HistoryStep, NEW t \in AllThreads, Connect(t)
  PROVE  PoolInv'
<1>1. TablesKept /\ peer' = peer /\ call[t].at = "idle" /\ Go(t, "proactive")
  BY Zenon DEF Connect, At, lists, tables, history, TablesKept
<1> QED BY <1>1, GoZeroStep

(* ... so does Listen() once it has joined.                                  *)
LEMMA JoinStep ==
  ASSUME PoolInv, HistoryStep, NEW t \in AllThreads, Join(t)
  PROVE  PoolInv'
<1>1. TablesKept /\ peer' = peer /\ call[t].at = "join" /\ Go(t, "passive")
  BY Zenon DEF Join, At, lists, tables, history, TablesKept
<1> QED BY <1>1, GoZeroStep

-----------------------------------------------------------------------------
(* AcquirePeer() takes the first peer of a list.                             *)
Has(q, x)     == \E i \in DOMAIN q : q[i] = x
HasOnce(q, x) == \A i, j \in DOMAIN q : q[i] = x /\ q[j] = x => i = j

(* The head of a list without duplicates is not in its tail.                 *)
LEMMA TailFacts ==
  ASSUME NEW S, NEW q \in Seq(S), q # << >>
  PROVE  /\ Tail(q) \in Seq(S) /\ 1 \in DOMAIN q /\ Head(q) = q[1]
         /\ \A x : x # q[1] => (Has(Tail(q), x) <=> Has(q, x))
         /\ \A x : HasOnce(q, x) => HasOnce(Tail(q), x)
         /\ HasOnce(q, q[1]) => ~Has(Tail(q), q[1])
<1>1. /\ Tail(q) \in Seq(S) /\ 1 \in DOMAIN q /\ Head(q) = q[1]
  OBVIOUS
<1> PICK r : r = Tail(q)
  OBVIOUS
<1>2. /\ \A i \in DOMAIN r : i \in Nat /\ i # 0 /\ i + 1 \in DOMAIN q
           /\ r[i] = q[i + 1]
      /\ \A i \in DOMAIN q : i # 1 =>
           i \in Nat /\ i - 1 \in DOMAIN r /\ r[i - 1] = q[i]
  OBVIOUS
<1>3. ASSUME NEW x, x # q[1] PROVE Has(r, x) <=> Has(q, x)
  <2>1. ASSUME NEW i \in DOMAIN r, r[i] = x PROVE Has(q, x)
    BY <1>2, <2>1 DEF Has
  <2>2. ASSUME NEW i \in DOMAIN q, q[i] = x PROVE Has(r, x)
    BY <1>2, <1>3, <2>2 DEF Has
  <2> QED BY <2>1, <2>2 DEF Has
<1>4. ASSUME NEW x, HasOnce(q, x) PROVE HasOnce(r, x)
  <2>1. SUFFICES ASSUME NEW i \in DOMAIN r, NEW j \in DOMAIN r, r[i] = x,
          r[j] = x
                 PROVE  i = j
    BY DEF HasOnce
  <2>2. i + 1 = j + 1
    BY <1>2, <1>4, <2>1 DEF HasOnce
  <2> QED BY <1>2, <2>2
<1>5. ASSUME HasOnce(q, q[1]), NEW i \in DOMAIN r, r[i] = q[1] PROVE FALSE
  <2>1. i + 1 = 1
    BY <1>1, <1>2, <1>5 DEF HasOnce
  <2> QED BY <1>2, <2>1
<1>6. HasOnce(q, q[1]) => ~Has(r, q[1])
  BY <1>5 DEF Has
<1> QED BY <1>1, <1>3, <1>4, <1>6, Zenon

TakesHead(t, p) ==
  /\ Listed(p)
  /\ passive' \in Seq(1 .. Len(peer)) /\ proactive' \in Seq(1 .. Len(peer))
  /\ \A q \in DOMAIN peer :
       /\ q # p => (Listed(q)' <=> Listed(q))
       /\ ListedOnce(q) => ListedOnce(q)'
  /\ ListedOnce(p) => ~Listed(p)'
  /\ UNCHANGED <<peer, clients, servers, server, abandoned>>
  /\ call' = [call EXCEPT ![t].peer = p, ![t].at = "create"]

(* AcquirePeer() takes the head of the list of closed accepted peers, ...    *)
LEMMA PassiveHead ==
  ASSUME PoolTypeOK, NEW t \in AllThreads, passive # << >>, AcquirePassive(t)
  PROVE  \E p \in DOMAIN peer : TakesHead(t, p)
<1>1. /\ passive # << >> /\ passive' = Tail(passive) /\ proactive' = proactive
      /\ UNCHANGED <<peer, clients, servers, server, abandoned>>
      /\ call' = [call EXCEPT ![t].peer = Head(passive), ![t].at = "create"]
  BY DEF AcquirePassive, tables, history
<1>2. passive \in Seq(1 .. Len(peer)) /\ DOMAIN peer = 1 .. Len(peer)
  BY PoolDomains DEF PoolTypeOK
<1>3. /\ passive' \in Seq(1 .. Len(peer)) /\ 1 \in DOMAIN passive
      /\ Head(passive) = passive[1]
      /\ \A x : x # passive[1] => (Has(passive', x) <=> Has(passive, x))
      /\ \A x : HasOnce(passive, x) => HasOnce(passive', x)
      /\ HasOnce(passive, passive[1]) => ~Has(passive', passive[1])
  BY <1>1, <1>2, TailFacts
<1> PICK p \in DOMAIN peer : p = passive[1]
  BY <1>2, <1>3
<1>4. Has(passive, p) /\ proactive' = proactive
  BY <1>1, <1>3 DEF Has
<1>5. /\ Listed(p)
      /\ \A q \in DOMAIN peer : q # p => (Listed(q)' <=> Listed(q))
  BY <1>3, <1>4 DEF Listed, Has
<1>6. ASSUME NEW q \in DOMAIN peer, ListedOnce(q) PROVE ListedOnce(q)'
  <2>1. Has(passive', q) => Has(passive, q)
    BY <1>3, <1>4
  <2>2. HasOnce(passive', q)
    BY <1>3, <1>6 DEF ListedOnce, HasOnce
  <2> QED BY <1>4, <1>6, <2>1, <2>2 DEF ListedOnce, Has, HasOnce
<1>7. ASSUME ListedOnce(p) PROVE ~Listed(p)'
  <2>1. ~Has(passive', p) /\ ~Has(proactive, p)
    BY <1>3, <1>4, <1>7 DEF ListedOnce, Has, HasOnce
  <2> QED BY <1>4, <2>1 DEF Listed, Has
<1>8. proactive' \in Seq(1 .. Len(peer))
  BY <1>1 DEF PoolTypeOK
<1> QED BY <1>1, <1>3, <1>5, <1>6, <1>7, <1>8 DEF TakesHead

(* ... or of the other one, ...                                              *)
LEMMA ProactiveHead ==
  ASSUME PoolTypeOK, NEW t \in AllThreads, AcquireProactive(t)
  PROVE  \E p \in DOMAIN peer : TakesHead(t, p)
<1>1. /\ proactive # << >> /\ proactive' = Tail(proactive)
           /\ passive' = passive
      /\ UNCHANGED <<peer, clients, servers, server, abandoned>>
      /\ call' = [call EXCEPT ![t].peer = Head(proactive), ![t].at = "create"]
  BY DEF AcquireProactive, tables, history
<1>2. proactive \in Seq(1 .. Len(peer)) /\ DOMAIN peer = 1 .. Len(peer)
  BY PoolDomains DEF PoolTypeOK
<1>3. /\ proactive' \in Seq(1 .. Len(peer)) /\ 1 \in DOMAIN proactive
      /\ Head(proactive) = proactive[1]
      /\ \A x : x # proactive[1] => (Has(proactive', x) <=> Has(proactive, x))
      /\ \A x : HasOnce(proactive, x) => HasOnce(proactive', x)
      /\ HasOnce(proactive, proactive[1]) => ~Has(proactive', proactive[1])
  BY <1>1, <1>2, TailFacts
<1> PICK p \in DOMAIN peer : p = proactive[1]
  BY <1>2, <1>3
<1>4. Has(proactive, p) /\ passive' = passive
  BY <1>1, <1>3 DEF Has
<1>5. /\ Listed(p)
      /\ \A q \in DOMAIN peer : q # p => (Listed(q)' <=> Listed(q))
  BY <1>3, <1>4 DEF Listed, Has
<1>6. ASSUME NEW q \in DOMAIN peer, ListedOnce(q) PROVE ListedOnce(q)'
  <2>1. Has(proactive', q) => Has(proactive, q)
    BY <1>3, <1>4
  <2>2. HasOnce(proactive', q)
    BY <1>3, <1>6 DEF ListedOnce, HasOnce
  <2> QED BY <1>4, <1>6, <2>1, <2>2 DEF ListedOnce, Has, HasOnce
<1>7. ASSUME ListedOnce(p) PROVE ~Listed(p)'
  <2>1. ~Has(proactive', p) /\ ~Has(passive, p)
    BY <1>3, <1>4, <1>7 DEF ListedOnce, Has, HasOnce
  <2> QED BY <1>4, <2>1 DEF Listed, Has
<1>8. passive' \in Seq(1 .. Len(peer))
  BY <1>1 DEF PoolTypeOK
<1> QED BY <1>1, <1>3, <1>5, <1>6, <1>7, <1>8 DEF TakesHead

(* ... which is blank, and nowhere once it is off the list.                  *)
LEMMA TakesHeadStep ==
  ASSUME ConstantsAllowed, PoolInv, HistoryStep, NEW t \in AllThreads,
         call[t].at \in {"passive", "proactive"},
         NEW p \in DOMAIN peer, TakesHead(t, p)
  PROVE  PoolInv'
<1>1. PoolTypeOK /\ p \in Nat /\ p # 0 /\ p \in 0 .. Len(peer)
  BY PoolDomains DEF PoolInv
<1>2. UNCHANGED <<peer, clients, servers, server, abandoned>> /\ Listed(p)
  BY DEF TakesHead
<1>3. ~peer[p].isServer
  BY <1>2 DEF PoolInv, ListenerFits, Listed
<1>4. call[t].peer = 0 /\ ~Closer(t)
  <2>1. ThreadFits(t)
    BY DEF PoolInv
  <2> QED BY <2>1 DEF ThreadFits, Resting, Closing, Closes
<1> DEFINE c == [call[t] EXCEPT !.peer = p, !.at = "create"]
<1>5. /\ c \in PoolCaller /\ c.at = "create" /\ c.peer = p
      /\ c.srv = call[t].srv /\ c.listen = call[t].listen
      /\ c.then = call[t].then
  BY <1>1, CallType DEF PoolCaller, Working
<1>6. call' = [call EXCEPT ![t] = c]
  BY <1>1, CallType DEF TakesHead
<1> HIDE DEF c
<1>7. OnlyThread(t) /\ call'[t] = c
  BY <1>1, <1>5, <1>6, CallType DEF OnlyThread
<1>8. LocalsFit(t, p) /\ LeavesFit(t)
  BY <1>1, <1>4, <1>5, <1>7, StayLocals DEF Closer, Closing, Resting, Serving
<1>9. OnlyPeer(p) /\ peer'[p].id = peer[p].id /\ peer'[p].srv = peer[p].srv
  BY <1>1, <1>2, <1>3, PeerSame
<1>10. OnlyPlace(p)
  BY <1>1, <1>2 DEF OnlyPlace, TakesHead, PoolTypeOK
<1>11. OnlyServed(p)
  BY <1>1, <1>2 DEF OnlyServed, PoolTypeOK
<1>12. ServesFit(t, p) /\ AddsFit(t, p) /\ Busy(t, p)
  BY <1>2, <1>5, <1>7 DEF ServesFit, AddsFit, Busy
<1>13. ASSUME p \in Known' PROVE Stands(p)' /\ PhaseFits(t)'
  <2>1. p \in Known
    BY <1>1, <1>2, <1>13, KnownBack
  <2>2. PlaceFits(p) /\ Blank(p) /\ ListedOnce(p)
    BY <1>2, <2>1 DEF PoolInv, PlaceFits
  <2>3. 0 \notin Cookies
    BY DEF ConstantsAllowed
  <2>4. ~Registered(p)
    BY <2>2, <2>3 DEF PlaceFits, Blank, Registered
  <2>5. \A s \in DOMAIN server : p \notin server[s].peers \cup server[s].pending
    <3>1. 0 \notin DOMAIN server
      BY <1>1, PoolDomains
    <3> QED BY <2>2, <3>1 DEF PlaceFits, Blank
  <2>6. ~Listed(p)'
    BY <2>2 DEF TakesHead
  <2>7. Nowhere(p)' /\ Blank(p)'
    BY <1>2, <2>2, <2>4, <2>5, <2>6 DEF Nowhere, Registered, Blank
  <2>8. Taken(p)'
    BY <1>5, <1>7 DEF Taken
  <2>9. Stands(p)'
    BY <1>1, <2>7, <2>8, NowhereStands
  <2> QED BY <1>5, <1>7, <2>7, <2>9 DEF PhaseFits, Closes
<1> QED BY <1>1, <1>7, <1>8, <1>9, <1>10, <1>11, <1>12, <1>13, QuietStep
           DEF Quiet

(* AcquirePeer() finds a closed accepted peer, or none and looks on the      *)
(* other list.                                                               *)
LEMMA AcquirePassiveStep ==
  ASSUME ConstantsAllowed, PoolInv, HistoryStep, NEW t \in AllThreads,
           AcquirePassive(t)
  PROVE  PoolInv'
<1>1. PoolTypeOK /\ call[t].at = "passive"
  BY Zenon DEF PoolInv, AcquirePassive, At
<1>2. CASE passive # << >>
  <2>1. PICK p \in DOMAIN peer : TakesHead(t, p)
    BY <1>1, <1>2, PassiveHead
  <2> QED BY <1>1, <2>1, TakesHeadStep
<1>3. CASE passive = << >>
  <2>1. TablesKept /\ peer' = peer /\ Go(t, "proactive")
    BY <1>3, Zenon DEF AcquirePassive, tables, history, TablesKept
  <2> QED BY <1>1, <2>1, GoZeroStep
<1> QED BY <1>2, <1>3

(* AcquirePeer() finds another closed peer.                                  *)
LEMMA AcquireProactiveStep ==
  ASSUME ConstantsAllowed, PoolInv, HistoryStep, NEW t \in AllThreads,
           AcquireProactive(t)
  PROVE  PoolInv'
<1>1. PoolTypeOK /\ call[t].at = "proactive"
  BY Zenon DEF PoolInv, AcquireProactive, At
<1>2. PICK p \in DOMAIN peer : TakesHead(t, p)
  BY <1>1, ProactiveHead
<1> QED BY <1>1, <1>2, TakesHeadStep

(* Steps that change the table of clients.                                   *)
ClientsSet(p) ==
  /\ UNCHANGED <<passive, proactive, servers, server>>
       /\ abandoned \subseteq abandoned'
  /\ clients' \in [Cookies -> 0 .. Len(peer)]
  /\ \A c \in Cookies :
       \/ clients'[c] = clients[c]
       \/ clients'[c] \in {0, p} /\ clients[c] \notin Known' \ {p}

(* A step that changes the clients for one peer leaves the others in their   *)
(* places, ...                                                               *)
LEMMA ClientsPlace ==
  ASSUME PoolTypeOK, NEW p \in Nat, ClientsSet(p)
  PROVE  /\ OnlyPlace(p) /\ OnlyServed(p)
         /\ Listed(p)' <=> Listed(p)
         /\ ListedOnce(p) => ListedOnce(p)'
<1>1. \A q : /\ Listed(q)' <=> Listed(q)
             /\ ListedOnce(q)' <=> ListedOnce(q)
  BY DEF ClientsSet, Listed, ListedOnce
<1>2. OnlyPlace(p)
  BY <1>1 DEF ClientsSet, OnlyPlace, PoolTypeOK
<1>3. OnlyServed(p)
  BY DEF ClientsSet, OnlyServed, PoolTypeOK
<1> QED BY <1>1, <1>2, <1>3

(* ... so that only that peer is to be considered.                           *)
LEMMA ClientsStep ==
  ASSUME PoolInv, HistoryStep, NEW t \in AllThreads, NEW p \in DOMAIN peer,
         ClientsSet(p), OnlyPeer(p), peer'[p].srv = peer[p].srv,
         OnlyThread(t), LocalsFit(t, p), LeavesFit(t), Busy(t, p),
         p \in Known' /\ p \in Known =>
           /\ Taken(p)' /\ ~Listed(p)
           /\ \A c \in Cookies : clients'[c] = p =>
                peer'[p].id = c /\ peer'[p].srv = 0
           /\ call'[t].peer = p => PhaseFits(t)'
  PROVE  PoolInv'
<1>1. PoolTypeOK /\ p \in Nat
  BY PoolDomains DEF PoolInv
<1>2. /\ OnlyPlace(p) /\ OnlyServed(p)
      /\ Listed(p)' <=> Listed(p)
      /\ ListedOnce(p) => ListedOnce(p)'
  BY <1>1, ClientsPlace
<1>3. server' = server
  BY DEF ClientsSet
<1>4. ServesFit(t, p) /\ AddsFit(t, p)
  BY <1>3 DEF ServesFit, AddsFit
<1>5. ASSUME p \in Known'
      PROVE  /\ Stands(p)' /\ (call'[t].peer = p => PhaseFits(t)')
  <2>1. p \in Known
    BY <1>1, <1>5, KnownBack DEF OnlyPeer
  <2>2. PlaceFits(p)
    BY <2>1 DEF PoolInv
  <2>3. Taken(p)' /\ ~Listed(p)'
    BY <1>2, <1>5, <2>1
  <2>4. \A c \in Cookies : clients'[c] = p =>
          peer'[p].id = c /\ peer'[p].srv = 0 /\ ~peer'[p].isServer
    BY <1>5, <2>1 DEF OnlyPeer
  <2>5. /\ \A s \in DOMAIN server' :
             p \in server'[s].peers \cup server'[s].pending
                 => peer'[p].srv = s
        /\ \A s \in DOMAIN server' : p \in server'[s].peers
             => p \notin server'[s].pending
    BY <1>3, <2>2 DEF PlaceFits
  <2>6. PlaceFits(p)'
    BY <1>2, <2>2, <2>3, <2>4, <2>5 DEF PlaceFits
  <2> QED BY <1>5, <2>1, <2>3, <2>6 DEF Stands
<1> QED BY <1>1, <1>2, <1>4, <1>5, QuietStep DEF Quiet

(* Who is registered under the cookie that a thread's peer carries.          *)
LEMMA StrayHolder ==
  ASSUME PoolInv, HistoryStep, NEW t \in AllThreads, NEW p \in DOMAIN peer,
         call[t].peer = p, OnlyPeer(p),
         NEW c \in Cookies, peer[p].id = c
  PROVE  clients[c] \notin Known' \ {p}
<1>1. ~peer[p].isServer /\ 0 \notin DOMAIN peer'
  BY DEF OnlyPeer
<1>2. CASE clients[c] \in {0, p}
  BY <1>1, <1>2 DEF Known
<1>3. CASE clients[c] # p /\ clients[c] # 0
  <2>1. clients[c] \in strayed
    BY <1>1, <1>3 DEF PoolInv, HistoryFits
  <2> QED BY <1>3, <2>1 DEF HistoryStep, Known
<1> QED BY <1>2, <1>3

(* Reclaim() of a client removes the entry under the cookie that it carries. *)
LEMMA ReclaimClientStep ==
  ASSUME PoolInv, HistoryStep, NEW t \in AllThreads,
         ReclaimClient(t)
  PROVE  PoolInv'
<1> PICK p \in Nat : call[t].peer = p
  BY CallerFields DEF PoolInv
<1>1. PoolTypeOK /\ call[t].at = "unlist"
  BY Zenon DEF PoolInv, ReclaimClient, At
<1>2. /\ p \in DOMAIN peer /\ p # 0 /\ p \in 0 .. Len(peer)
           /\ peer[p] \in PoolPeer
      /\ p \in Known => PlaceFits(p) /\ PhaseFits(t) /\ ~Listed(p)
  BY <1>1, Handles DEF Resting, Closes
<1>3. /\ ~peer[p].isServer /\ peer[p].srv = 0 /\ peer' = peer
      /\ UNCHANGED <<passive, proactive, servers, server, abandoned>>
      /\ clients' = [c \in Cookies |-> IF c = peer[p].id THEN 0
           ELSE clients[c]]
      /\ call' = [call EXCEPT ![t].at = "list", ![t].to = "proactive"]
  BY Zenon DEF ReclaimClient, P, None, lists, history
<1>4. OnlyPeer(p) /\ peer'[p].id = peer[p].id /\ peer'[p].srv = peer[p].srv
  BY <1>1, <1>2, <1>3, PeerSame
<1>5. ClientsSet(p)
  <2>1. clients' \in [Cookies -> 0 .. Len(peer)]
    BY <1>1, <1>3, PoolDomains DEF PoolTypeOK
  <2>2. ASSUME NEW c \in Cookies
        PROVE  \/ clients'[c] = clients[c]
               \/ clients'[c] \in {0, p} /\ clients[c] \notin Known' \ {p}
    <3>1. CASE c = peer[p].id
      <4>1. clients'[c] = 0 /\ peer[p].id = c
        BY <1>3, <3>1
      <4> QED BY <1>2, <1>4, <4>1, StrayHolder
    <3>2. CASE c # peer[p].id
      BY <1>3, <3>2
    <3> QED BY <3>1, <3>2
  <2> QED BY <1>3, <2>1, <2>2 DEF ClientsSet
<1> DEFINE c == [call[t] EXCEPT !.at = "list", !.to = "proactive"]
<1>6. /\ c \in PoolCaller /\ c.at = "list" /\ c.peer = p
      /\ c.srv = call[t].srv /\ c.listen = call[t].listen
      /\ c.then = call[t].then
  BY <1>1, CallType DEF PoolCaller, Working, Closes
<1>7. call' = [call EXCEPT ![t] = c]
  BY <1>1, <1>3, CallType
<1> HIDE DEF c
<1>8. OnlyThread(t) /\ call'[t] = c
  BY <1>1, <1>6, <1>7, CallType DEF OnlyThread
<1>9. LocalsFit(t, p) /\ LeavesFit(t)
  BY <1>1, <1>2, <1>6, <1>8, CloseLocals DEF Closes
<1>10. Taken(p)' /\ Busy(t, p)
  BY <1>6, <1>8 DEF Taken, Busy
<1>11. ASSUME p \in Known
       PROVE  /\ ~Listed(p) /\ PhaseFits(t)'
              /\ \A d \in Cookies : clients'[d] # p
  <2>1. /\ ~Listed(p) /\ peer[p].op = "none"
    BY <1>1, <1>2, <1>11 DEF PhaseFits
  <2>2. \A d \in Cookies : clients'[d] # p
    BY <1>2, <1>3, <1>11 DEF PlaceFits
  <2>3. \A s \in DOMAIN server : p \notin server[s].peers \cup server[s].pending
    <3>1. 0 \notin DOMAIN server
      BY <1>1, PoolDomains
    <3> QED BY <1>2, <1>3, <1>11, <3>1 DEF PlaceFits
  <2>4. ~Listed(p)'
    BY <1>1, <1>5, <2>1, ClientsPlace
  <2>5. Nowhere(p)'
    BY <1>3, <2>2, <2>3, <2>4 DEF Nowhere, Registered
  <2>6. PhaseFits(t)'
    BY <1>3, <1>6, <1>8, <2>1, <2>3, <2>4, <2>5 DEF PhaseFits, Closes
  <2> QED BY <2>1, <2>2, <2>6
<1> QED BY <1>2, <1>4, <1>5, <1>8, <1>9, <1>10, <1>11, ClientsStep

(* AddClient() registers the peer under a free cookie, which it carries from *)
(* then on.                                                                  *)
LEMMA AddClientStep ==
  ASSUME PoolInv, HistoryStep, NEW t \in AllThreads,
         AddClient(t)
  PROVE  PoolInv'
<1> PICK p \in Nat : call[t].peer = p
  BY CallerFields DEF PoolInv
<1>1. PoolTypeOK /\ call[t].at = "addClient"
  BY Zenon DEF PoolInv, AddClient, At
<1>2. /\ p \in DOMAIN peer /\ p # 0 /\ p \in 0 .. Len(peer)
           /\ peer[p] \in PoolPeer
      /\ ~peer[p].isServer /\ ~Closer(t)
      /\ p \in Known => PlaceFits(p) /\ PhaseFits(t) /\ ~Listed(p)
  BY <1>1, Handles DEF Resting, Closes
<1>3. /\ UNCHANGED <<passive, proactive, servers, server, abandoned>>
      /\ Go(t, "connect")
  BY Zenon DEF AddClient, lists, history
<1> PICK c \in Cookies : /\ clients[c] = 0
                            /\ clients' = [clients EXCEPT ![c] = p]
                            /\ peer' = [peer EXCEPT ![p].id = c]
  BY Zenon DEF AddClient, P, None
<1> DEFINE r == [peer[p] EXCEPT !.id = c]
<1>4. /\ r \in PoolPeer /\ r.id = c /\ r.flag = peer[p].flag
           /\ r.op = peer[p].op
      /\ r.srv = peer[p].srv /\ r.isServer = peer[p].isServer
      /\ r.alive = peer[p].alive
  BY <1>2 DEF PoolPeer
<1>5. peer' = [peer EXCEPT ![p] = r]
  BY <1>1, <1>2 DEF PoolTypeOK
<1> HIDE DEF r
<1>6. OnlyPeer(p) /\ peer'[p] = r
  BY <1>1, <1>2, <1>4, <1>5, PeerUpdate
<1>7. ClientsSet(p)
  <2>1. clients' \in [Cookies -> 0 .. Len(peer)]
    BY <1>1, <1>2 DEF PoolTypeOK
  <2>2. 0 \notin DOMAIN peer'
    BY <1>6 DEF OnlyPeer
  <2>3. \A d \in Cookies : d # c => clients'[d] = clients[d]
    BY <1>1 DEF PoolTypeOK
  <2>4. clients'[c] = p /\ clients[c] \notin Known'
    BY <1>1, <2>2 DEF PoolTypeOK, Known
  <2> QED BY <1>3, <2>1, <2>3, <2>4 DEF ClientsSet
<1>8. /\ OnlyThread(t) /\ call'[t].at = "connect"
      /\ call'[t].peer = p
      /\ call'[t].srv = call[t].srv
      /\ call'[t].listen = call[t].listen
      /\ call'[t].then = call[t].then
  <2>1. "connect" \in Resting \cup Working
    BY DEF Working
  <2> QED BY <1>1, <1>3, <2>1, GoFields
<1>9. LocalsFit(t, p) /\ LeavesFit(t)
  BY <1>2, <1>8, StayLocals DEF Closer, Closing, Resting, Serving
<1>10. Taken(p)' /\ Busy(t, p)
  BY <1>8 DEF Taken, Busy
<1>11. ASSUME p \in Known
       PROVE  /\ ~Listed(p) /\ PhaseFits(t)'
              /\ \A d \in Cookies : clients'[d] = p =>
                   peer'[p].id = d /\ peer'[p].srv = 0
  <2>1. Blank(p) /\ Nowhere(p)
    BY <1>1, <1>2, <1>11 DEF PhaseFits
  <2>2. \A d \in Cookies : d # c => clients'[d] # p
    BY <1>1, <2>1 DEF Nowhere, Registered, PoolTypeOK
  <2>3. \A d \in Cookies : clients'[d] = p =>
          peer'[p].id = d /\ peer'[p].srv = 0
    BY <1>4, <1>6, <2>1, <2>2 DEF Blank
  <2>4. clients'[c] = p
    BY <1>1 DEF PoolTypeOK
  <2>5. Registered(p)'
    BY <2>4 DEF Registered
  <2> QED BY <1>4, <1>6, <1>8, <2>1, <2>3, <2>5
          DEF PhaseFits, Blank, Nowhere, Closes
<1> QED BY <1>2, <1>4, <1>6, <1>7, <1>8, <1>9, <1>10, <1>11, ClientsStep

(* When a client cannot join, its entry is removed and the peer deleted.     *)
LEMMA JoinClientFailsStep ==
  ASSUME PoolInv, HistoryStep, NEW t \in AllThreads,
         JoinClientFails(t)
  PROVE  PoolInv'
<1> PICK p \in Nat : call[t].peer = p
  BY CallerFields DEF PoolInv
<1>1. PoolTypeOK /\ call[t].at = "connect" /\ Return(t)
  BY Zenon DEF PoolInv, JoinClientFails, At
<1>2. /\ p \in DOMAIN peer /\ p # 0 /\ p \in 0 .. Len(peer)
           /\ peer[p] \in PoolPeer
      /\ ~peer[p].isServer /\ ~Closer(t)
  BY <1>1, Handles DEF Resting, Closes
<1>3. /\ UNCHANGED <<passive, proactive, servers, server, abandoned>>
      /\ clients' = [clients EXCEPT ![peer[p].id] = 0]
      /\ peer' = [peer EXCEPT ![p].alive = FALSE, ![p].sock = FALSE]
  BY Zenon DEF JoinClientFails, lists, P, None
<1> DEFINE r == [peer[p] EXCEPT !.alive = FALSE, !.sock = FALSE]
<1>4. /\ r \in PoolPeer /\ ~r.alive /\ r.id = peer[p].id
      /\ r.srv = peer[p].srv /\ r.isServer = peer[p].isServer
  BY <1>2 DEF PoolPeer
<1>5. peer' = [peer EXCEPT ![p] = r]
  BY <1>1, <1>2, <1>3 DEF PoolTypeOK
<1> HIDE DEF r
<1>6. OnlyPeer(p) /\ peer'[p] = r
  BY <1>1, <1>2, <1>4, <1>5, PeerUpdate
<1>7. ClientsSet(p)
  <2>1. clients' \in [Cookies -> 0 .. Len(peer)]
    <3> PICK C : C = 0 .. Len(peer)
      OBVIOUS
    <3>1. clients \in [Cookies -> C] /\ 0 \in C
      BY <1>1, PoolDomains DEF PoolTypeOK
    <3>2. clients' \in [Cookies -> C]
      BY <1>3, <3>1
    <3> QED BY <3>2
  <2>2. ASSUME NEW c \in Cookies
        PROVE  \/ clients'[c] = clients[c]
               \/ clients'[c] \in {0, p} /\ clients[c] \notin Known' \ {p}
    <3>1. CASE c = peer[p].id
      <4>1. clients'[c] = 0 /\ peer[p].id = c
        BY <1>1, <1>3, <3>1 DEF PoolTypeOK
      <4> QED BY <1>2, <1>6, <4>1, StrayHolder
    <3>2. CASE c # peer[p].id
      BY <1>1, <1>3, <3>2 DEF PoolTypeOK
    <3> QED BY <3>1, <3>2
  <2> QED BY <1>3, <2>1, <2>2 DEF ClientsSet
<1>8. OnlyThread(t) /\ LocalsFit(t, p) /\ LeavesFit(t)
  BY <1>1, <1>2, ReturnLocals
<1>9. p \notin Known'
  BY <1>4, <1>6 DEF Known
<1> QED BY <1>2, <1>4, <1>6, <1>7, <1>8, <1>9, ClientsStep DEF Busy

(* CloseClient() removes the entry and closes the peer.                      *)
LEMMA CloseClientStep ==
  ASSUME ConstantsAllowed, PoolInv, HistoryStep, NEW t \in AllThreads,
         NEW c \in Cookies, CloseClient(t, c)
  PROVE  PoolInv'
<1>1. /\ PoolTypeOK /\ call[t].at = "idle" /\ clients[c] # 0
      /\ UNCHANGED <<passive, proactive, servers, server, abandoned>>
      /\ clients' = [clients EXCEPT ![c] = 0]
  BY Zenon DEF PoolInv, CloseClient, At, lists, history, None
<1> PICK p : p = clients[c]
  OBVIOUS
<1>2. p \in DOMAIN peer /\ p \in Nat /\ p # 0 /\ p \in 0 .. Len(peer)
  BY <1>1, PoolDomains DEF PoolTypeOK
<1>3. peer[p] \in PoolPeer /\ ~peer[p].isServer
  BY <1>1, <1>2, PoolDomains DEF PoolInv, ListenerFits
<1>4. Destroy(t, p, "close", "idle")
  BY Zenon DEF CloseClient
<1>5. call[t].peer = 0 /\ ~Closer(t)
  <2>1. ThreadFits(t)
    BY DEF PoolInv
  <2> QED BY <1>1, <2>1 DEF ThreadFits, Resting, Closing, Closes
<1> DEFINE r == [peer[p] EXCEPT !.flag = "close"]
<1>6. /\ r \in PoolPeer /\ r.op = peer[p].op /\ r.id = peer[p].id
      /\ r.srv = peer[p].srv /\ r.alive = peer[p].alive
      /\ r.isServer = peer[p].isServer /\ r.flag = "close"
  BY <1>3 DEF PoolPeer
<1>7. peer' = [peer EXCEPT ![p] = r]
  BY <1>1, <1>2, <1>4 DEF Destroy, PoolTypeOK
<1> HIDE DEF r
<1>8. OnlyPeer(p) /\ peer'[p] = r
  BY <1>1, <1>2, <1>3, <1>6, <1>7, PeerUpdate
<1>9. /\ OnlyThread(t) /\ call'[t].at = "close" /\ call'[t].peer = p
      /\ call'[t].srv = call[t].srv
      /\ call'[t].listen = call[t].listen
      /\ call'[t].then = "idle"
  BY <1>1, <1>2, <1>4, DestroyFields
<1>10. LocalsFit(t, p) /\ LeavesFit(t)
  BY <1>2, <1>5, <1>9, StayLocals DEF Closing, Resting, Serving
<1>11. ClientsSet(p)
  <2>1. clients' \in [Cookies -> 0 .. Len(peer)]
    BY <1>1, <1>2 DEF PoolTypeOK
  <2>2. clients'[c] = 0 /\ \A d \in Cookies : d # c
          => clients'[d] = clients[d]
    BY <1>1 DEF PoolTypeOK
  <2> QED BY <1>1, <2>1, <2>2 DEF ClientsSet
<1>12. Taken(p)' /\ Busy(t, p)
  BY <1>9 DEF Taken, Busy
<1>13. ASSUME p \in Known
       PROVE  /\ ~Listed(p) /\ PhaseFits(t)'
              /\ \A d \in Cookies : clients'[d] = p =>
                   peer'[p].id = d /\ peer'[p].srv = 0
  <2>1. PlaceFits(p)
    BY <1>13 DEF PoolInv
  <2>2. peer[p].id = c /\ peer[p].srv = 0
    BY <2>1 DEF PlaceFits
  <2>3. 0 \notin Cookies
    BY DEF ConstantsAllowed
  <2>4. ~Listed(p)
    BY <2>1, <2>2, <2>3 DEF PlaceFits, Blank
  <2>5. \A s \in DOMAIN server : p \notin server[s].pending
    <3>1. 0 \notin DOMAIN server
      BY <1>1, PoolDomains
    <3> QED BY <2>1, <2>2, <3>1 DEF PlaceFits
  <2>6. \A d \in Cookies : clients'[d] = p => clients[d] = p
    BY <1>1, <1>2 DEF PoolTypeOK
  <2>7. \A d \in Cookies : clients'[d] = p =>
          peer'[p].id = d /\ peer'[p].srv = 0
    BY <1>6, <1>8, <2>1, <2>6 DEF PlaceFits
  <2>8. ~Listed(p)'
    BY <1>1, <1>11, <1>2, <2>4, ClientsPlace
  <2> QED BY <1>1, <1>6, <1>8, <1>9, <2>4, <2>5, <2>7, <2>8
             DEF PhaseFits, Closes
<1> QED BY <1>2, <1>6, <1>8, <1>9, <1>10, <1>11, <1>12, <1>13, ClientsStep

(* Reclaim() puts the peer at the end of a list.                             *)
LEMMA AppendFacts ==
  ASSUME NEW S, NEW q \in Seq(S), NEW x \in S
  PROVE  /\ Append(q, x) \in Seq(S)
         /\ \A y : y # x => (Has(Append(q, x), y) <=> Has(q, y))
         /\ \A y : y # x /\ HasOnce(q, y) => HasOnce(Append(q, x), y)
         /\ Has(Append(q, x), x)
         /\ ~Has(q, x) => HasOnce(Append(q, x), x)
<1> PICK n \in Nat : n = Len(q)
  OBVIOUS
<1> PICK r : r = Append(q, x)
  OBVIOUS
<1>1. /\ DOMAIN q = 1 .. n /\ DOMAIN r = 1 .. n + 1 /\ r[n + 1] = x
           /\ n + 1 \in DOMAIN r
      /\ \A i \in DOMAIN q : i \in DOMAIN r /\ r[i] = q[i]
      /\ \A i \in DOMAIN r : i = n + 1 \/ i \in DOMAIN q
      /\ r \in Seq(S)
  OBVIOUS
<1>2. ASSUME NEW y, y # x PROVE Has(r, y) <=> Has(q, y)
  BY <1>1, <1>2 DEF Has
<1>3. ASSUME NEW y, y # x, HasOnce(q, y) PROVE HasOnce(r, y)
  BY <1>1, <1>3 DEF HasOnce
<1>4. ASSUME ~Has(q, x) PROVE HasOnce(r, x)
  BY <1>1, <1>4 DEF HasOnce, Has
<1>5. Has(r, x)
  BY <1>1 DEF Has
<1> QED BY <1>1, <1>2, <1>3, <1>4, <1>5, Zenon

PutsLast(p) ==
  /\ passive' \in Seq(1 .. Len(peer)) /\ proactive' \in Seq(1 .. Len(peer))
  /\ \A q \in DOMAIN peer : q # p =>
       (Listed(q)' <=> Listed(q)) /\ (ListedOnce(q) => ListedOnce(q)')
  /\ ~Listed(p) => ListedOnce(p)'
  /\ Listed(p)'

(* AddClosed() puts a peer last on the list of accepted peers, ...           *)
LEMMA PassiveLast ==
  ASSUME PoolTypeOK, NEW p \in DOMAIN peer, passive' = Append(passive, p),
         proactive' = proactive
  PROVE  PutsLast(p)
<1>1. passive \in Seq(1 .. Len(peer)) /\ p \in 1 .. Len(peer)
  BY PoolDomains DEF PoolTypeOK
<1>2. /\ passive' \in Seq(1 .. Len(peer))
      /\ \A y : y # p => (Has(passive', y) <=> Has(passive, y))
      /\ \A y : y # p /\ HasOnce(passive, y) => HasOnce(passive', y)
      /\ Has(passive', p)
      /\ ~Has(passive, p) => HasOnce(passive', p)
  BY <1>1, AppendFacts
<1>3. ASSUME NEW q \in DOMAIN peer, q # p PROVE Listed(q)' <=> Listed(q)
  BY <1>2, <1>3 DEF Listed, Has
<1>4. ASSUME NEW q \in DOMAIN peer, q # p, ListedOnce(q) PROVE ListedOnce(q)'
  <2>1. Has(passive', q) => Has(passive, q)
    BY <1>2, <1>4
  <2>2. HasOnce(passive', q)
    BY <1>2, <1>4 DEF ListedOnce, HasOnce
  <2> QED BY <1>4, <2>1, <2>2 DEF ListedOnce, Has, HasOnce
<1>5. ASSUME ~Listed(p) PROVE ListedOnce(p)'
  <2>1. HasOnce(passive', p)
    BY <1>2, <1>5 DEF Listed, Has
  <2> QED BY <1>5, <2>1 DEF Listed, ListedOnce, HasOnce
<1>6. Listed(p)'
  BY <1>2 DEF Listed, Has
<1> QED BY <1>2, <1>3, <1>4, <1>5, <1>6 DEF PutsLast, PoolTypeOK

(* ... or of the others.                                                     *)
LEMMA ProactiveLast ==
  ASSUME PoolTypeOK, NEW p \in DOMAIN peer, proactive' = Append(proactive, p),
         passive' = passive
  PROVE  PutsLast(p)
<1>1. proactive \in Seq(1 .. Len(peer)) /\ p \in 1 .. Len(peer)
  BY PoolDomains DEF PoolTypeOK
<1>2. /\ proactive' \in Seq(1 .. Len(peer))
      /\ \A y : y # p => (Has(proactive', y) <=> Has(proactive, y))
      /\ \A y : y # p /\ HasOnce(proactive, y) => HasOnce(proactive', y)
      /\ Has(proactive', p)
      /\ ~Has(proactive, p) => HasOnce(proactive', p)
  BY <1>1, AppendFacts
<1>3. ASSUME NEW q \in DOMAIN peer, q # p PROVE Listed(q)' <=> Listed(q)
  BY <1>2, <1>3 DEF Listed, Has
<1>4. ASSUME NEW q \in DOMAIN peer, q # p, ListedOnce(q) PROVE ListedOnce(q)'
  <2>1. Has(proactive', q) => Has(proactive, q)
    BY <1>2, <1>4
  <2>2. HasOnce(proactive', q)
    BY <1>2, <1>4 DEF ListedOnce, HasOnce
  <2> QED BY <1>4, <2>1, <2>2 DEF ListedOnce, Has, HasOnce
<1>5. ASSUME ~Listed(p) PROVE ListedOnce(p)'
  <2>1. HasOnce(proactive', p)
    BY <1>2, <1>5 DEF Listed, Has
  <2> QED BY <1>5, <2>1 DEF Listed, ListedOnce, HasOnce
<1>6. Listed(p)'
  BY <1>2 DEF Listed, Has
<1> QED BY <1>2, <1>3, <1>4, <1>5, <1>6 DEF PutsLast, PoolTypeOK

(* What AddClosed() does: the peer is cleared and on one of the lists.       *)
LEMMA ClosedFacts ==
  ASSUME PoolInv, NEW t \in AllThreads, AddClosed(t),
         NEW p \in Nat, call[t].peer = p
  PROVE  /\ call[t].at = "list" /\ Continue(t)
         /\ p \in DOMAIN peer /\ p # 0 /\ p \in 0 .. Len(peer)
         /\ PutsLast(p) /\ UNCHANGED <<clients, servers, server, abandoned>>
         /\ peer' \in Seq(PoolPeer) /\ Len(peer') = Len(peer)
         /\ \A q \in DOMAIN peer : q # p => peer'[q] = peer[q]
         /\ ~peer'[p].isServer /\ peer'[p].alive = peer[p].alive
         /\ peer'[p].id = 0 /\ peer'[p].srv = 0 /\ peer'[p].flag = "none"
         /\ peer'[p].op = peer[p].op
<1>1. /\ PoolTypeOK /\ call[t].at = "list" /\ Continue(t)
      /\ UNCHANGED <<clients, servers, server, abandoned>>
      /\ peer' = [peer EXCEPT ![p] = Cleared(p)]
      /\ \/ passive' = Append(passive, p) /\ proactive' = proactive
         \/ proactive' = Append(proactive, p) /\ passive' = passive
  BY Zenon DEF PoolInv, AddClosed, At, P, tables, history
<1>2. p \in DOMAIN peer /\ p # 0 /\ p \in 0 .. Len(peer)
        /\ peer[p] \in PoolPeer
  BY <1>1, Handles DEF Resting
<1>3. PutsLast(p)
  BY <1>1, <1>2, PassiveLast, ProactiveLast
<1> PICK r : r = Cleared(p)
  OBVIOUS
<1>4. /\ r \in PoolPeer /\ ~r.isServer /\ r.alive = peer[p].alive
      /\ r.id = 0 /\ r.srv = 0 /\ r.flag = "none" /\ r.op = peer[p].op
  BY <1>2 DEF Cleared, None, PoolPeer
<1>5. /\ peer' \in Seq(PoolPeer) /\ Len(peer') = Len(peer) /\ peer'[p] = r
      /\ \A q \in DOMAIN peer : q # p => peer'[q] = peer[q]
  <2>1. peer' = [peer EXCEPT ![p] = r] /\ peer \in Seq(PoolPeer)
    BY <1>1 DEF PoolTypeOK
  <2> QED BY <1>2, <1>4, <2>1
<1> QED BY <1>1, <1>2, <1>3, <1>4, <1>5

(* A peer that is put on a list was nowhere, and is there once.              *)
LEMMA AddClosedStep ==
  ASSUME PoolInv, HistoryStep, NEW t \in AllThreads, AddClosed(t),
         ~peer[call[t].peer].isServer
  PROVE  PoolInv'
<1> PICK p \in Nat : call[t].peer = p
  BY CallerFields DEF PoolInv
<1>1. /\ call[t].at = "list" /\ Continue(t)
      /\ p \in DOMAIN peer /\ p # 0 /\ p \in 0 .. Len(peer)
      /\ PutsLast(p) /\ UNCHANGED <<clients, servers, server, abandoned>>
      /\ peer' \in Seq(PoolPeer) /\ Len(peer') = Len(peer)
      /\ \A q \in DOMAIN peer : q # p => peer'[q] = peer[q]
      /\ ~peer'[p].isServer /\ peer'[p].alive = peer[p].alive
      /\ peer'[p].id = 0 /\ peer'[p].srv = 0 /\ peer'[p].flag = "none"
      /\ peer'[p].op = peer[p].op
  BY ClosedFacts, Zenon
<1>2. PoolTypeOK /\ OnlyPeer(p)
  BY <1>1 DEF PoolInv, OnlyPeer
<1>3. OnlyThread(t) /\ LocalsFit(t, p) /\ LeavesFit(t) /\ call'[t].peer = 0
  BY <1>1, ContinueLocals DEF Closes
<1>4. OnlyPlace(p)
  BY <1>1, <1>2 DEF OnlyPlace, PutsLast, PoolTypeOK
<1>5. OnlyServed(p)
  BY <1>1, <1>2 DEF OnlyServed, PoolTypeOK
<1>6. ServesFit(t, p) /\ AddsFit(t, p) /\ Busy(t, p)
  BY <1>1 DEF ServesFit, AddsFit, Busy
<1>7. ASSUME p \in Known' PROVE Stands(p)'
  <2>1. p \in Known
    BY <1>1, <1>2, <1>7, KnownBack
  <2>2. Nowhere(p) /\ peer[p].op = "none"
    BY <1>1, <2>1 DEF PoolInv, PhaseFits
  <2>3. Blank(p)' /\ Listed(p)' /\ ListedOnce(p)'
    BY <1>1, <2>2 DEF Blank, Nowhere, PutsLast
  <2>4. ASSUME NEW u \in AllThreads, call'[u].peer = p PROVE FALSE
    <3>1. u # t /\ call[u].peer = p
      BY <1>1, <1>3, <2>4 DEF OnlyThread
    <3>2. p \in raced
      BY <1>1, <3>1 DEF PoolInv, HistoryFits
    <3> QED BY <2>1, <3>2 DEF Known
  <2>5. ~Taken(p)'
    BY <2>4 DEF Taken
  <2>6. PlaceFits(p)'
    BY <1>1, <2>2, <2>3, <2>5 DEF PlaceFits, Nowhere, Registered
  <2>7. OperationFits(p)'
    BY <1>1, <2>2 DEF OperationFits
  <2> QED BY <2>6, <2>7 DEF Stands
<1> QED BY <1>1, <1>2, <1>3, <1>4, <1>5, <1>6, <1>7, QuietStep DEF Quiet

(* A connection that is refused: the peer stays where it is.                 *)
Refused(t, p) ==
  /\ call[t].at = "idle" /\ peer[p].op = "connect"
  /\ peer' = [peer EXCEPT ![p].op = "none"]
  /\ UNCHANGED <<call, passive, proactive, clients, servers, server,
       abandoned>>

(* A refused connection stays registered, without an operation.              *)
LEMMA RefusedStep ==
  ASSUME PoolInv, HistoryStep, NEW t \in AllThreads,
         NEW p \in DOMAIN peer, Refused(t, p)
  PROVE  PoolInv'
<1>1. /\ PoolTypeOK /\ TablesKept /\ call' = call
      /\ call[t].at = "idle" /\ peer[p].op = "connect"
      /\ call[t].peer = 0 /\ ~Closer(t) /\ call[t] = Idle
  BY IdleThread DEF PoolInv, Refused, TablesKept, ThreadFits
<1>2. /\ p \in Nat /\ p # 0 /\ p \in 0 .. Len(peer) /\ peer[p] \in PoolPeer
  BY <1>1, PoolDomains
<1>3. ~peer[p].isServer
  BY <1>1 DEF PoolInv, ListenerFits
<1> DEFINE r == [peer[p] EXCEPT !.op = "none"]
<1>4. /\ r \in PoolPeer /\ r.op = "none" /\ r.id = peer[p].id
      /\ r.srv = peer[p].srv /\ r.alive = peer[p].alive
      /\ r.isServer = peer[p].isServer /\ r.flag = peer[p].flag
  BY <1>2 DEF PoolPeer
<1>5. peer' = [peer EXCEPT ![p] = r]
  BY <1>1 DEF Refused, PoolTypeOK
<1> HIDE DEF r
<1>6. OnlyPeer(p) /\ peer'[p] = r
  BY <1>1, <1>3, <1>4, <1>5, PeerUpdate
<1>7. OnlyThread(t) /\ LocalsFit(t, p) /\ LeavesFit(t)
  BY <1>1, <1>2, IdleFields
     DEF OnlyThread, LocalsFit, LeavesFit, PoolTypeOK, Closer, Resting,
         Serving
<1>8. /\ OnlyPlace(p) /\ OnlyServed(p)
      /\ Listed(p)' <=> Listed(p)
      /\ ListedOnce(p)' <=> ListedOnce(p)
      /\ Registered(p)' <=> Registered(p)
      /\ \A s : (Serves(s, p)' <=> Serves(s, p))
           /\ (Awaits(s, p)' <=> Awaits(s, p))
  BY <1>1, <1>2, KeptTables
<1>9. ServesFit(t, p) /\ AddsFit(t, p)
  BY <1>1, <1>4, <1>6 DEF ServesFit, AddsFit, TablesKept
<1>10. p \in Known' => p \in Known
  BY <1>1, <1>4, <1>6, KnownBack
<1>11. ASSUME p \in Known' PROVE Stands(p)'
  <2>1. PlaceFits(p) /\ ~Listed(p)
    BY <1>1, <1>10, <1>11 DEF PoolInv, PlaceFits, Blank
  <2>2. ListedOnce(p)' /\ ~Listed(p)' /\ (Taken(p)' <=> Taken(p))
    BY <1>1, <1>8, <2>1 DEF PlaceFits, Taken
  <2>3. \A c \in Cookies : clients'[c] = p =>
          peer'[p].id = c /\ peer'[p].srv = 0 /\ ~peer'[p].isServer
    BY <1>1, <1>4, <1>6, <2>1 DEF PlaceFits, TablesKept
  <2>4. /\ \A s \in DOMAIN server' :
             p \in server'[s].peers \cup server'[s].pending
                 => peer'[p].srv = s
        /\ \A s \in DOMAIN server' : p \in server'[s].peers
             => p \notin server'[s].pending
    BY <1>1, <1>4, <1>6, <2>1 DEF PlaceFits, TablesKept
  <2>5. \/ Taken(p)' \/ p \in abandoned' \/ Listed(p)' \/ Registered(p)'
        \/ peer'[p].isServer
        \/ \E s \in DOMAIN server' : Serves(s, p)' \/ Awaits(s, p)'
    BY <1>1, <1>3, <1>8, <2>1, <2>2 DEF PlaceFits, TablesKept
  <2>6. PlaceFits(p)'
    BY <2>2, <2>3, <2>4, <2>5 DEF PlaceFits
  <2>7. OperationFits(p)'
    BY <1>4, <1>6 DEF OperationFits
  <2> QED BY <2>6, <2>7 DEF Stands
<1>12. ASSUME NEW w \in AllThreads, p \in Known', call'[w].peer = p
       PROVE  PhaseFits(w)'
  <2>1. PhaseFits(w) /\ call[w].peer = p /\ call'[w] = call[w]
    BY <1>1, <1>10, <1>12 DEF PoolInv
  <2>2. /\ call[w].at \notin {"create", "addClient", "begin", "pend",
             "endAccept",
                                  "acceptFailed", "addPeer", "notify",
                                      "connect",
                                  "endConnect", "timedOut", "unavailable",
                                  "unlist", "list"}
        /\ call[w].at = "close" => peer[p].flag # "reuse"
    BY <1>1, <2>1 DEF PhaseFits, Blank, Closes
  <2>3. /\ call[w].at = "closeItem" => p \in server'[call[w].srv].peers
        /\ call[w].at \in Closes =>
             ~Listed(p)'
                 /\ \A s \in DOMAIN server' : p \notin server'[s].pending
    BY <1>1, <1>8, <2>1 DEF PhaseFits, TablesKept
  <2> QED BY <1>4, <1>6, <2>1, <2>2, <2>3 DEF PhaseFits
<1> QED BY <1>2, <1>6, <1>7, <1>8, <1>9, <1>11, <1>12, QuietRest DEF Quiet

(* The other steps are about a server and its listening peer l, which is 0   *)
(* where they leave that peer alone: what such a step does with the peers,   *)
ListenerOnly(t, l) ==
  /\ peer' \in Seq(PoolPeer) /\ Len(peer') = Len(peer) /\ l \in 0 .. Len(peer)
  /\ \A q \in DOMAIN peer : q # l => peer'[q] = peer[q]
  /\ l \in DOMAIN peer =>
       /\ peer[l].isServer /\ (peer'[l].alive => peer[l].alive)
       /\ peer'[l].srv \in {peer[l].srv, 0}
       /\ \/ peer'[l].isServer /\ peer'[l].srv = peer[l].srv
          \/ /\ ~peer'[l].isServer /\ Closer(t) /\ call[t].srv = peer[l].srv
             /\ call'[t].at # "stop"

(* ... with the tables and lists, ...                                        *)
ListenerPlace(l) ==
  /\ passive' \in Seq(1 .. Len(peer)) /\ proactive' \in Seq(1 .. Len(peer))
  /\ clients' = clients /\ abandoned \subseteq abandoned'
  /\ \A q \in DOMAIN peer : q # l =>
       (Listed(q)' <=> Listed(q)) /\ (ListedOnce(q) => ListedOnce(q)')

(* ... with the servers, of which it may delete one that has no more peers,  *)
ServerOnly(l) ==
  /\ server' \in Seq(PoolServer) /\ Len(server') = Len(server)
  /\ servers' \subseteq servers
  /\ \A s \in DOMAIN server :
       /\ server'[s].sp = server[s].sp
       /\ server'[s].peers = server[s].peers
       /\ server'[s].pending = server[s].pending
       /\ server'[s].alive => server[s].alive
       /\ s \in servers' => server'[s].alive /\ server'[s].running
       /\ server[s].alive /\ ~server'[s].alive =>
            /\ \A q \in Known : q \notin server[s].peers \cup server[s].pending
            /\ \A q \in DOMAIN peer : q # l /\ peer[q].isServer
                 => peer[q].srv # s

(* ... and with its thread.                                                  *)
ServerLocals(t, l) ==
  /\ OnlyThread(t) /\ call[t].peer \in {0, l} /\ call'[t].peer \in {0, l}
  /\ call'[t].at \notin {"join", "pending", "delete"}
  /\ call'[t].then # "pending"
  /\ call'[t].srv \in 0 .. Len(server)
  /\ \/ call'[t].listen = 0
     \/ /\ call'[t].listen = call[t].listen
        /\ call'[t].srv = call[t].srv
  /\ \A u \in AllThreads : u # t /\ call[u].at = "join" =>
       call[u].srv \in servers' /\ call[u].srv # call'[t].srv

(* A special step is about the listening peer l and its server only.         *)
Special(t, l) == /\ ListenerOnly(t, l) /\ ListenerPlace(l)
                 /\ ServerOnly(l) /\ ServerLocals(t, l)

-----------------------------------------------------------------------------
(* The steps of CloseServer() and of a Listen() that fails handle a          *)
(* listening peer or delete a server.  They create no peer and no server,    *)
(* and keep the types, ...                                                   *)
LEMMA SpecialDomains ==
  ASSUME PoolTypeOK, NEW t \in AllThreads, NEW l \in Nat, Special(t, l)
  PROVE  /\ PoolTypeOK' /\ DOMAIN peer' = DOMAIN peer
           /\ DOMAIN server' = DOMAIN server
         /\ \A u \in AllThreads : u # t =>
              call'[u] = call[u] /\ (Closer(u)' <=> Closer(u))
<1>1. DOMAIN peer' = DOMAIN peer /\ DOMAIN server' = DOMAIN server
  BY PoolDomains DEF Special, ListenerOnly, ServerOnly
<1>2. PoolTypeOK'
  BY DEF Special, ListenerOnly, ListenerPlace, ServerOnly, ServerLocals,
     OnlyThread,
         PoolTypeOK
<1>3. \A u \in AllThreads : u # t =>
        call'[u] = call[u] /\ (Closer(u)' <=> Closer(u))
  BY DEF Special, ServerLocals, OnlyThread, Closer
<1> QED BY <1>1, <1>2, <1>3

(* ... every reference in range, ...                                         *)
LEMMA SpecialRange ==
  ASSUME PoolTypeOK, PoolInRange, NEW t \in AllThreads, NEW l \in Nat,
         Special(t, l)
  PROVE  PoolInRange'
<1>1. /\ DOMAIN peer' = DOMAIN peer /\ DOMAIN server' = DOMAIN server
      /\ Len(peer') = Len(peer) /\ Len(server') = Len(server)
      /\ \A u \in AllThreads : u # t => call'[u] = call[u]
  BY SpecialDomains DEF Special, ListenerOnly, ServerOnly
<1>2. ASSUME NEW q \in DOMAIN peer PROVE peer'[q].srv \in 0 .. Len(server)
  <2>1. peer[q].srv \in 0 .. Len(server) /\ 0 \in 0 .. Len(server)
    BY PoolDomains DEF PoolInRange
  <2> QED BY <2>1 DEF Special, ListenerOnly
<1>3. \A s \in DOMAIN server :
        /\ server'[s].sp \in DOMAIN peer
        /\ server'[s].peers \cup server'[s].pending \subseteq DOMAIN peer
  BY DEF PoolInRange, Special, ServerOnly
<1>4. ASSUME NEW u \in AllThreads
      PROVE  /\ call'[u].srv \in 0 .. Len(server)
             /\ call'[u].listen \in 0 .. Len(peer)
             /\ call'[u].peer \in 0 .. Len(peer)
  <2>1. CASE u # t
    BY <1>1, <2>1 DEF PoolInRange
  <2>2. CASE u = t
    BY <2>2, PoolDomains DEF Special, ServerLocals, ListenerOnly, PoolInRange
  <2> QED BY <2>1, <2>2
<1> QED BY <1>1, <1>2, <1>3, <1>4 DEF PoolInRange

(* ... the locals of the other threads in line with their places, ...        *)
LEMMA SpecialThreads ==
  ASSUME PoolInv, NEW t \in AllThreads, NEW l \in Nat, Special(t, l),
         ThreadFits(t)'
  PROVE  \A u \in AllThreads : ThreadFits(u)'
<1>1. /\ servers' \subseteq servers
      /\ \A u \in AllThreads : u # t =>
           call'[u] = call[u] /\ (Closer(u)' <=> Closer(u))
  BY SpecialDomains DEF PoolInv, Special, ServerOnly
<1>2. ASSUME NEW u \in AllThreads, u # t PROVE ThreadFits(u)'
  <2>1. ThreadFits(u)
    BY DEF PoolInv
  <2>2. ASSUME Closer(u)', NEW v \in AllThreads, Closer(v)',
               call'[v].srv = call'[u].srv
        PROVE  v = u
    <3>1. CASE v # t
      BY <1>1, <1>2, <2>1, <2>2, <3>1 DEF ThreadFits
    <3>2. CASE v = t
      BY <2>2, <3>2 DEF ThreadFits
    <3> QED BY <3>1, <3>2
  <2> QED BY <1>1, <1>2, <2>1, <2>2 DEF ThreadFits
<1> QED BY <1>2

(* ... and the servers of those that have not joined to them.                *)
LEMMA SpecialJoins ==
  ASSUME PoolInv, NEW t \in AllThreads, NEW l \in Nat, Special(t, l)
  PROVE  \A u \in AllThreads : JoinFits(u)' /\ ListenFits(u)'
<1>1. PoolTypeOK /\ PoolInRange
  BY DEF PoolInv
<1>2. /\ DOMAIN peer' = DOMAIN peer /\ DOMAIN server' = DOMAIN server
      /\ \A u \in AllThreads : u # t => call'[u] = call[u]
  BY <1>1, SpecialDomains
<1>3. /\ \A q \in DOMAIN peer : peer'[q].srv \in {peer[q].srv, 0}
      /\ \A q \in DOMAIN peer : peer'[q].isServer =>
           peer[q].isServer /\ peer'[q].srv = peer[q].srv
  BY DEF Special, ListenerOnly
<1>4. ASSUME NEW u \in AllThreads, call'[u].at = "join" PROVE JoinFits(u)'
  <2>1. u # t /\ call'[u] = call[u]
    BY <1>2, <1>4 DEF Special, ServerLocals
  <2> PICK s \in Nat, k \in Nat : s = call[u].srv /\ k = call[u].listen
    BY <1>1, CallerFields
  <2>2. /\ JoinFits(u) /\ s # 0 /\ k # 0
    BY <1>4, <2>1 DEF PoolInv, ThreadFits
  <2>3. s \in servers' /\ s # call'[t].srv
    BY <1>4, <2>1 DEF Special, ServerLocals
  <2>4. /\ server[s].sp = k /\ server[s].peers = {} /\ server[s].pending = {}
        /\ s \in DOMAIN server
        /\ \A p \in DOMAIN peer : p # k => peer[p].srv # s
        /\ \A v \in AllThreads : v # u =>
             call[v].srv # s /\ call[v].listen # k
    BY <1>1, <1>4, <2>1, <2>2, <2>3, PoolDomains
       DEF JoinFits, PoolTypeOK, Special, ServerOnly
  <2>5. server'[s].sp = k /\ server'[s].peers = {} /\ server'[s].pending = {}
    BY <2>4 DEF Special, ServerOnly
  <2>6. \A p \in DOMAIN peer : p # k => peer'[p].srv # s
    BY <1>3, <2>2, <2>4
  <2>7. ASSUME NEW v \in AllThreads, v # u
        PROVE  call'[v].srv # s /\ call'[v].listen # k
    <3>1. CASE v # t
      BY <1>2, <2>4, <2>7, <3>1
    <3>2. CASE v = t
      BY <2>2, <2>3, <2>4, <2>7, <3>2 DEF Special, ServerLocals
    <3> QED BY <3>1, <3>2
  <2> QED BY <1>2, <2>1, <2>3, <2>5, <2>6, <2>7 DEF JoinFits
<1>5. ASSUME NEW u \in AllThreads PROVE JoinFits(u)'
  BY <1>4 DEF JoinFits
<1>6. ASSUME NEW u \in AllThreads PROVE ListenFits(u)'
  <2>1. SUFFICES ASSUME call'[u].listen # 0, peer'[call'[u].listen].isServer
                 PROVE  peer'[call'[u].listen].srv = call'[u].srv
    BY DEF ListenFits
  <2>2. call'[u].listen = call[u].listen /\ call'[u].srv = call[u].srv
    <3>1. CASE u # t
      BY <1>2, <3>1
    <3>2. CASE u = t
      BY <2>1, <3>2 DEF Special, ServerLocals
    <3> QED BY <3>1, <3>2
  <2>3. call[u].listen \in DOMAIN peer
    BY <1>1, <2>1, <2>2, PoolDomains DEF PoolInRange
  <2>4. ListenFits(u)
    BY DEF PoolInv
  <2> QED BY <1>3, <2>1, <2>2, <2>3, <2>4 DEF ListenFits
<1> QED BY <1>5, <1>6

(* They change nothing about the peers that do not listen, ...               *)
LEMMA SpecialStill ==
  ASSUME PoolInv, HistoryStep, NEW t \in AllThreads, NEW l \in Nat,
         Special(t, l), NEW q \in Known', q # l
  PROVE  /\ Still(q) /\ q \in Known /\ q # 0
         /\ Taken(q)' <=> Taken(q)
<1>1. PoolTypeOK
  BY DEF PoolInv
<1>2. DOMAIN peer' = DOMAIN peer /\ DOMAIN server' = DOMAIN server
  BY <1>1, SpecialDomains
<1>3. q \in DOMAIN peer /\ q # 0 /\ peer'[q] = peer[q]
  BY <1>1, <1>2, PoolDomains DEF Special, ListenerOnly, Known
<1>4. q \in Known
  BY <1>1, <1>3, KnownBack
<1>5. /\ Listed(q)' <=> Listed(q)
      /\ ListedOnce(q) => ListedOnce(q)'
      /\ clients' = clients /\ (q \in abandoned => q \in abandoned')
  BY <1>3 DEF Special, ListenerPlace
<1>6. \A s \in DOMAIN server :
        /\ server'[s].peers = server[s].peers
        /\ server'[s].pending = server[s].pending
        /\ server'[s].alive => server[s].alive
        /\ q \in server[s].peers \cup server[s].pending =>
             (server'[s].alive <=> server[s].alive)
  <2>1. ASSUME NEW s \in DOMAIN server,
                 q \in server[s].peers \cup server[s].pending
        PROVE  server[s].alive => server'[s].alive
    BY <1>4, <2>1 DEF Special, ServerOnly
  <2> QED BY <2>1 DEF Special, ServerOnly
<1>7. \A s : /\ Serves(s, q)' <=> Serves(s, q)
             /\ Awaits(s, q)' <=> Awaits(s, q)
  BY <1>2, <1>6 DEF Serves, Awaits
<1>8. Still(q)
  BY <1>2, <1>3, <1>5, <1>6, <1>7 DEF Still
<1>9. Taken(q)' <=> Taken(q)
  BY <1>3 DEF Special, ServerLocals, OnlyThread, Taken
<1> QED BY <1>3, <1>4, <1>8, <1>9

(* ... which stay where the threads that handle them have brought them.      *)
LEMMA SpecialPhases ==
  ASSUME PoolInv, HistoryStep, NEW t \in AllThreads, NEW l \in Nat,
         Special(t, l), NEW w \in AllThreads, w # t,
         NEW q \in Known', q # l, call'[w].peer = q
  PROVE  PhaseFits(w)'
<1>1. PoolTypeOK /\ PoolInRange /\ HistoryFits /\ ThreadFits(w)
        /\ ListenFits(w)
  BY DEF PoolInv
<1>2. Still(q) /\ q \in Known /\ q # 0
  BY SpecialStill
<1>3. call'[w] = call[w] /\ call[w].peer = q
  BY <1>1, SpecialDomains
<1>4. PhaseFits(w)
  BY <1>2, <1>3 DEF PoolInv
<1>5. call[w].at = "closeItem" => call[w].srv \in DOMAIN server
  BY <1>1, PoolDomains DEF ThreadFits, PoolInRange
<1>6. ASSUME call[w].at \in Serving PROVE Resolved(w)' <=> Resolved(w)
  <2> PICK k : k = call[w].listen
    OBVIOUS
  <2>1. k \in DOMAIN peer /\ k # 0
    BY <1>1, <1>6, PoolDomains DEF ThreadFits, PoolInRange
  <2>2. peer'[k].isServer <=> peer[k].isServer
    <3>1. CASE k # l
      BY <2>1, <3>1 DEF Special, ListenerOnly
    <3>2. CASE k = l /\ ~peer'[l].isServer
      <4>1. peer[l].isServer /\ Closer(t) /\ call[t].srv = peer[l].srv
        BY <2>1, <3>2 DEF Special, ListenerOnly
      <4>2. call[w].srv = call[t].srv
        BY <1>1, <2>1, <3>2, <4>1 DEF ListenFits
      <4>3. call[t].srv \in overlapped
        BY <1>1, <4>1, <4>2 DEF HistoryFits
      <4>4. q \in strayed
        BY <1>1, <1>2, <1>3, <4>2, <4>3 DEF HistoryFits
      <4> QED BY <1>2, <4>4 DEF Known
    <3>3. CASE k = l /\ peer'[l].isServer
      BY <2>1, <3>3 DEF Special, ListenerOnly
    <3> QED BY <3>1, <3>2, <3>3
  <2> QED BY <1>3, <2>2 DEF Resolved
<1> QED BY <1>2, <1>3, <1>4, <1>5, <1>6, StillPhases

(* Who closes a server leaves no peer behind.                                *)
LEMMA SpecialClosers ==
  ASSUME PoolInv, HistoryStep, NEW t \in AllThreads, NEW l \in Nat,
         Special(t, l)
  PROVE  \A u \in AllThreads : CloserFits(u)'
<1>1. PoolTypeOK /\ PoolInRange
  BY DEF PoolInv
<1>2. /\ DOMAIN peer' = DOMAIN peer
      /\ \A u \in AllThreads : u # t =>
           call'[u] = call[u] /\ (Closer(u)' <=> Closer(u))
  BY <1>1, SpecialDomains
<1>3. Known' \subseteq Known
  <2>1. ASSUME NEW q \in Known' PROVE q \in Known
    <3>1. q \in DOMAIN peer /\ (peer'[q].alive => peer[q].alive)
      BY <1>2 DEF Known, Special, ListenerOnly
    <3> QED BY <1>1, <3>1, KnownBack
  <2> QED BY <2>1
<1>4. CloserFits(t)'
  BY DEF CloserFits, Special, ServerLocals
<1>5. ASSUME NEW u \in AllThreads, u # t, Closer(u)' PROVE CloserFits(u)'
  <2>1. /\ CloserFits(u) /\ ThreadFits(u) /\ Closer(u) /\ call'[u] = call[u]
    BY <1>2, <1>5 DEF PoolInv
  <2>2. call[u].srv \in DOMAIN server
    BY <1>1, <2>1, PoolDomains DEF ThreadFits, PoolInRange
  <2>3. /\ server'[call[u].srv].peers = server[call[u].srv].peers
        /\ server'[call[u].srv].pending = server[call[u].srv].pending
    BY <2>2 DEF Special, ServerOnly
  <2> QED BY <1>3, <2>1, <2>3 DEF CloserFits
<1> QED BY <1>4, <1>5 DEF CloserFits

(* The other listening peers stay with their servers.                        *)
LEMMA SpecialListeners ==
  ASSUME PoolInv, NEW t \in AllThreads, NEW l \in Nat, Special(t, l),
         NEW q \in DOMAIN peer, q # l
  PROVE  ListenerFits(q)'
<1>1. PoolTypeOK /\ PoolInRange /\ q # 0
  BY PoolDomains DEF PoolInv
<1>2. /\ DOMAIN server' = DOMAIN server /\ peer'[q] = peer[q]
           /\ clients' = clients
      /\ \A u \in AllThreads : u # t => call'[u] = call[u]
      /\ call'[t].peer # q
      /\ Listed(q)' <=> Listed(q)
  BY <1>1, SpecialDomains
     DEF Special, ListenerOnly, ListenerPlace, ServerLocals
<1>3. SUFFICES ASSUME peer[q].isServer PROVE ListenerFits(q)'
  BY <1>2 DEF ListenerFits
<1>4. ListenerFits(q) /\ ~Listed(q)
  BY <1>3 DEF PoolInv, ListenerFits, Listed
<1> PICK s : s = peer[q].srv
  OBVIOUS
<1>5. s \in DOMAIN server /\ s # 0 /\ server[s].sp = q
  BY <1>1, <1>3, <1>4, PoolDomains DEF ListenerFits, PoolInRange
<1>6. /\ server'[s].sp = q
      /\ peer[q].alive => server'[s].alive
  BY <1>3, <1>4, <1>5 DEF Special, ServerOnly, ListenerFits
<1>7. \A r \in DOMAIN server : q \notin server'[r].peers \cup server'[r].pending
  BY <1>3, <1>4 DEF ListenerFits, Special, ServerOnly
<1>8. \A u \in AllThreads : call'[u].peer = q =>
        /\ call'[u].at \in Closes /\ call'[u].then = "peers"
        /\ call'[u].srv = s
        /\ call'[u].at = "close" => peer'[q].flag = "close"
  BY <1>2, <1>3, <1>4 DEF ListenerFits
<1>9. /\ \A i \in DOMAIN passive' : passive'[i] # q
      /\ \A i \in DOMAIN proactive' : proactive'[i] # q
  BY <1>2, <1>4 DEF Listed
<1> QED BY <1>2, <1>3, <1>4, <1>5, <1>6, <1>7, <1>8, <1>9 DEF ListenerFits

(* A server stays listed or being closed, if that of the step does.          *)
LEMMA SpecialServers ==
  ASSUME PoolInv, NEW t \in AllThreads, NEW l \in Nat, Special(t, l),
         NEW s \in DOMAIN server,
         server'[s].alive =>
           s \in servers' \/ \E u \in AllThreads :
                               Closer(u)' /\ call'[u].srv = s,
         Closer(t)' /\ call'[t].srv = s =>
           /\ peer'[server'[s].sp].isServer =>
                call'[t].at = "stop" \/ call'[t].peer = server'[s].sp
           /\ call'[t].at = "stop" => peer'[server'[s].sp].isServer
  PROVE  ServerFits(s)'
<1>1. PoolTypeOK /\ PoolInRange /\ ServerFits(s)
  BY DEF PoolInv
<1>2. /\ DOMAIN server' = DOMAIN server
      /\ \A u \in AllThreads : u # t =>
           call'[u] = call[u] /\ (Closer(u)' <=> Closer(u))
      /\ \A r \in DOMAIN server : server'[r].sp = server[r].sp
      /\ servers' \subseteq servers
      /\ s \in servers' => server'[s].alive /\ server'[s].running
  BY <1>1, SpecialDomains DEF Special, ServerOnly
<1> PICK k : k = server[s].sp
  OBVIOUS
<1>3. k \in DOMAIN peer /\ k # 0
  BY <1>1, PoolDomains DEF PoolInRange
<1>4. peer'[k].isServer => peer[k].isServer
  BY <1>3 DEF Special, ListenerOnly
<1>5. CASE peer[k].isServer /\ ~peer'[k].isServer
  <2>1. k = l /\ Closer(t) /\ call[t].srv = peer[k].srv
    BY <1>3, <1>5 DEF Special, ListenerOnly
  <2>2. peer[k].srv = s
    <3>1. ListenerFits(k)
      BY <1>3 DEF PoolInv
    <3>2. peer[k].srv # 0 /\ server[peer[k].srv].sp = k
      BY <1>5, <3>1 DEF ListenerFits
    <3>3. peer[k].srv \in DOMAIN server
      BY <1>1, <1>3, <3>2, PoolDomains DEF PoolInRange
    <3> QED BY <1>1, <3>2, <3>3 DEF ServerFits
  <2>3. /\ s \notin servers
        /\ \A u \in AllThreads : Closer(u) /\ call[u].srv = s => u = t
    BY <2>1, <2>2 DEF PoolInv, ThreadFits
  <2> QED BY <1>1, <1>2, <1>3, <1>5, <2>3 DEF ServerFits
<1>6. CASE peer'[k].isServer <=> peer[k].isServer
  <2>1. ASSUME NEW u \in AllThreads, u # t, Closer(u), call[u].srv = s
        PROVE  /\ peer[k].isServer =>
                    call[u].at = "stop" \/ call[u].peer = k
               /\ call[u].at = "stop" => peer[k].isServer
    BY <1>1, <2>1 DEF ServerFits
  <2> QED BY <1>1, <1>2, <1>3, <1>6, <2>1 DEF ServerFits
<1> QED BY <1>4, <1>5, <1>6

(* What a step has to show of the servers that live after it.                *)
ServersFit(t) ==
  \A s \in DOMAIN server :
    /\ server'[s].alive =>
         s \in servers' \/ \E u \in AllThreads :
                             Closer(u)' /\ call'[u].srv = s
    /\ Closer(t)' /\ call'[t].srv = s =>
         /\ peer'[server'[s].sp].isServer =>
              call'[t].at = "stop" \/ call'[t].peer = server'[s].sp
         /\ call'[t].at = "stop" => peer'[server'[s].sp].isServer

(* So only the listening peer, its server and the locals of the thread are   *)
(* left to consider.                                                         *)
LEMMA SpecialStep ==
  ASSUME PoolInv, HistoryStep, NEW t \in AllThreads, NEW l \in Nat,
         Special(t, l), ThreadFits(t)', ServersFit(t),
         l \in DOMAIN peer => ListenerFits(l)',
         l \in Known' =>
           /\ Stands(l)'
           /\ \A w \in AllThreads : call'[w].peer = l => PhaseFits(w)'
  PROVE  PoolInv'
<1>1. PoolTypeOK /\ PoolInRange
  BY DEF PoolInv
<1>2. /\ PoolTypeOK' /\ DOMAIN peer' = DOMAIN peer
           /\ DOMAIN server' = DOMAIN server
  BY <1>1, SpecialDomains
<1>3. HistoryFits' /\ PoolInRange'
  BY <1>1, <1>2, HistoryKept, SpecialRange
<1>4. /\ \A w \in AllThreads : ThreadFits(w)'
      /\ \A w \in AllThreads : JoinFits(w)' /\ ListenFits(w)'
      /\ \A w \in AllThreads : CloserFits(w)'
  BY SpecialThreads, SpecialJoins, SpecialClosers
<1>5. \A q \in DOMAIN peer' : ListenerFits(q)'
  <2>1. ASSUME NEW q \in DOMAIN peer PROVE ListenerFits(q)'
    <3>1. CASE q = l
      BY <2>1, <3>1
    <3>2. CASE q # l
      BY <2>1, <3>2, SpecialListeners
    <3> QED BY <3>1, <3>2
  <2> QED BY <1>2, <2>1
<1>6. \A s \in DOMAIN server' : ServerFits(s)'
  BY <1>2, SpecialServers DEF ServersFit
<1>7. ASSUME NEW q \in Known'
      PROVE  PlaceFits(q)' /\ (Taken(q)' \/ OperationFits(q)')
  <2>1. CASE q = l
    BY <1>7, <2>1 DEF Stands
  <2>2. CASE q # l
    <3>1. Still(q) /\ q \in Known /\ (Taken(q)' <=> Taken(q))
      BY <2>2, SpecialStill
    <3>2. PlaceFits(q) /\ (Taken(q) \/ OperationFits(q))
      BY <3>1 DEF PoolInv
    <3> QED BY <3>1, <3>2, StillPlaces
  <2> QED BY <2>1, <2>2
<1>8. ASSUME NEW w \in AllThreads, call'[w].peer \in Known'
      PROVE  PhaseFits(w)'
  <2>1. CASE call'[w].peer = l
    BY <1>8, <2>1
  <2>2. CASE call'[w].peer # l /\ w # t
    BY <1>8, <2>2, SpecialPhases
  <2>3. CASE call'[w].peer # l /\ w = t
    <3>1. call'[t].peer = 0
      BY <2>3 DEF Special, ServerLocals
    <3>2. 0 \notin DOMAIN peer'
      BY <1>1, <1>2, PoolDomains
    <3> QED BY <1>8, <2>3, <3>1, <3>2 DEF Known
  <2> QED BY <2>1, <2>2, <2>3
<1> QED BY <1>2, <1>3, <1>4, <1>5, <1>6, <1>7, <1>8 DEF PoolInv

(* A step that leaves the lists and the clients alone.                       *)
LEMMA SamePlace ==
  ASSUME PoolTypeOK, NEW l, UNCHANGED <<passive, proactive, clients>>,
         abandoned \subseteq abandoned'
  PROVE  ListenerPlace(l) /\ \A q : Listed(q)' <=> Listed(q)
<1>1. \A q : /\ Listed(q)' <=> Listed(q)
             /\ ListedOnce(q)' <=> ListedOnce(q)
  BY DEF Listed, ListedOnce
<1> QED BY <1>1 DEF ListenerPlace, PoolTypeOK

(* Who holds a listening peer closes its server.                             *)
LEMMA ListenerFacts ==
  ASSUME PoolInv, NEW l \in DOMAIN peer, peer[l].isServer
  PROVE  /\ l # 0 /\ peer[l] \in PoolPeer
         /\ peer[l].srv \in DOMAIN server /\ peer[l].srv # 0
         /\ server[peer[l].srv].sp = l /\ peer[l].id = peer[l].srv
         /\ peer[l].op = "none"
         /\ peer[l].alive => server[peer[l].srv].alive
         /\ ~Listed(l) /\ ~Registered(l) /\ Nowhere(l)
         /\ \A s \in DOMAIN server : server[s].sp = l => s = peer[l].srv
         /\ \A t \in AllThreads : call[t].peer = l =>
              /\ Closer(t) /\ call[t].srv = peer[l].srv
              /\ call[t].at \in Closes /\ call[t].then = "peers"
              /\ call[t].at = "close" => peer[l].flag = "close"
<1>1. PoolTypeOK /\ PoolInRange /\ ListenerFits(l)
  BY DEF PoolInv
<1>2. l # 0 /\ peer[l] \in PoolPeer
  BY <1>1, PoolDomains
<1>3. peer[l].srv \in DOMAIN server /\ peer[l].srv # 0
  BY <1>1, PoolDomains DEF ListenerFits, PoolInRange
<1>4. \A s \in DOMAIN server : server[s].sp = l => s = peer[l].srv
  BY <1>1, <1>3 DEF PoolInv, ServerFits, ListenerFits
<1>5. ~Listed(l) /\ ~Registered(l) /\ Nowhere(l)
  BY <1>1 DEF ListenerFits, Listed, Registered, Nowhere
<1>6. \A t \in AllThreads : call[t].peer = l =>
        /\ Closer(t) /\ call[t].srv = peer[l].srv
        /\ call[t].at \in Closes /\ call[t].then = "peers"
        /\ call[t].at = "close" => peer[l].flag = "close"
  BY <1>1 DEF ListenerFits, Closer, Closing
<1> QED BY <1>1, <1>2, <1>3, <1>4, <1>5, <1>6 DEF ListenerFits

(* The server that a thread closes is nobody else's to close or to join.     *)
LEMMA CloserServer ==
  ASSUME PoolInv, NEW t \in AllThreads, Closer(t)
  PROVE  /\ call[t].srv \in DOMAIN server /\ call[t].srv # 0
         /\ call[t].srv \notin servers
         /\ \A u \in AllThreads :
              Closer(u) /\ call[u].srv = call[t].srv => u = t
         /\ \A u \in AllThreads : call[u].at = "join" =>
              /\ u # t /\ call[u].srv \in servers
              /\ call[u].srv # call[t].srv
<1>1. ThreadFits(t) /\ PoolTypeOK /\ PoolInRange
  BY DEF PoolInv
<1>2. ASSUME NEW u \in AllThreads, call[u].at = "join"
      PROVE  u # t /\ call[u].srv \in servers
  <2>1. JoinFits(u)
    BY DEF PoolInv
  <2>2. call[t].at # "join"
    BY <1>1 DEF ThreadFits, Closing, Closes
  <2> QED BY <1>2, <2>1, <2>2 DEF JoinFits
<1>3. call[t].srv \in DOMAIN server /\ call[t].srv # 0
  BY <1>1, PoolDomains DEF ThreadFits, PoolInRange
<1> QED BY <1>1, <1>2, <1>3 DEF ThreadFits

-----------------------------------------------------------------------------
(* CloseServer() unlists the server; its thread is then the one that closes  *)
(* it.                                                                       *)
LEMMA CloseServerStep ==
  ASSUME PoolInv, HistoryStep, NEW t \in AllThreads,
         NEW s \in servers, CloseServer(t, s)
  PROVE  PoolInv'
<1>1. /\ PoolTypeOK /\ call[t].at = "idle" /\ servers' = servers \ {s}
      /\ UNCHANGED <<peer, passive, proactive, clients, server, abandoned>>
      /\ call' = [call EXCEPT ![t].at = "stop", ![t].srv = s]
      /\ \A u \in AllThreads : call[u].at = "join" => call[u].srv # s
  BY DEF PoolInv, CloseServer, At, lists, history
<1>2. s \in DOMAIN server /\ s # 0 /\ s \in 0 .. Len(server) /\ s \in Nat
  BY <1>1, PoolDomains DEF PoolTypeOK
<1>3. /\ call[t] = Idle /\ call[t].peer = 0 /\ ~Closer(t)
      /\ call[t].srv = 0 /\ call[t].listen = 0 /\ call[t].then = "idle"
  BY <1>1, IdleThread
<1> DEFINE c == [call[t] EXCEPT !.at = "stop", !.srv = s]
<1>4. /\ c \in PoolCaller /\ c.at = "stop" /\ c.peer = 0 /\ c.srv = s
      /\ c.listen = 0 /\ c.then = "idle"
  BY <1>1, <1>2, <1>3, CallType DEF PoolCaller, Resting
<1>5. call' = [call EXCEPT ![t] = c]
  BY <1>1, CallType
<1> HIDE DEF c
<1>6. OnlyThread(t) /\ call'[t] = c
  BY <1>1, <1>4, <1>5, CallType DEF OnlyThread
<1>7. Closer(t)'
  BY <1>4, <1>6 DEF Closer, Closing
<1>8. ListenerOnly(t, 0)
  BY <1>1, PoolDomains DEF ListenerOnly, PoolTypeOK
<1>9. ListenerPlace(0)
  BY <1>1, SamePlace
<1>10. ServerOnly(0)
  <2>1. \A r \in DOMAIN server : r \in servers
          => server[r].alive /\ server[r].running
    BY DEF PoolInv, ServerFits
  <2> QED BY <1>1, <2>1 DEF ServerOnly, PoolTypeOK
<1>11. ServerLocals(t, 0)
  <2>1. \A u \in AllThreads : call[u].at = "join" =>
          call[u].srv \in servers' /\ call[u].srv # s
    BY <1>1 DEF PoolInv, JoinFits
  <2> QED BY <1>2, <1>3, <1>4, <1>6, <2>1 DEF ServerLocals
<1>12. ThreadFits(t)'
  <2>1. ASSUME NEW u \in AllThreads, u # t, Closer(u)', call'[u].srv = s
        PROVE  FALSE
    <3>1. Closer(u) /\ call[u].srv = s
      BY <1>6, <2>1 DEF OnlyThread, Closer
    <3> QED BY <3>1, CloserServer
  <2>2. s \notin servers'
    BY <1>1
  <2> QED BY <1>2, <1>4, <1>6, <1>7, <2>1, <2>2
          DEF ThreadFits, Resting, Serving, Closing
<1>13. ServersFit(t)
  <2>1. ASSUME NEW r \in DOMAIN server, server'[r].alive
        PROVE  r \in servers' \/ \E u \in AllThreads :
                                  Closer(u)' /\ call'[u].srv = r
    <3>1. CASE r = s
      BY <1>4, <1>6, <1>7, <3>1
    <3>2. CASE r # s /\ r \notin servers
      <4>1. PICK u \in AllThreads : Closer(u) /\ call[u].srv = r
        BY <1>1, <2>1, <3>2 DEF PoolInv, ServerFits
      <4>2. u # t
        BY <1>3, <4>1
      <4> QED BY <1>6, <4>1, <4>2 DEF OnlyThread, Closer
    <3>3. CASE r # s /\ r \in servers
      BY <1>1, <3>3
    <3> QED BY <3>1, <3>2, <3>3
  <2>2. peer'[server'[s].sp].isServer
    BY <1>1, <1>2 DEF PoolInv, ServerFits
  <2> QED BY <1>4, <1>6, <2>1, <2>2 DEF ServersFit
<1>14. 0 \notin DOMAIN peer /\ 0 \notin Known'
  BY <1>1, PoolDomains DEF Known
<1> QED BY <1>8, <1>9, <1>10, <1>11, <1>12, <1>13, <1>14, SpecialStep
           DEF Special

(* A step that writes one server leaves the others alone.                    *)
LEMMA ServerUpdate ==
  ASSUME PoolTypeOK, NEW s \in DOMAIN server, NEW r \in PoolServer,
         server' = [server EXCEPT ![s] = r]
  PROVE  /\ server' \in Seq(PoolServer) /\ Len(server') = Len(server)
         /\ DOMAIN server' = DOMAIN server /\ server'[s] = r
         /\ \A x \in DOMAIN server : x # s => server'[x] = server[x]
<1>1. server \in Seq(PoolServer)
  BY DEF PoolTypeOK
<1> QED BY <1>1

(* Who else closes a server still does.                                      *)
LEMMA OtherClosers ==
  ASSUME PoolInv, NEW t \in AllThreads, OnlyThread(t),
         NEW s \in DOMAIN server, server[s].alive, s \notin servers,
         Closer(t) => call[t].srv # s
  PROVE  \E u \in AllThreads : Closer(u)' /\ call'[u].srv = s
<1>1. PICK u \in AllThreads : Closer(u) /\ call[u].srv = s
  BY DEF PoolInv, ServerFits
<1>2. u # t
  BY <1>1
<1> QED BY <1>1, <1>2 DEF OnlyThread, Closer

(* The server is stopped, and its listening peer the first to be closed.     *)
LEMMA StopStep ==
  ASSUME PoolInv, HistoryStep, NEW t \in AllThreads, Stop(t)
  PROVE  PoolInv'
<1> PICK s \in Nat : s = call[t].srv
  BY CallerFields DEF PoolInv
<1>0. server' = [server EXCEPT ![s].running = FALSE]
  BY DEF Stop
<1>1. /\ PoolTypeOK /\ PoolInRange /\ call[t].at = "stop"
      /\ UNCHANGED <<passive, proactive, clients, servers, abandoned>>
      /\ Destroy(t, server[s].sp, "close", "peers")
  BY DEF PoolInv, Stop, At, lists, tables, history
<1>2. /\ s \in DOMAIN server /\ s # 0 /\ Closer(t) /\ call[t].peer = 0
  BY <1>1, CloserFacts DEF Closing
<1> PICK l : l = server[s].sp
  OBVIOUS
<1>3. /\ l \in DOMAIN peer /\ l # 0 /\ l \in Nat /\ l \in 0 .. Len(peer)
      /\ peer[l].isServer
  BY <1>1, <1>2, PoolDomains DEF PoolInv, PoolInRange, ServerFits
<1>4. /\ peer[l] \in PoolPeer /\ peer[l].srv = s /\ ~Listed(l)
           /\ ~Registered(l)
      /\ Nowhere(l) /\ peer[l].op = "none"
      /\ \A u \in AllThreads : call[u].peer # l
  <2>1. /\ peer[l] \in PoolPeer /\ peer[l].srv = s /\ ~Listed(l)
             /\ ~Registered(l)
        /\ Nowhere(l) /\ peer[l].op = "none"
        /\ \A u \in AllThreads : call[u].peer = l =>
             Closer(u) /\ call[u].srv = s
    <3>1. peer[l].srv = s
      <4>1. \A x \in DOMAIN server : server[x].sp = l => x = peer[l].srv
        BY <1>3, ListenerFacts
      <4> QED BY <1>2, <4>1
    <3> QED BY <1>3, <3>1, ListenerFacts
  <2> QED BY <1>2, <1>3, <2>1, CloserServer
<1> DEFINE r == [peer[l] EXCEPT !.flag = "close"]
<1>5. /\ r \in PoolPeer /\ r.op = peer[l].op /\ r.id = peer[l].id
      /\ r.srv = peer[l].srv /\ r.alive = peer[l].alive
      /\ r.isServer = peer[l].isServer /\ r.flag = "close"
  BY <1>4 DEF PoolPeer
<1>6. peer' = [peer EXCEPT ![l] = r] /\ peer \in Seq(PoolPeer)
  BY <1>1, <1>3 DEF Destroy, PoolTypeOK
<1> HIDE DEF r
<1>7. /\ peer' \in Seq(PoolPeer) /\ Len(peer') = Len(peer) /\ peer'[l] = r
      /\ \A q \in DOMAIN peer : q # l => peer'[q] = peer[q]
  BY <1>3, <1>5, <1>6
<1>8. /\ OnlyThread(t) /\ call'[t].at = "close" /\ call'[t].peer = l
      /\ call'[t].srv = s
      /\ call'[t].listen = call[t].listen
      /\ call'[t].then = "peers"
  BY <1>1, <1>3, DestroyFields
<1> DEFINE v == [server[s] EXCEPT !.running = FALSE]
<1>9. /\ v \in PoolServer /\ v.alive = server[s].alive /\ v.sp = server[s].sp
      /\ v.peers = server[s].peers /\ v.pending = server[s].pending
  <2>1. server[s] \in PoolServer
    BY <1>1, <1>2, PoolDomains
  <2> QED BY <2>1 DEF PoolServer
<1>10. server' = [server EXCEPT ![s] = v]
  BY <1>0, <1>1 DEF PoolTypeOK
<1> HIDE DEF v
<1>11. /\ server' \in Seq(PoolServer) /\ Len(server') = Len(server)
       /\ DOMAIN server' = DOMAIN server /\ server'[s] = v
       /\ \A x \in DOMAIN server : x # s => server'[x] = server[x]
  BY <1>1, <1>2, <1>9, <1>10, ServerUpdate
<1>12. Closer(t)'
  BY <1>8 DEF Closer, Closing
<1>13. ListenerOnly(t, l)
  BY <1>3, <1>5, <1>7 DEF ListenerOnly
<1>14. ListenerPlace(l)
  BY <1>1, SamePlace
<1>15. ServerOnly(l)
  <2>1. s \notin servers /\ \A x \in DOMAIN server :
          x \in servers => server[x].alive /\ server[x].running
    BY <1>2, CloserServer DEF PoolInv, ServerFits
  <2> QED BY <1>1, <1>9, <1>11, <2>1 DEF ServerOnly
<1>16. ServerLocals(t, l)
  <2>1. \A u \in AllThreads : call[u].at = "join" =>
          call[u].srv \in servers /\ call[u].srv # s
    BY <1>2, CloserServer
  <2> QED BY <1>1, <1>2, <1>8, <2>1, PoolDomains DEF ServerLocals
<1>17. ThreadFits(t)'
  <2>1. ASSUME NEW u \in AllThreads, u # t, Closer(u)', call'[u].srv = s
        PROVE  FALSE
    <3>1. Closer(u) /\ call[u].srv = s
      BY <1>8, <2>1 DEF OnlyThread, Closer
    <3> QED BY <1>2, <2>1, <3>1, CloserServer
  <2>2. s \notin servers'
    BY <1>1, <1>2, CloserServer
  <2> QED BY <1>2, <1>3, <1>8, <1>12, <2>1, <2>2
          DEF ThreadFits, Resting, Serving, Closes
<1>18. ServersFit(t)
  <2>1. ASSUME NEW x \in DOMAIN server, server'[x].alive
        PROVE  x \in servers' \/ \E u \in AllThreads :
                                  Closer(u)' /\ call'[u].srv = x
    <3>1. CASE x = s
      BY <1>8, <1>12, <3>1
    <3>2. CASE x # s
      BY <1>1, <1>8, <1>11, <2>1, <3>2, OtherClosers
    <3> QED BY <3>1, <3>2
  <2>2. server'[s].sp = l
    BY <1>9, <1>11
  <2> QED BY <1>8, <2>1, <2>2 DEF ServersFit
<1>19. DOMAIN server' = DOMAIN server
  BY <1>11, Zenon
<1>20. Nowhere(l)'
  <2>1. \A x \in DOMAIN server :
          server'[x].peers = server[x].peers
              /\ server'[x].pending = server[x].pending
    BY <1>9, <1>11, Zenon
  <2> QED BY <1>1, <1>4, <1>19, <2>1 DEF Nowhere, Listed, Registered
<1>21. ListenerFits(l)'
  <2>1. ASSUME NEW u \in AllThreads, call'[u].peer = l
        PROVE  u = t
    BY <1>4, <1>8, <2>1 DEF OnlyThread
  <2>2. server'[s].sp = l /\ server'[s].alive = server[s].alive
    BY <1>9, <1>11
  <2>3. peer[l].id = s /\ (peer[l].alive => server[s].alive)
    BY <1>3, <1>4, ListenerFacts
  <2>4. /\ peer'[l].srv = s /\ peer'[l].id = s /\ peer'[l].op = "none"
        /\ peer'[l].alive = peer[l].alive /\ peer'[l].flag = "close"
    BY <1>4, <1>5, <1>7, <2>3
  <2>5. ~Listed(l)' /\ ~Registered(l)'
        /\ \A x \in DOMAIN server' : l \notin server'[x].peers \cup server'[x].pending
    BY <1>20 DEF Nowhere
  <2> QED BY <1>2, <1>8, <2>1, <2>2, <2>3, <2>4, <2>5
          DEF ListenerFits, Listed, Registered, Closes
<1>22. Taken(l)'
  BY <1>8 DEF Taken
<1>23. Stands(l)'
  BY <1>3, <1>20, <1>22, NowhereStands
<1>24. ASSUME NEW w \in AllThreads, call'[w].peer = l PROVE PhaseFits(w)'
  <2>1. w = t
    BY <1>4, <1>8, <1>24 DEF OnlyThread
  <2>2. call'[w].at = "close" /\ peer'[l].flag = "close"
    BY <1>5, <1>7, <1>8, <2>1
  <2>3. ~Listed(l)' /\ \A x \in DOMAIN server' : l \notin server'[x].pending
    BY <1>20 DEF Nowhere
  <2> QED BY <1>24, <2>2, <2>3 DEF PhaseFits, Closes
<1> QED BY <1>3, <1>13, <1>14, <1>15, <1>16, <1>17, <1>18, <1>21, <1>23,
           <1>24,
           SpecialStep DEF Special

(* The server is deleted when none of its peers is left in it.               *)
LEMMA DeleteStep ==
  ASSUME PoolInv, HistoryStep, NEW t \in AllThreads, Delete(t)
  PROVE  PoolInv'
<1> PICK s \in Nat : s = call[t].srv
  BY CallerFields DEF PoolInv
<1>0. server' = [server EXCEPT ![s].alive = FALSE]
  BY DEF Delete
<1>1. /\ PoolTypeOK /\ PoolInRange /\ call[t].at = "delete"
      /\ UNCHANGED <<peer, passive, proactive, clients, servers, abandoned>>
      /\ Return(t)
  BY DEF PoolInv, Delete, At, lists, tables, history
<1>2. /\ s \in DOMAIN server /\ s # 0 /\ Closer(t) /\ call[t].peer = 0
  BY <1>1, CloserFacts DEF Closing
<1>3. OnlyThread(t) /\ call'[t] = Idle /\ ~Closer(t)'
  <2>1. OnlyThread(t) /\ call'[t] = Idle
    BY <1>1, ReturnFields
  <2> QED BY <2>1, IdleFields DEF Closer, Closing
<1> DEFINE v == [server[s] EXCEPT !.alive = FALSE]
<1>4. /\ v \in PoolServer /\ ~v.alive /\ v.sp = server[s].sp
      /\ v.peers = server[s].peers /\ v.pending = server[s].pending
  <2>1. server[s] \in PoolServer
    BY <1>1, <1>2, PoolDomains
  <2> QED BY <2>1 DEF PoolServer
<1>5. server' = [server EXCEPT ![s] = v]
  BY <1>0, <1>1 DEF PoolTypeOK
<1> HIDE DEF v
<1>6. /\ server' \in Seq(PoolServer) /\ Len(server') = Len(server)
      /\ DOMAIN server' = DOMAIN server /\ server'[s] = v
      /\ \A x \in DOMAIN server : x # s => server'[x] = server[x]
  BY <1>1, <1>2, <1>4, <1>5, ServerUpdate
<1>7. ListenerOnly(t, 0)
  BY <1>1, PoolDomains DEF ListenerOnly, PoolTypeOK
<1>8. ListenerPlace(0)
  BY <1>1, SamePlace
<1>9. ServerOnly(0)
  <2>1. s \notin servers /\ \A x \in DOMAIN server :
          x \in servers => server[x].alive /\ server[x].running
    BY <1>2, CloserServer DEF PoolInv, ServerFits
  <2>2. \A q \in Known : q \notin server[s].peers \cup server[s].pending
    BY <1>1, <1>2 DEF PoolInv, CloserFits
  <2>3. ASSUME NEW q \in DOMAIN peer, peer[q].isServer, peer[q].srv = s
                 PROVE FALSE
    <3>1. server[s].sp = q /\ q # 0
      BY <2>3, ListenerFacts
    <3>2. call[t].at = "stop" \/ call[t].peer = q
      BY <1>2, <2>3, <3>1 DEF PoolInv, ServerFits
    <3> QED BY <1>1, <1>2, <3>1, <3>2
  <2> QED BY <1>1, <1>4, <1>6, <2>1, <2>2, <2>3 DEF ServerOnly
<1>10. ServerLocals(t, 0)
  <2>1. \A u \in AllThreads : call[u].at = "join" =>
          call[u].srv \in servers /\ call[u].srv # 0
    BY <1>1, <1>2, CloserServer, PoolDomains DEF PoolTypeOK
  <2> QED BY <1>1, <1>2, <1>3, <2>1, IdleFields, PoolDomains DEF ServerLocals
<1>11. ThreadFits(t)'
  BY <1>3, IdleFields DEF ThreadFits, Resting, Serving
<1>12. ServersFit(t)
  <2>1. ASSUME NEW x \in DOMAIN server, server'[x].alive
        PROVE  x \in servers' \/ \E u \in AllThreads :
                                  Closer(u)' /\ call'[u].srv = x
    <3>1. x # s
      BY <1>4, <1>6, <2>1
    <3> QED BY <1>1, <1>3, <1>6, <2>1, <3>1, OtherClosers
  <2> QED BY <1>3, <2>1 DEF ServersFit
<1>13. 0 \notin DOMAIN peer /\ 0 \notin Known'
  BY <1>1, PoolDomains DEF Known
<1> QED BY <1>7, <1>8, <1>9, <1>10, <1>11, <1>12, <1>13, SpecialStep
           DEF Special

(* The servers, where a step leaves them alone.                              *)
LEMMA SameServers ==
  ASSUME PoolInv, NEW l \in Nat, UNCHANGED <<servers, server>>
  PROVE  ServerOnly(l)
<1>1. \A s \in servers : s \in DOMAIN server
  BY DEF PoolInv, PoolTypeOK
<1>2. \A s \in DOMAIN server : s \in servers
        => server[s].alive /\ server[s].running
  BY DEF PoolInv, ServerFits
<1> QED BY <1>2 DEF ServerOnly, PoolInv, PoolTypeOK

(* A server that lives stays listed or being closed.                         *)
LEMMA SameClosers ==
  ASSUME PoolInv, NEW t \in AllThreads, OnlyThread(t),
         UNCHANGED <<servers, server>>, NEW s \in DOMAIN server,
             server[s].alive,
         Closer(t) => Closer(t)' /\ call'[t].srv = call[t].srv
  PROVE  s \in servers' \/ \E u \in AllThreads :
                              Closer(u)' /\ call'[u].srv = s
<1>1. CASE s \notin servers
  <2>1. PICK u \in AllThreads : Closer(u) /\ call[u].srv = s
    BY <1>1 DEF PoolInv, ServerFits
  <2> QED BY <2>1 DEF OnlyThread, Closer
<1>2. CASE s \in servers
  BY <1>2
<1> QED BY <1>1, <1>2

(* Only one thread handles a listening peer.                                 *)
LEMMA ListenerHolder ==
  ASSUME PoolInv, NEW t \in AllThreads, NEW l \in DOMAIN peer,
         peer[l].isServer, call[t].peer = l, OnlyThread(t),
         NEW u \in AllThreads, call'[u].peer = l
  PROVE  u = t
<1>1. SUFFICES ASSUME u # t PROVE FALSE
  OBVIOUS
<1>2. call[u].peer = l
  BY <1>1 DEF OnlyThread
<1>3. Closer(u) /\ Closer(t) /\ call[u].srv = call[t].srv
  BY <1>2, ListenerFacts
<1> QED BY <1>1, <1>3, CloserServer

(* CloseServer() goes on closing the listening peer.                         *)
LEMMA ListenerStep ==
  ASSUME PoolInv, HistoryStep, NEW t \in AllThreads, NEW l \in DOMAIN peer,
         peer[l].isServer, call[t].peer = l, TablesKept,
         NEW r \in PoolPeer, peer' = [peer EXCEPT ![l] = r],
         r.isServer, r.srv = peer[l].srv, r.id = peer[l].id, r.op = "none",
         r.alive => peer[l].alive,
         OnlyThread(t), call'[t].at \in {"unlist", "list"},
         call'[t].peer = l, call'[t].srv = call[t].srv,
         call'[t].listen = call[t].listen,
         call'[t].then = call[t].then
  PROVE  PoolInv'
<1> PICK s : s = peer[l].srv
  OBVIOUS
<1>1. /\ PoolTypeOK /\ ThreadFits(t)
      /\ UNCHANGED <<passive, proactive, clients, servers, server>>
      /\ abandoned \subseteq abandoned'
  BY DEF PoolInv, TablesKept
<1>2. /\ l \in Nat /\ l # 0 /\ l \in 0 .. Len(peer)
      /\ s \in DOMAIN server /\ s # 0 /\ server[s].sp = l /\ r.id = s
      /\ peer[l].alive => server[s].alive
      /\ Nowhere(l) /\ ~Listed(l)
      /\ \A x \in DOMAIN server : server[x].sp = l => x = s
      /\ Closer(t) /\ call[t].srv = s /\ call[t].then = "peers"
  BY <1>1, ListenerFacts, PoolDomains
<1>3. /\ peer' \in Seq(PoolPeer) /\ Len(peer') = Len(peer) /\ peer'[l] = r
      /\ \A q \in DOMAIN peer : q # l => peer'[q] = peer[q]
  <2>1. peer \in Seq(PoolPeer)
    BY <1>1 DEF PoolTypeOK
  <2> QED BY <2>1
<1>4. /\ Closer(t)'
      /\ \A u \in AllThreads : call'[u].peer = l => u = t
  <2>1. Closer(t)'
    BY <1>2 DEF Closer, Closing
  <2> QED BY <2>1, ListenerHolder
<1>5. Special(t, l)
  <2>1. ListenerOnly(t, l)
    BY <1>2, <1>3 DEF ListenerOnly
  <2>2. ListenerPlace(l) /\ ServerOnly(l)
    BY <1>1, <1>2, SamePlace, SameServers
  <2>3. call'[t].srv \in 0 .. Len(server)
    BY <1>1, <1>2, PoolDomains
  <2>4. ServerLocals(t, l)
    BY <1>1, <1>2, <2>3, CloserServer DEF ServerLocals
  <2> QED BY <2>1, <2>2, <2>4 DEF Special
<1>6. ThreadFits(t)'
  <2>1. ASSUME NEW u \in AllThreads, Closer(u)', call'[u].srv = s
        PROVE  u = t
    <3>1. Closer(u) /\ call[u].srv = call[t].srv
      BY <1>2, <2>1 DEF OnlyThread, Closer
    <3> QED BY <1>2, <3>1, CloserServer
  <2> QED BY <1>1, <1>2, <1>4, <2>1 DEF ThreadFits, Resting, Serving, Closes
<1>7. ServersFit(t)
  BY <1>1, <1>2, <1>4, SameClosers DEF ServersFit
<1>8. Nowhere(l)'
  BY <1>1, <1>2 DEF Nowhere, Listed, Registered
<1>9. ListenerFits(l)'
  BY <1>1, <1>2, <1>3, <1>4, <1>8
     DEF ListenerFits, Nowhere, Listed, Registered, Closes
<1>10. Taken(l)' /\ Stands(l)'
  <2>1. Taken(l)'
    BY DEF Taken
  <2> QED BY <1>2, <1>8, <2>1, NowhereStands
<1>11. ASSUME NEW w \in AllThreads, call'[w].peer = l PROVE PhaseFits(w)'
  <2>1. w = t /\ peer'[l].op = "none"
    BY <1>3, <1>4, <1>11
  <2> QED BY <1>8, <2>1 DEF PhaseFits, Nowhere, Closes
<1> QED BY <1>2, <1>5, <1>6, <1>7, <1>9, <1>10, <1>11, SpecialStep

(* Close() of a listening peer.                                              *)
LEMMA CloseListenerStep ==
  ASSUME PoolInv, HistoryStep, NEW t \in AllThreads, CloseSocket(t),
         peer[call[t].peer].isServer
  PROVE  PoolInv'
<1> PICK l \in Nat : call[t].peer = l
  BY CallerFields DEF PoolInv
<1>1. /\ PoolTypeOK /\ call[t].at = "close" /\ Go(t, "unlist") /\ TablesKept
      /\ peer' = [peer EXCEPT ![l].sock = FALSE, ![l].op = "none"]
  BY DEF PoolInv, CloseSocket, At, P, lists, tables,
         history, TablesKept
<1>2. l \in DOMAIN peer /\ peer[l].isServer /\ peer[l] \in PoolPeer
  BY <1>1, Handles DEF Resting
<1> DEFINE r == [peer[l] EXCEPT !.sock = FALSE, !.op = "none"]
<1>3. /\ r \in PoolPeer /\ r.isServer /\ r.srv = peer[l].srv
           /\ r.id = peer[l].id
      /\ r.op = "none" /\ r.alive = peer[l].alive
  BY <1>2 DEF PoolPeer
<1>4. peer' = [peer EXCEPT ![l] = r]
  BY <1>1, <1>2 DEF PoolTypeOK
<1> HIDE DEF r
<1>5. /\ OnlyThread(t) /\ call'[t].at = "unlist"
      /\ call'[t].peer = l /\ call'[t].srv = call[t].srv
      /\ call'[t].listen = call[t].listen
      /\ call'[t].then = call[t].then
  BY <1>1, GoFields DEF Working, Closes
<1> QED BY <1>1, <1>2, <1>3, <1>4, <1>5, ListenerStep

(* Reclaim() of a listening peer finds no entry to remove.                   *)
LEMMA ReclaimServerStep ==
  ASSUME PoolInv, HistoryStep, NEW t \in AllThreads, ReclaimServer(t)
  PROVE  PoolInv'
<1> PICK l \in Nat : call[t].peer = l
  BY CallerFields DEF PoolInv
<1>1. /\ PoolTypeOK /\ call[t].at = "unlist" /\ peer[l].isServer
      /\ UNCHANGED <<peer, passive, proactive, clients, server, abandoned>>
      /\ servers' = servers \ {peer[l].id}
      /\ call' = [call EXCEPT ![t].at = "list", ![t].to = "proactive"]
  BY DEF PoolInv, ReclaimServer, At, P, lists, tables,
         history
<1>2. l \in DOMAIN peer /\ peer[l] \in PoolPeer
  BY <1>1, Handles DEF Resting
<1>3. /\ call[t].srv = peer[l].srv /\ Closer(t) /\ peer[l].id = peer[l].srv
      /\ peer[l].op = "none"
  BY <1>1, <1>2, ListenerFacts
<1>4. peer[l].id \notin servers
  BY <1>3, CloserServer
<1>5. TablesKept
  BY <1>1, <1>4 DEF TablesKept
<1>6. peer' = [peer EXCEPT ![l] = peer[l]]
  BY <1>1, <1>2 DEF PoolTypeOK
<1>7. /\ OnlyThread(t) /\ call'[t].at = "list"
      /\ call'[t].peer = l /\ call'[t].srv = call[t].srv
      /\ call'[t].listen = call[t].listen
      /\ call'[t].then = call[t].then
  <2>1. call \in [AllThreads -> PoolCaller] /\ call[t] \in PoolCaller
    BY <1>1, CallType
  <2> DEFINE c == [call[t] EXCEPT !.at = "list", !.to = "proactive"]
  <2>2. /\ c \in PoolCaller /\ c.at = "list" /\ c.peer = call[t].peer
        /\ c.srv = call[t].srv /\ c.listen = call[t].listen
        /\ c.then = call[t].then
    BY <2>1 DEF PoolCaller, Working, Closes
  <2>3. call' = [call EXCEPT ![t] = c]
    BY <1>1, <2>1
  <2> HIDE DEF c
  <2> QED BY <2>1, <2>2, <2>3 DEF OnlyThread
<1> QED BY <1>1, <1>2, <1>3, <1>5, <1>6, <1>7, ListenerStep

(* A listening peer becomes one of the closed peers.                         *)
LEMMA ListenerClosedStep ==
  ASSUME PoolInv, HistoryStep, NEW t \in AllThreads, AddClosed(t),
         peer[call[t].peer].isServer
  PROVE  PoolInv'
<1> PICK l \in Nat : call[t].peer = l
  BY CallerFields DEF PoolInv
<1>1. /\ PoolTypeOK /\ call[t].at = "list" /\ Continue(t)
      /\ l \in DOMAIN peer /\ l # 0 /\ l \in 0 .. Len(peer)
           /\ peer[l].isServer
      /\ PutsLast(l) /\ UNCHANGED <<clients, servers, server, abandoned>>
      /\ peer' \in Seq(PoolPeer) /\ Len(peer') = Len(peer)
      /\ \A q \in DOMAIN peer : q # l => peer'[q] = peer[q]
      /\ ~peer'[l].isServer /\ peer'[l].alive = peer[l].alive
      /\ peer'[l].id = 0 /\ peer'[l].srv = 0 /\ peer'[l].flag = "none"
      /\ peer'[l].op = peer[l].op
  <2>1. PoolTypeOK
    BY DEF PoolInv
  <2> QED BY <2>1, ClosedFacts, Zenon
<1> PICK s : s = peer[l].srv
  OBVIOUS
<1>2. /\ s \in DOMAIN server /\ s # 0 /\ server[s].sp = l
      /\ Nowhere(l) /\ ~Listed(l) /\ peer[l].op = "none"
      /\ \A x \in DOMAIN server : server[x].sp = l => x = s
      /\ Closer(t) /\ call[t].srv = s /\ call[t].then = "peers"
  BY <1>1, ListenerFacts
<1>3. /\ OnlyThread(t) /\ call'[t].at = "peers" /\ call'[t].peer = 0
      /\ call'[t].srv = s /\ call'[t].listen = call[t].listen
      /\ call'[t].then = "peers"
  BY <1>1, <1>2, ContinueFields
<1>4. ASSUME NEW u \in AllThreads, call'[u].peer = l PROVE FALSE
  <2>1. u = t
    BY <1>1, <1>3, <1>4, ListenerHolder
  <2> QED BY <1>1, <1>3, <1>4, <2>1
<1>5. Closer(t)'
  BY <1>3 DEF Closer, Closing
<1>6. Special(t, l)
  <2>1. ListenerOnly(t, l)
    BY <1>1, <1>2, <1>3 DEF ListenerOnly
  <2>2. ListenerPlace(l)
    BY <1>1 DEF ListenerPlace, PutsLast
  <2>3. ServerOnly(l)
    BY <1>1, SameServers
  <2>4. s \in 0 .. Len(server)
    BY <1>1, <1>2, PoolDomains
  <2>5. ServerLocals(t, l)
    BY <1>1, <1>2, <1>3, <2>4, CloserServer DEF ServerLocals
  <2> QED BY <2>1, <2>2, <2>3, <2>5 DEF Special
<1>7. ThreadFits(t)'
  <2>1. ASSUME NEW u \in AllThreads, Closer(u)', call'[u].srv = s
        PROVE  u = t
    <3>1. SUFFICES ASSUME u # t PROVE FALSE
      OBVIOUS
    <3>2. Closer(u) /\ call[u].srv = call[t].srv
      BY <1>2, <1>3, <2>1, <3>1 DEF OnlyThread, Closer
    <3> QED BY <1>2, <3>1, <3>2, CloserServer
  <2>2. s \notin servers'
    BY <1>1, <1>2, CloserServer
  <2> QED BY <1>2, <1>3, <1>5, <2>1, <2>2
          DEF ThreadFits, Resting, Serving, Closing
<1>8. ServersFit(t)
  BY <1>1, <1>2, <1>3, <1>5, SameClosers DEF ServersFit
<1>9. ListenerFits(l)'
  BY <1>1 DEF ListenerFits
<1>10. Stands(l)'
  <2>1. Blank(l)' /\ Listed(l)' /\ ListedOnce(l)'
    BY <1>1, <1>2 DEF Blank, PutsLast
  <2>2. ~Taken(l)'
    BY <1>4 DEF Taken
  <2>3. PlaceFits(l)'
    BY <1>1, <1>2, <2>1, <2>2 DEF PlaceFits, Nowhere, Registered
  <2>4. OperationFits(l)'
    BY <1>1, <1>2 DEF OperationFits
  <2> QED BY <2>3, <2>4 DEF Stands
<1> QED BY <1>4, <1>6, <1>7, <1>8, <1>9, <1>10, SpecialStep

(* AddClosed(), for any peer.                                                *)
LEMMA AddsClosedStep ==
  ASSUME PoolInv, HistoryStep, NEW t \in AllThreads, AddClosed(t)
  PROVE  PoolInv'
BY AddClosedStep, ListenerClosedStep

-----------------------------------------------------------------------------
(* When Listen() cannot join, nobody but its thread knows the server.        *)
LEMMA JoinFailsStep ==
  ASSUME PoolInv, HistoryStep, NEW t \in AllThreads, JoinFails(t)
  PROVE  PoolInv'
<1> PICK s \in Nat : s = call[t].srv
  BY CallerFields DEF PoolInv
<1> PICK l \in Nat : l = call[t].listen
  BY CallerFields DEF PoolInv
<1>0. /\ server' = [server EXCEPT ![s].alive = FALSE, ![s].running = FALSE]
      /\ peer' = [peer EXCEPT ![l].alive = FALSE, ![l].sock = FALSE]
  BY DEF JoinFails
<1>1. /\ PoolTypeOK /\ call[t].at = "join" /\ Return(t)
      /\ UNCHANGED <<passive, proactive, clients, abandoned>>
      /\ servers' = servers \ {s}
  BY DEF PoolInv, JoinFails, At, lists
<1>2. /\ s \in servers /\ s \in DOMAIN server /\ s # 0 /\ server[s].sp = l
      /\ server[s].peers = {} /\ server[s].pending = {}
      /\ \A p \in DOMAIN peer : p # l => peer[p].srv # s
      /\ \A u \in AllThreads : u # t =>
           call[u].srv # s /\ call[u].listen # l
  BY <1>1, PoolDomains DEF PoolInv, JoinFits, PoolTypeOK
<1>3. /\ l \in DOMAIN peer /\ l # 0 /\ l \in 0 .. Len(peer)
      /\ peer[l].isServer /\ peer[l] \in PoolPeer
  BY <1>1, <1>2, PoolDomains DEF PoolInv, PoolInRange, ServerFits
<1>4. /\ peer[l].srv = s /\ peer[l].id = s /\ peer[l].op = "none"
      /\ Nowhere(l) /\ ~Listed(l)
      /\ \A u \in AllThreads : call[u].peer # l
  <2>1. /\ peer[l].srv = s /\ peer[l].id = s /\ peer[l].op = "none"
        /\ Nowhere(l) /\ ~Listed(l)
        /\ \A u \in AllThreads : call[u].peer = l =>
             call[u].srv = s /\ call[u].at \in Closes
    BY <1>2, <1>3, ListenerFacts
  <2> QED BY <1>1, <1>2, <2>1 DEF Closes
<1> DEFINE r == [peer[l] EXCEPT !.alive = FALSE, !.sock = FALSE]
<1>5. /\ r \in PoolPeer /\ r.isServer /\ r.srv = s /\ r.id = s /\ ~r.alive
      /\ r.op = "none"
  BY <1>3, <1>4 DEF PoolPeer
<1>6. peer' = [peer EXCEPT ![l] = r] /\ peer \in Seq(PoolPeer)
  BY <1>0, <1>1, <1>3 DEF PoolTypeOK
<1> HIDE DEF r
<1>7. /\ peer' \in Seq(PoolPeer) /\ Len(peer') = Len(peer) /\ peer'[l] = r
      /\ \A q \in DOMAIN peer : q # l => peer'[q] = peer[q]
  BY <1>3, <1>5, <1>6
<1> DEFINE v == [server[s] EXCEPT !.alive = FALSE, !.running = FALSE]
<1>8. /\ v \in PoolServer /\ ~v.alive /\ v.sp = server[s].sp
      /\ v.peers = server[s].peers /\ v.pending = server[s].pending
  <2>1. server[s] \in PoolServer
    BY <1>1, <1>2, PoolDomains
  <2> QED BY <2>1 DEF PoolServer
<1>9. server' = [server EXCEPT ![s] = v]
  BY <1>0, <1>1, <1>2 DEF PoolTypeOK
<1> HIDE DEF v
<1>10. /\ server' \in Seq(PoolServer) /\ Len(server') = Len(server)
       /\ DOMAIN server' = DOMAIN server /\ server'[s] = v
       /\ \A x \in DOMAIN server : x # s => server'[x] = server[x]
  BY <1>1, <1>2, <1>8, <1>9, ServerUpdate
<1>11. OnlyThread(t) /\ call'[t] = Idle
  BY <1>1, ReturnFields
<1>12. ~Closer(t)' /\ ~Closer(t)
  <2>1. ~Closer(t)'
    BY <1>11, IdleFields DEF Closer, Closing
  <2>2. ThreadFits(t)
    BY DEF PoolInv
  <2> QED BY <1>1, <2>1, <2>2 DEF ThreadFits, Closing, Closes
<1>13. ListenerOnly(t, l)
  BY <1>3, <1>4, <1>5, <1>7 DEF ListenerOnly
<1>14. ListenerPlace(l)
  BY <1>1, SamePlace
<1>15. ServerOnly(l)
  <2>1. \A x \in DOMAIN server : x \in servers
          => server[x].alive /\ server[x].running
    BY DEF PoolInv, ServerFits
  <2>2. s \notin servers' /\ servers' \subseteq servers
    BY <1>1
  <2>3. ASSUME NEW x \in DOMAIN server
        PROVE  /\ server'[x].sp = server[x].sp
                 /\ server'[x].peers = server[x].peers
               /\ server'[x].pending = server[x].pending
               /\ server'[x].alive => server[x].alive /\ x # s
               /\ x # s => server'[x] = server[x]
    BY <1>8, <1>10
  <2>4. \A q \in DOMAIN peer : q # l => peer[q].srv # s
    BY <1>2
  <2> QED BY <1>2, <1>10, <2>1, <2>2, <2>3, <2>4 DEF ServerOnly
<1>16. ServerLocals(t, l)
  <2>1. ASSUME NEW u \in AllThreads, u # t, call[u].at = "join"
        PROVE  call[u].srv \in servers' /\ call[u].srv # 0
    BY <1>1, <1>2, <2>1, PoolDomains DEF PoolInv, JoinFits, PoolTypeOK
  <2>2. call[t].peer = 0
    BY <1>1 DEF PoolInv, ThreadFits, Resting
  <2> QED BY <1>1, <1>11, <2>1, <2>2, IdleFields, PoolDomains DEF ServerLocals
<1>17. ThreadFits(t)'
  BY <1>11, <1>12, IdleFields DEF ThreadFits, Resting, Serving
<1>18. ServersFit(t)
  <2>1. ASSUME NEW x \in DOMAIN server, server'[x].alive
        PROVE  x \in servers' \/ \E u \in AllThreads :
                                  Closer(u)' /\ call'[u].srv = x
    <3>1. x # s
      BY <1>8, <1>10, <2>1
    <3>2. CASE x \notin servers
      BY <1>10, <1>11, <1>12, <2>1, <3>1, <3>2, OtherClosers
    <3>3. CASE x \in servers
      BY <1>1, <3>1, <3>3
    <3> QED BY <3>2, <3>3
  <2> QED BY <1>12, <2>1 DEF ServersFit
<1>19. DOMAIN server' = DOMAIN server
  BY <1>10
<1>20. Nowhere(l)'
  <2>1. \A x \in DOMAIN server :
          server'[x].peers = server[x].peers
              /\ server'[x].pending = server[x].pending
    BY <1>8, <1>10
  <2> QED BY <1>1, <1>4, <1>19, <2>1 DEF Nowhere, Listed, Registered
<1>21. ASSUME NEW u \in AllThreads, call'[u].peer = l PROVE FALSE
  BY <1>3, <1>4, <1>11, <1>21, IdleFields DEF OnlyThread
<1>22. ListenerFits(l)'
  <2>1. server'[s].sp = l
    BY <1>2, <1>8, <1>10
  <2> QED BY <1>2, <1>5, <1>7, <1>20, <1>21, <2>1
          DEF ListenerFits, Nowhere, Listed, Registered
<1>23. l \notin Known'
  BY <1>5, <1>7 DEF Known
<1> QED BY <1>13, <1>14, <1>15, <1>16, <1>17, <1>18, <1>22, <1>23, SpecialStep
        DEF Special

(* Two steps create a peer, one of them with a server.                       *)
GrowsPeers(l) ==
  /\ peer' \in Seq(PoolPeer) /\ l = Len(peer) + 1 /\ Len(peer') = l
  /\ \A q \in DOMAIN peer : peer'[q] = peer[q]
  /\ peer'[l].srv = 0 \/ peer'[l].srv = Len(server) + 1
  /\ peer'[l].srv \in 0 .. Len(server')
  /\ UNCHANGED <<passive, proactive, clients, abandoned>>

GrowsServers(l) ==
  /\ server' \in Seq(PoolServer)
  /\ Len(server') \in {Len(server), Len(server) + 1}
  /\ \A s \in DOMAIN server :
       server'[s] = server[s] /\ (s \in servers' <=> s \in servers)
  /\ servers' \subseteq DOMAIN server'
  /\ \A s \in DOMAIN server' \ DOMAIN server :
       /\ server'[s].sp = l
       /\ server'[s].peers = {} /\ server'[s].pending = {}
       /\ s \in servers' /\ server'[s].alive /\ server'[s].running
       /\ peer'[l].isServer

GrowsLocals(t, l) ==
  /\ OnlyThread(t) /\ ~Closer(t) /\ ~Closer(t)'
  /\ call[t].peer = 0 /\ call'[t].peer \in {0, l}
  /\ call'[t].srv \in {call[t].srv, Len(server')}
  /\ call'[t].srv = call[t].srv \/ Len(server') = Len(server) + 1
  /\ call'[t].listen \in {call[t].listen, l}
  /\ call'[t].at = "join" \/ call[t].at # "join"

Grows(t, l) == GrowsPeers(l) /\ GrowsServers(l) /\ GrowsLocals(t, l)

-----------------------------------------------------------------------------
(* AcquirePeer() and Listen() create a peer, Listen() a server as well.  The *)
(* others keep their numbers, the types are kept, ...                        *)
LEMMA GrowsDomains ==
  ASSUME PoolTypeOK, PoolInRange, NEW t \in AllThreads, NEW l \in Nat,
           Grows(t, l)
  PROVE  /\ DOMAIN peer' = DOMAIN peer \cup {l} /\ l \notin DOMAIN peer
           /\ l # 0
         /\ DOMAIN server \subseteq DOMAIN server'
         /\ DOMAIN server' \subseteq DOMAIN server \cup {Len(server) + 1}
         /\ Len(server) + 1 \notin DOMAIN server
         /\ DOMAIN server' = 1 .. Len(server')
         /\ PoolTypeOK'
         /\ \A u \in AllThreads : u # t =>
              call'[u] = call[u] /\ (Closer(u)' <=> Closer(u))
<1>1. /\ DOMAIN peer = 1 .. Len(peer) /\ Len(peer) \in Nat
      /\ DOMAIN server = 1 .. Len(server) /\ Len(server) \in Nat
  BY PoolDomains
<1>2. DOMAIN peer' = 1 .. l /\ l = Len(peer) + 1 /\ Len(peer') = l
  BY DEF Grows, GrowsPeers
<1>3. /\ DOMAIN server' = 1 .. Len(server')
      /\ Len(server') \in {Len(server), Len(server) + 1}
  BY DEF Grows, GrowsServers
<1>4. /\ DOMAIN peer' = DOMAIN peer \cup {l} /\ l \notin DOMAIN peer /\ l # 0
      /\ 1 .. Len(peer) \subseteq 1 .. Len(peer')
      /\ 0 .. Len(peer) \subseteq 0 .. Len(peer')
  <2> PICK n \in Nat : n = Len(peer)
    BY <1>1
  <2>1. DOMAIN peer = 1 .. n /\ DOMAIN peer' = 1 .. n + 1 /\ l = n + 1
    BY <1>1, <1>2
  <2> QED BY <1>2, <2>1
<1>5. /\ DOMAIN server \subseteq DOMAIN server'
      /\ DOMAIN server' \subseteq DOMAIN server \cup {Len(server) + 1}
      /\ Len(server) + 1 \notin DOMAIN server
  <2> PICK m \in Nat : m = Len(server)
    BY <1>1, Zenon
  <2>1. /\ DOMAIN server = 1 .. m
        /\ DOMAIN server' = 1 .. m \/ DOMAIN server' = 1 .. m + 1
    BY <1>1, <1>3, Zenon
  <2> QED BY <2>1
<1>6. PoolTypeOK'
  <2>1. passive' \in Seq(1 .. Len(peer'))
          /\ proactive' \in Seq(1 .. Len(peer'))
    <3>1. /\ passive' \in Seq(1 .. Len(peer))
               /\ proactive' \in Seq(1 .. Len(peer))
      BY DEF PoolTypeOK, Grows, GrowsPeers
    <3> QED BY <1>4, <3>1
  <2>2. clients' \in [Cookies -> 0 .. Len(peer')]
    <3>1. clients' \in [Cookies -> 0 .. Len(peer)]
      BY DEF PoolTypeOK, Grows, GrowsPeers
    <3> PICK A, B : A = 0 .. Len(peer) /\ B = 0 .. Len(peer')
      OBVIOUS
    <3> QED BY <1>4, <3>1
  <2>3. /\ call' \in [AllThreads -> PoolCaller]
        /\ peer' \in Seq(PoolPeer)
        /\ server' \in Seq(PoolServer) /\ servers' \subseteq DOMAIN server'
    <3>1. call' \in [AllThreads -> PoolCaller]
      BY Zenon DEF Grows, GrowsLocals, OnlyThread
    <3>2. peer' \in Seq(PoolPeer)
      BY Zenon DEF Grows, GrowsPeers
    <3>3. server' \in Seq(PoolServer) /\ servers' \subseteq DOMAIN server'
      BY Zenon DEF Grows, GrowsServers
    <3> QED BY <3>1, <3>2, <3>3
  <2>4. servers' \subseteq 1 .. Len(server')
    BY <1>3, <2>3, Zenon
  <2> QED BY <2>1, <2>2, <2>3, <2>4 DEF PoolTypeOK
<1>7. \A u \in AllThreads : u # t =>
        call'[u] = call[u] /\ (Closer(u)' <=> Closer(u))
  BY DEF Grows, GrowsLocals, OnlyThread, Closer
<1> QED BY <1>3, <1>4, <1>5, <1>6, <1>7, Zenon

(* Nothing refers to the new peer, nor to a new server.                      *)
LEMMA GrowsFresh ==
  ASSUME PoolTypeOK, PoolInRange, NEW t \in AllThreads, NEW l \in Nat,
           Grows(t, l)
  PROVE  /\ Nowhere(l)' /\ ~Listed(l)' /\ ~Registered(l)'
         /\ \A u \in AllThreads :
              /\ call[u].peer # l /\ call[u].listen # l
              /\ call[u].srv # Len(server) + 1
         /\ \A s \in DOMAIN server : server[s].sp # l
         /\ \A q \in DOMAIN peer : peer[q].srv # Len(server) + 1
<1>1. /\ \A i \in DOMAIN passive : passive[i] \in DOMAIN peer
      /\ \A i \in DOMAIN proactive : proactive[i] \in DOMAIN peer
      /\ \A c \in Cookies : clients[c] \in 0 .. Len(peer)
      /\ l \notin DOMAIN peer /\ l \notin 0 .. Len(peer)
      /\ Len(server) + 1 \notin 0 .. Len(server)
  BY PoolDomains DEF PoolTypeOK, Grows, GrowsPeers
<1>2. ~Listed(l)' /\ ~Registered(l)'
  BY <1>1 DEF Listed, Registered, Grows, GrowsPeers
<1>3. ASSUME NEW s \in DOMAIN server'
      PROVE  l \notin server'[s].peers \cup server'[s].pending
  <2>1. CASE s \in DOMAIN server
    <3>1. server'[s] = server[s]
      BY <2>1 DEF Grows, GrowsServers
    <3>2. server[s].peers \cup server[s].pending \subseteq DOMAIN peer
      BY <2>1 DEF PoolInRange
    <3> QED BY <1>1, <3>1, <3>2
  <2>2. CASE s \notin DOMAIN server
    BY <2>2 DEF Grows, GrowsServers
  <2> QED BY <2>1, <2>2
<1>4. /\ \A u \in AllThreads :
           /\ call[u].peer # l /\ call[u].listen # l
           /\ call[u].srv # Len(server) + 1
      /\ \A s \in DOMAIN server : server[s].sp # l
      /\ \A q \in DOMAIN peer : peer[q].srv # Len(server) + 1
  BY <1>1 DEF PoolInRange
<1> QED BY <1>2, <1>3, <1>4 DEF Nowhere

(* ... every reference stays in range, ...                                   *)
LEMMA GrowsRange ==
  ASSUME PoolTypeOK, PoolInRange, NEW t \in AllThreads, NEW l \in Nat,
           Grows(t, l)
  PROVE  PoolInRange'
<1> PICK n \in Nat : n = Len(peer)
  BY PoolDomains, Zenon
<1> PICK m \in Nat : m = Len(server)
  BY PoolDomains
<1> PICK k \in Nat : k = Len(server')
  BY DEF Grows, GrowsServers
<1>1. /\ DOMAIN peer = 1 .. n /\ DOMAIN server = 1 .. m
      /\ DOMAIN peer' = 1 .. n + 1 /\ DOMAIN server' = 1 .. k
      /\ l = n + 1 /\ Len(peer') = n + 1 /\ k \in {m, m + 1}
  <2>1. DOMAIN peer = 1 .. n /\ DOMAIN server = 1 .. m
    BY PoolDomains
  <2>2. l = n + 1 /\ Len(peer') = n + 1 /\ DOMAIN peer' = 1 .. n + 1
    BY DEF Grows, GrowsPeers
  <2>3. k \in {m, m + 1} /\ DOMAIN server' = 1 .. k
    BY DEF Grows, GrowsServers
  <2> QED BY <2>1, <2>2, <2>3
<1>2. \A q \in DOMAIN peer' : peer'[q].srv \in 0 .. Len(server')
  <2>1. \A q \in DOMAIN peer : peer'[q].srv \in 0 .. m
    BY DEF PoolInRange, Grows, GrowsPeers
  <2>2. peer'[l].srv \in 0 .. k
    BY DEF Grows, GrowsPeers
  <2> QED BY <1>1, <2>1, <2>2
<1>3. \A s \in DOMAIN server' :
        /\ server'[s].sp \in DOMAIN peer'
        /\ server'[s].peers \cup server'[s].pending \subseteq DOMAIN peer'
  <2>1. ASSUME NEW s \in DOMAIN server
        PROVE  /\ server'[s].sp \in DOMAIN peer
               /\ server'[s].peers \cup server'[s].pending \subseteq DOMAIN peer
    BY DEF PoolInRange, Grows, GrowsServers
  <2>2. ASSUME NEW s \in DOMAIN server' \ DOMAIN server
        PROVE  server'[s].sp = l /\ server'[s].peers = {}
                 /\ server'[s].pending = {}
    BY DEF Grows, GrowsServers
  <2>3. DOMAIN peer' = DOMAIN peer \cup {l}
    BY GrowsDomains
  <2> QED BY <2>1, <2>2, <2>3
<1>4. ASSUME NEW u \in AllThreads
      PROVE  /\ call'[u].srv \in 0 .. Len(server')
             /\ call'[u].listen \in 0 .. Len(peer')
             /\ call'[u].peer \in 0 .. Len(peer')
  <2>1. /\ call[u].srv \in 0 .. m /\ call[u].listen \in 0 .. n
        /\ call[u].peer \in 0 .. n
    BY DEF PoolInRange
  <2>2. CASE u # t
    BY <1>1, <2>1, <2>2 DEF Grows, GrowsLocals, OnlyThread
  <2>3. CASE u = t
    <3>1. /\ call'[u].srv \in {call[u].srv, k}
          /\ call'[u].listen \in {call[u].listen, l}
          /\ call'[u].peer \in {0, l}
      BY <2>3 DEF Grows, GrowsLocals
    <3>2. /\ call[u].srv \in 0 .. k /\ k \in 0 .. k
          /\ call[u].listen \in 0 .. n + 1 /\ l \in 0 .. n + 1
               /\ 0 \in 0 .. n + 1
      BY <1>1, <2>1
    <3> QED BY <1>1, <3>1, <3>2
  <2> QED BY <2>2, <2>3
<1> QED BY <1>2, <1>3, <1>4 DEF PoolInRange

(* ... the locals of the other threads stay in line with their places, ...   *)
LEMMA GrowsThreads ==
  ASSUME PoolInv, NEW t \in AllThreads, NEW l \in Nat, Grows(t, l)
  PROVE  \A u \in AllThreads : u # t => ThreadFits(u)'
<1>1. PoolTypeOK /\ PoolInRange
  BY DEF PoolInv
<1>2. ASSUME NEW u \in AllThreads, u # t PROVE ThreadFits(u)'
  <2>1. ThreadFits(u) /\ call'[u] = call[u] /\ (Closer(u)' <=> Closer(u))
    BY <1>1, <1>2, GrowsDomains DEF PoolInv
  <2>2. Closer(u) => call[u].srv \notin servers'
    <3>1. Closer(u) => call[u].srv \in DOMAIN server
      BY <1>1, <2>1, PoolDomains DEF ThreadFits, PoolInRange
    <3> QED BY <2>1, <3>1 DEF ThreadFits, Grows, GrowsServers
  <2>3. ASSUME NEW v \in AllThreads, Closer(v)', Closer(u)',
               call'[v].srv = call'[u].srv
        PROVE  v = u
    <3>1. v # t
      BY <2>3 DEF Grows, GrowsLocals
    <3>2. Closer(v) /\ call'[v] = call[v]
      BY <1>1, <2>3, <3>1, GrowsDomains
    <3> QED BY <2>1, <2>3, <3>2 DEF ThreadFits
  <2> QED BY <2>1, <2>2, <2>3 DEF ThreadFits
<1> QED BY <1>2

(* ... and so do those that have not joined.                                 *)
LEMMA GrowsJoins ==
  ASSUME PoolInv, NEW t \in AllThreads, NEW l \in Nat, Grows(t, l)
  PROVE  \A u \in AllThreads : u # t => JoinFits(u)' /\ ListenFits(u)'
<1>1. PoolTypeOK /\ PoolInRange
  BY DEF PoolInv
<1>2. ASSUME NEW u \in AllThreads, u # t, call'[u].at = "join"
      PROVE  JoinFits(u)'
  <2> PICK s \in Nat, k \in Nat : s = call[u].srv /\ k = call[u].listen
    BY <1>1, CallerFields
  <2>1. call'[u] = call[u]
    BY <1>1, <1>2, GrowsDomains
  <2>2. /\ s \in servers /\ s \in DOMAIN server /\ server[s].sp = k
        /\ server[s].peers = {} /\ server[s].pending = {}
        /\ \A p \in DOMAIN peer : p # k => peer[p].srv # s
        /\ \A v \in AllThreads : v # u =>
             call[v].srv # s /\ call[v].listen # k
    BY <1>1, <1>2, <2>1, PoolDomains DEF PoolInv, JoinFits, PoolTypeOK
  <2>3. s # 0 /\ s # Len(server) + 1 /\ k # l
    BY <1>1, <2>2, GrowsFresh, PoolDomains
  <2>4. server'[s] = server[s] /\ s \in servers'
    BY <2>2 DEF Grows, GrowsServers
  <2>5. ASSUME NEW p \in DOMAIN peer', p # k PROVE peer'[p].srv # s
    <3>1. CASE p = l
      BY <2>3, <3>1 DEF Grows, GrowsPeers
    <3>2. CASE p \in DOMAIN peer
      BY <2>2, <2>5, <3>2 DEF Grows, GrowsPeers
    <3> QED BY <1>1, <2>5, <3>1, <3>2, GrowsDomains
  <2>6. ASSUME NEW v \in AllThreads, v # u
        PROVE  call'[v].srv # s /\ call'[v].listen # k
    <3>1. CASE v # t
      <4>1. call'[v] = call[v]
        BY <1>1, <3>1, GrowsDomains
      <4> QED BY <2>2, <2>6, <4>1
    <3>2. CASE v = t
      BY <2>2, <2>3, <2>6, <3>2 DEF Grows, GrowsLocals
    <3> QED BY <3>1, <3>2
  <2> QED BY <2>1, <2>2, <2>4, <2>5, <2>6 DEF JoinFits
<1>3. ASSUME NEW u \in AllThreads, u # t PROVE ListenFits(u)'
  <2>1. call'[u] = call[u] /\ ListenFits(u)
    BY <1>1, <1>3, GrowsDomains DEF PoolInv
  <2>2. call[u].listen # 0 => call[u].listen \in DOMAIN peer
    BY <1>1, PoolDomains DEF PoolInRange
  <2> QED BY <2>1, <2>2 DEF ListenFits, Grows, GrowsPeers
<1> QED BY <1>2, <1>3 DEF JoinFits

(* Nothing changes about the other peers, ...                                *)
LEMMA GrowsStill ==
  ASSUME PoolInv, HistoryStep, NEW t \in AllThreads, NEW l \in Nat,
         Grows(t, l), NEW q \in DOMAIN peer, q \in Known'
  PROVE  Still(q) /\ q \in Known /\ q # l /\ (Taken(q)' <=> Taken(q))
<1>1. PoolTypeOK /\ PoolInRange
  BY DEF PoolInv
<1>2. /\ peer'[q] = peer[q] /\ q # l /\ q # 0
      /\ UNCHANGED <<passive, proactive, clients, abandoned>>
  BY <1>1, GrowsDomains, PoolDomains DEF Grows, GrowsPeers
<1>3. q \in Known
  BY <1>1, <1>2, KnownBack
<1>4. /\ Listed(q)' <=> Listed(q)
      /\ ListedOnce(q) => ListedOnce(q)'
  BY <1>2 DEF Listed, ListedOnce
<1>5. /\ DOMAIN server \subseteq DOMAIN server'
      /\ \A s \in DOMAIN server : server'[s] = server[s]
      /\ \A s \in DOMAIN server' \ DOMAIN server :
           server'[s].peers = {} /\ server'[s].pending = {}
  BY <1>1, GrowsDomains DEF Grows, GrowsServers
<1>6. \A s \in DOMAIN server' :
        /\ q \in server'[s].peers <=> s \in DOMAIN server
             /\ q \in server[s].peers
        /\ q \in server'[s].pending <=> s \in DOMAIN server
             /\ q \in server[s].pending
  BY <1>5
<1>7. \A s : /\ Serves(s, q)' <=> Serves(s, q)
             /\ Awaits(s, q)' <=> Awaits(s, q)
  BY <1>5 DEF Serves, Awaits
<1>8. Still(q)
  BY <1>2, <1>4, <1>5, <1>6, <1>7 DEF Still
<1>9. Taken(q)' <=> Taken(q)
  <2>1. call'[t].peer # q
    BY <1>2 DEF Grows, GrowsLocals
  <2>2. \A u \in AllThreads : u # t => call'[u] = call[u]
    BY DEF Grows, GrowsLocals, OnlyThread
  <2>3. call[t].peer # q
    BY <1>2 DEF Grows, GrowsLocals
  <2> QED BY <2>1, <2>2, <2>3 DEF Taken
<1> QED BY <1>2, <1>3, <1>8, <1>9

(* ... which stay where the threads that handle them have brought them.      *)
LEMMA GrowsPhases ==
  ASSUME PoolInv, HistoryStep, NEW t \in AllThreads, NEW l \in Nat,
         Grows(t, l), NEW w \in AllThreads, w # t,
         call'[w].peer \in Known'
  PROVE  PhaseFits(w)'
<1> PICK q : q = call[w].peer
  OBVIOUS
<1>1. PoolTypeOK /\ PoolInRange /\ ThreadFits(w)
  BY DEF PoolInv
<1>2. /\ call'[w] = call[w] /\ q \in Known' /\ q # l
      /\ DOMAIN peer' = DOMAIN peer \cup {l}
  BY <1>1, GrowsDomains, GrowsFresh
<1>3. q \in DOMAIN peer
  BY <1>2 DEF Known
<1>4. Still(q) /\ q \in Known
  BY <1>2, <1>3, GrowsStill
<1>5. PhaseFits(w)
  BY <1>4 DEF PoolInv
<1>6. call[w].at = "closeItem" => call[w].srv \in DOMAIN server
  BY <1>1, PoolDomains DEF ThreadFits, PoolInRange
<1>7. ASSUME call[w].at \in Serving PROVE Resolved(w)' <=> Resolved(w)
  <2>1. call[w].listen \in DOMAIN peer
    BY <1>1, <1>7, PoolDomains DEF ThreadFits, PoolInRange
  <2> QED BY <1>2, <2>1 DEF Resolved, Grows, GrowsPeers
<1> QED BY <1>2, <1>4, <1>5, <1>6, <1>7, StillPhases

(* Who closes a server leaves no peer behind.                                *)
LEMMA GrowsClosers ==
  ASSUME PoolInv, HistoryStep, NEW t \in AllThreads, NEW l \in Nat,
         Grows(t, l), NEW u \in AllThreads
  PROVE  CloserFits(u)'
<1>1. PoolTypeOK /\ PoolInRange
  BY DEF PoolInv
<1>2. SUFFICES ASSUME Closer(u)' PROVE CloserFits(u)'
  BY DEF CloserFits
<1>3. u # t
  BY <1>2 DEF Grows, GrowsLocals
<1>4. call'[u] = call[u] /\ Closer(u)
  BY <1>1, <1>2, <1>3, GrowsDomains
<1> PICK s : s = call[u].srv
  OBVIOUS
<1>5. s \in DOMAIN server
  BY <1>4, CloserServer
<1>6. /\ server'[s] = server[s]
      /\ server[s].peers \subseteq DOMAIN peer
           /\ server[s].pending \subseteq DOMAIN peer
  BY <1>1, <1>5 DEF Grows, GrowsServers, PoolInRange
<1>7. /\ server[s].peers \cap Known' \subseteq Known
      /\ server[s].pending \cap Known' \subseteq Known
  BY <1>6, GrowsStill
<1>8. CloserFits(u)
  BY DEF PoolInv
<1> QED BY <1>4, <1>6, <1>7, <1>8 DEF CloserFits

(* The other listening peers stay with their servers.                        *)
LEMMA GrowsListeners ==
  ASSUME PoolInv, NEW t \in AllThreads, NEW l \in Nat, Grows(t, l),
         NEW q \in DOMAIN peer
  PROVE  ListenerFits(q)'
<1>1. PoolTypeOK /\ PoolInRange
  BY DEF PoolInv
<1>2. /\ peer'[q] = peer[q] /\ q # l /\ q # 0
      /\ UNCHANGED <<passive, proactive, clients>>
  BY <1>1, GrowsDomains, PoolDomains DEF Grows, GrowsPeers
<1>3. SUFFICES ASSUME peer[q].isServer PROVE ListenerFits(q)'
  BY <1>2 DEF ListenerFits
<1> PICK s : s = peer[q].srv
  OBVIOUS
<1>4. /\ ListenerFits(q) /\ s \in DOMAIN server
  BY <1>3, ListenerFacts DEF PoolInv
<1>5. server'[s] = server[s]
  BY <1>4 DEF Grows, GrowsServers
<1>6. ASSUME NEW r \in DOMAIN server'
      PROVE  q \notin server'[r].peers \cup server'[r].pending
  <2>1. CASE r \in DOMAIN server
    BY <1>3, <1>4, <2>1 DEF ListenerFits, Grows, GrowsServers
  <2>2. CASE r \notin DOMAIN server
    BY <1>6, <2>2 DEF Grows, GrowsServers
  <2> QED BY <2>1, <2>2
<1>7. ASSUME NEW u \in AllThreads, call'[u].peer = q
      PROVE  call'[u] = call[u]
  <2>1. u # t
    BY <1>2, <1>7 DEF Grows, GrowsLocals
  <2> QED BY <1>1, <2>1, GrowsDomains
<1> QED BY <1>2, <1>3, <1>4, <1>5, <1>6, <1>7 DEF ListenerFits

(* A new server is listed, and its peer listens.                             *)
LEMMA GrowsServersFit ==
  ASSUME PoolInv, NEW t \in AllThreads, NEW l \in Nat, Grows(t, l),
         NEW s \in DOMAIN server'
  PROVE  ServerFits(s)'
<1>1. PoolTypeOK /\ PoolInRange
  BY DEF PoolInv
<1>2. /\ DOMAIN server' \subseteq DOMAIN server \cup {Len(server) + 1}
      /\ \A r \in DOMAIN server : server'[r] = server[r] /\ server[r].sp # l
      /\ \A r \in DOMAIN server' \ DOMAIN server : server'[r].sp = l
  BY <1>1, GrowsDomains, GrowsFresh DEF Grows, GrowsServers
<1>3. ASSUME NEW r \in DOMAIN server', server'[r].sp = server'[s].sp
               PROVE r = s
  <2>1. CASE r \in DOMAIN server /\ s \in DOMAIN server
    <3>1. ServerFits(s)
      BY <2>1 DEF PoolInv
    <3> QED BY <1>2, <1>3, <2>1, <3>1 DEF ServerFits
  <2>2. CASE ~(r \in DOMAIN server /\ s \in DOMAIN server)
    BY <1>2, <1>3, <2>2
  <2> QED BY <2>1, <2>2
<1>4. ASSUME NEW u \in AllThreads, Closer(u)'
      PROVE  call'[u] = call[u] /\ Closer(u) /\ call[u].srv \in DOMAIN server
  <2>1. u # t
    BY <1>4 DEF Grows, GrowsLocals
  <2>2. call'[u] = call[u] /\ Closer(u)
    BY <1>1, <1>4, <2>1, GrowsDomains
  <2> QED BY <2>2, CloserServer
<1>5. CASE s \in DOMAIN server
  <2>1. ServerFits(s)
    BY <1>5 DEF PoolInv
  <2>2. /\ server'[s] = server[s] /\ (s \in servers' <=> s \in servers)
        /\ server[s].sp \in DOMAIN peer
    BY <1>1, <1>5 DEF Grows, GrowsServers, PoolInRange
  <2>3. peer'[server[s].sp] = peer[server[s].sp]
    BY <2>2 DEF Grows, GrowsPeers
  <2>4. ASSUME server[s].alive, s \notin servers
        PROVE  \E u \in AllThreads : Closer(u)' /\ call'[u].srv = s
    <3>1. PICK u \in AllThreads : Closer(u) /\ call[u].srv = s
      BY <2>1, <2>4 DEF ServerFits
    <3>2. u # t
      BY <3>1 DEF Grows, GrowsLocals
    <3> QED BY <1>1, <3>1, <3>2, GrowsDomains
  <2> QED BY <1>3, <1>4, <2>1, <2>2, <2>3, <2>4 DEF ServerFits
<1>6. CASE s \notin DOMAIN server
  <2>1. /\ server'[s].sp = l /\ s \in servers' /\ server'[s].alive
        /\ server'[s].running /\ peer'[l].isServer
    BY <1>6 DEF Grows, GrowsServers
  <2>2. \A u \in AllThreads : Closer(u)' => call'[u].srv # s
    BY <1>4, <1>6
  <2> QED BY <1>3, <2>1, <2>2 DEF ServerFits
<1> QED BY <1>5, <1>6

(* So only the new peer and the locals of the thread are left to consider.   *)
LEMMA GrowsStep ==
  ASSUME PoolInv, HistoryStep, NEW t \in AllThreads, NEW l \in Nat,
         Grows(t, l), ThreadFits(t)', JoinFits(t)', ListenFits(t)',
         ListenerFits(l)', l \in Known' => Stands(l)',
         l \in Known' /\ call'[t].peer = l => PhaseFits(t)'
  PROVE  PoolInv'
<1>1. PoolTypeOK /\ PoolInRange
  BY DEF PoolInv
<1>2. /\ PoolTypeOK' /\ DOMAIN peer' = DOMAIN peer \cup {l}
      /\ 0 \notin DOMAIN peer'
  <2>1. PoolTypeOK' /\ DOMAIN peer' = DOMAIN peer \cup {l} /\ l # 0
    BY <1>1, GrowsDomains
  <2> QED BY <1>1, <2>1, PoolDomains
<1>3. HistoryFits' /\ PoolInRange'
  BY <1>1, <1>2, HistoryKept, GrowsRange
<1>4. \A u \in AllThreads :
        ThreadFits(u)' /\ JoinFits(u)' /\ ListenFits(u)' /\ CloserFits(u)'
  BY GrowsThreads, GrowsJoins, GrowsClosers
<1>5. \A q \in DOMAIN peer' : ListenerFits(q)'
  BY <1>2, GrowsListeners
<1>6. \A s \in DOMAIN server' : ServerFits(s)'
  BY GrowsServersFit
<1>7. ASSUME NEW q \in Known'
      PROVE  PlaceFits(q)' /\ (Taken(q)' \/ OperationFits(q)')
  <2>1. CASE q = l
    BY <1>7, <2>1 DEF Stands
  <2>2. CASE q # l
    <3>1. q \in DOMAIN peer
      BY <1>2, <1>7, <2>2 DEF Known
    <3>2. Still(q) /\ q \in Known /\ (Taken(q)' <=> Taken(q))
      BY <1>7, <3>1, GrowsStill
    <3>3. PlaceFits(q) /\ (Taken(q) \/ OperationFits(q))
      BY <3>2 DEF PoolInv
    <3> QED BY <3>2, <3>3, StillPlaces
  <2> QED BY <2>1, <2>2
<1>8. ASSUME NEW w \in AllThreads, call'[w].peer \in Known'
      PROVE  PhaseFits(w)'
  <2>1. CASE w # t
    BY <1>8, <2>1, GrowsPhases
  <2>2. CASE w = t
    <3>1. call'[t].peer \in {0, l}
      BY DEF Grows, GrowsLocals
    <3>2. call'[t].peer # 0
      BY <1>2, <1>8, <2>2 DEF Known
    <3> QED BY <1>8, <2>2, <3>1, <3>2
  <2> QED BY <2>1, <2>2
<1> QED BY <1>2, <1>3, <1>4, <1>5, <1>6, <1>7, <1>8 DEF PoolInv

(* What Append() does.                                                       *)
LEMMA Appended ==
  ASSUME NEW S, NEW q \in Seq(S), NEW x \in S, NEW r, r = Append(q, x)
  PROVE  /\ r \in Seq(S) /\ Len(r) = Len(q) + 1 /\ r[Len(q) + 1] = x
         /\ \A i \in DOMAIN q : r[i] = q[i]
         /\ DOMAIN r = DOMAIN q \cup {Len(q) + 1}
              /\ Len(q) + 1 \notin DOMAIN q
OBVIOUS

(* AcquirePeer() creates a peer, which is blank and nowhere.                 *)
LEMMA AcquireNewStep ==
  ASSUME PoolInv, HistoryStep, NEW t \in AllThreads, AcquireNew(t)
  PROVE  PoolInv'
<1> PICK l : l = Len(peer) + 1
  OBVIOUS
<1> PICK r : r = NewPeer
  OBVIOUS
<1>1. /\ PoolTypeOK /\ PoolInRange /\ call[t].at = "proactive"
      /\ UNCHANGED <<passive, proactive, clients, servers, server, abandoned>>
      /\ peer' = Append(peer, r)
      /\ call' = [call EXCEPT ![t].peer = l, ![t].at = "create"]
  BY Zenon DEF PoolInv, AcquireNew, At, lists, tables,
               history
<1>2. l \in Nat /\ l # 0
  <2>1. Len(peer) \in Nat
    BY <1>1, PoolDomains
  <2> QED BY <2>1
<1>3. /\ r \in PoolPeer /\ ~r.isServer /\ r.id = 0 /\ r.srv = 0
      /\ r.flag = "none" /\ r.op = "none"
  BY DEF NewPeer, None, PoolPeer
<1>4. /\ peer' \in Seq(PoolPeer) /\ Len(peer') = l /\ peer'[l] = r
      /\ \A q \in DOMAIN peer : peer'[q] = peer[q]
  <2>1. peer \in Seq(PoolPeer)
    BY <1>1 DEF PoolTypeOK
  <2> QED BY <1>1, <1>3, <2>1, Appended
<1>5. /\ OnlyThread(t) /\ call'[t].at = "create" /\ call'[t].peer = l
      /\ call'[t].srv = call[t].srv
      /\ call'[t].listen = call[t].listen
      /\ call'[t].then = call[t].then
  <2>1. call \in [AllThreads -> PoolCaller] /\ call[t] \in PoolCaller
    BY <1>1, CallType
  <2> DEFINE c == [call[t] EXCEPT !.peer = l, !.at = "create"]
  <2>2. /\ c \in PoolCaller /\ c.at = "create" /\ c.peer = l
        /\ c.srv = call[t].srv /\ c.listen = call[t].listen
        /\ c.then = call[t].then
    BY <1>2, <2>1 DEF PoolCaller, Working
  <2>3. call' = [call EXCEPT ![t] = c]
    BY <1>1, <2>1
  <2> HIDE DEF c
  <2> QED BY <2>1, <2>2, <2>3 DEF OnlyThread
<1>6. /\ ThreadFits(t) /\ ListenFits(t) /\ call[t].peer = 0
      /\ ~Closer(t) /\ ~Closer(t)'
  <2>1. ThreadFits(t) /\ ListenFits(t)
    BY DEF PoolInv
  <2>2. call[t].peer = 0 /\ ~Closer(t)
    BY <1>1, <2>1 DEF ThreadFits, Resting, Closing, Closes
  <2> QED BY <1>5, <2>1, <2>2 DEF Closer, Closing
<1>7. Grows(t, l)
  <2>1. GrowsPeers(l)
    <3>1. 0 \in 0 .. Len(server')
      BY <1>1, PoolDomains
    <3> QED BY <1>1, <1>3, <1>4, <3>1 DEF GrowsPeers
  <2>2. GrowsServers(l)
    BY <1>1, PoolDomains DEF GrowsServers, PoolTypeOK
  <2>3. GrowsLocals(t, l)
    BY <1>1, <1>5, <1>6 DEF GrowsLocals
  <2> QED BY <2>1, <2>2, <2>3 DEF Grows
<1>8. Nowhere(l)' /\ Taken(l)'
  BY <1>1, <1>2, <1>5, <1>7, GrowsFresh DEF Taken
<1>9. ThreadFits(t)'
  BY <1>2, <1>5, <1>6 DEF ThreadFits, Resting, Serving
<1>10. JoinFits(t)' /\ ListenFits(t)'
  <2>1. call[t].listen # 0 => call[t].listen \in DOMAIN peer
    BY <1>1, PoolDomains DEF PoolInRange
  <2> QED BY <1>4, <1>5, <1>6, <2>1 DEF JoinFits, ListenFits
<1>11. ListenerFits(l)'
  BY <1>3, <1>4 DEF ListenerFits
<1>12. Stands(l)'
  BY <1>2, <1>8, NowhereStands
<1>13. PhaseFits(t)'
  BY <1>3, <1>4, <1>5, <1>8 DEF PhaseFits, Blank, Closes
<1> QED BY <1>2, <1>7, <1>9, <1>10, <1>11, <1>12, <1>13, GrowsStep

(* Listen() creates a server and its listening peer, which nobody else       *)
(* knows.                                                                    *)
LEMMA ListenStep ==
  ASSUME ConstantsAllowed, PoolInv, HistoryStep, NEW t \in AllThreads,
           Listen(t)
  PROVE  PoolInv'
<1> PICK l : l = Len(peer) + 1
  OBVIOUS
<1> PICK s : s = Len(server) + 1
  OBVIOUS
<1> DEFINE r == [NewPeer EXCEPT !.sock = TRUE, !.isServer = TRUE, !.id = s,
                                     !.srv = s]
           v == [alive |-> TRUE, running |-> TRUE, sp |-> l, peers |-> {},
                 pending |-> {}, lock |-> [peers |-> 0, pending |-> 0]]
<1>1. /\ PoolTypeOK /\ PoolInRange /\ call[t].at = "idle"
      /\ UNCHANGED <<passive, proactive, clients, abandoned>>
      /\ peer' = Append(peer, r) /\ server' = Append(server, v)
      /\ servers' = servers \cup {s}
      /\ call' = [call EXCEPT ![t].at = "join", ![t].srv = s, ![t].listen = l,
                                      ![t].more = Accepts]
  BY Zenon DEF PoolInv, Listen, At, None, lists, history
<1>2. l \in Nat /\ l # 0 /\ s \in Nat /\ s # 0 /\ Len(server) \in Nat
  <2>1. Len(peer) \in Nat /\ Len(server) \in Nat
    BY <1>1, PoolDomains
  <2> QED BY <2>1
<1>3. /\ r \in PoolPeer /\ r.isServer /\ r.id = s /\ r.srv = s
           /\ r.op = "none"
  BY <1>2 DEF NewPeer, None, PoolPeer
<1>4. /\ v \in PoolServer /\ v.alive /\ v.running /\ v.sp = l /\ v.peers = {}
      /\ v.pending = {}
  BY <1>2 DEF PoolServer
<1> HIDE DEF r, v
<1>5. /\ peer' \in Seq(PoolPeer) /\ Len(peer') = l /\ peer'[l] = r
      /\ \A q \in DOMAIN peer : peer'[q] = peer[q]
      /\ DOMAIN peer' = DOMAIN peer \cup {l}
  <2>1. peer \in Seq(PoolPeer)
    BY <1>1 DEF PoolTypeOK
  <2> QED BY <1>1, <1>3, <2>1, Appended
<1>6. /\ server' \in Seq(PoolServer) /\ Len(server') = s /\ server'[s] = v
      /\ \A x \in DOMAIN server : server'[x] = server[x]
      /\ DOMAIN server' = DOMAIN server \cup {s} /\ s \notin DOMAIN server
  <2>1. server \in Seq(PoolServer)
    BY <1>1 DEF PoolTypeOK
  <2> QED BY <1>1, <1>4, <2>1, Appended
<1>7. /\ OnlyThread(t) /\ call'[t].at = "join" /\ call'[t].peer = 0
      /\ call'[t].srv = s /\ call'[t].listen = l
      /\ call'[t].then = "idle"
  <2>1. /\ call \in [AllThreads -> PoolCaller] /\ call[t] \in PoolCaller
        /\ call[t].peer = 0 /\ call[t].then = "idle"
    BY <1>1, CallType, IdleThread
  <2> PICK k \in PoolCaller : k = call[t]
    BY <2>1
  <2> DEFINE b == [k EXCEPT !.at = "join", !.srv = s]
             c == [b EXCEPT !.listen = l, !.more = Accepts]
  <2>2. /\ b \in PoolCaller /\ b.at = "join" /\ b.peer = k.peer /\ b.srv = s
        /\ b.then = k.then
    BY <1>2 DEF PoolCaller, Resting
  <2>3. c = [k EXCEPT !.at = "join", !.srv = s, !.listen = l,
          !.more = Accepts]
    BY DEF PoolCaller
  <2> HIDE DEF b
  <2>4. /\ c \in PoolCaller /\ c.at = "join" /\ c.peer = k.peer /\ c.srv = s
        /\ c.then = k.then /\ c.listen = l
    <3>1. Accepts \in Int
      BY DEF ConstantsAllowed
    <3> PICK d : d = [b EXCEPT !.listen = l]
      OBVIOUS
    <3>2. /\ d \in PoolCaller /\ d.at = b.at /\ d.peer = b.peer
               /\ d.srv = b.srv
          /\ d.then = b.then /\ d.listen = l
      BY <1>2, <2>2 DEF PoolCaller
    <3>3. c = [d EXCEPT !.more = Accepts]
      BY <2>2 DEF PoolCaller
    <3> QED BY <2>2, <3>1, <3>2, <3>3 DEF PoolCaller
  <2>5. call' = [call EXCEPT ![t] = c]
    BY <1>1, <2>1, <2>3
  <2> HIDE DEF c
  <2> QED BY <2>1, <2>4, <2>5 DEF OnlyThread
<1>8. /\ call[t].peer = 0 /\ ~Closer(t) /\ ~Closer(t)'
      /\ call[t].at # "join"
  <2>1. call[t].peer = 0 /\ ~Closer(t)
    BY <1>1, IdleThread
  <2> QED BY <1>1, <1>7, <2>1 DEF Closer, Closing
<1>9. Grows(t, l)
  <2>1. GrowsPeers(l)
    <3>1. s \in 0 .. Len(server')
      BY <1>2, <1>6
    <3> QED BY <1>1, <1>3, <1>5, <3>1 DEF GrowsPeers
  <2>2. GrowsServers(l)
    <3>1. servers \subseteq DOMAIN server
      BY <1>1, PoolDomains DEF PoolTypeOK
    <3> QED BY <1>1, <1>3, <1>4, <1>5, <1>6, <3>1 DEF GrowsServers
  <2>3. GrowsLocals(t, l)
    BY <1>6, <1>7, <1>8 DEF GrowsLocals
  <2> QED BY <2>1, <2>2, <2>3 DEF Grows
<1>10. /\ Nowhere(l)' /\ ~Listed(l)' /\ ~Registered(l)'
       /\ \A u \in AllThreads :
            call[u].peer # l /\ call[u].listen # l /\ call[u].srv # s
       /\ \A q \in DOMAIN peer : peer[q].srv # s
  BY <1>1, <1>2, <1>9, GrowsFresh
<1>11. ThreadFits(t)'
  BY <1>2, <1>7, <1>8 DEF ThreadFits, Resting, Serving
<1>12. JoinFits(t)'
  <2>1. s \in servers' /\ server'[s].sp = l /\ server'[s].peers = {}
          /\ server'[s].pending = {}
    BY <1>1, <1>4, <1>6
  <2>2. \A q \in DOMAIN peer' : q # l => peer'[q].srv # s
    BY <1>5, <1>10
  <2>3. \A u \in AllThreads : u # t =>
          call'[u].srv # s /\ call'[u].listen # l
    BY <1>7, <1>10 DEF OnlyThread
  <2> QED BY <1>7, <2>1, <2>2, <2>3 DEF JoinFits
<1>13. ListenFits(t)'
  BY <1>3, <1>5, <1>7 DEF ListenFits
<1>14. ASSUME NEW u \in AllThreads PROVE call'[u].peer # l
  BY <1>2, <1>7, <1>10 DEF OnlyThread
<1>15. ListenerFits(l)'
  <2>1. server'[s].sp = l /\ server'[s].alive
    BY <1>4, <1>6
  <2>2. peer'[l].srv = s /\ peer'[l].id = s /\ peer'[l].op = "none"
    BY <1>3, <1>5
  <2> QED BY <1>2, <1>10, <1>14, <2>1, <2>2
          DEF ListenerFits, Nowhere, Listed, Registered
<1>16. Stands(l)'
  <2>1. ListedOnce(l)'
    BY <1>10 DEF Listed, ListedOnce
  <2>2. PlaceFits(l)'
    BY <1>3, <1>5, <1>10, <2>1 DEF PlaceFits, Nowhere, Registered
  <2>3. OperationFits(l)'
    BY <1>3, <1>5 DEF OperationFits
  <2> QED BY <2>2, <2>3 DEF Stands
<1> QED BY <1>2, <1>9, <1>11, <1>12, <1>13, <1>14, <1>15, <1>16, GrowsStep

-----------------------------------------------------------------------------
(* All the steps of a thread that is in a call, ...                          *)
LEMMA PoolSteps ==
  ASSUME ConstantsAllowed, PoolInv, HistoryStep, NEW t \in AllThreads, Step(t)
  PROVE  PoolInv'
<1>1. ASSUME AcquirePeer(t) PROVE PoolInv'
  BY <1>1, AcquirePassiveStep, AcquireProactiveStep, AcquireNewStep
     DEF AcquirePeer
<1>2. ASSUME Close(t) PROVE PoolInv'
  BY <1>2, CloseSocketStep, CloseListenerStep, BeginDisconnectStep DEF Close
<1>3. ASSUME Reclaim(t) PROVE PoolInv'
  BY <1>3, ReclaimServerStep, ReclaimAcceptedStep, ReclaimClientStep,
     AddsClosedStep DEF Reclaim
<1>4. ASSUME PostAccept(t) PROVE PoolInv'
  BY <1>4, CreateAcceptStep, CreateAcceptFailsStep, BeginAcceptStep,
     BeginAcceptFailsStep, AddPendingAcceptStep DEF PostAccept
<1>5. ASSUME Accept(t) PROVE PoolInv'
  BY <1>5, EndAcceptStep, EndAcceptReturnsStep, FinishFailedStep, AddPeerStep,
     WantedStep, UnwantedStep DEF Accept
<1>6. ASSUME Serve(t) PROVE PoolInv'
  BY <1>6, JoinStep, JoinFailsStep, StopStep, CloseAllStep, DeleteStep,
     RemovePeerStep DEF Serve
<1>7. ASSUME Client(t) PROVE PoolInv'
  BY <1>7, CreateClientStep, CreateClientFailsStep, AddClientStep,
     JoinClientFailsStep, ConnectsStep, BeginConnectFailsStep,
         ClientDestroysStep
     DEF Client
<1> QED BY <1>1, <1>2, <1>3, <1>4, <1>5, <1>6, <1>7 DEF Step

(* ... all that begin one, ...                                               *)
LEMMA PoolUsers ==
  ASSUME ConstantsAllowed, PoolInv, HistoryStep, NEW t \in Users, User(t)
  PROVE  PoolInv'
<1>1. t \in AllThreads
  BY DEF AllThreads
<1> QED
  BY <1>1, ListenStep, ConnectStep, CloseServerStep, CloseClientStep,
     CloseServerItemStep DEF User

(* ... and all completions keep the invariant, ...                           *)
LEMMA PoolCompletions ==
  ASSUME PoolInv, HistoryStep, NEW t \in IOThreads, ExecuteIO(t)
  PROVE  PoolInv'
<1>1. t \in AllThreads
  BY DEF AllThreads
<1>2. PICK p \in DOMAIN peer :
        \/ Accepted(t, p) \/ AcceptFailed(t, p) \/ TakeConnect(t, p)
        \/ TakeRead(t, p) \/ TakeDisconnect(t, p)
  BY DEF ExecuteIO
<1>3. ASSUME Accepted(t, p) \/ AcceptFailed(t, p) PROVE PoolInv'
  BY <1>1, <1>3, TakeAcceptStep DEF Accepted, AcceptFailed
<1>4. ASSUME TakeRead(t, p) PROVE PoolInv'
  BY <1>1, <1>4, TakesStep DEF TakeRead
<1>5. ASSUME TakeDisconnect(t, p) PROVE PoolInv'
  BY <1>1, <1>5, TakesStep DEF TakeDisconnect
<1>6. ASSUME TakeConnect(t, p) PROVE PoolInv'
  <2>1. CASE Take(t, p, "connect", "endConnect")
    BY <1>1, <2>1, TakesStep
  <2>2. CASE Take(t, p, "connect", "timedOut")
    BY <1>1, <2>2, TakesStep
  <2>3. CASE Refused(t, p)
    BY <1>1, <2>3, RefusedStep
  <2> QED
    BY <1>6, <2>1, <2>2, <2>3, Zenon
       DEF TakeConnect, Refused, At, lists, tables
<1> QED BY <1>2, <1>3, <1>4, <1>5, <1>6

(* ... which holds at the beginning ...                                      *)
LEMMA PoolInit ==
  ASSUME Init PROVE PoolInv
<1>1. /\ peer = << >> /\ passive = << >> /\ proactive = << >>
           /\ server = << >>
      /\ servers = {} /\ clients = [c \in Cookies |-> 0]
      /\ call = [t \in AllThreads |-> Idle]
      /\ raced = {} /\ overlapped = {} /\ strayed = {}
  BY DEF Init, None
<1>2. /\ DOMAIN peer = {} /\ DOMAIN server = {} /\ Len(peer) = 0
           /\ Len(server) = 0
  BY <1>1
<1>3. Idle \in PoolCaller
  BY DEF Idle, None, PoolCaller, Resting
<1>4. \A t \in AllThreads :
        /\ call[t] = Idle /\ call[t].at = "idle"
        /\ call[t].peer = 0 /\ call[t].srv = 0
        /\ call[t].listen = 0 /\ ~Closer(t)
  BY <1>1, IdleFields DEF Closer, Closing
<1>5. PoolTypeOK
  BY <1>1, <1>2, <1>3 DEF PoolTypeOK
<1>6. PoolInRange
  BY <1>2, <1>4 DEF PoolInRange
<1>7. HistoryFits
  BY <1>1, <1>2, <1>4 DEF HistoryFits
<1>8. \A t \in AllThreads :
        ThreadFits(t) /\ JoinFits(t) /\ ListenFits(t) /\ CloserFits(t)
  BY <1>4 DEF ThreadFits, JoinFits, ListenFits, CloserFits, Resting, Serving
<1>9. Known = {}
  BY <1>2 DEF Known
<1> QED BY <1>2, <1>5, <1>6, <1>7, <1>8, <1>9 DEF PoolInv

(* ... and when nothing happens.                                             *)
LEMMA PoolStutters ==
  ASSUME PoolInv, UNCHANGED vars PROVE PoolInv'
<1>1. UNCHANGED <<peer, passive, proactive, clients, servers, server, call,
                  raced, overlapped, strayed, abandoned>>
  BY DEF vars, lists, tables, history
<1>2. /\ PoolTypeOK' /\ PoolInRange' /\ HistoryFits'
  BY <1>1 DEF PoolInv, PoolTypeOK, PoolInRange, HistoryFits, Closer
<1>3. ASSUME NEW t \in AllThreads
      PROVE  /\ ThreadFits(t)' /\ JoinFits(t)' /\ ListenFits(t)'
               /\ CloserFits(t)'
             /\ PhaseFits(t)' <=> PhaseFits(t)
  <2>1. ThreadFits(t) /\ JoinFits(t) /\ ListenFits(t) /\ CloserFits(t)
    BY DEF PoolInv
  <2>2. ThreadFits(t)' /\ JoinFits(t)' /\ ListenFits(t)' /\ CloserFits(t)'
    BY <1>1, <2>1
       DEF ThreadFits, JoinFits, ListenFits, CloserFits, Closer, Known
  <2>3. PhaseFits(t)' <=> PhaseFits(t)
    BY <1>1 DEF PhaseFits, Blank, Nowhere, Listed, Registered, Awaits, Serves,
                Resolved
  <2> QED BY <2>2, <2>3
<1>4. \A l \in DOMAIN peer' : ListenerFits(l)'
  BY <1>1 DEF PoolInv, ListenerFits
<1>5. \A s \in DOMAIN server' : ServerFits(s)'
  BY <1>1 DEF PoolInv, ServerFits, Closer
<1>6. Known' = Known
  BY <1>1 DEF Known
<1>7. ASSUME NEW p \in Known'
               PROVE PlaceFits(p)' /\ (Taken(p)' \/ OperationFits(p)')
  <2>1. PlaceFits(p) /\ (Taken(p) \/ OperationFits(p))
    BY <1>6 DEF PoolInv
  <2>2. /\ Taken(p)' <=> Taken(p)
        /\ Listed(p)' <=> Listed(p)
        /\ ListedOnce(p)' <=> ListedOnce(p)
        /\ Registered(p)' <=> Registered(p)
    BY <1>1 DEF Taken, Listed, ListedOnce, Registered
  <2>3. \A s : /\ Serves(s, p)' <=> Serves(s, p)
               /\ Awaits(s, p)' <=> Awaits(s, p)
    BY <1>1 DEF Serves, Awaits
  <2>4. PlaceFits(p)'
    BY <1>1, <2>1, <2>2, <2>3 DEF PlaceFits, Blank
  <2>5. OperationFits(p)' <=> OperationFits(p)
    BY <1>1, <2>2, <2>3 DEF OperationFits
  <2> QED BY <2>1, <2>2, <2>4, <2>5
<1>8. ASSUME NEW t \in AllThreads, call'[t].peer \in Known'
      PROVE  PhaseFits(t)'
  BY <1>1, <1>3, <1>6, <1>8 DEF PoolInv
<1> QED BY <1>2, <1>3, <1>4, <1>5, <1>7, <1>8 DEF PoolInv

(* So it is inductive.                                                       *)
LEMMA PoolInductive ==
  ASSUME ConstantsAllowed, PoolInv, [Next]_vars PROVE PoolInv'
<1>1. CASE UNCHANGED vars
  BY <1>1, PoolStutters
<1>2. CASE Next
  <2>1. HistoryStep
    BY <1>2 DEF Next, None, HistoryStep
  <2>2. \/ \E t \in AllThreads : Step(t)
        \/ \E t \in Users : User(t)
        \/ \E t \in IOThreads : ExecuteIO(t)
    BY <1>2 DEF Next
  <2> QED BY <2>1, <2>2, PoolSteps, PoolUsers, PoolCompletions
<1> QED BY <1>1, <1>2

Single(S) == \A x, y \in S : x = y

-----------------------------------------------------------------------------
(* From the invariant to the properties: sets with at most one member, ...   *)
LEMMA AtMostOne ==
  ASSUME NEW S, NEW n, Single(S), n = Cardinality(S)
  PROVE  n \in {0, 1} /\ ((n = 0) <=> (S = {}))
<1>1. CASE S = {}
  BY <1>1, FS_EmptySet
<1>2. CASE S # {}
  <2>1. PICK x : x \in S
    BY <1>2
  <2>2. S = {x}
    BY <2>1 DEF Single
  <2> QED BY <2>1, <2>2, FS_Singleton
<1> QED BY <1>1, <1>2

(* How often an undisturbed peer is in each place.                           *)
LEMMA PlaceCounts ==
  ASSUME PoolInv, NEW p \in Known,
         NEW a, NEW b, NEW c, a = Times(passive, p), b = Times(proactive, p),
         c = Cardinality({k \in Cookies : clients[k] = p})
  PROVE  /\ a \in {0, 1} /\ b \in {0, 1} /\ c \in {0, 1}
         /\ a = 0 \/ b = 0
         /\ (a = 1 \/ b = 1) <=> Listed(p)
         /\ (c = 1) <=> Registered(p)
<1>1. PlaceFits(p)
  BY DEF PoolInv
<1> PICK A : A = {i \in DOMAIN passive : passive[i] = p}
  OBVIOUS
<1> PICK B : B = {i \in DOMAIN proactive : proactive[i] = p}
  OBVIOUS
<1> PICK C : C = {k \in Cookies : clients[k] = p}
  OBVIOUS
<1>2. /\ Single(A) /\ Single(B)
      /\ A = {} \/ B = {}
      /\ (A # {} \/ B # {}) <=> Listed(p)
  BY <1>1 DEF PlaceFits, ListedOnce, Listed, Single
<1>3. /\ Single(C)
      /\ (C # {}) <=> Registered(p)
  BY <1>1 DEF PlaceFits, Registered, Single
<1>4. a = Cardinality(A) /\ b = Cardinality(B)
  BY Zenon DEF Times
<1>5. c = Cardinality(C)
  BY Zenon
<1>6. a \in {0, 1} /\ ((a = 0) <=> (A = {}))
  BY <1>2, <1>4, AtMostOne, Zenon
<1>7. b \in {0, 1} /\ ((b = 0) <=> (B = {}))
  BY <1>2, <1>4, AtMostOne, Zenon
<1>8. c \in {0, 1} /\ ((c = 0) <=> (C = {}))
  BY <1>3, <1>5, AtMostOne, Zenon
<1> QED
  <2>1. /\ a \in {0, 1} /\ b \in {0, 1}
        /\ a = 0 \/ b = 0
        /\ (a = 1 \/ b = 1) <=> Listed(p)
    BY <1>2, <1>6, <1>7
  <2>2. c \in {0, 1} /\ ((c = 1) <=> Registered(p))
    BY <1>3, <1>8
  <2> QED BY <2>1, <2>2, Zenon

(* ... as a peer is kept by one server only, that which it carries, ...      *)
LEMMA KeptOnce ==
  ASSUME PoolInv, NEW p \in Known, NEW s \in DOMAIN server,
         server[s].alive, Kept(s, p)
  PROVE  peer[p].srv = s /\ s # 0
<1>1. /\ PoolTypeOK /\ PlaceFits(p) /\ p \in DOMAIN peer
  BY DEF PoolInv, Known
<1>2. s # 0
  BY <1>1, PoolDomains
<1>3. CASE p \in server[s].peers \cup server[s].pending
  BY <1>1, <1>2, <1>3 DEF PlaceFits
<1>4. CASE p = server[s].sp /\ peer[p].isServer
  BY <1>1, <1>2, <1>4, ListenerFacts
<1> QED BY <1>3, <1>4 DEF Kept

(* ... so that the places of an undisturbed peer add up to one.              *)
LEMMA PoolPlaces ==
  ASSUME ConstantsAllowed, PoolInv PROVE PeersInOnePlace
<1>1. SUFFICES ASSUME NEW p \in Known
               PROVE  LET places == Times(passive, p) + Times(proactive, p)
                                      + Cardinality({c
                                          \in Cookies : clients[c] = p})
                                      + Cardinality({s \in DOMAIN server :
                                             server[s].alive /\ Kept(s, p)})
                      IN places <= 1
                          /\ (places = 1 \/ Held(p) \/ p \in abandoned)
  BY DEF PeersInOnePlace
<1>2. /\ PoolTypeOK /\ PlaceFits(p) /\ p \in DOMAIN peer /\ peer[p].alive
  BY DEF PoolInv, Known
<1> PICK S : S = {s \in DOMAIN server : server[s].alive /\ Kept(s, p)}
  OBVIOUS
<1>3. /\ \A s \in S : peer[p].srv = s /\ s # 0
      /\ Single(S)
  <2>1. \A s \in S : peer[p].srv = s /\ s # 0
    BY KeptOnce
  <2> QED BY <2>1, Zenon DEF Single
<1>4. Listed(p) => ~Registered(p) /\ S = {}
  <2>1. ASSUME Listed(p) PROVE peer[p].id = 0 /\ peer[p].srv = 0
    BY <1>2, <2>1 DEF PlaceFits, Blank
  <2>2. 0 \notin Cookies
    BY DEF ConstantsAllowed
  <2> QED BY <1>2, <1>3, <2>1, <2>2 DEF PlaceFits, Registered
<1>5. Registered(p) => S = {}
  BY <1>2, <1>3 DEF PlaceFits, Registered
<1>6. Held(p) \/ p \in abandoned \/ Listed(p) \/ Registered(p) \/ S # {}
  <2>1. CASE Taken(p) \/ p \in abandoned \/ Listed(p) \/ Registered(p)
    BY <2>1 DEF Taken, Held, P
  <2>2. CASE peer[p].isServer
    <3>1. /\ peer[p].srv \in DOMAIN server /\ server[peer[p].srv].sp = p
          /\ server[peer[p].srv].alive
      BY <1>2, <2>2, ListenerFacts
    <3> QED BY <2>2, <3>1 DEF Kept
  <2>3. CASE \E s \in DOMAIN server : Serves(s, p) \/ Awaits(s, p)
    BY <2>3 DEF Serves, Awaits, Kept
  <2> QED BY <1>2, <2>1, <2>2, <2>3 DEF PlaceFits
<1> PICK a, b, c, d : /\ a = Times(passive, p) /\ b = Times(proactive, p)
                      /\ c = Cardinality({k \in Cookies : clients[k] = p})
                      /\ d = Cardinality(S)
  OBVIOUS
<1>7. /\ a \in {0, 1} /\ b \in {0, 1} /\ c \in {0, 1} /\ d \in {0, 1}
      /\ a = 0 \/ b = 0
      /\ (a = 1 \/ b = 1) <=> Listed(p)
      /\ (c = 1) <=> Registered(p)
      /\ (d = 0) <=> (S = {})
  <2>1. d \in {0, 1} /\ ((d = 0) <=> (S = {}))
    BY <1>3, AtMostOne, Zenon
  <2> QED BY <2>1, PlaceCounts
<1>8. a + b + c + d <= 1
  BY <1>4, <1>5, <1>7
<1>9. a + b + c + d = 1 \/ Held(p) \/ p \in abandoned
  <2>1. CASE Listed(p)
    BY <1>4, <1>7, <2>1
  <2>2. CASE ~Listed(p)
    <3>1. a = 0 /\ b = 0
      BY <1>7, <2>2
    <3>2. CASE Registered(p)
      BY <1>5, <1>7, <3>1, <3>2
    <3>3. CASE ~Registered(p) /\ S # {}
      BY <1>7, <3>1, <3>3
    <3> QED BY <1>6, <2>2, <3>2, <3>3
  <2> QED BY <2>1, <2>2
<1> QED BY <1>8, <1>9

(* It carries the keys of its place, and none on a list.                     *)
LEMMA PoolKeys ==
  ASSUME PoolInv PROVE KeysMatch
<1>1. SUFFICES ASSUME NEW p \in Known
      PROVE  /\ \A c \in Cookies : clients[c] = p => peer[p].id = c
             /\ \A s \in DOMAIN server :
                  server[s].alive /\ Kept(s, p) => peer[p].srv = s
             /\ Times(passive, p) + Times(proactive, p) > 0 =>
                  peer[p] = Cleared(p) /\ peer[p].op = "none"
  BY DEF KeysMatch
<1>2. /\ PoolTypeOK /\ PlaceFits(p) /\ p \in DOMAIN peer
  BY DEF PoolInv, Known
<1>3. \A c \in Cookies : clients[c] = p => peer[p].id = c
  BY <1>2 DEF PlaceFits
<1>4. \A s \in DOMAIN server : server[s].alive /\ Kept(s, p)
        => peer[p].srv = s
  BY KeptOnce
<1>5. ASSUME Listed(p) PROVE peer[p] = Cleared(p) /\ peer[p].op = "none"
  <2>1. Blank(p) /\ peer[p] \in PoolPeer
    BY <1>2, <1>5, PoolDomains DEF PlaceFits
  <2> QED BY <2>1 DEF Blank, PoolPeer, Cleared, None
<1>6. Times(passive, p) + Times(proactive, p) > 0 => Listed(p)
  <2> PICK a, b, c : /\ a = Times(passive, p) /\ b = Times(proactive, p)
                     /\ c = Cardinality({k \in Cookies : clients[k] = p})
    OBVIOUS
  <2>1. /\ a \in {0, 1} /\ b \in {0, 1}
        /\ (a = 1 \/ b = 1) <=> Listed(p)
    BY PlaceCounts
  <2>2. a + b > 0 => Listed(p)
    BY <2>1
  <2> QED BY <2>2
<1> QED BY <1>3, <1>4, <1>5, <1>6

-----------------------------------------------------------------------------
(* The pool keeps its invariant.                                             *)
LEMMA PoolKept ==
  ASSUME ConstantsAllowed
  PROVE  Spec => []PoolInv
<1>1. Init => PoolInv
  BY PoolInit
<1>2. PoolInv /\ [Next]_vars => PoolInv'
  BY PoolInductive
<1> QED BY <1>1, <1>2, PTL DEF Spec

(* A peer that nobody has disturbed is in use or on one list of closed       *)
(* peers, once: AcquirePeer(), Reclaim() and the tables of clients and       *)
(* servers hand it on without losing it or leaving it in two places.         *)
THEOREM PeersPlaced ==
  ASSUME ConstantsAllowed
  PROVE  Spec => []PeersInOnePlace
<1>1. PoolInv => PeersInOnePlace
  BY PoolPlaces
<1> QED BY <1>1, PoolKept, PTL

(* The keys that an undisturbed peer carries are those under which the       *)
(* tables hold it, and a peer on a list of closed peers carries none.        *)
THEOREM KeysMatched ==
  ASSUME ConstantsAllowed
  PROVE  Spec => []KeysMatch
<1>1. PoolInv => KeysMatch
  BY PoolKeys
<1> QED BY <1>1, PoolKept, PTL
=============================================================================

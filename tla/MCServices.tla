----------------------------- MODULE MCServices -----------------------------
(* What is around the peers, and the sufficer that counts threads: seven    *)
(* parts that share no state and are checked side by side.  The initial     *)
(* state says which part moves; the others stay as they began.              *)
EXTENDS Sufficing, Sequences, TLC

CONSTANTS Users, IOThreads, Accepts, MaxPeers, MaxServers, PoolCalls, MaxEvents,
          MaxFailures, PoolCookies                      \* the peer pool
CONSTANTS Peers, Uids, ServerCalls                      \* a server's context
CONSTANTS Callers, Cookies, Keys, HostCalls             \* a host's context
CONSTANTS Workers, PoolThreads, Conns, MaxPackets       \* hops and replies
CONSTANTS AppThreads, AppCalls, MaxIDs                  \* an endpoint
CONSTANTS Alphabets, Datas, Draws                       \* an encoder

VARIABLES
  part,
  peer, passive, proactive, clients, servers, server, poolCall, raced,
  overlapped, strayed, lost, abandoned, failures, poolCalls, events,
  serverPlatform, object, mapContext, login, mapUser, mapRelation, mapUserStat,
  serverCall, serverClashed, serverCalls,
  hostPlatform, context, mapServer, mapMapping, mapClient, changes, hostCall,
  hostClashed, hostCalls,
  hop, dictHop, returned, handling, written, shack, dropped, closing, several,
  packets,
  appKind, hasData, cc, cookie, unit, lastID, delays, appCall, appCrossed,
  appCalls,
  alphabet, text, result

poolVars   == <<peer, passive, proactive, clients, servers, server, poolCall,
                raced, overlapped, strayed, lost, abandoned, failures,
                poolCalls, events>>
serverVars == <<serverPlatform, object, mapContext, login, mapUser, mapRelation,
                mapUserStat, serverCall, serverClashed, serverCalls>>
hostVars   == <<hostPlatform, context, mapServer, mapMapping, mapClient,
                changes, hostCall, hostClashed, hostCalls>>
replyVars  == <<hop, dictHop, returned, handling, written, shack, dropped,
                closing, several, packets>>
appVars    == <<appKind, hasData, cc, cookie, unit, lastID, delays, appCall,
                appCrossed, appCalls>>
textVars   == <<alphabet, text, result>>

Pool == INSTANCE PeerPool WITH
  Cookies <- PoolCookies, MaxCalls <- PoolCalls, call <- poolCall,
  calls <- poolCalls
Server == INSTANCE ServerContext WITH
  MaxCalls <- ServerCalls, platform <- serverPlatform, call <- serverCall,
  clashed <- serverClashed, calls <- serverCalls
Host == INSTANCE HostContext WITH
  MaxCalls <- HostCalls, platform <- hostPlatform, call <- hostCall,
  clashed <- hostClashed, calls <- hostCalls
App == INSTANCE App WITH
  Threads <- AppThreads, Kinds <- {"server", "client"}, MaxCalls <- AppCalls,
  kind <- appKind, call <- appCall, crossed <- appCrossed, calls <- appCalls

(* The form that is MainHop, whose table may lack the name, and a control   *)
(* that is shown later, whose table has one row of each other kind.         *)
HopNames == [main |-> "main", control |-> "control"]
Rows     == [main    |-> {"absent", "sync"},
             control |-> {"operation", "tagged", "async"}]

Reply == INSTANCE Replies WITH
  Hops <- DOMAIN Rows, NoHop <- "none", MainHop <- "main", MaxParts <- 1

(* Alphabets of one, four and no whole number of characters a page, and one *)
(* in which a character comes twice.                                        *)
Letters(n)  == [i \in 1 .. n |-> 32 + ((7 * i) % 64)]
MCAlphabets == [small |-> Letters(16), default |-> Letters(64),
                odd |-> Letters(20), twice |-> [Letters(16) EXCEPT ![16] = 39]]
MCDatas     == {<<0, 255>>, <<200, 0, 63>>}
MCDraws     == {0, 1, 15, 62}

Encoder == INSTANCE Alphabet

(* Threads of one kind do the same, and no value depends on which it is.    *)
Symmetry == Permutations(Users) \cup Permutations(Callers)

ASSUME EncoderConstants == Encoder!ConstantsAllowed
ASSUME PoolConstants    == Pool!ConstantsAllowed
ASSUME HostConstants    == Host!ConstantsAllowed
ASSUME ServerConstants  == Server!ConstantsAllowed
ASSUME ReplyConstants   == Reply!ConstantsAllowed

ServicesInit ==
  /\ part \in {"sufficer", "pool", "server", "host", "replies", "app",
               "encoder"}
  /\ Init /\ Pool!Init /\ Server!Init /\ Host!Init /\ Reply!Init /\ App!Init
  /\ Encoder!Init
  /\ part # "server" => serverPlatform = "native"
  /\ part # "host" => hostPlatform = "native"
  /\ part # "app" => appKind = "client" /\ ~hasData
  /\ part # "encoder" => alphabet = "small"

ServicesNext ==
  /\ UNCHANGED part
  /\ \/ /\ part = "sufficer" /\ Next
        /\ UNCHANGED <<poolVars, serverVars, hostVars, replyVars,
                       appVars, textVars>>
     \/ /\ part = "pool" /\ Pool!Next
        /\ UNCHANGED <<vars, serverVars, hostVars, replyVars,
                       appVars, textVars>>
     \/ /\ part = "server" /\ Server!Next
        /\ UNCHANGED <<vars, poolVars, hostVars, replyVars, appVars, textVars>>
     \/ /\ part = "host" /\ Host!Next
        /\ UNCHANGED <<vars, poolVars, serverVars, replyVars,
                       appVars, textVars>>
     \/ /\ part = "replies" /\ Reply!Next
        /\ UNCHANGED <<vars, poolVars, serverVars, hostVars, appVars, textVars>>
     \/ /\ part = "app" /\ App!Next
        /\ UNCHANGED <<vars, poolVars, serverVars, hostVars,
                       replyVars, textVars>>
     \/ /\ part = "encoder" /\ Encoder!Next
        /\ UNCHANGED <<vars, poolVars, serverVars, hostVars,
                       replyVars, appVars>>

ServicesSpec ==
  ServicesInit /\ [][ServicesNext]_<<part, vars, poolVars, serverVars, hostVars,
                                    replyVars, appVars, textVars>>

-----------------------------------------------------------------------------
(* A peer is in use or on one list of closed peers, once (PeerPool).        *)
PeersInOnePlace == Pool!PeersInOnePlace

(* The tables of clients and of servers and the peers agree (PeerPool).     *)
KeysMatch == Pool!KeysMatch

(* A server that listens keeps its pending accepts (PeerPool).              *)
AcceptsKept == Pool!AcceptsKept

(* The count of a user context is that of its peers (ServerContext).        *)
UserRefsCounted == Server!UserRefsCounted

(* The tables of peers, users and relations agree (ServerContext).          *)
UsersKept == Server!UsersKept

(* No context of a service or a client is lost (HostContext).               *)
ContextsKept == Host!ContextsKept

(* A primary service stays while others are mapped to it (HostContext).     *)
PrimaryStays == Host!PrimaryStays

(* What an action returns goes to the peer it answers (Replies).            *)
RepliesReachTheirPeer == Reply!RepliesReachTheirPeer

(* What is open is what the cookie says (App).                              *)
NothingForgotten == App!NothingForgotten

(* Encoding and decoding undo each other (Alphabet).                        *)
DecodedIsEncoded == Encoder!DecodedIsEncoded
=============================================================================

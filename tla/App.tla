--------------------------------- MODULE App ---------------------------------
(* AppServer and AppClient (Biu.Transmission.Extension): the cookie that an *)
(* application keeps of its one server or connection, and what is open in   *)
(* the NetIOExecutionUnit.  Nothing in these classes is locked: the calls   *)
(* come from the application, from the handler that is told of a lost       *)
(* connection, and from the pool when the delay of Reconnect() is over.     *)
(* The contexts that Create() may make are in module HostContext.           *)
EXTENDS Integers, FiniteSets

CONSTANTS
  Threads,
  Kinds,              \* "server", "client", or both
  MaxCalls, MaxIDs    \* bounds: calls that are begun, connections or servers

VARIABLES
  kind,     \* which of the two classes
  hasData,  \* CCData is set
  cc,       \* CC is set
  cookie,   \* _cookie
  unit,     \* m_servers or m_clients: the cookies of what is open
  lastID,   \* the last cookie that the unit has given out
  delays,   \* calls of Reconnect() whose delay is not over
  call,     \* what a thread is doing, and its locals
  crossed,  \* history: a call was begun in the middle of another one
  calls

vars == <<kind, hasData, cc, cookie, unit, lastID, delays, call, crossed,
          calls>>

config == <<kind, hasData>>
None   == 0
Idle   == [at |-> "idle", id |-> None, ok |-> FALSE]

Init ==
  /\ kind \in Kinds /\ hasData \in BOOLEAN /\ cc = TRUE
  /\ cookie = None /\ unit = {} /\ lastID = 0 /\ delays = 0
  /\ call = [t \in Threads |-> Idle] /\ crossed = FALSE /\ calls = 0

At(t, step)  == call[t].at = step
Go(t, step)  == call' = [call EXCEPT ![t].at = step]
Return(t)    == call' = [call EXCEPT ![t] = Idle]
Alone(t)     == \A u \in Threads \ {t} : At(u, "idle")

(* A call that goes on to change something.                                 *)
BeginWith(t, step, id) ==
  /\ At(t, "idle") /\ calls < MaxCalls
  /\ calls' = calls + 1
  /\ call' = [call EXCEPT ![t] = [at |-> step, id |-> id, ok |-> FALSE]]
  /\ crossed' = (crossed \/ ~Alone(t))

Begin(t, step) == BeginWith(t, step, None)

(* A step of a call that is under way.                                      *)
Under == UNCHANGED <<config, delays, crossed, calls>>

-----------------------------------------------------------------------------
(* Create()                                                                 *)

CreateMistake(t) ==
  /\ cc
  /\ Begin(t, "connect")
  /\ UNCHANGED <<config, cc, cookie, unit, lastID, delays>>

(* With a cookie the answer is true, whether or not anything is open.       *)
Create(t) ==
  /\ cc /\ cookie = None
  /\ Begin(t, "connect")
  /\ UNCHANGED <<config, cc, cookie, unit, lastID, delays>>

(* The next step of a call for which the unit has answered.                 *)
Stores(id, ok) == [at |-> "store", id |-> id, ok |-> ok]

(* Listen() or Connect() of the unit: it succeeds, it fails without a       *)
(* cookie, or it fails when the cookie is given out, the entry of the table *)
(* removed (JoinTheCircle) or not (PostAccept, BeginConnect).               *)
Open(t) ==
  /\ At(t, "connect")
  /\ \/ /\ lastID < MaxIDs /\ lastID' = lastID + 1
        /\ \E ok, open \in BOOLEAN :
             /\ ok => open
             /\ unit' = IF open THEN unit \cup {lastID'} ELSE unit
             /\ call' = [call EXCEPT ![t] = Stores(lastID', ok)]
     \/ /\ call' = [call EXCEPT ![t] = Stores(None, FALSE)]
        /\ UNCHANGED <<unit, lastID>>
  /\ UNCHANGED <<cc, cookie>> /\ Under

(* The cookie is stored whether the call succeeded or not.                  *)
Store(t) ==
  /\ At(t, "store")
  /\ cookie' = call[t].id
  /\ IF kind = "server" /\ call[t].ok THEN Go(t, "data") ELSE Return(t)
  /\ UNCHANGED <<cc, unit, lastID>> /\ Under

(* CreateFinal() is the rest of Create() for an AppClient.                  *)
CreateFinal(t) ==
  /\ kind = "client" /\ cookie # None
  /\ Begin(t, "data")
  /\ UNCHANGED <<config, cc, cookie, unit, lastID, delays>>

(* The server of data connections, or ConnectData(), which fails when the   *)
(* client is gone; a client that is closed here keeps its cookie.           *)
Data(t) ==
  /\ At(t, "data")
  /\ \/ /\ ~hasData \/ kind = "server" \/ cookie \in unit
        /\ Go(t, "context")
        /\ UNCHANGED <<unit, cookie>>
     \/ /\ hasData /\ (kind = "client" => cookie \notin unit)
        /\ unit' = unit \ {cookie}
        /\ cookie' = IF kind = "server" THEN None ELSE cookie
        /\ Return(t)
  /\ UNCHANGED <<cc, lastID>> /\ Under

(* createContext: without a context there is no connection either.          *)
Context(t) ==
  /\ At(t, "context")
  /\ \/ UNCHANGED <<unit, cookie>>
     \/ unit' = unit \ {cookie} /\ cookie' = None
  /\ Return(t)
  /\ UNCHANGED <<cc, lastID>> /\ Under

-----------------------------------------------------------------------------
(* AcquirePeer() and CreateByAcquiredPeer(): in two calls                   *)

AcquirePeer(t) ==
  /\ kind = "client" /\ cc /\ cookie = None /\ lastID < MaxIDs
  /\ BeginWith(t, "acquired", lastID + 1)
  /\ lastID' = lastID + 1 /\ unit' = unit \cup {lastID'}
  /\ UNCHANGED <<config, cc, cookie, delays>>

Acquired(t) ==
  /\ At(t, "acquired")
  /\ cookie' = call[t].id
  /\ Return(t)
  /\ UNCHANGED <<cc, unit, lastID>> /\ Under

CreateByAcquiredPeer(t) ==
  /\ kind = "client" /\ cc /\ cookie # None
  /\ \/ Begin(t, "context") /\ UNCHANGED unit
     \/ Begin(t, "idle") /\ unit' \in {unit, unit \ {cookie}}
  /\ UNCHANGED <<config, cc, cookie, lastID, delays>>

-----------------------------------------------------------------------------
(* Close() and Clear()                                                      *)

Close(t) ==
  /\ cookie # None
  /\ Begin(t, "clear")
  /\ unit' = unit \ {cookie}
  /\ UNCHANGED <<config, cc, cookie, lastID, delays>>

Clear(t) ==
  /\ At(t, "clear")
  /\ cookie' = None
  /\ cc' \in {cc, FALSE}
  /\ Return(t)
  /\ UNCHANGED <<unit, lastID>> /\ Under

(* The connection is lost, and the handler calls Reconnect().               *)
Lost(t) ==
  /\ kind = "client" /\ cookie \in unit
  /\ unit' = unit \ {cookie}
  /\ Begin(t, "reconnect")
  /\ UNCHANGED <<config, cc, cookie, lastID, delays>>

Reconnect(t) ==
  /\ At(t, "reconnect")
  /\ cookie' = None
  /\ delays' = delays + 1
  /\ Return(t)
  /\ UNCHANGED <<config, cc, unit, lastID, crossed, calls>>

(* The delay is over, or was cancelled by Close(): Create() either way.     *)
Delayed(t) ==
  /\ delays > 0 /\ At(t, "idle") /\ delays' = delays - 1
  /\ IF cc /\ cookie = None
       THEN Go(t, "connect") /\ crossed' = (crossed \/ ~Alone(t))
       ELSE UNCHANGED <<call, crossed>>
  /\ UNCHANGED <<config, cc, cookie, unit, lastID, calls>>

Next == \E t \in Threads :
  \/ Create(t) \/ Open(t) \/ Store(t) \/ CreateFinal(t) \/ Data(t) \/ Context(t)
  \/ AcquirePeer(t) \/ Acquired(t) \/ CreateByAcquiredPeer(t)
  \/ Close(t) \/ Clear(t) \/ Lost(t) \/ Reconnect(t) \/ Delayed(t)

Spec == Init /\ [][Next]_vars

-----------------------------------------------------------------------------
(* What is open is what the cookie says, so that Close() closes it: whatever*)
(* fails half way, and whenever a delay is over, no server and no connection*)
(* is forgotten or opened beside another one - as long as no call is begun  *)
(* in the middle of another one.                                            *)
NothingForgotten ==
  ~crossed /\ (\A t \in Threads : At(t, "idle")) => unit \subseteq {cookie}
=============================================================================

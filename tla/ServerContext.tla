--------------------------- MODULE ServerContext ---------------------------
(* The context of one server: who is logged in on which peer.  It models    *)
(* BNServerContext (nsvrctxt.cpp) and its managed twin ServerContext.cs.    *)
(* A step is one critical section or one access to an object outside of     *)
(* them; the calls for one peer come one after the other, those for         *)
(* different peers overlap.  A peer that touches a user context that was    *)
(* deleted has no further step: what the code does then is undefined.       *)
EXTENDS Integers, Sequences, FiniteSets

CONSTANTS
  Peers,      \* representations (native) or keys (managed) of peers
  Uids,       \* m_nUID of the users
  MaxCalls    \* bound: how many calls are made

VARIABLES
  platform,     \* "native" or "managed"
  object,       \* the user contexts created so far: uid, m_lRefCount, alive
  mapContext,   \* m_mapPeerContext and m_mapUserContext: they change together
  login,        \* the peers whose context says GetLoginStatus()
  mapUser,      \* m_mapUser: the stored user context of a UID, or 0
  mapRelation,  \* m_mapRelation: the peers listed for a UID
  mapUserStat,  \* m_mapUserStat: the UIDs that have logged in
  call,         \* the call that runs for a peer and its locals
  clashed,      \* history: the UIDs that two calls have handled at a time
  calls         \* how many calls have been made

vars == <<platform, object, mapContext, login, mapUser, mapRelation,
          mapUserStat, call, clashed, calls>>

(* The peers of a server are finitely many.                                 *)
ConstantsAllowed == IsFiniteSet(Peers)

None    == 0
Objects == DOMAIN object
Idle    == [op |-> "none", step |-> "idle", uid |-> None, puc |-> None,
            old |-> None, seen |-> 0, uids |-> {}]

Init ==
  /\ platform \in {"native", "managed"}
  /\ object = << >>
  /\ mapContext = [p \in Peers |-> None]
  /\ login = {}
  /\ mapUser = [u \in Uids |-> None]
  /\ mapRelation = [u \in Uids |-> {}]
  /\ mapUserStat = {}
  /\ call = [p \in Peers |-> Idle]
  /\ clashed = {}
  /\ calls = 0

At(p, step)  == call[p].step = step
Running      == {p \in Peers : ~At(p, "idle")}
Go(p, step)  == call' = [call EXCEPT ![p].step = step]
Return(p)    == call' = [call EXCEPT ![p] = Idle]
Puc(p)       == call[p].puc
Alive(o)     == object[o].alive
tables       == <<mapContext, login, mapUser, mapRelation, mapUserStat>>

(* A call by the handler of a peer; a peer is updated only when it is known.*)
(* Managed UpdatePeer() always handles two UIDs as if they were one.        *)
Begin(p, op, uid) ==
  LET old   == IF mapContext[p] = None THEN {}
               ELSE {object[mapContext[p]].uid}
      uids  == old \cup {uid}
      swaps == platform = "managed" /\ op = "UpdatePeer" /\ old # {uid}
      first == CASE op = "AddPeer"    -> "findPeer"
                 [] op = "UpdatePeer" -> "findUser"
                 [] OTHER             -> "getPeer"
  IN /\ At(p, "idle")
     /\ op = "UpdatePeer" => mapContext[p] # None
     /\ op = "RemovePeer" => old = {uid}
     /\ calls < MaxCalls
     /\ calls' = calls + 1
     /\ call' = [call EXCEPT ![p] =
          [Idle EXCEPT !.op = op, !.step = first, !.uid = uid, !.uids = uids]]
     /\ clashed' = clashed \cup (UNION {call[q].uids \cap uids : q \in Running})
                           \cup (IF swaps THEN uids ELSE {})
     /\ UNCHANGED <<platform, object, tables>>

-----------------------------------------------------------------------------
(* The user of a call: found in the store or created, then counted          *)

FindPeer(p) ==
  /\ At(p, "findPeer")
  /\ IF mapContext[p] # None THEN Return(p) ELSE Go(p, "findUser")
  /\ UNCHANGED <<object, tables>>

FindUserMistake(p) ==
  /\ At(p, "findUser")
  /\ Go(p, "addUser")
  /\ UNCHANGED <<object, tables>>

FindUser(p) ==
  /\ At(p, "findUser")
  /\ LET puc == mapUser[call[p].uid]
     IN call' = [call EXCEPT ![p].puc = puc,
                   ![p].step = IF puc = None THEN "addUser" ELSE "countUp"]
  /\ UNCHANGED <<object, tables>>

AddUser(p) ==
  /\ At(p, "addUser")
  /\ object' = Append(object, [uid |-> call[p].uid, refs |-> 0, alive |-> TRUE])
  /\ mapUser' = [mapUser EXCEPT ![call[p].uid] = Len(object) + 1]
  /\ call' = [call EXCEPT ![p].puc = Len(object) + 1, ![p].step = "countUp"]
  /\ UNCHANGED <<mapContext, login, mapRelation, mapUserStat>>

Counted(p) == IF call[p].op = "AddPeer" THEN "insert" ELSE "exchange"

(* m_lRefCount is an atomic_int ...                                         *)
CountUp(p) ==
  /\ At(p, "countUp")
  /\ Alive(Puc(p))
  /\ object' = [object EXCEPT ![Puc(p)].refs = @ + 1]
  /\ Go(p, Counted(p))
  /\ UNCHANGED tables

(* ... RefCount++ of an AtomicLong reads the property, adds in a new object,*)
(* and writes the property.                                                 *)
LoadRef(p, step, next) ==
  /\ At(p, step)
  /\ call' = [call EXCEPT ![p].seen = object[Puc(p)].refs, ![p].step = next]
  /\ UNCHANGED <<object, tables>>

StoreRef(p, step, o, refs, next) ==
  /\ At(p, step)
  /\ object' = [object EXCEPT ![o].refs = refs]
  /\ call' = [call EXCEPT ![p].step = next, ![p].seen = 0]
  /\ UNCHANGED tables

-----------------------------------------------------------------------------
(* The peer's entry                                                         *)

(* The second GetPeerContext() finds what the first one found, as the calls *)
(* for one peer do not overlap.                                             *)
Insert(p) ==
  /\ At(p, "insert")
  /\ mapContext' = [mapContext EXCEPT ![p] = Puc(p)]
  /\ Go(p, "relate")
  /\ UNCHANGED <<object, login, mapUser, mapRelation, mapUserStat>>

Relate(p) ==
  /\ At(p, "relate")
  /\ Alive(Puc(p))
  /\ login' = login \cup {p}
  /\ mapRelation' = [mapRelation EXCEPT ![object[Puc(p)].uid] = @ \cup {p}]
  /\ Go(p, "stat")
  /\ UNCHANGED <<object, mapContext, mapUser, mapUserStat>>

StatLogin(p) ==
  /\ At(p, "stat")
  /\ Alive(Puc(p))
  /\ mapUserStat' = mapUserStat \cup {object[Puc(p)].uid}
  /\ Return(p)
  /\ UNCHANGED <<object, mapContext, login, mapUser, mapRelation>>

(* UpdatePeer() under m_csContext: the tables after the old user is counted *)
(* down; "from" is the UID whose relation the code removes.                 *)
Exchanged(p, from, next) ==
  /\ mapContext' = [mapContext EXCEPT ![p] = Puc(p)]
  /\ login' = login \cup {p}
  /\ mapRelation' =
       LET removed == [mapRelation EXCEPT ![from] = @ \ {p}]
       IN [removed EXCEPT ![object[Puc(p)].uid] = @ \cup {p}]
  /\ call' = [call EXCEPT ![p].old = mapContext[p], ![p].step = next]
  /\ UNCHANGED <<mapUser, mapUserStat>>

ExchangeMistake(p) ==
  /\ At(p, "exchange")
  /\ Alive(mapContext[p]) /\ Alive(Puc(p))
  /\ Exchanged(p, object[mapContext[p]].uid, "test")
  /\ UNCHANGED object

Exchange(p) ==
  /\ At(p, "exchange")
  /\ Alive(mapContext[p]) /\ Alive(Puc(p))
  /\ object' = [object EXCEPT ![mapContext[p]].refs = @ - 1]
  /\ Exchanged(p, object[mapContext[p]].uid, "test")

(* Managed: the relation of the new UID is removed and added again.         *)
LoadOld(p) ==
  /\ At(p, "exchange")
  /\ call' = [call EXCEPT ![p].seen = object[mapContext[p]].refs,
                          ![p].step = "exchangeStore"]
  /\ UNCHANGED <<object, tables>>

StoreOld(p) ==
  /\ At(p, "exchangeStore")
  /\ object' = [object EXCEPT ![mapContext[p]].refs = call[p].seen - 1]
  /\ Exchanged(p, call[p].uid, "test")

ManagedExchange(p) == LoadOld(p) \/ StoreOld(p)

-----------------------------------------------------------------------------
(* RemovePeer(), and RemoveUser() of a user that nobody refers to           *)

GetPeer(p) ==
  /\ At(p, "getPeer")
  /\ login' = login \ {p}
  /\ call' = [call EXCEPT ![p].puc = mapContext[p], ![p].old = mapContext[p],
                          ![p].step = "unrelate"]
  /\ UNCHANGED <<object, mapContext, mapUser, mapRelation, mapUserStat>>

Unrelate(p) ==
  /\ At(p, "unrelate")
  /\ Alive(Puc(p))
  /\ mapRelation' = [mapRelation EXCEPT ![object[Puc(p)].uid] = @ \ {p}]
  /\ Go(p, "countDown")
  /\ UNCHANGED <<object, mapContext, login, mapUser, mapUserStat>>

CountDown(p) ==
  /\ At(p, "countDown")
  /\ Alive(Puc(p))
  /\ object' = [object EXCEPT ![Puc(p)].refs = @ - 1]
  /\ Go(p, "erase")
  /\ UNCHANGED tables

Erase(p) ==
  /\ At(p, "erase")
  /\ mapContext' = [mapContext EXCEPT ![p] = None]
  /\ Go(p, "test")
  /\ UNCHANGED <<object, login, mapUser, mapRelation, mapUserStat>>

TestRef(p, uid) ==
  /\ At(p, "test")
  /\ Alive(call[p].old)
  /\ IF object[call[p].old].refs = 0
     THEN call' = [call EXCEPT ![p].uid = uid, ![p].step = "findStored"]
     ELSE Return(p)
  /\ UNCHANGED <<object, tables>>

(* RemoveUser() looks the UID up again: it erases, and deletes, whatever    *)
(* context is stored by now.                                                *)
FindStored(p) ==
  /\ At(p, "findStored")
  /\ LET puc == mapUser[call[p].uid]
     IN IF puc = None THEN Return(p)
        ELSE call' = [call EXCEPT ![p].puc = puc, ![p].step = "dropUser"]
  /\ UNCHANGED <<object, tables>>

DropUser(p) ==
  /\ At(p, "dropUser")
  /\ mapUser' = [mapUser EXCEPT ![call[p].uid] = None]
  /\ IF platform = "native" THEN Go(p, "delete") ELSE Return(p)
  /\ UNCHANGED <<object, mapContext, login, mapRelation, mapUserStat>>

Delete(p) ==
  /\ At(p, "delete")
  /\ object' = [object EXCEPT ![Puc(p)].alive = FALSE]
  /\ Return(p)
  /\ UNCHANGED tables

-----------------------------------------------------------------------------
GetUser(p)    == FindUser(p) \/ AddUser(p)
RemoveUser(p) == FindStored(p) \/ DropUser(p) \/ Delete(p)
OldUid(p)     == object[call[p].old].uid

AddPeer(p) ==
  FindPeer(p) \/ CountUp(p) \/ Insert(p) \/ Relate(p) \/ StatLogin(p)

UpdatePeer(p) == Exchange(p) \/ TestRef(p, OldUid(p))

RemovePeer(p) == GetPeer(p) \/ Unrelate(p) \/ CountDown(p) \/ Erase(p)

ManagedAddPeer(p) ==
  \/ FindPeer(p) \/ Insert(p) \/ Relate(p) \/ StatLogin(p)
  \/ LoadRef(p, "countUp", "storeUp")
  \/ StoreRef(p, "storeUp", Puc(p), call[p].seen + 1, Counted(p))

(* Managed UpdatePeer() removes the new user when the old one is unused.    *)
ManagedUpdatePeer(p) ==
  \/ ManagedExchange(p)
  \/ TestRef(p, IF call[p].op = "UpdatePeer" THEN call[p].uid ELSE OldUid(p))

(* The entries are removed under the lock of the users; where that lets two *)
(* threads change one Dictionary at a time, the model takes one after the   *)
(* other.                                                                   *)
ManagedRemovePeer(p) ==
  \/ GetPeer(p) \/ Unrelate(p) \/ Erase(p)
  \/ LoadRef(p, "countDown", "storeDown")
  \/ StoreRef(p, "storeDown", Puc(p), call[p].seen - 1, "erase")

Native(p) == AddPeer(p) \/ UpdatePeer(p) \/ RemovePeer(p)
Managed(p) ==
  ManagedAddPeer(p) \/ ManagedUpdatePeer(p) \/ ManagedRemovePeer(p)

Step(p) ==
  /\ \/ platform = "native" /\ Native(p)
     \/ platform = "managed" /\ Managed(p)
     \/ GetUser(p) \/ RemoveUser(p)
  /\ UNCHANGED <<platform, clashed, calls>>

Next ==
  \E p \in Peers :
    \/ Step(p)
    \/ \E op \in {"AddPeer", "UpdatePeer", "RemovePeer"}, uid \in Uids :
         Begin(p, op, uid)

Spec == Init /\ [][Next]_vars

-----------------------------------------------------------------------------
CallsAt(op, step, o) ==
  {p \in Peers : call[p].op = op /\ At(p, step) /\ Puc(p) = o}

(* The count of a user context is the number of peers that refer to it and  *)
(* of calls that are about to, less the calls that are about to let it go:  *)
(* natively in every overlap of calls, in the managed twin as long as no    *)
(* two calls have handled the user at a time (AtomicLong loses counts).     *)
UserRefsCounted ==
  \A o \in Objects :
    \/ object[o].refs =
         Cardinality({p \in Peers : mapContext[p] = o})
           + Cardinality(CallsAt("AddPeer", "insert", o))
           + Cardinality(CallsAt("UpdatePeer", "exchange", o))
           + Cardinality(CallsAt("UpdatePeer", "exchangeStore", o))
           - Cardinality(CallsAt("RemovePeer", "erase", o))
    \/ platform = "managed" /\ object[o].uid \in clashed

(* Of a user that no two calls have handled at a time, and that none is     *)
(* handling: every peer logged in as the user refers to the one stored      *)
(* context, which is alive, and is listed under the UID; nobody else is     *)
(* listed, and nothing is stored when nobody is logged in.                  *)
UsersKept ==
  \A uid \in Uids \ (clashed \cup UNION {call[p].uids : p \in Peers}) :
    LET on == {p \in Peers : /\ mapContext[p] # None
                             /\ object[mapContext[p]].uid = uid}
    IN /\ \A p \in on : mapContext[p] = mapUser[uid] /\ p \in login
       /\ mapRelation[uid] = on
       /\ mapUser[uid] # None <=> on # {}
       /\ on # {} => Alive(mapUser[uid])
============================================================================

------------------------- MODULE ServerContextProof -------------------------
(***************************************************************************)
(* Proofs about ServerContext, for all peers, users and numbers of calls:   *)
(* the count of a user context is that of the peers that refer to it, and   *)
(* the tables agree on every user that one call handles at a time.          *)
(*                                                                         *)
(* The first part states the inductive invariant Inv: what the place of a   *)
(* call says of its locals, of its peer's entry and of the tables while it  *)
(* is in between.  The second says what a step does to the user contexts,   *)
(* to the locals of its call and to what the other calls rely on, so that   *)
(* StepKeeps leaves for each step only its own call and its own users.  The *)
(* third has one lemma for each step and outcome; the last puts them        *)
(* together.                                                                *)
(***************************************************************************)
EXTENDS ServerContext, FiniteSetTheorems, TLAPS

(* The calls by what they do, and their places.                             *)
Dropping == {"test", "findStored", "dropUser", "delete"}
Adding   == {"findPeer", "findUser", "addUser", "countUp", "storeUp",
             "insert", "relate", "stat"}
Updating == {"findUser", "addUser", "countUp", "storeUp", "exchange",
             "exchangeStore"} \cup Dropping
Removing == {"getPeer", "unrelate", "countDown", "storeDown", "erase"}
              \cup Dropping
Steps    == {"idle"} \cup Adding \cup Updating \cup Removing
Ops      == {"none", "AddPeer", "UpdatePeer", "RemovePeer"}

UserType == [uid : Uids, refs : Int, alive : BOOLEAN]
CallType ==
  [op : Ops, step : Steps, uid : Uids \cup {None}, puc : 0..Len(object),
   old : 0..Len(object), seen : Int, uids : SUBSET Uids]

TypeOK ==
  /\ platform \in {"native", "managed"}
  /\ object \in Seq(UserType)
  /\ mapContext \in [Peers -> 0..Len(object)]
  /\ login \subseteq Peers
  /\ mapUser \in [Uids -> 0..Len(object)]
  /\ mapRelation \in [Uids -> SUBSET Peers]
  /\ mapUserStat \subseteq Uids
  /\ call \in [Peers -> CallType]
  /\ clashed \subseteq Uids

(* What the place of a call says of its locals and of its peer's entry: a   *)
(* call handles the UIDs of the user contexts that it has in hand.          *)
Holding == {"countUp", "storeUp", "insert", "relate", "stat", "exchange",
            "exchangeStore", "unrelate", "countDown", "storeDown", "erase",
            "dropUser", "delete"}
Going   == {"unrelate", "countDown", "storeDown", "erase"}
Uid(o)  == object[o].uid

PlaceFits(p) ==
  /\ call[p].op = "none"       => At(p, "idle") /\ call[p].uids = {}
  /\ call[p].op = "AddPeer"    => call[p].step \in Adding
  /\ call[p].op = "UpdatePeer" => call[p].step \in Updating
  /\ call[p].op = "RemovePeer" => call[p].step \in Removing
  /\ At(p, "idle") \/ call[p].uid \in call[p].uids

EntryFits(p) ==
  /\ call[p].step \in {"findUser", "addUser", "countUp", "storeUp", "insert"}
       => (mapContext[p] = None <=> call[p].op = "AddPeer")
  /\ call[p].step \in {"exchange", "exchangeStore", "getPeer"}
       => mapContext[p] # None
  /\ At(p, "getPeer") => Uid(mapContext[p]) = call[p].uid
  /\ call[p].step \in {"relate", "stat"} \cup Going => mapContext[p] = Puc(p)
  /\ \/ At(p, "idle") \/ mapContext[p] = None
     \/ Uid(mapContext[p]) \in call[p].uids

HandFits(p) ==
  /\ call[p].step \in Holding => Puc(p) # None /\ Uid(Puc(p)) = call[p].uid
  /\ call[p].step \in Going => call[p].old = Puc(p)
  /\ At(p, "test") => call[p].old # None /\ Uid(call[p].old) \in call[p].uids

StoredFits ==
  \A u \in Uids : mapUser[u] # None => Uid(mapUser[u]) = u

CallsFit == \A p \in Peers : PlaceFits(p) /\ EntryFits(p) /\ HandFits(p)

(* A UID that is not clashed is handled by one call at a time; a managed    *)
(* UpdatePeer() of such a UID stays with it.                                *)
OneHandler ==
  /\ \A p, q \in Peers :
       p # q => call[p].uids \cap call[q].uids \subseteq clashed
  /\ \A p \in Peers :
       platform = "managed" /\ call[p].op = "UpdatePeer"
         => call[p].uids \subseteq clashed \/ call[p].uids = {call[p].uid}

(* The count that a managed call has read is still that of the user.        *)
SeenFits(p) ==
  /\ call[p].step \in {"storeUp", "storeDown"}
       => Uid(Puc(p)) \in clashed \/ call[p].seen = object[Puc(p)].refs
  /\ At(p, "exchangeStore")
       => \/ Uid(mapContext[p]) \in clashed
          \/ call[p].seen = object[mapContext[p]].refs
  /\ call[p].step \in {"storeUp", "storeDown", "exchangeStore"}
       => platform = "managed"

(* The peers of a user are logged in and listed, but for the places where   *)
(* a call is in between.                                                    *)
On(u) == {p \in Peers : mapContext[p] # None /\ Uid(mapContext[p]) = u}

LoginFits(p) ==
  mapContext[p] # None /\ call[p].step \notin {"relate"} \cup Going
    => p \in login

Unlisted == {"relate", "countDown", "storeDown", "erase"}

RelationFits(p) ==
  \A u \in Uids \ clashed :
    p \in mapRelation[u] <=> p \in On(u) /\ call[p].step \notin Unlisted

(* What a call has found in the store is still there.                       *)
Found == {"countUp", "storeUp", "insert", "exchange", "exchangeStore"}

FoundFits(p) ==
  call[p].uid \notin clashed =>
    /\ call[p].step \in {"addUser", "delete"} => mapUser[call[p].uid] = None
    /\ call[p].step \in Found \cup {"dropUser"}
         => mapUser[call[p].uid] = Puc(p)
    /\ call[p].step \in {"findStored", "dropUser", "delete"}
         => On(call[p].uid) = {}

OldFits(p) ==
  At(p, "test") => \/ Uid(call[p].old) \in clashed
                   \/ mapUser[Uid(call[p].old)] = call[p].old

LocalsFit ==
  \A p \in Peers : /\ SeenFits(p) /\ LoginFits(p) /\ RelationFits(p)
                   /\ FoundFits(p) /\ OldFits(p)

(* The peers of a user refer to the stored context, which is alive.         *)
UserFits ==
  \A u \in Uids \ clashed :
    /\ \A p \in On(u) : mapContext[p] = mapUser[u]
    /\ mapUser[u] # None => Alive(mapUser[u])

(* A user that nobody is logged in as is stored only while a call is about  *)
(* to refer to it or to drop it.                                            *)
Minds(p, u) ==
  \/ call[p].step \in Found \cup {"findStored", "dropUser"} /\ call[p].uid = u
  \/ At(p, "test") /\ Uid(call[p].old) = u

NotForgotten ==
  \A u \in Uids \ clashed :
    mapUser[u] # None => On(u) # {} \/ \E p \in Peers : Minds(p, u)

Inv ==
  /\ TypeOK /\ StoredFits /\ CallsFit /\ OneHandler /\ LocalsFit
  /\ UserFits /\ NotForgotten /\ UserRefsCounted

-----------------------------------------------------------------------------
(* What TLAPS has to know of the steps.                                     *)

(* The types of what a sequence of user contexts holds.                     *)
LEMMA UsersTyped ==
  ASSUME NEW users \in Seq(UserType)
  PROVE  /\ Len(users) \in Nat /\ DOMAIN users = 1..Len(users)
         /\ \A o \in 1..Len(users) : /\ users[o].uid \in Uids
                                     /\ users[o].refs \in Int
                                     /\ users[o].alive \in BOOLEAN
<1>1. Len(users) \in Nat /\ DOMAIN users = 1..Len(users)
  OBVIOUS
<1>2. \A o \in 1..Len(users) : users[o] \in UserType
  OBVIOUS
<1>3. \A r \in UserType :
        r.uid \in Uids /\ r.refs \in Int /\ r.alive \in BOOLEAN
  BY DEF UserType
<1> QED BY <1>1, <1>2, <1>3

(* The types of what is known of each user context.                         *)
LEMMA ObjectsTyped ==
  ASSUME TypeOK
  PROVE  /\ Len(object) \in Nat /\ Objects = 1..Len(object)
         /\ \A o \in Objects : /\ object[o].uid \in Uids
                               /\ object[o].refs \in Int
                               /\ object[o].alive \in BOOLEAN
  BY UsersTyped DEF TypeOK, Objects

(* A user context is created, or changed.                                   *)
LEMMA Created ==
  ASSUME TypeOK, NEW user \in UserType, object' = Append(object, user)
  PROVE  /\ object' \in Seq(UserType) /\ Len(object') = Len(object) + 1
         /\ \A o \in 1..Len(object) : object'[o] = object[o]
         /\ object'[Len(object) + 1] = user
  BY DEF TypeOK

(* One user context is replaced; the others stay.                           *)
LEMMA Changed ==
  ASSUME TypeOK, NEW o \in 1..Len(object), NEW user \in UserType,
         object' = [object EXCEPT ![o] = user]
  PROVE  /\ object' \in Seq(UserType) /\ Len(object') = Len(object)
         /\ \A i \in 1..Len(object) : i # o => object'[i] = object[i]
         /\ object'[o] = user
  BY DEF TypeOK

Recounts(o, n) ==
  /\ Len(object') = Len(object)
  /\ \A i \in 1..Len(object) : i # o => object'[i] = object[i]
  /\ object'[o].refs = n /\ object'[o].uid = object[o].uid
  /\ object'[o].alive = object[o].alive

(* Only the count of one user context is set.                               *)
LEMMA Recounted ==
  ASSUME TypeOK, NEW o \in 1..Len(object), NEW n \in Int,
         object' = [object EXCEPT ![o].refs = n]
  PROVE  object' \in Seq(UserType) /\ Recounts(o, n)
<1>1. object[o] \in UserType
  BY DEF TypeOK
<1> DEFINE user == [object[o] EXCEPT !.refs = n]
<1>2. /\ user \in UserType /\ user.refs = n /\ user.uid = object[o].uid
      /\ user.alive = object[o].alive
  BY <1>1 DEF UserType
<1>3. object' = [object EXCEPT ![o] = user]
  OBVIOUS
<1> QED BY <1>2, <1>3, Changed DEF Recounts

(* A user context is deleted: it keeps its count and its UID.               *)
LEMMA Died ==
  ASSUME TypeOK, NEW o \in 1..Len(object),
         object' = [object EXCEPT ![o].alive = FALSE]
  PROVE  /\ object' \in Seq(UserType) /\ Len(object') = Len(object)
         /\ \A i \in 1..Len(object) : i # o => object'[i] = object[i]
         /\ object'[o].refs = object[o].refs /\ object'[o].uid = object[o].uid
<1>1. object[o] \in UserType
  BY DEF TypeOK
<1> DEFINE user == [object[o] EXCEPT !.alive = FALSE]
<1>2. /\ user \in UserType /\ user.refs = object[o].refs
      /\ user.uid = object[o].uid
  BY <1>1 DEF UserType
<1>3. object' = [object EXCEPT ![o] = user]
  OBVIOUS
<1> QED BY <1>2, <1>3, Changed

(* The test whether the former user is still referred to.                   *)
Follows(p) == IF platform = "managed" /\ call[p].op = "UpdatePeer"
              THEN call[p].uid ELSE OldUid(p)
Tests(p)   == TestRef(p, Follows(p))

Acts(p) ==
  \/ FindPeer(p)
  \/ FindUser(p)
  \/ AddUser(p)
  \/ CountUp(p)
  \/ platform = "managed" /\ LoadRef(p, "countUp", "storeUp")
  \/ StoreRef(p, "storeUp", Puc(p), call[p].seen + 1, Counted(p))
  \/ Insert(p)
  \/ Relate(p)
  \/ StatLogin(p)
  \/ Exchange(p)
  \/ platform = "managed" /\ LoadOld(p)
  \/ StoreOld(p)
  \/ Tests(p)
  \/ GetPeer(p)
  \/ Unrelate(p)
  \/ CountDown(p)
  \/ platform = "managed" /\ LoadRef(p, "countDown", "storeDown")
  \/ StoreRef(p, "storeDown", Puc(p), call[p].seen - 1, "erase")
  \/ Erase(p)
  \/ FindStored(p)
  \/ DropUser(p)
  \/ Delete(p)

(* A step of the code is one of the acts.                                   *)
LEMMA ActsOf ==
  ASSUME TypeOK, NEW p \in Peers, Step(p)
  PROVE  /\ Acts(p)
         /\ UNCHANGED <<platform, clashed, calls>>
<1>1. UNCHANGED <<platform, clashed, calls>>
  BY DEF Step
<1>2. ASSUME platform = "native", Native(p) PROVE Acts(p)
  <2>1. OldUid(p) = Follows(p)
    BY <1>2 DEF Follows
  <2>2. CASE TestRef(p, OldUid(p))
    BY <2>1, <2>2 DEF Acts, Tests
  <2>3. CASE AddPeer(p) \/ Exchange(p) \/ RemovePeer(p)
    BY <2>3 DEF Acts, AddPeer, RemovePeer
  <2> QED BY <1>2, <2>2, <2>3 DEF Native, UpdatePeer
<1>3. ASSUME platform = "managed", Managed(p) PROVE Acts(p)
  <2> DEFINE uid == IF call[p].op = "UpdatePeer" THEN call[p].uid ELSE OldUid(p)
  <2>1. uid = Follows(p)
    BY <1>3 DEF Follows
  <2>2. CASE TestRef(p, uid)
    BY <2>1, <2>2 DEF Acts, Tests
  <2>3. CASE ManagedAddPeer(p) \/ ManagedExchange(p) \/ ManagedRemovePeer(p)
    BY <1>3, <2>3 DEF Acts, ManagedAddPeer, ManagedExchange, ManagedRemovePeer
  <2> QED BY <1>3, <2>2, <2>3 DEF Managed, ManagedUpdatePeer
<1>4. ASSUME GetUser(p) \/ RemoveUser(p) PROVE Acts(p)
  BY <1>4 DEF Acts, GetUser, RemoveUser
<1> QED BY <1>1, <1>2, <1>3, <1>4 DEF Step

(* A step keeps every user context and its UID, and changes those that the  *)
(* call has in hand only.                                                   *)
Keeps(p) ==
  /\ object' \in Seq(UserType) /\ Len(object') \in Nat
  /\ Len(object) <= Len(object')
  /\ \A o \in 1..Len(object) :
       /\ object'[o].uid = object[o].uid
       /\ \/ object'[o] = object[o]
          \/ o = Puc(p) /\ call[p].step \in Holding
          \/ /\ o = mapContext[p]
             /\ At(p, "exchange") \/ At(p, "exchangeStore")

(* The types of the locals of a call, and where it has a user in hand.      *)
LEMMA HandsTyped ==
  ASSUME TypeOK, CallsFit, NEW p \in Peers
  PROVE  /\ Len(object) \in Nat
         /\ call[p] \in CallType /\ call[p].seen \in Int
         /\ Puc(p) \in 0..Len(object) /\ call[p].old \in 0..Len(object)
         /\ mapContext[p] \in 0..Len(object)
         /\ call[p].uid \in Uids \cup {None} /\ call[p].uids \in SUBSET Uids
         /\ ~At(p, "idle") => call[p].uid \in Uids
         /\ call[p].step \in Holding => Puc(p) \in 1..Len(object)
         /\ call[p].step \in {"exchange", "exchangeStore"} =>
              mapContext[p] \in 1..Len(object)
<1>1. Len(object) \in Nat
  BY ObjectsTyped
<1>2. call[p] \in CallType
  BY DEF TypeOK
<1>3. /\ call[p].seen \in Int
      /\ Puc(p) \in 0..Len(object) /\ call[p].old \in 0..Len(object)
      /\ call[p].uid \in Uids \cup {None} /\ call[p].uids \in SUBSET Uids
  BY <1>2 DEF CallType, Puc
<1>4. mapContext[p] \in 0..Len(object)
  BY DEF TypeOK
<1>5. PlaceFits(p) /\ EntryFits(p) /\ HandFits(p)
  BY DEF CallsFit
<1>6. ~At(p, "idle") => call[p].uid \in Uids
  BY <1>3, <1>5 DEF PlaceFits
<1>7. call[p].step \in Holding => Puc(p) # None
  BY <1>5 DEF HandFits
<1>8. call[p].step \in {"exchange", "exchangeStore"} => mapContext[p] # None
  BY <1>5 DEF EntryFits
<1> QED BY <1>1, <1>2, <1>3, <1>4, <1>6, <1>7, <1>8 DEF None

(* Every step keeps the user contexts but for the one in hand.              *)
LEMMA ObjectsKept ==
  ASSUME TypeOK, CallsFit, NEW p \in Peers, Acts(p)
  PROVE  Keeps(p)
<1> USE DEF Keeps
<1>0. /\ Len(object) \in Nat /\ call[p].seen \in Int
      /\ call[p].step \in Holding => Puc(p) \in 1..Len(object)
      /\ call[p].step \in {"exchange", "exchangeStore"} =>
              mapContext[p] \in 1..Len(object)
      /\ ~At(p, "idle") => call[p].uid \in Uids
  BY HandsTyped
<1>d. object \in Seq(UserType)
  BY DEF TypeOK
<1>a. ASSUME object' = object PROVE Keeps(p)
  BY <1>0, <1>a, <1>d
<1>b. ASSUME NEW o \in 1..Len(object), NEW n \in Int,
             \/ o = Puc(p) /\ call[p].step \in Holding
             \/ /\ o = mapContext[p]
                /\ At(p, "exchange") \/ At(p, "exchangeStore"),
             object' = [object EXCEPT ![o].refs = n]
      PROVE  Keeps(p)
  <2>1. /\ object' \in Seq(UserType) /\ Len(object') = Len(object)
        /\ \A i \in 1..Len(object) : i # o => object'[i] = object[i]
        /\ object'[o].uid = object[o].uid
    BY <1>b, Recounted DEF Recounts
  <2> QED BY <1>0, <1>b, <2>1 DEF At
<1>c. \A o \in 1..Len(object) : object[o].refs \in Int
  BY ObjectsTyped
<1>1. CASE FindPeer(p)
  BY <1>a, <1>1 DEF FindPeer, Go, Return, Idle, tables
<1>2. CASE FindUser(p)
  BY <1>a, <1>2 DEF FindUser, tables
<1>3. CASE AddUser(p)
  <2>1. object' = Append(object,
                         [uid |-> call[p].uid, refs |-> 0, alive |-> TRUE])
    BY <1>3 DEF AddUser
  <2>2. [uid |-> call[p].uid, refs |-> 0, alive |-> TRUE] \in UserType
    BY <1>0, <1>3 DEF AddUser, At, UserType
  <2> QED BY <1>0, <2>1, <2>2, Created
<1>4. CASE CountUp(p)
  <2>1. /\ Puc(p) \in 1..Len(object)
        /\ object[Puc(p)].refs + 1 \in Int
        /\ call[p].step \in Holding
    BY <1>0, <1>c, <1>4 DEF CountUp, At, Holding
  <2>2. object' = [object EXCEPT ![Puc(p)].refs = object[Puc(p)].refs + 1]
    BY <1>4 DEF CountUp
  <2> QED BY <1>b, <2>1, <2>2
<1>5. CASE LoadRef(p, "countUp", "storeUp")
  BY <1>a, <1>5 DEF LoadRef, tables
<1>6. CASE StoreRef(p, "storeUp", Puc(p), call[p].seen + 1, Counted(p))
  <2>1. /\ Puc(p) \in 1..Len(object)
        /\ call[p].seen + 1 \in Int
        /\ call[p].step \in Holding
    BY <1>0, <1>c, <1>6 DEF StoreRef, At, Holding
  <2>2. object' = [object EXCEPT ![Puc(p)].refs = call[p].seen + 1]
    BY <1>6 DEF StoreRef
  <2> QED BY <1>b, <2>1, <2>2
<1>7. CASE Insert(p)
  BY <1>a, <1>7 DEF Insert, Go, tables
<1>8. CASE Relate(p)
  BY <1>a, <1>8 DEF Relate, Go, tables
<1>9. CASE StatLogin(p)
  BY <1>a, <1>9 DEF StatLogin, Return, Idle, tables
<1>10. CASE Exchange(p)
  <2>1. /\ mapContext[p] \in 1..Len(object)
        /\ object[mapContext[p]].refs - 1 \in Int
    BY <1>0, <1>c, <1>10 DEF Exchange, At, Holding
  <2>2. object' = [object EXCEPT ![mapContext[p]].refs =
                                    object[mapContext[p]].refs - 1]
    BY <1>10 DEF Exchange
  <2> QED BY <1>b, <2>1, <2>2, <1>10 DEF Exchange
<1>11. CASE LoadOld(p)
  BY <1>a, <1>11 DEF LoadOld, tables
<1>12. CASE StoreOld(p)
  <2>1. mapContext[p] \in 1..Len(object) /\ call[p].seen - 1 \in Int
    BY <1>0, <1>c, <1>12 DEF StoreOld, At, Holding
  <2>2. object' = [object EXCEPT ![mapContext[p]].refs = call[p].seen - 1]
    BY <1>12 DEF StoreOld
  <2> QED BY <1>b, <2>1, <2>2, <1>12 DEF StoreOld
<1>13. CASE Tests(p)
  BY <1>a, <1>13 DEF Tests, TestRef, OldUid, Return, Idle, tables
<1>14. CASE GetPeer(p)
  BY <1>a, <1>14 DEF GetPeer, tables
<1>15. CASE Unrelate(p)
  BY <1>a, <1>15 DEF Unrelate, Go, tables
<1>16. CASE CountDown(p)
  <2>1. /\ Puc(p) \in 1..Len(object)
        /\ object[Puc(p)].refs - 1 \in Int
        /\ call[p].step \in Holding
    BY <1>0, <1>c, <1>16 DEF CountDown, At, Holding
  <2>2. object' = [object EXCEPT ![Puc(p)].refs = object[Puc(p)].refs - 1]
    BY <1>16 DEF CountDown
  <2> QED BY <1>b, <2>1, <2>2
<1>17. CASE LoadRef(p, "countDown", "storeDown")
  BY <1>a, <1>17 DEF LoadRef, tables
<1>18. CASE StoreRef(p, "storeDown", Puc(p), call[p].seen - 1, "erase")
  <2>1. /\ Puc(p) \in 1..Len(object)
        /\ call[p].seen - 1 \in Int
        /\ call[p].step \in Holding
    BY <1>0, <1>c, <1>18 DEF StoreRef, At, Holding
  <2>2. object' = [object EXCEPT ![Puc(p)].refs = call[p].seen - 1]
    BY <1>18 DEF StoreRef
  <2> QED BY <1>b, <2>1, <2>2
<1>19. CASE Erase(p)
  BY <1>a, <1>19 DEF Erase, Go, tables
<1>20. CASE FindStored(p)
  BY <1>a, <1>20 DEF FindStored, Return, Idle, tables
<1>21. CASE DropUser(p)
  BY <1>a, <1>21 DEF DropUser, Go, Return, Idle, tables
<1>22. CASE Delete(p)
  <2>1. Puc(p) \in 1..Len(object) /\ call[p].step \in Holding
    BY <1>0, <1>22 DEF Delete, At, Holding
  <2>2. object' = [object EXCEPT ![Puc(p)].alive = FALSE]
    BY <1>22 DEF Delete
  <2>3. /\ object' \in Seq(UserType) /\ Len(object') = Len(object)
        /\ \A i \in 1..Len(object) : i # Puc(p) => object'[i] = object[i]
        /\ object'[Puc(p)].uid = object[Puc(p)].uid
    BY <2>1, <2>2, Died
  <2> QED BY <1>0, <2>1, <2>3
<1> QED
  BY <1>1, <1>2, <1>3, <1>4, <1>5, <1>6, <1>7, <1>8, <1>9, <1>10, <1>11,
     <1>12, <1>13, <1>14, <1>15, <1>16, <1>17, <1>18, <1>19, <1>20, <1>21,
     <1>22
  DEF Acts

(* The type of the state.                                                   *)
LEMMA Retyped ==
  ASSUME TypeOK, CallsFit, NEW p \in Peers, Acts(p)
  PROVE  /\ mapContext' \in [Peers -> 0..Len(object')]
         /\ mapUser' \in [Uids -> 0..Len(object')]
         /\ mapRelation' \in [Uids -> SUBSET Peers]
         /\ login' \subseteq Peers /\ mapUserStat' \subseteq Uids
<1> DEFINE Typed == /\ mapContext' \in [Peers -> 0..Len(object')]
                    /\ mapUser' \in [Uids -> 0..Len(object')]
                    /\ mapRelation' \in [Uids -> SUBSET Peers]
                    /\ login' \subseteq Peers /\ mapUserStat' \subseteq Uids
<1>d. /\ Len(object) \in Nat /\ Len(object') \in Nat
      /\ Len(object) <= Len(object')
      /\ ~At(p, "idle") => call[p].uid \in Uids
      /\ Puc(p) \in 0..Len(object)
      /\ call[p].step \in Holding => Puc(p) \in 1..Len(object)
      /\ call[p].step \in {"exchange", "exchangeStore"} =>
              mapContext[p] \in 1..Len(object)
      /\ \A o \in 1..Len(object) : object[o].uid \in Uids
  BY HandsTyped, ObjectsKept, ObjectsTyped DEF Keeps
<1>b. /\ mapContext \in [Peers -> 0..Len(object')]
      /\ mapUser \in [Uids -> 0..Len(object')]
      /\ mapRelation \in [Uids -> SUBSET Peers]
      /\ login \subseteq Peers /\ mapUserStat \subseteq Uids
  BY <1>d DEF TypeOK
<1>c. Puc(p) \in 0..Len(object') /\ None \in 0..Len(object')
  BY <1>d DEF None
<1>a. UNCHANGED tables => Typed
  BY <1>b DEF tables
<1> SUFFICES Typed
  OBVIOUS
<1> HIDE DEF Typed
<1>1. CASE FindPeer(p)
  BY <1>a, <1>1 DEF FindPeer, Go, Return, Idle
<1>2. CASE FindUser(p)
  BY <1>a, <1>2 DEF FindUser
<1>3. CASE AddUser(p)
  <2>1. Len(object') = Len(object) + 1
    BY <1>d, <1>3, Created DEF AddUser, At, UserType
  <2> QED BY <1>d, <1>b, <2>1, <1>3 DEF AddUser, At, Typed
<1>4. CASE CountUp(p)
  BY <1>a, <1>4 DEF CountUp, Go, Counted
<1>5. CASE LoadRef(p, "countUp", "storeUp")
  BY <1>a, <1>5 DEF LoadRef
<1>6. CASE StoreRef(p, "storeUp", Puc(p), call[p].seen + 1, Counted(p))
  BY <1>a, <1>6 DEF StoreRef, Counted
<1>7. CASE Insert(p)
  BY <1>b, <1>c, <1>7 DEF Insert, Typed
<1>8. CASE Relate(p)
  BY <1>d, <1>b, <1>c, <1>8 DEF Relate, At, Holding, Typed
<1>9. CASE StatLogin(p)
  BY <1>d, <1>b, <1>c, <1>9 DEF StatLogin, At, Holding, Typed
<1>10. CASE Exchange(p)
  BY <1>d, <1>b, <1>c, <1>10 DEF Exchange, Exchanged, At, Holding, Typed
<1>11. CASE LoadOld(p)
  BY <1>a, <1>11 DEF LoadOld
<1>12. CASE StoreOld(p)
  BY <1>d, <1>b, <1>c, <1>12 DEF StoreOld, Exchanged, At, Holding, Typed
<1>13. CASE Tests(p)
  BY <1>a, <1>13 DEF Tests, TestRef, OldUid, Return, Idle
<1>14. CASE GetPeer(p)
  BY <1>b, <1>c, <1>14 DEF GetPeer, Typed
<1>15. CASE Unrelate(p)
  BY <1>d, <1>b, <1>c, <1>15 DEF Unrelate, At, Holding, Typed
<1>16. CASE CountDown(p)
  BY <1>a, <1>16 DEF CountDown, Go
<1>17. CASE LoadRef(p, "countDown", "storeDown")
  BY <1>a, <1>17 DEF LoadRef
<1>18. CASE StoreRef(p, "storeDown", Puc(p), call[p].seen - 1, "erase")
  BY <1>a, <1>18 DEF StoreRef
<1>19. CASE Erase(p)
  BY <1>b, <1>c, <1>19 DEF Erase, Typed
<1>20. CASE FindStored(p)
  BY <1>a, <1>20 DEF FindStored, Return, Idle
<1>21. CASE DropUser(p)
  BY <1>b, <1>c, <1>21 DEF DropUser, Typed
<1>22. CASE Delete(p)
  BY <1>a, <1>22 DEF Delete, Return, Idle
<1> QED
  BY <1>1, <1>2, <1>3, <1>4, <1>5, <1>6, <1>7, <1>8, <1>9, <1>10, <1>11,
     <1>12, <1>13, <1>14, <1>15, <1>16, <1>17, <1>18, <1>19, <1>20, <1>21,
     <1>22
  DEF Acts, Typed

(* The call of p has the new locals c, the others are as they were.         *)
Turned(p, c) == call' = [q \in Peers |-> IF q = p THEN c ELSE call[q]]
Locals(op, step, uid, puc, old, seen, uids) ==
  [op |-> op, step |-> step, uid |-> uid, puc |-> puc, old |-> old,
   seen |-> seen, uids |-> uids]
Same(p, step, uid, puc, old, seen) ==
  Locals(call[p].op, step, uid, puc, old, seen, call[p].uids)

(* What each way to go on does to the locals of the call.                   *)
LEMMA Turns ==
  ASSUME TypeOK, NEW p \in Peers, NEW x, NEW y, NEW step
  PROVE  LET c == call[p] IN
         /\ Return(p)
               => Turned(p, Locals("none", "idle", None, None, None, 0, {}))
         /\ Go(p, step)
               => Turned(p, Same(p, step, c.uid, c.puc, c.old, c.seen))
         /\ call' = [call EXCEPT ![p].puc = x, ![p].step = step]
              => Turned(p, Same(p, step, c.uid, x, c.old, c.seen))
         /\ call' = [call EXCEPT ![p].seen = x, ![p].step = step]
              => Turned(p, Same(p, step, c.uid, c.puc, c.old, x))
         /\ call' = [call EXCEPT ![p].step = step, ![p].seen = x]
              => Turned(p, Same(p, step, c.uid, c.puc, c.old, x))
         /\ call' = [call EXCEPT ![p].old = x, ![p].step = step]
              => Turned(p, Same(p, step, c.uid, c.puc, x, c.seen))
         /\ call' = [call EXCEPT ![p].puc = x, ![p].old = y, ![p].step = step]
              => Turned(p, Same(p, step, c.uid, x, y, c.seen))
         /\ call' = [call EXCEPT ![p].uid = x, ![p].step = step]
              => Turned(p, Same(p, step, x, c.puc, c.old, c.seen))
<1>1. call \in [Peers -> CallType]
  BY DEF TypeOK
<1>2. call[p] \in CallType
  BY <1>1
<1> DEFINE c == call[p]
<1>a. Return(p) => Turned(p, Locals("none", "idle", None, None, None, 0, {}))
  BY <1>1 DEF Return, Turned, Locals, Idle, None
<1>3. call' = [call EXCEPT ![p].step = step]
        => Turned(p, Same(p, step, c.uid, c.puc, c.old, c.seen))
  <2>1. [c EXCEPT !.step = step] = Same(p, step, c.uid, c.puc, c.old, c.seen)
    BY <1>2 DEF CallType, Same, Locals
  <2> QED BY <1>1, <2>1 DEF Turned
<1>4. call' = [call EXCEPT ![p].puc = x, ![p].step = step]
        => Turned(p, Same(p, step, c.uid, x, c.old, c.seen))
  <2> DEFINE c1 == [c EXCEPT !.puc = x]
  <2>1. c1 = Same(p, c.step, c.uid, x, c.old, c.seen)
    BY <1>2 DEF CallType, Same, Locals
  <2> HIDE DEF c1
  <2>2. [c1 EXCEPT !.step = step] = Same(p, step, c.uid, x, c.old, c.seen)
    BY <2>1 DEF Same, Locals
  <2>3. [c EXCEPT !.puc = x, !.step = step]
          = Same(p, step, c.uid, x, c.old, c.seen)
    BY <2>2 DEF c1
  <2> QED BY <1>1, <2>3 DEF Turned
<1>5. call' = [call EXCEPT ![p].seen = x, ![p].step = step]
        => Turned(p, Same(p, step, c.uid, c.puc, c.old, x))
  <2> DEFINE c1 == [c EXCEPT !.seen = x]
  <2>1. c1 = Same(p, c.step, c.uid, c.puc, c.old, x)
    BY <1>2 DEF CallType, Same, Locals
  <2> HIDE DEF c1
  <2>2. [c1 EXCEPT !.step = step] = Same(p, step, c.uid, c.puc, c.old, x)
    BY <2>1 DEF Same, Locals
  <2>3. [c EXCEPT !.seen = x, !.step = step]
          = Same(p, step, c.uid, c.puc, c.old, x)
    BY <2>2 DEF c1
  <2> QED BY <1>1, <2>3 DEF Turned
<1>6. call' = [call EXCEPT ![p].step = step, ![p].seen = x]
        => Turned(p, Same(p, step, c.uid, c.puc, c.old, x))
  <2> DEFINE c1 == [c EXCEPT !.step = step]
  <2>1. c1 = Same(p, step, c.uid, c.puc, c.old, c.seen)
    BY <1>2 DEF CallType, Same, Locals
  <2> HIDE DEF c1
  <2>2. [c1 EXCEPT !.seen = x] = Same(p, step, c.uid, c.puc, c.old, x)
    BY <2>1 DEF Same, Locals
  <2>3. [c EXCEPT !.step = step, !.seen = x]
          = Same(p, step, c.uid, c.puc, c.old, x)
    BY <2>2 DEF c1
  <2> QED BY <1>1, <2>3 DEF Turned
<1>7. call' = [call EXCEPT ![p].old = x, ![p].step = step]
        => Turned(p, Same(p, step, c.uid, c.puc, x, c.seen))
  <2> DEFINE c1 == [c EXCEPT !.old = x]
  <2>1. c1 = Same(p, c.step, c.uid, c.puc, x, c.seen)
    BY <1>2 DEF CallType, Same, Locals
  <2> HIDE DEF c1
  <2>2. [c1 EXCEPT !.step = step] = Same(p, step, c.uid, c.puc, x, c.seen)
    BY <2>1 DEF Same, Locals
  <2>3. [c EXCEPT !.old = x, !.step = step]
          = Same(p, step, c.uid, c.puc, x, c.seen)
    BY <2>2 DEF c1
  <2> QED BY <1>1, <2>3 DEF Turned
<1>8. call' = [call EXCEPT ![p].puc = x, ![p].old = y, ![p].step = step]
        => Turned(p, Same(p, step, c.uid, x, y, c.seen))
  <2> DEFINE c1 == [c EXCEPT !.puc = x]
  <2>1. c1 = Same(p, c.step, c.uid, x, c.old, c.seen)
    BY <1>2 DEF CallType, Same, Locals
  <2> HIDE DEF c1
  <2> DEFINE c2 == [c1 EXCEPT !.old = y]
  <2>2. c2 = Same(p, c.step, c.uid, x, y, c.seen)
    BY <2>1 DEF Same, Locals
  <2> HIDE DEF c2
  <2>3. [c2 EXCEPT !.step = step] = Same(p, step, c.uid, x, y, c.seen)
    BY <2>2 DEF Same, Locals
  <2>4. [c EXCEPT !.puc = x, !.old = y, !.step = step]
          = Same(p, step, c.uid, x, y, c.seen)
    BY <2>3 DEF c1, c2
  <2> QED BY <1>1, <2>4 DEF Turned
<1>9. call' = [call EXCEPT ![p].uid = x, ![p].step = step]
        => Turned(p, Same(p, step, x, c.puc, c.old, c.seen))
  <2> DEFINE c1 == [c EXCEPT !.uid = x]
  <2>1. c1 = Same(p, c.step, x, c.puc, c.old, c.seen)
    BY <1>2 DEF CallType, Same, Locals
  <2> HIDE DEF c1
  <2>2. [c1 EXCEPT !.step = step] = Same(p, step, x, c.puc, c.old, c.seen)
    BY <2>1 DEF Same, Locals
  <2>3. [c EXCEPT !.uid = x, !.step = step]
          = Same(p, step, x, c.puc, c.old, c.seen)
    BY <2>2 DEF c1
  <2> QED BY <1>1, <2>3 DEF Turned
<1> QED
  BY <1>a, <1>3, <1>4, <1>5, <1>6, <1>7, <1>8, <1>9 DEF Go

(* The frame of a step of p: the entries of other peers and the UIDs that   *)
(* the call does not handle stay as they are.                               *)
Alone(p) ==
  /\ Keeps(p)
  /\ \A q \in Peers :
       q # p => /\ call'[q] = call[q] /\ mapContext'[q] = mapContext[q]
                /\ q \in login' <=> q \in login
                /\ \A u \in Uids :
                     q \in mapRelation'[u] <=> q \in mapRelation[u]
  /\ \A u \in Uids : u # call[p].uid => mapUser'[u] = mapUser[u]
  /\ \/ mapContext'[p] \in {mapContext[p], None}
     \/ mapContext'[p] = Puc(p) /\ call[p].step \in Holding
  /\ clashed' = clashed /\ platform' = platform

(* No step touches the locals, the entry and the login of another peer.     *)
LEMMA FrameOf ==
  ASSUME TypeOK, CallsFit, NEW p \in Peers, Acts(p),
         UNCHANGED <<platform, clashed>>,
         \A q \in Peers : q # p => call'[q] = call[q]
  PROVE  Alone(p)
<1> DEFINE Rest ==
      /\ \A q \in Peers :
           q # p => /\ mapContext'[q] = mapContext[q]
                    /\ q \in login' <=> q \in login
                    /\ \A u \in Uids :
                         q \in mapRelation'[u] <=> q \in mapRelation[u]
      /\ \A u \in Uids : u # call[p].uid => mapUser'[u] = mapUser[u]
      /\ \/ mapContext'[p] \in {mapContext[p], None}
         \/ mapContext'[p] = Puc(p) /\ call[p].step \in Holding
<1> SUFFICES Rest
  BY ObjectsKept DEF Alone
<1>a. UNCHANGED tables => Rest
  BY DEF tables
<1>b. /\ mapContext \in [Peers -> 0..Len(object)]
      /\ mapUser \in [Uids -> 0..Len(object)]
      /\ mapRelation \in [Uids -> SUBSET Peers]
      /\ call[p].step \in Holding => object[Puc(p)].uid \in Uids
  BY HandsTyped, ObjectsTyped DEF TypeOK
<1> HIDE DEF Rest
<1>1. CASE FindPeer(p)
  BY <1>a, <1>1 DEF FindPeer, Go, Return, Idle
<1>2. CASE FindUser(p)
  BY <1>a, <1>2 DEF FindUser
<1>3. CASE AddUser(p)
  BY <1>b, <1>3 DEF AddUser, Rest
<1>4. CASE CountUp(p)
  BY <1>a, <1>4 DEF CountUp, Go, Counted
<1>5. CASE LoadRef(p, "countUp", "storeUp")
  BY <1>a, <1>5 DEF LoadRef
<1>6. CASE StoreRef(p, "storeUp", Puc(p), call[p].seen + 1, Counted(p))
  BY <1>a, <1>6 DEF StoreRef, Counted
<1>7. CASE Insert(p)
  BY <1>b, <1>7 DEF Insert, Rest, At, Holding
<1>8. CASE Relate(p)
  BY <1>b, <1>8 DEF Relate, At, Holding, Rest
<1>9. CASE StatLogin(p)
  BY <1>b, <1>9 DEF StatLogin, At, Holding, Rest
<1>10. CASE Exchange(p)
  BY <1>b, <1>10 DEF Exchange, Exchanged, At, Holding, Rest
<1>11. CASE LoadOld(p)
  BY <1>a, <1>11 DEF LoadOld
<1>12. CASE StoreOld(p)
  BY <1>b, <1>12 DEF StoreOld, Exchanged, At, Holding, Rest
<1>13. CASE Tests(p)
  BY <1>a, <1>13 DEF Tests, TestRef, OldUid, Return, Idle
<1>14. CASE GetPeer(p)
  BY <1>b, <1>14 DEF GetPeer, Rest
<1>15. CASE Unrelate(p)
  BY <1>b, <1>15 DEF Unrelate, At, Holding, Rest
<1>16. CASE CountDown(p)
  BY <1>a, <1>16 DEF CountDown, Go
<1>17. CASE LoadRef(p, "countDown", "storeDown")
  BY <1>a, <1>17 DEF LoadRef
<1>18. CASE StoreRef(p, "storeDown", Puc(p), call[p].seen - 1, "erase")
  BY <1>a, <1>18 DEF StoreRef
<1>19. CASE Erase(p)
  BY <1>b, <1>19 DEF Erase, Rest
<1>20. CASE FindStored(p)
  BY <1>a, <1>20 DEF FindStored, Return, Idle
<1>21. CASE DropUser(p)
  BY <1>b, <1>21 DEF DropUser, Rest
<1>22. CASE Delete(p)
  BY <1>a, <1>22 DEF Delete, Return, Idle
<1> QED
  BY <1>1, <1>2, <1>3, <1>4, <1>5, <1>6, <1>7, <1>8, <1>9, <1>10, <1>11,
     <1>12, <1>13, <1>14, <1>15, <1>16, <1>17, <1>18, <1>19, <1>20, <1>21,
     <1>22
  DEF Acts, Rest

(* What a step of p leaves of the invariant for another peer.               *)
LEMMA Touched ==
  ASSUME Inv, NEW p \in Peers, ~At(p, "idle"), Alone(p)
  PROVE  /\ call[p].uid \in call[p].uids /\ call[p].uid \in Uids
         /\ \A o \in 1..Len(object) :
              object'[o] # object[o] => Uid(o) \in call[p].uids
         /\ \A o \in 1..Len(object) : Uid(o)' = Uid(o)
         /\ \A u \in Uids \ call[p].uids :
              /\ mapUser'[u] = mapUser[u]
              /\ On(u)' = On(u)
<1>1. /\ PlaceFits(p) /\ EntryFits(p) /\ HandFits(p) /\ TypeOK /\ CallsFit
      /\ Keeps(p)
  BY DEF Inv, CallsFit, Alone
<1>2. call[p].uid \in call[p].uids /\ call[p].uid \in Uids
  BY <1>1, HandsTyped DEF PlaceFits
<1>3. /\ Len(object) \in Nat
      /\ \A q \in Peers : mapContext[q] \in 0..Len(object)
      /\ call[p].step \in Holding => Puc(p) \in 1..Len(object)
      /\ call[p].step \in {"exchange", "exchangeStore"} =>
              mapContext[p] \in 1..Len(object)
  BY <1>1, HandsTyped
<1>4. ASSUME NEW o \in 1..Len(object), object'[o] # object[o]
      PROVE  Uid(o) \in call[p].uids
  BY <1>1, <1>2, <1>3, <1>4 DEF Keeps, HandFits, EntryFits, At, None
<1>5. \A o \in 1..Len(object) : Uid(o)' = Uid(o)
  BY <1>1 DEF Keeps, Uid
<1>6. ASSUME NEW u \in Uids \ call[p].uids
      PROVE  mapUser'[u] = mapUser[u] /\ On(u)' = On(u)
  <2>1. mapUser'[u] = mapUser[u]
    BY <1>2 DEF Alone
  <2>2. ASSUME NEW q \in Peers, q # p
        PROVE  q \in On(u)' <=> q \in On(u)
    BY <1>3, <1>5, <2>2 DEF Alone, On, None
  <2>3. p \notin On(u)
    BY <1>1 DEF EntryFits, On
  <2>4. p \notin On(u)'
    <3>1. CASE mapContext'[p] \in {mapContext[p], None}
      BY <1>1, <1>3, <1>5, <3>1 DEF EntryFits, On, None
    <3>2. CASE mapContext'[p] = Puc(p) /\ call[p].step \in Holding
      BY <1>1, <1>2, <1>3, <1>5, <3>2 DEF HandFits, On, None
    <3> QED BY <3>1, <3>2 DEF Alone
  <2> QED BY <2>1, <2>2, <2>3, <2>4 DEF On
<1> QED BY <1>2, <1>4, <1>5, <1>6

Fits(p) ==
  /\ PlaceFits(p) /\ EntryFits(p) /\ HandFits(p) /\ SeenFits(p)
  /\ LoginFits(p) /\ RelationFits(p) /\ FoundFits(p) /\ OldFits(p)

(* What another call relies on outlives a step that is not its own.         *)
LEMMA OthersFit ==
  ASSUME Inv, NEW p \in Peers, ~At(p, "idle"), Alone(p),
         NEW q \in Peers, q # p
  PROVE  Fits(q)'
<1>1. Fits(q) /\ TypeOK /\ CallsFit
  BY DEF Inv, Fits, CallsFit, LocalsFit
<1>2. /\ Len(object) \in Nat /\ call[q].old \in 0..Len(object)
      /\ mapContext[q] \in 0..Len(object)
      /\ call[q].uids \in SUBSET Uids
      /\ ~At(q, "idle") => call[q].uid \in Uids
      /\ call[q].step \in Holding => Puc(q) \in 1..Len(object)
      /\ call[q].step \in {"exchange", "exchangeStore"} =>
              mapContext[q] \in 1..Len(object)
  BY <1>1, HandsTyped
<1>3. /\ call'[q] = call[q] /\ mapContext'[q] = mapContext[q]
      /\ Puc(q)' = Puc(q) /\ clashed' = clashed /\ platform' = platform
      /\ q \in login' <=> q \in login
      /\ \A u \in Uids : q \in mapRelation'[u] <=> q \in mapRelation[u]
  BY DEF Alone, Puc
<1>4. /\ \A o \in 1..Len(object) :
           object'[o] # object[o] => Uid(o) \in call[p].uids
      /\ \A o \in 1..Len(object) : Uid(o)' = Uid(o)
      /\ \A u \in Uids \ call[p].uids :
           mapUser'[u] = mapUser[u] /\ On(u)' = On(u)
  BY Touched
<1>5. call[p].uids \cap call[q].uids \subseteq clashed
  BY DEF Inv, OneHandler
<1>6. PlaceFits(q)'
  BY <1>1, <1>3 DEF Fits, PlaceFits, At
<1>7. EntryFits(q)'
  BY <1>1, <1>2, <1>3, <1>4 DEF Fits, EntryFits, At, None
<1>8. HandFits(q)'
  BY <1>1, <1>2, <1>3, <1>4 DEF Fits, HandFits, At, None
<1>9. SeenFits(q)'
  <2>1. ASSUME call[q].step \in {"storeUp", "storeDown"}
        PROVE  Uid(Puc(q)) \in clashed \/ object'[Puc(q)] = object[Puc(q)]
    BY <1>1, <1>2, <1>4, <1>5, <2>1
    DEF Fits, PlaceFits, HandFits, Holding, At
  <2>2. ASSUME At(q, "exchangeStore")
        PROVE  \/ Uid(mapContext[q]) \in clashed
               \/ object'[mapContext[q]] = object[mapContext[q]]
    BY <1>1, <1>2, <1>4, <1>5, <2>2 DEF Fits, EntryFits, At, None
  <2>3. CASE call[q].step \in {"storeUp", "storeDown"}
    BY <1>1, <1>2, <1>3, <1>4, <2>1, <2>3 DEF Fits, SeenFits, At, Holding
  <2>4. CASE At(q, "exchangeStore")
    BY <1>1, <1>2, <1>3, <1>4, <2>2, <2>4 DEF Fits, SeenFits, At
  <2> QED BY <1>3, <2>3, <2>4 DEF SeenFits, At
<1>10. LoginFits(q)'
  BY <1>1, <1>3 DEF Fits, LoginFits
<1>11. RelationFits(q)'
  <2>1. \A u \in Uids : q \in On(u)' <=> q \in On(u)
    BY <1>2, <1>3, <1>4 DEF On, None
  <2> QED BY <1>1, <1>3, <2>1 DEF Fits, RelationFits
<1>12. FoundFits(q)'
  <2>1. ASSUME NEW u, u = call[q].uid, u \notin clashed, ~At(q, "idle")
        PROVE  mapUser'[u] = mapUser[u] /\ On(u)' = On(u)
    BY <1>1, <1>2, <1>4, <1>5, <2>1 DEF Fits, PlaceFits
  <2> QED BY <1>1, <1>3, <2>1 DEF Fits, FoundFits, At, Found
<1>13. OldFits(q)'
  <2>1. ASSUME At(q, "test"), Uid(call[q].old) \notin clashed
        PROVE  mapUser'[Uid(call[q].old)] = mapUser[Uid(call[q].old)]
    BY <1>1, <1>2, <1>4, <1>5, <2>1 DEF Fits, HandFits, None
  <2> QED BY <1>1, <1>2, <1>3, <1>4, <2>1 DEF Fits, OldFits, HandFits, At, None
<1> QED
  BY <1>6, <1>7, <1>8, <1>9, <1>10, <1>11, <1>12, <1>13 DEF Fits

-----------------------------------------------------------------------------
(* The counts.                                                              *)
One(b) == IF b THEN 1 ELSE 0

(* One peer enters or leaves a set of peers: its size follows.              *)
LEMMA CardMoves ==
  ASSUME NEW P, IsFiniteSet(P), NEW p \in P, NEW S \in SUBSET P,
         NEW T \in SUBSET P,
         \A q \in P : q # p => (q \in T <=> q \in S)
  PROVE  /\ Cardinality(S) \in Nat /\ Cardinality(T) \in Nat
         /\ Cardinality(T) = Cardinality(S) + One(p \in T) - One(p \in S)
<1>1. IsFiniteSet(S) /\ IsFiniteSet(T)
  BY FS_Subset
<1>2. Cardinality(S) \in Nat /\ Cardinality(T) \in Nat
  BY <1>1, FS_CardinalityType
<1>3. CASE (p \in T) = (p \in S)
  <2>1. S = T
    BY <1>3
  <2> QED BY <1>2, <2>1 DEF One
<1>4. CASE p \in T /\ p \notin S
  <2>1. T = S \cup {p}
    BY <1>4
  <2>2. Cardinality(T) = Cardinality(S) + 1
    BY <1>1, <1>4, <2>1, FS_AddElement
  <2> QED BY <1>2, <1>4, <2>2 DEF One
<1>5. CASE p \notin T /\ p \in S
  <2>1. S = T \cup {p}
    BY <1>5
  <2>2. Cardinality(S) = Cardinality(T) + 1
    BY <1>1, <1>5, <2>1, FS_AddElement
  <2> QED BY <1>2, <1>5, <2>2 DEF One
<1> QED BY <1>2, <1>3, <1>4, <1>5

(* What the entry and the place of p add to the count of a user context.    *)
Weight(p, o) ==
  One(mapContext[p] = o)
    + One(call[p].op = "AddPeer" /\ At(p, "insert") /\ Puc(p) = o)
    + One(call[p].op = "UpdatePeer" /\ At(p, "exchange") /\ Puc(p) = o)
    + One(call[p].op = "UpdatePeer" /\ At(p, "exchangeStore") /\ Puc(p) = o)
    - One(call[p].op = "RemovePeer" /\ At(p, "erase") /\ Puc(p) = o)

Total(o) ==
  Cardinality({p \in Peers : mapContext[p] = o})
    + Cardinality(CallsAt("AddPeer", "insert", o))
    + Cardinality(CallsAt("UpdatePeer", "exchange", o))
    + Cardinality(CallsAt("UpdatePeer", "exchangeStore", o))
    - Cardinality(CallsAt("RemovePeer", "erase", o))

(* The peers that count for a user context change by the one that moves.    *)
LEMMA TotalMoves ==
  ASSUME ConstantsAllowed, NEW p \in Peers, NEW o,
         \A q \in Peers : q # p => /\ call'[q] = call[q]
                                   /\ mapContext'[q] = mapContext[q]
  PROVE  /\ Total(o) \in Int /\ Total(o)' \in Int
         /\ Weight(p, o) \in Int /\ Weight(p, o)' \in Int
         /\ Total(o)' = Total(o) + Weight(p, o)' - Weight(p, o)
<1> DEFINE M == {q \in Peers : mapContext[q] = o}
           C(op, step) == CallsAt(op, step, o)
<1>1. IsFiniteSet(Peers)
  BY DEF ConstantsAllowed
<1>2. /\ Cardinality(M) \in Nat /\ Cardinality(M') \in Nat
      /\ Cardinality(M') = Cardinality(M) + One(mapContext'[p] = o)
                             - One(mapContext[p] = o)
  BY <1>1, CardMoves
<1>3. ASSUME NEW op, NEW step
      PROVE  /\ Cardinality(C(op, step)) \in Nat
             /\ Cardinality(C(op, step)') \in Nat
             /\ Cardinality(C(op, step)') = Cardinality(C(op, step))
                  + One(call[p].op = op /\ At(p, step) /\ Puc(p) = o)'
                  - One(call[p].op = op /\ At(p, step) /\ Puc(p) = o)
  <2>1. C(op, step) \in SUBSET Peers /\ C(op, step)' \in SUBSET Peers
    BY DEF CallsAt
  <2>2. \A q \in Peers : q # p => (q \in C(op, step)' <=> q \in C(op, step))
    BY DEF CallsAt, At, Puc
  <2>3. /\ p \in C(op, step) <=> call[p].op = op /\ At(p, step) /\ Puc(p) = o
        /\ p \in C(op, step)'
             <=> (call[p].op = op /\ At(p, step) /\ Puc(p) = o)'
    BY DEF CallsAt
  <2> HIDE DEF C
  <2>4. /\ Cardinality(C(op, step)) \in Nat
        /\ Cardinality(C(op, step)') \in Nat
        /\ Cardinality(C(op, step)') = Cardinality(C(op, step))
              + One(p \in C(op, step)') - One(p \in C(op, step))
    BY <1>1, <2>1, <2>2, CardMoves
  <2> QED BY <2>3, <2>4 DEF One
<1>4. \A b : One(b) \in Int
  BY DEF One
<1> DEFINE Adds(op, step) == One(call[p].op = op /\ At(p, step) /\ Puc(p) = o)
<1>5. \A op, step : Adds(op, step) \in Int /\ Adds(op, step)' \in Int
  BY <1>4
<1>6. One(mapContext[p] = o) \in Int /\ One(mapContext'[p] = o) \in Int
  BY <1>4
<1>7. /\ Total(o) = Cardinality(M) + Cardinality(C("AddPeer", "insert"))
                    + Cardinality(C("UpdatePeer", "exchange"))
                    + Cardinality(C("UpdatePeer", "exchangeStore"))
                    - Cardinality(C("RemovePeer", "erase"))
      /\ Total(o)' = Cardinality(M') + Cardinality(C("AddPeer", "insert")')
                    + Cardinality(C("UpdatePeer", "exchange")')
                    + Cardinality(C("UpdatePeer", "exchangeStore")')
                    - Cardinality(C("RemovePeer", "erase")')
  BY DEF Total
<1>10. /\ Weight(p, o) = One(mapContext[p] = o) + Adds("AddPeer", "insert")
                    + Adds("UpdatePeer", "exchange")
                    + Adds("UpdatePeer", "exchangeStore")
                    - Adds("RemovePeer", "erase")
       /\ Weight(p, o)' = One(mapContext'[p] = o) + Adds("AddPeer", "insert")'
                    + Adds("UpdatePeer", "exchange")'
                    + Adds("UpdatePeer", "exchangeStore")'
                    - Adds("RemovePeer", "erase")'
  BY DEF Weight
<1>8. \A op, step : Cardinality(C(op, step)')
                       = Cardinality(C(op, step)) + Adds(op, step)'
                           - Adds(op, step)
  BY <1>3
<1>9. \A op, step : /\ Cardinality(C(op, step)) \in Nat
                     /\ Cardinality(C(op, step)') \in Nat
  BY <1>3
<1> HIDE DEF M, C, Adds
<1> QED BY <1>2, <1>5, <1>6, <1>7, <1>8, <1>9, <1>10

(* The step adds to a count what p adds to it.                              *)
Counts(p) ==
  /\ \A o \in 1..Len(object) :
       \/ object'[o].refs - object[o].refs = Weight(p, o)' - Weight(p, o)
       \/ platform = "managed" /\ Uid(o) \in clashed
  /\ \A o \in (Len(object) + 1)..Len(object') :
       object'[o].refs = Weight(p, o)' - Weight(p, o)

(* The counts hold when each follows the weight of the moving peer.         *)
LEMMA CountsKept ==
  ASSUME ConstantsAllowed, Inv, TypeOK', NEW p \in Peers, Alone(p), Counts(p)
  PROVE  UserRefsCounted'
<1>1. /\ TypeOK /\ Len(object) \in Nat /\ Len(object') \in Nat
      /\ Objects = 1..Len(object) /\ Objects' = 1..Len(object')
      /\ \A o \in Objects : object[o].refs \in Int
      /\ \A o \in Objects' : object'[o].refs \in Int
  <2>1. object \in Seq(UserType) /\ object' \in Seq(UserType)
    BY DEF Inv, TypeOK
  <2> QED BY <2>1, UsersTyped DEF Inv, Objects
<1>2. /\ \A o \in 1..Len(object) : object'[o].uid = object[o].uid
      /\ clashed' = clashed /\ platform' = platform
      /\ \A q \in Peers : q # p => /\ call'[q] = call[q]
                                   /\ mapContext'[q] = mapContext[q]
  BY DEF Alone, Keeps
<1>3. \A o : /\ Total(o) \in Int /\ Total(o)' \in Int
             /\ Weight(p, o) \in Int /\ Weight(p, o)' \in Int
             /\ Total(o)' = Total(o) + Weight(p, o)' - Weight(p, o)
  BY <1>2, TotalMoves
<1>4. UserRefsCounted = \A o \in Objects : \/ object[o].refs = Total(o)
                                           \/ /\ platform = "managed"
                                              /\ object[o].uid \in clashed
  BY DEF UserRefsCounted, Total
<1>5. UserRefsCounted' = \A o \in Objects' : \/ object'[o].refs = Total(o)'
                                             \/ /\ platform' = "managed"
                                                /\ object'[o].uid \in clashed'
  BY DEF UserRefsCounted, Total
<1>6. ASSUME NEW o \in 1..Len(object)
      PROVE  \/ object'[o].refs = Total(o)'
             \/ platform' = "managed" /\ object'[o].uid \in clashed'
  <2>1. CASE platform = "managed" /\ object[o].uid \in clashed
    BY <1>2, <2>1
  <2>2. CASE ~(platform = "managed" /\ object[o].uid \in clashed)
    <3>1. object[o].refs = Total(o)
      BY <1>1, <1>4, <2>2 DEF Inv
    <3>2. object'[o].refs - object[o].refs = Weight(p, o)' - Weight(p, o)
      BY <2>2 DEF Counts, Uid
    <3>3. o \in Objects' /\ o \in Objects
      BY <1>1 DEF Alone, Keeps
    <3>4. object'[o].refs \in Int /\ object[o].refs \in Int
      BY <1>1, <3>3
    <3> QED BY <1>3, <3>1, <3>2, <3>4
  <2> QED BY <2>1, <2>2
<1>7. ASSUME NEW o \in (Len(object) + 1)..Len(object')
      PROVE  object'[o].refs = Total(o)'
  <2>1. \A q \in Peers : mapContext[q] # o /\ Puc(q) # o
    <3>1. ASSUME NEW q \in Peers
          PROVE  mapContext[q] \in 0..Len(object) /\ Puc(q) \in 0..Len(object)
      BY HandsTyped DEF Inv
    <3> QED BY <1>1, <3>1
  <2>2. /\ CallsAt("AddPeer", "insert", o) = {}
        /\ CallsAt("UpdatePeer", "exchange", o) = {}
        /\ CallsAt("UpdatePeer", "exchangeStore", o) = {}
        /\ CallsAt("RemovePeer", "erase", o) = {}
    BY <2>1 DEF CallsAt
  <2> DEFINE M == {q \in Peers : mapContext[q] = o}
  <2>3. M = {}
    BY <2>1
  <2>4. Total(o) = 0
    <3>1. Cardinality({}) = 0
      BY FS_EmptySet
    <3>2. Total(o) = Cardinality(M)
                       + Cardinality(CallsAt("AddPeer", "insert", o))
                       + Cardinality(CallsAt("UpdatePeer", "exchange", o))
                       + Cardinality(CallsAt("UpdatePeer", "exchangeStore", o))
                       - Cardinality(CallsAt("RemovePeer", "erase", o))
      BY DEF Total
    <3> HIDE DEF M
    <3>3. /\ Cardinality(M) = 0
          /\ Cardinality(CallsAt("AddPeer", "insert", o)) = 0
          /\ Cardinality(CallsAt("UpdatePeer", "exchange", o)) = 0
          /\ Cardinality(CallsAt("UpdatePeer", "exchangeStore", o)) = 0
          /\ Cardinality(CallsAt("RemovePeer", "erase", o)) = 0
      BY <2>2, <2>3, <3>1, Zenon
    <3> QED BY <3>2, <3>3
  <2> QED BY <1>3, <2>4 DEF Counts
<1> QED BY <1>1, <1>5, <1>6, <1>7

(* What a step has to leave of the users that its call handles.             *)
Settled(p) ==
  /\ call'[p].uids \subseteq call[p].uids
  /\ platform = "managed" /\ call'[p].op = "UpdatePeer" =>
       /\ call[p].op = "UpdatePeer" /\ call'[p].uid = call[p].uid
       /\ call'[p].uids = call[p].uids
  /\ \/ mapUser'[call[p].uid] = None
     \/ object'[mapUser'[call[p].uid]].uid = call[p].uid
  /\ \A u \in call[p].uids \ clashed :
       /\ \A q \in On(u)' : mapContext'[q] = mapUser'[u]
       /\ mapUser'[u] # None => object'[mapUser'[u]].alive
       /\ mapUser'[u] # None => On(u)' # {} \/ Minds(p, u)'

(* A step keeps the invariant if its own call still fits, its count         *)
(* follows its weight and its users are settled.                            *)
LEMMA StepKeeps ==
  ASSUME ConstantsAllowed, Inv, TypeOK', NEW p \in Peers, ~At(p, "idle"),
         Alone(p), Fits(p)', Counts(p), Settled(p)
  PROVE  Inv'
<1>1. /\ call[p].uid \in call[p].uids /\ call[p].uid \in Uids
      /\ \A o \in 1..Len(object) :
              object'[o] # object[o] => Uid(o) \in call[p].uids
      /\ \A o \in 1..Len(object) : Uid(o)' = Uid(o)
      /\ \A u \in Uids \ call[p].uids :
              /\ mapUser'[u] = mapUser[u]
              /\ On(u)' = On(u)
  BY Touched
<1>2. /\ clashed' = clashed /\ platform' = platform
      /\ \A q \in Peers : q # p => /\ call'[q] = call[q]
                                   /\ mapContext'[q] = mapContext[q]
      /\ \A u \in Uids : u # call[p].uid => mapUser'[u] = mapUser[u]
  BY DEF Alone
<1>3. /\ TypeOK /\ StoredFits /\ CallsFit /\ OneHandler /\ UserFits
      /\ NotForgotten
  BY DEF Inv
<1>4. /\ Len(object) \in Nat
      /\ \A u \in Uids : mapUser[u] \in 0..Len(object)
      /\ call[p].uids \subseteq Uids
  BY <1>3, HandsTyped DEF TypeOK
<1>5. \A q \in Peers : Fits(q)'
  BY OthersFit
<1>6. CallsFit' /\ LocalsFit'
  BY <1>5 DEF Fits, CallsFit, LocalsFit
<1>7. StoredFits'
  <2>1. ASSUME NEW u \in Uids, mapUser'[u] # None
        PROVE  object'[mapUser'[u]].uid = u
    <3>1. CASE u # call[p].uid
      BY <1>1, <1>2, <1>3, <1>4, <2>1, <3>1 DEF StoredFits, None, Uid
    <3>2. CASE u = call[p].uid
      BY <2>1, <3>2 DEF Settled
    <3> QED BY <3>1, <3>2
  <2> QED BY <2>1 DEF StoredFits, Uid
<1>8. OneHandler'
  BY <1>2, <1>3 DEF OneHandler, Settled
<1>9. ASSUME NEW u \in (Uids \ clashed) \ call[p].uids
      PROVE  /\ \A q \in On(u)' : mapContext'[q] = mapUser'[u]
             /\ mapUser'[u] # None => object'[mapUser'[u]].alive
             /\ mapUser'[u] # None
                  => On(u)' # {} \/ \E q \in Peers : Minds(q, u)'
  <2>1. mapUser'[u] = mapUser[u] /\ On(u)' = On(u)
    BY <1>1
  <2>2. p \notin On(u)
    BY <1>3 DEF On, CallsFit, EntryFits
  <2>3. \A q \in On(u) : mapContext'[q] = mapUser[u]
    BY <1>2, <1>3, <2>2 DEF UserFits, On
  <2>4. ASSUME mapUser[u] # None
        PROVE  object'[mapUser[u]].alive
    <3>1. mapUser[u] \in 1..Len(object) /\ Uid(mapUser[u]) = u
      BY <1>3, <1>4, <2>4 DEF StoredFits, None
    <3>2. object'[mapUser[u]] = object[mapUser[u]]
      BY <1>1, <3>1
    <3> QED BY <1>3, <2>1, <2>4, <3>2 DEF UserFits, Alive
  <2>5. ASSUME mapUser[u] # None, NEW q \in Peers, Minds(q, u)
        PROVE  Minds(q, u)'
    <3>1. q # p
      BY <1>1, <1>3, <2>5 DEF Minds, CallsFit, HandFits
    <3>2. At(q, "test") => Uid(call[q].old)' = Uid(call[q].old)
      BY <1>1, <1>2, <1>3, <1>4, <3>1, HandsTyped
      DEF CallsFit, HandFits, None, Uid
    <3> QED BY <1>2, <2>5, <3>1, <3>2 DEF Minds, At
  <2> QED BY <1>3, <2>1, <2>3, <2>4, <2>5 DEF NotForgotten
<1>10. UserFits'
  BY <1>2, <1>9 DEF UserFits, Alive, Settled
<1>11. NotForgotten'
  BY <1>2, <1>9 DEF NotForgotten, Settled
<1>12. UserRefsCounted'
  BY CountsKept
<1> QED BY <1>6, <1>7, <1>8, <1>10, <1>11, <1>12 DEF Inv

(* A step whose call has the new locals c.                                  *)
Now(p, c) ==
  /\ TypeOK' /\ Alone(p) /\ call'[p] = c
  /\ Len(object') \in Nat /\ Len(object) <= Len(object')
  /\ \A o \in 1..Len(object) : object'[o].uid = object[o].uid

(* The locals of a call after a step that ends in place c.                  *)
LEMMA Moved ==
  ASSUME Inv, NEW p \in Peers, Acts(p), UNCHANGED <<platform, clashed>>,
         NEW c, c \in CallType', Turned(p, c)
  PROVE  Now(p, c)
<1>1. TypeOK /\ CallsFit /\ Keeps(p)
  BY ObjectsKept DEF Inv
<1>2. CallType \subseteq CallType'
  BY <1>1, HandsTyped DEF CallType, Keeps
<1>3. call'[p] = c /\ \A q \in Peers : q # p => call'[q] = call[q]
  BY DEF Turned
<1>4. call' \in [Peers -> CallType']
  <2>1. call \in [Peers -> CallType]
    BY <1>1 DEF TypeOK
  <2> QED BY <1>2, <2>1 DEF Turned
<1>5. Alone(p)
  BY <1>1, <1>3, FrameOf
<1>6. TypeOK'
  BY <1>1, <1>4, Retyped DEF TypeOK, Keeps
<1> QED BY <1>1, <1>3, <1>5, <1>6 DEF Now, Keeps

(* What is known of the call before its step.                               *)
Known(p) ==
  /\ TypeOK /\ CallsFit /\ Len(object) \in Nat
  /\ \A o \in 1..Len(object) : Uid(o) \in Uids /\ object[o].refs \in Int
  /\ call[p].op \in Ops /\ call[p].step \in Steps /\ call[p].seen \in Int
  /\ Puc(p) \in 0..Len(object) /\ call[p].old \in 0..Len(object)
  /\ mapContext[p] \in 0..Len(object)
  /\ call[p].uid \in Uids \cup {None} /\ call[p].uids \in SUBSET Uids
  /\ ~At(p, "idle") => /\ call[p].uid \in call[p].uids
                       /\ call[p].uid \in Uids
                       /\ mapUser[call[p].uid] \in 0..Len(object)
                       /\ mapUser[call[p].uid] # None =>
                            Uid(mapUser[call[p].uid]) = call[p].uid
  /\ call[p].step \in Holding => Puc(p) \in 1..Len(object)
  /\ call[p].step \in {"exchange", "exchangeStore"} =>
       mapContext[p] \in 1..Len(object)

Users(p) ==
  /\ \A u : \A q \in On(u) : q \in Peers /\ mapContext[q] # None
  /\ \A u : p \in On(u) <=> mapContext[p] # None /\ Uid(mapContext[p]) = u
  /\ \A u \in call[p].uids \ clashed :
       /\ \A q \in On(u) : mapContext[q] = mapUser[u]
       /\ mapUser[u] # None => Alive(mapUser[u]) /\ Uid(mapUser[u]) = u
       /\ mapUser[u] # None => On(u) # {} \/ Minds(p, u)

(* What the invariant says of a call and its peer before a step.            *)
LEMMA Before ==
  ASSUME Inv, NEW p \in Peers
  PROVE  Known(p) /\ Fits(p) /\ Users(p)
<1>1. TypeOK /\ CallsFit /\ Fits(p) /\ call[p] \in CallType
  BY HandsTyped DEF Inv, CallsFit, LocalsFit, Fits
<1>2. /\ Len(object) \in Nat /\ call[p].seen \in Int
      /\ Puc(p) \in 0..Len(object) /\ call[p].old \in 0..Len(object)
      /\ mapContext[p] \in 0..Len(object)
      /\ call[p].uid \in Uids \cup {None} /\ call[p].uids \in SUBSET Uids
      /\ ~At(p, "idle") => call[p].uid \in Uids
      /\ call[p].step \in Holding => Puc(p) \in 1..Len(object)
      /\ call[p].step \in {"exchange", "exchangeStore"} =>
              mapContext[p] \in 1..Len(object)
  BY <1>1, HandsTyped
<1>3. \A o \in 1..Len(object) : Uid(o) \in Uids /\ object[o].refs \in Int
  BY <1>1, ObjectsTyped DEF Uid
<1>4. ~At(p, "idle") => /\ call[p].uid \in call[p].uids
                        /\ mapUser[call[p].uid] \in 0..Len(object)
                        /\ mapUser[call[p].uid] # None =>
                             Uid(mapUser[call[p].uid]) = call[p].uid
  BY <1>1, <1>2 DEF Fits, PlaceFits, TypeOK, Inv, StoredFits
<1>5. call[p].op \in Ops /\ call[p].step \in Steps
  BY <1>1 DEF CallType
<1>6. ASSUME NEW u \in call[p].uids \ clashed
      PROVE  /\ \A q \in On(u) : mapContext[q] = mapUser[u]
             /\ mapUser[u] # None => Alive(mapUser[u]) /\ Uid(mapUser[u]) = u
             /\ mapUser[u] # None => On(u) # {} \/ Minds(p, u)
  <2>1. u \in Uids \ clashed
    BY <1>2
  <2>2. ASSUME NEW q \in Peers, Minds(q, u)
        PROVE  q = p
    <3>1. u \in call[q].uids
      BY <2>2 DEF Inv, CallsFit, PlaceFits, HandFits, Minds, Found, At
    <3> QED BY <2>1, <3>1 DEF Inv, OneHandler
  <2> QED BY <2>1, <2>2 DEF Inv, UserFits, StoredFits, NotForgotten
<1>7. \A u : /\ \A q \in On(u) : q \in Peers /\ mapContext[q] # None
             /\ p \in On(u) <=> mapContext[p] # None /\ Uid(mapContext[p]) = u
  BY DEF On
<1> QED BY <1>1, <1>2, <1>3, <1>4, <1>5, <1>6, <1>7 DEF Known, Users
(* A step that changes no peer's entry.                                     *)
LEMMA Still ==
  ASSUME Inv, NEW p \in Peers, Alone(p), mapContext' = mapContext
  PROVE  \A u : On(u)' = On(u)
<1>1. \A q \in Peers : mapContext[q] \in 0..Len(object)
  BY DEF Inv, TypeOK
<1>2. Len(object) \in Nat /\ \A o \in 1..Len(object) : Uid(o)' = Uid(o)
  BY Before DEF Known, Alone, Keeps, Uid
<1> QED BY <1>1, <1>2 DEF On, None

(* A step that changes the entry of its own peer only.                      *)
LEMMA Shifted ==
  ASSUME Inv, NEW p \in Peers, Alone(p)
  PROVE  \A u, q : q \in On(u)' <=>
           IF q = p
           THEN mapContext'[p] # None /\ object'[mapContext'[p]].uid = u
           ELSE q \in On(u)
<1>1. \A q \in Peers : mapContext[q] \in 0..Len(object)
  BY DEF Inv, TypeOK
<1>2. /\ Len(object) \in Nat
      /\ \A o \in 1..Len(object) : object'[o].uid = object[o].uid
      /\ \A q \in Peers : q # p => mapContext'[q] = mapContext[q]
  BY Before DEF Known, Alone, Keeps
<1>3. ASSUME NEW u, NEW q \in Peers, q # p
      PROVE  q \in On(u)' <=> q \in On(u)
  BY <1>1, <1>2, <1>3 DEF On, Uid, None
<1>4. \A u, q : q \in On(u) \/ q \in On(u)' => q \in Peers
  BY DEF On
<1>5. \A u : p \in On(u)' <=>
         mapContext'[p] # None /\ object'[mapContext'[p]].uid = u
  BY DEF On, Uid, None
<1> QED BY <1>3, <1>4, <1>5

Ended == Locals("none", "idle", None, None, None, 0, {})

(* The locals of a call that has returned.                                  *)
LEMMA EndedTyped ==
  ASSUME Inv, NEW p \in Peers, Acts(p)
  PROVE  Ended \in CallType'
<1>1. Len(object') \in Nat
  BY ObjectsKept DEF Inv, Keeps
<1> QED BY <1>1 DEF Ended, Locals, CallType, Ops, Steps, None

(* AddPeer() of a peer that has a user returns.                             *)
LEMMA FindPeerKnown ==
  ASSUME ConstantsAllowed, Inv, NEW p \in Peers,
         FindPeer(p),
         mapContext[p] # None,
         UNCHANGED <<platform, clashed>>
  PROVE  Inv'
<1>1. Known(p) /\ Fits(p) /\ Users(p) /\ Acts(p) /\ At(p, "findPeer")
  BY Before DEF Acts, FindPeer
<1>2. /\ mapContext' = mapContext /\ mapUser' = mapUser
      /\ login' = login /\ mapRelation' = mapRelation
      /\ object' = object
  BY <1>1 DEF Known, tables, FindPeer
<1>3. Now(p, Ended)
  <2>1. Turned(p, Ended)
    BY <1>1, Turns, Zenon DEF Known, Ended, FindPeer
  <2>2. Ended \in CallType'
    BY <1>1, EndedTyped, Zenon
  <2> QED BY <1>1, <2>1, <2>2, Moved
<1> USE DEF At, Puc, None, Uid, Now, Same, Locals, Fits, Ended
<1>4. \A u : On(u)' = On(u)
  BY <1>2, <1>3, Still
<1>5. Fits(p)'
  <2>1. PlaceFits(p)' /\ EntryFits(p)' /\ HandFits(p)'
    BY <1>1, <1>2, <1>3, <1>4
    DEF Known, PlaceFits, EntryFits, HandFits, Adding, Updating, Removing,
        Dropping, Holding, Going
  <2>2. SeenFits(p)' /\ LoginFits(p)'
    BY <1>1, <1>2, <1>3, <1>4 DEF Known, SeenFits, LoginFits, Going
  <2>3. RelationFits(p)'
    BY <1>1, <1>2, <1>3, <1>4
    DEF Users, RelationFits, EntryFits, HandFits, Holding, Going, Unlisted
  <2>4. FoundFits(p)' /\ OldFits(p)'
    BY <1>1, <1>2, <1>3, <1>4 DEF Known, Users, FoundFits, OldFits, Found
  <2> QED BY <2>1, <2>2, <2>3, <2>4
<1>6. Counts(p)
  BY <1>1, <1>2, <1>3
  DEF Known, Counts, Weight, One, PlaceFits, EntryFits, HandFits, Holding,
      Going, Adding, Updating, Removing, Dropping, Ops
<1>7. Settled(p)
  BY <1>1, <1>2, <1>3, <1>4
  DEF Known, Users, Settled, HandFits, Minds, Alive, Found, TypeOK
<1> QED BY <1>1, <1>3, <1>5, <1>6, <1>7, StepKeeps

(* AddPeer() of a new peer looks its user up.                               *)
LEMMA FindPeerNew ==
  ASSUME ConstantsAllowed, Inv, NEW p \in Peers,
         FindPeer(p),
         mapContext[p] = None,
         UNCHANGED <<platform, clashed>>
  PROVE  Inv'
<1>1. Known(p) /\ Fits(p) /\ Users(p) /\ Acts(p) /\ At(p, "findPeer")
  BY Before DEF Acts, FindPeer
<1>2. /\ mapContext' = mapContext /\ mapUser' = mapUser
      /\ login' = login /\ mapRelation' = mapRelation
      /\ object' = object
  BY <1>1 DEF Known, tables, FindPeer
<1> DEFINE c == Same(p, "findUser", call[p].uid, call[p].puc, call[p].old,
                     call[p].seen)
<1>3. Now(p, c)
  <2>1. Turned(p, c)
    BY <1>1, Turns, Zenon DEF Known, FindPeer
  <2>2. c \in CallType'
    BY <1>1, <1>2, ObjectsKept
    DEF Known, Keeps, Same, Locals, CallType, Steps, Adding, Updating,
        Removing, Dropping, At, Puc, Holding, Recounts
  <2> QED BY <1>1, <2>1, <2>2, Moved
<1> USE DEF At, Puc, None, Uid, Now, Same, Locals, Fits
<1>4. \A u : On(u)' = On(u)
  BY <1>2, <1>3, Still
<1>5. Fits(p)'
  <2>1. PlaceFits(p)' /\ EntryFits(p)' /\ HandFits(p)'
    BY <1>1, <1>2, <1>3, <1>4
    DEF Known, PlaceFits, EntryFits, HandFits, Adding, Updating, Removing,
        Dropping, Holding, Going, Ops
  <2>2. SeenFits(p)' /\ LoginFits(p)'
    BY <1>1, <1>2, <1>3, <1>4 DEF Known, SeenFits, LoginFits, Going
  <2>3. RelationFits(p)'
    BY <1>1, <1>2, <1>3, <1>4
    DEF Users, RelationFits, EntryFits, HandFits, Holding, Going, Unlisted
  <2>4. FoundFits(p)' /\ OldFits(p)'
    BY <1>1, <1>2, <1>3, <1>4 DEF Known, Users, FoundFits, OldFits, Found
  <2> QED BY <2>1, <2>2, <2>3, <2>4
<1>6. Counts(p)
  BY <1>1, <1>2, <1>3
  DEF Known, Counts, Weight, One, PlaceFits, EntryFits, HandFits, Holding,
      Going, Adding, Updating, Removing, Dropping, Ops
<1>7. Settled(p)
  BY <1>1, <1>2, <1>3, <1>4
  DEF Known, Users, Settled, HandFits, Minds, Alive, Found, TypeOK
<1> QED BY <1>1, <1>3, <1>5, <1>6, <1>7, StepKeeps

(* The user of the call is stored: it is taken in hand.                     *)
LEMMA FindUserStored ==
  ASSUME ConstantsAllowed, Inv, NEW p \in Peers,
         FindUser(p),
         mapUser[call[p].uid] # None,
         UNCHANGED <<platform, clashed>>
  PROVE  Inv'
<1>1. Known(p) /\ Fits(p) /\ Users(p) /\ Acts(p) /\ At(p, "findUser")
  BY Before DEF Acts, FindUser
<1>2. /\ mapContext' = mapContext /\ mapUser' = mapUser
      /\ login' = login /\ mapRelation' = mapRelation
      /\ object' = object
  BY <1>1 DEF Known, tables, FindUser
<1> DEFINE c == Same(p, "countUp", call[p].uid, mapUser[call[p].uid],
                     call[p].old, call[p].seen)
<1>3. Now(p, c)
  <2>1. Turned(p, c)
    BY <1>1, Turns, Zenon DEF Known, FindUser
  <2>2. c \in CallType'
    BY <1>1, <1>2, ObjectsKept
    DEF Known, Keeps, Same, Locals, CallType, Steps, Adding, Updating,
        Removing, Dropping, At, Puc, Holding, Recounts
  <2> QED BY <1>1, <2>1, <2>2, Moved
<1> USE DEF At, Puc, None, Uid, Now, Same, Locals, Fits
<1>4. \A u : On(u)' = On(u)
  BY <1>2, <1>3, Still
<1>5. Fits(p)'
  <2>1. PlaceFits(p)' /\ EntryFits(p)' /\ HandFits(p)'
    BY <1>1, <1>2, <1>3, <1>4
    DEF Known, PlaceFits, EntryFits, HandFits, Adding, Updating, Removing,
        Dropping, Holding, Going
  <2>2. SeenFits(p)' /\ LoginFits(p)'
    BY <1>1, <1>2, <1>3, <1>4 DEF Known, SeenFits, LoginFits, Going
  <2>3. RelationFits(p)'
    BY <1>1, <1>2, <1>3, <1>4
    DEF Users, RelationFits, EntryFits, HandFits, Holding, Going, Unlisted
  <2>4. FoundFits(p)' /\ OldFits(p)'
    BY <1>1, <1>2, <1>3, <1>4 DEF Known, Users, FoundFits, OldFits, Found
  <2> QED BY <2>1, <2>2, <2>3, <2>4
<1>6. Counts(p)
  BY <1>1, <1>2, <1>3
  DEF Known, Counts, Weight, One, PlaceFits, EntryFits, HandFits, Holding,
      Going, Adding, Updating, Removing, Dropping, Ops
<1>7. Settled(p)
  BY <1>1, <1>2, <1>3, <1>4
  DEF Known, Users, Settled, HandFits, Minds, Alive, Found, TypeOK
<1> QED BY <1>1, <1>3, <1>5, <1>6, <1>7, StepKeeps

(* The user of the call is not stored: it will be created.                  *)
LEMMA FindUserMissing ==
  ASSUME ConstantsAllowed, Inv, NEW p \in Peers,
         FindUser(p),
         mapUser[call[p].uid] = None,
         UNCHANGED <<platform, clashed>>
  PROVE  Inv'
<1>1. Known(p) /\ Fits(p) /\ Users(p) /\ Acts(p) /\ At(p, "findUser")
  BY Before DEF Acts, FindUser
<1>2. /\ mapContext' = mapContext /\ mapUser' = mapUser
      /\ login' = login /\ mapRelation' = mapRelation
      /\ object' = object
  BY <1>1 DEF Known, tables, FindUser
<1> DEFINE c == Same(p, "addUser", call[p].uid, mapUser[call[p].uid],
                     call[p].old, call[p].seen)
<1>3. Now(p, c)
  <2>1. Turned(p, c)
    BY <1>1, Turns, Zenon DEF Known, FindUser
  <2>2. c \in CallType'
    BY <1>1, <1>2, ObjectsKept
    DEF Known, Keeps, Same, Locals, CallType, Steps, Adding, Updating,
        Removing, Dropping, At, Puc, Holding, Recounts
  <2> QED BY <1>1, <2>1, <2>2, Moved
<1> USE DEF At, Puc, None, Uid, Now, Same, Locals, Fits
<1>4. \A u : On(u)' = On(u)
  BY <1>2, <1>3, Still
<1>5. Fits(p)'
  <2>1. PlaceFits(p)' /\ EntryFits(p)' /\ HandFits(p)'
    BY <1>1, <1>2, <1>3, <1>4
    DEF Known, PlaceFits, EntryFits, HandFits, Adding, Updating, Removing,
        Dropping, Holding, Going
  <2>2. SeenFits(p)' /\ LoginFits(p)'
    BY <1>1, <1>2, <1>3, <1>4 DEF Known, SeenFits, LoginFits, Going
  <2>3. RelationFits(p)'
    BY <1>1, <1>2, <1>3, <1>4
    DEF Users, RelationFits, EntryFits, HandFits, Holding, Going, Unlisted
  <2>4. FoundFits(p)' /\ OldFits(p)'
    BY <1>1, <1>2, <1>3, <1>4 DEF Known, Users, FoundFits, OldFits, Found
  <2> QED BY <2>1, <2>2, <2>3, <2>4
<1>6. Counts(p)
  BY <1>1, <1>2, <1>3
  DEF Known, Counts, Weight, One, PlaceFits, EntryFits, HandFits, Holding,
      Going, Adding, Updating, Removing, Dropping, Ops
<1>7. Settled(p)
  BY <1>1, <1>2, <1>3, <1>4
  DEF Known, Users, Settled, HandFits, Minds, Alive, Found, TypeOK
<1> QED BY <1>1, <1>3, <1>5, <1>6, <1>7, StepKeeps

(* A user context is created and stored.                                    *)
LEMMA AddUserKeeps ==
  ASSUME ConstantsAllowed, Inv, NEW p \in Peers,
         AddUser(p),
         UNCHANGED <<platform, clashed>>
  PROVE  Inv'
<1>1. Known(p) /\ Fits(p) /\ Users(p) /\ Acts(p) /\ At(p, "addUser")
  BY Before DEF Acts, AddUser
<1>2. /\ Len(object') = Len(object) + 1
      /\ \A i \in 1..Len(object) : object'[i] = object[i]
      /\ object'[Len(object) + 1].uid = call[p].uid
      /\ object'[Len(object) + 1].refs = 0
      /\ object'[Len(object) + 1].alive = TRUE
      /\ mapContext' = mapContext
      /\ mapUser'[call[p].uid] = Len(object) + 1
      /\ \A u \in Uids : u # call[p].uid => mapUser'[u] = mapUser[u]
      /\ login' = login /\ mapRelation' = mapRelation
  <2> DEFINE user == [uid |-> call[p].uid, refs |-> 0, alive |-> TRUE]
  <2>1. /\ user \in UserType /\ user.uid = call[p].uid
        /\ user.refs = 0 /\ user.alive = TRUE
    BY <1>1 DEF Known, At, UserType
  <2>2. object' = Append(object, user)
    BY DEF AddUser
  <2> HIDE DEF user
  <2>3. /\ Len(object') = Len(object) + 1
        /\ \A i \in 1..Len(object) : object'[i] = object[i]
        /\ object'[Len(object) + 1] = user
    BY <1>1, <2>1, <2>2, Created DEF Known
  <2>4. mapUser \in [Uids -> 0..Len(object)]
    BY <1>1 DEF Known, TypeOK
  <2>5. /\ mapUser'[call[p].uid] = Len(object) + 1
        /\ \A u \in Uids : u # call[p].uid => mapUser'[u] = mapUser[u]
    BY <1>1, <2>4 DEF Known, AddUser, At
  <2> QED BY <1>1, <2>1, <2>3, <2>5 DEF AddUser
<1> DEFINE c == Same(p, "countUp", call[p].uid, Len(object) + 1, call[p].old,
                     call[p].seen)
<1>3. Now(p, c)
  <2>1. Turned(p, c)
    BY <1>1, Turns, Zenon DEF Known, AddUser
  <2>2. c \in CallType'
    BY <1>1, <1>2, ObjectsKept
    DEF Known, Keeps, Same, Locals, CallType, Steps, Adding, Updating,
        Removing, Dropping, At, Puc, Holding, Recounts
  <2> QED BY <1>1, <2>1, <2>2, Moved
<1> USE DEF At, Puc, None, Uid, Now, Same, Locals, Fits
<1>4. \A u : On(u)' = On(u)
  BY <1>2, <1>3, Still
<1>5. Fits(p)'
  <2>1. PlaceFits(p)' /\ EntryFits(p)' /\ HandFits(p)'
    BY <1>1, <1>2, <1>3, <1>4
    DEF Known, PlaceFits, EntryFits, HandFits, Adding, Updating, Removing,
        Dropping, Holding, Going
  <2>2. SeenFits(p)' /\ LoginFits(p)'
    BY <1>1, <1>2, <1>3, <1>4 DEF Known, SeenFits, LoginFits, Going
  <2>3. RelationFits(p)'
    BY <1>1, <1>2, <1>3, <1>4
    DEF Users, RelationFits, EntryFits, HandFits, Holding, Going, Unlisted
  <2>4. FoundFits(p)' /\ OldFits(p)'
    BY <1>1, <1>2, <1>3, <1>4 DEF Known, Users, FoundFits, OldFits, Found
  <2> QED BY <2>1, <2>2, <2>3, <2>4
<1>6. Counts(p)
  BY <1>1, <1>2, <1>3
  DEF Known, Counts, Weight, One, PlaceFits, EntryFits, HandFits, Holding,
      Going, Adding, Updating, Removing, Dropping, Ops
<1>7. Settled(p)
  <2>1. /\ \A u \in Uids : mapUser[u] \in 0..Len(object)
        /\ call[p].uids \subseteq Uids
    BY <1>1, <1>2 DEF Known, TypeOK
  <2>2. /\ call'[p].uids \subseteq call[p].uids
        /\ platform = "managed" /\ call'[p].op = "UpdatePeer" =>
             /\ call[p].op = "UpdatePeer" /\ call'[p].uid = call[p].uid
             /\ call'[p].uids = call[p].uids
        /\ \/ mapUser'[call[p].uid] = None
           \/ object'[mapUser'[call[p].uid]].uid = call[p].uid
    BY <1>1, <1>2, <1>3, <2>1 DEF Known
  <2>3. ASSUME NEW u \in call[p].uids \ clashed
        PROVE  /\ \A q \in On(u)' : mapContext'[q] = mapUser'[u]
               /\ mapUser'[u] # None => object'[mapUser'[u]].alive
               /\ mapUser'[u] # None => On(u)' # {} \/ Minds(p, u)'
    <3>a. u = call[p].uid => On(u) = {}
      BY <1>1 DEF Users, FoundFits
    <3>1. \A q \in On(u)' : mapContext'[q] = mapUser'[u]
      BY <1>1, <1>2, <1>4, <2>1, <3>a DEF Users
    <3>2. mapUser'[u] # None => object'[mapUser'[u]].alive
      BY <1>1, <1>2, <1>3, <2>1, SMTT(30)
      DEF Known, Users, HandFits, Minds, Alive, Found, FoundFits
    <3>3. mapUser'[u] # None => On(u)' # {} \/ Minds(p, u)'
      BY <1>1, <1>2, <1>3, <1>4, <2>1
      DEF Known, Users, HandFits, Minds, Alive, Found, FoundFits
    <3> QED BY <3>1, <3>2, <3>3
  <2> QED BY <2>2, <2>3 DEF Settled
<1> QED BY <1>1, <1>3, <1>5, <1>6, <1>7, StepKeeps

(* The count of the user in hand goes up at once.                           *)
LEMMA CountUpKeeps ==
  ASSUME ConstantsAllowed, Inv, NEW p \in Peers,
         CountUp(p),
         UNCHANGED <<platform, clashed>>
  PROVE  Inv'
<1>1. Known(p) /\ Fits(p) /\ Users(p) /\ Acts(p) /\ At(p, "countUp")
  BY Before DEF Acts, CountUp
<1>2. /\ mapContext' = mapContext /\ mapUser' = mapUser
      /\ login' = login /\ mapRelation' = mapRelation
      /\ Recounts(Puc(p), object[Puc(p)].refs + 1)
      /\ Counted(p) = IF call[p].op = "AddPeer" THEN "insert" ELSE "exchange"
      /\ call[p].op \in {"AddPeer", "UpdatePeer"}
  <2>1. Puc(p) \in 1..Len(object) /\ object[Puc(p)].refs + 1 \in Int
    BY <1>1 DEF Known, At, Holding
  <2>2. object' = [object EXCEPT ![Puc(p)].refs = object[Puc(p)].refs + 1]
    BY DEF CountUp
  <2> QED BY <1>1, <2>1, <2>2, Recounted
  DEF Known, Fits, PlaceFits, Removing, Dropping, At, Ops, Counted, tables,
      CountUp
<1> DEFINE c == Same(p, Counted(p), call[p].uid, call[p].puc, call[p].old,
                     call[p].seen)
<1>3. Now(p, c)
  <2>1. Turned(p, c)
    BY <1>1, Turns, Zenon DEF Known, CountUp
  <2>2. c \in CallType'
    BY <1>1, <1>2, ObjectsKept
    DEF Known, Keeps, Same, Locals, CallType, Steps, Adding, Updating,
        Removing, Dropping, At, Puc, Holding, Recounts
  <2> QED BY <1>1, <2>1, <2>2, Moved
<1> USE DEF At, Puc, None, Uid, Now, Same, Locals, Fits, Recounts
<1>4. \A u : On(u)' = On(u)
  BY <1>2, <1>3, Still
<1>5. Fits(p)'
  <2>1. PlaceFits(p)' /\ EntryFits(p)' /\ HandFits(p)'
    BY <1>1, <1>2, <1>3, <1>4
    DEF Known, PlaceFits, EntryFits, HandFits, Adding, Updating, Removing,
        Dropping, Holding, Going
  <2>2. SeenFits(p)' /\ LoginFits(p)'
    BY <1>1, <1>2, <1>3, <1>4 DEF Known, SeenFits, LoginFits, Going
  <2>3. RelationFits(p)'
    BY <1>1, <1>2, <1>3, <1>4
    DEF Users, RelationFits, EntryFits, HandFits, Holding, Going, Unlisted
  <2>4. FoundFits(p)' /\ OldFits(p)'
    BY <1>1, <1>2, <1>3, <1>4 DEF Known, Users, FoundFits, OldFits, Found
  <2> QED BY <2>1, <2>2, <2>3, <2>4
<1>6. Counts(p)
  BY <1>1, <1>2, <1>3, SMTT(30)
  DEF Known, Counts, Weight, One, PlaceFits, EntryFits, HandFits, Holding,
      Going, Adding, Updating, Removing, Dropping, Ops
<1>7. Settled(p)
  <2>1. /\ \A u \in Uids : mapUser[u] \in 0..Len(object)
        /\ call[p].uids \subseteq Uids
        /\ \A o \in 1..Len(object) : object'[o].alive = object[o].alive
    BY <1>1, <1>2 DEF Known, TypeOK
  <2>2. /\ call'[p].uids \subseteq call[p].uids
        /\ platform = "managed" /\ call'[p].op = "UpdatePeer" =>
             /\ call[p].op = "UpdatePeer" /\ call'[p].uid = call[p].uid
             /\ call'[p].uids = call[p].uids
        /\ \/ mapUser'[call[p].uid] = None
           \/ object'[mapUser'[call[p].uid]].uid = call[p].uid
    BY <1>1, <1>2, <1>3, <2>1 DEF Known
  <2>3. ASSUME NEW u \in call[p].uids \ clashed
        PROVE  /\ \A q \in On(u)' : mapContext'[q] = mapUser'[u]
               /\ mapUser'[u] # None => object'[mapUser'[u]].alive
               /\ mapUser'[u] # None => On(u)' # {} \/ Minds(p, u)'
    <3>1. \A q \in On(u)' : mapContext'[q] = mapUser'[u]
      BY <1>1, <1>2, <1>4, <2>1 DEF Users
    <3>2. mapUser'[u] # None => object'[mapUser'[u]].alive
      BY <1>1, <1>2, <1>3, <2>1 DEF Users, Alive
    <3>3. mapUser'[u] # None => On(u)' # {} \/ Minds(p, u)'
      BY <1>1, <1>2, <1>3, <1>4, <2>1 DEF Users, HandFits, Minds, Found
    <3> QED BY <3>1, <3>2, <3>3
  <2> QED BY <2>2, <2>3 DEF Settled
<1> QED BY <1>1, <1>3, <1>5, <1>6, <1>7, StepKeeps

(* A managed call reads the count that it will increase.                    *)
LEMMA LoadUp ==
  ASSUME ConstantsAllowed, Inv, NEW p \in Peers,
         platform = "managed", LoadRef(p, "countUp", "storeUp"),
         UNCHANGED <<platform, clashed>>
  PROVE  Inv'
<1>1. Known(p) /\ Fits(p) /\ Users(p) /\ Acts(p) /\ At(p, "countUp")
  BY Before DEF Acts, LoadRef
<1>2. /\ mapContext' = mapContext /\ mapUser' = mapUser
      /\ login' = login /\ mapRelation' = mapRelation
      /\ object' = object
  BY <1>1 DEF Known, tables, LoadRef
<1> DEFINE c == Same(p, "storeUp", call[p].uid, call[p].puc, call[p].old,
                     object[Puc(p)].refs)
<1>3. Now(p, c)
  <2>1. Turned(p, c)
    BY <1>1, Turns, Zenon DEF Known, LoadRef
  <2>2. c \in CallType'
    BY <1>1, <1>2, ObjectsKept
    DEF Known, Keeps, Same, Locals, CallType, Steps, Adding, Updating,
        Removing, Dropping, At, Puc, Holding, Recounts
  <2> QED BY <1>1, <2>1, <2>2, Moved
<1> USE DEF At, Puc, None, Uid, Now, Same, Locals, Fits
<1>4. \A u : On(u)' = On(u)
  BY <1>2, <1>3, Still
<1>5. Fits(p)'
  <2>1. PlaceFits(p)' /\ EntryFits(p)' /\ HandFits(p)'
    BY <1>1, <1>2, <1>3, <1>4
    DEF Known, PlaceFits, EntryFits, HandFits, Adding, Updating, Removing,
        Dropping, Holding, Going
  <2>2. SeenFits(p)' /\ LoginFits(p)'
    BY <1>1, <1>2, <1>3, <1>4 DEF Known, SeenFits, LoginFits, Going
  <2>3. RelationFits(p)'
    BY <1>1, <1>2, <1>3, <1>4
    DEF Users, RelationFits, EntryFits, HandFits, Holding, Going, Unlisted
  <2>4. FoundFits(p)' /\ OldFits(p)'
    BY <1>1, <1>2, <1>3, <1>4 DEF Known, Users, FoundFits, OldFits, Found
  <2> QED BY <2>1, <2>2, <2>3, <2>4
<1>6. Counts(p)
  BY <1>1, <1>2, <1>3
  DEF Known, Counts, Weight, One, PlaceFits, EntryFits, HandFits, Holding,
      Going, Adding, Updating, Removing, Dropping, Ops
<1>7. Settled(p)
  BY <1>1, <1>2, <1>3, <1>4
  DEF Known, Users, Settled, HandFits, Minds, Alive, Found, TypeOK
<1> QED BY <1>1, <1>3, <1>5, <1>6, <1>7, StepKeeps

(* A managed call stores the count that it has increased.                   *)
LEMMA StoreUp ==
  ASSUME ConstantsAllowed, Inv, NEW p \in Peers,
         StoreRef(p, "storeUp", Puc(p), call[p].seen + 1, Counted(p)),
         UNCHANGED <<platform, clashed>>
  PROVE  Inv'
<1>1. Known(p) /\ Fits(p) /\ Users(p) /\ Acts(p) /\ At(p, "storeUp")
  BY Before DEF Acts, StoreRef
<1>2. /\ mapContext' = mapContext /\ mapUser' = mapUser
      /\ login' = login /\ mapRelation' = mapRelation
      /\ Recounts(Puc(p), call[p].seen + 1)
      /\ Counted(p) = IF call[p].op = "AddPeer" THEN "insert" ELSE "exchange"
      /\ call[p].op \in {"AddPeer", "UpdatePeer"}
  <2>1. Puc(p) \in 1..Len(object) /\ call[p].seen + 1 \in Int
    BY <1>1 DEF Known, At, Holding
  <2>2. object' = [object EXCEPT ![Puc(p)].refs = call[p].seen + 1]
    BY DEF StoreRef
  <2> QED BY <1>1, <2>1, <2>2, Recounted
  DEF Known, Fits, PlaceFits, Removing, Dropping, At, Ops, Counted, tables,
      StoreRef
<1> DEFINE c == Same(p, Counted(p), call[p].uid, call[p].puc, call[p].old, 0)
<1>3. Now(p, c)
  <2>1. Turned(p, c)
    BY <1>1, Turns, Zenon DEF Known, StoreRef
  <2>2. c \in CallType'
    BY <1>1, <1>2, ObjectsKept
    DEF Known, Keeps, Same, Locals, CallType, Steps, Adding, Updating,
        Removing, Dropping, At, Puc, Holding, Recounts
  <2> QED BY <1>1, <2>1, <2>2, Moved
<1> USE DEF At, Puc, None, Uid, Now, Same, Locals, Fits, Recounts
<1>4. \A u : On(u)' = On(u)
  BY <1>2, <1>3, Still
<1>5. Fits(p)'
  <2>1. PlaceFits(p)' /\ EntryFits(p)' /\ HandFits(p)'
    BY <1>1, <1>2, <1>3, <1>4
    DEF Known, PlaceFits, EntryFits, HandFits, Adding, Updating, Removing,
        Dropping, Holding, Going
  <2>2. SeenFits(p)' /\ LoginFits(p)'
    BY <1>1, <1>2, <1>3, <1>4 DEF Known, SeenFits, LoginFits, Going
  <2>3. RelationFits(p)'
    BY <1>1, <1>2, <1>3, <1>4
    DEF Users, RelationFits, EntryFits, HandFits, Holding, Going, Unlisted
  <2>4. FoundFits(p)' /\ OldFits(p)'
    BY <1>1, <1>2, <1>3, <1>4 DEF Known, Users, FoundFits, OldFits, Found
  <2> QED BY <2>1, <2>2, <2>3, <2>4
<1>6. Counts(p)
  BY <1>1, <1>2, <1>3, SMTT(30)
  DEF Known, Counts, Weight, One, PlaceFits, EntryFits, HandFits, Holding,
      Going, Adding, Updating, Removing, Dropping, Ops, SeenFits
<1>7. Settled(p)
  <2>1. /\ \A u \in Uids : mapUser[u] \in 0..Len(object)
        /\ call[p].uids \subseteq Uids
        /\ \A o \in 1..Len(object) : object'[o].alive = object[o].alive
    BY <1>1, <1>2 DEF Known, TypeOK
  <2>2. /\ call'[p].uids \subseteq call[p].uids
        /\ platform = "managed" /\ call'[p].op = "UpdatePeer" =>
             /\ call[p].op = "UpdatePeer" /\ call'[p].uid = call[p].uid
             /\ call'[p].uids = call[p].uids
        /\ \/ mapUser'[call[p].uid] = None
           \/ object'[mapUser'[call[p].uid]].uid = call[p].uid
    BY <1>1, <1>2, <1>3, <2>1 DEF Known
  <2>3. ASSUME NEW u \in call[p].uids \ clashed
        PROVE  /\ \A q \in On(u)' : mapContext'[q] = mapUser'[u]
               /\ mapUser'[u] # None => object'[mapUser'[u]].alive
               /\ mapUser'[u] # None => On(u)' # {} \/ Minds(p, u)'
    <3>1. \A q \in On(u)' : mapContext'[q] = mapUser'[u]
      BY <1>1, <1>2, <1>4, <2>1 DEF Users
    <3>2. mapUser'[u] # None => object'[mapUser'[u]].alive
      BY <1>1, <1>2, <1>3, <2>1 DEF Users, Alive
    <3>3. mapUser'[u] # None => On(u)' # {} \/ Minds(p, u)'
      BY <1>1, <1>2, <1>3, <1>4, <2>1 DEF Users, HandFits, Minds, Found
    <3> QED BY <3>1, <3>2, <3>3
  <2> QED BY <2>2, <2>3 DEF Settled
<1> QED BY <1>1, <1>3, <1>5, <1>6, <1>7, StepKeeps

(* AddPeer() enters the peer with its user.                                 *)
LEMMA InsertKeeps ==
  ASSUME ConstantsAllowed, Inv, NEW p \in Peers,
         Insert(p),
         UNCHANGED <<platform, clashed>>
  PROVE  Inv'
<1>1. Known(p) /\ Fits(p) /\ Users(p) /\ Acts(p) /\ At(p, "insert")
  BY Before DEF Acts, Insert
<1>2. /\ mapContext[p] = None
      /\ mapContext'[p] = Puc(p)
      /\ mapUser' = mapUser
      /\ login' = login /\ mapRelation' = mapRelation
      /\ object' = object
  <2>1. mapContext \in [Peers -> 0..Len(object)]
    BY <1>1 DEF Known, TypeOK
  <2>2. mapContext[p] = None
    BY <1>1
    DEF Known, Fits, PlaceFits, EntryFits, Updating, Removing, Dropping, Ops,
        At
  <2> QED BY <1>1, <2>1, <2>2 DEF Known, Insert
<1> DEFINE c == Same(p, "relate", call[p].uid, call[p].puc, call[p].old,
                     call[p].seen)
<1>3. Now(p, c)
  <2>1. Turned(p, c)
    BY <1>1, Turns, Zenon DEF Known, Insert
  <2>2. c \in CallType'
    BY <1>1, <1>2, ObjectsKept
    DEF Known, Keeps, Same, Locals, CallType, Steps, Adding, Updating,
        Removing, Dropping, At, Puc, Holding, Recounts
  <2> QED BY <1>1, <2>1, <2>2, Moved
<1> USE DEF At, Puc, None, Uid, Now, Same, Locals, Fits
<1>4. \A u, q : q \in On(u)' <=> IF q = p THEN u = call[p].uid ELSE q \in On(u)
  BY <1>1, <1>2, <1>3, Shifted DEF Known, HandFits, Holding
<1>5. Fits(p)'
  <2>1. PlaceFits(p)' /\ EntryFits(p)' /\ HandFits(p)'
    BY <1>1, <1>2, <1>3, <1>4
    DEF Known, PlaceFits, EntryFits, HandFits, Adding, Updating, Removing,
        Dropping, Holding, Going
  <2>2. SeenFits(p)' /\ LoginFits(p)'
    BY <1>1, <1>2, <1>3, <1>4 DEF Known, SeenFits, LoginFits, Going
  <2>3. RelationFits(p)'
    BY <1>1, <1>2, <1>3, <1>4
    DEF Users, RelationFits, EntryFits, HandFits, Holding, Going, Unlisted
  <2>4. FoundFits(p)' /\ OldFits(p)'
    BY <1>1, <1>2, <1>3, <1>4 DEF Known, Users, FoundFits, OldFits, Found
  <2> QED BY <2>1, <2>2, <2>3, <2>4
<1>6. Counts(p)
  BY <1>1, <1>2, <1>3
  DEF Known, Counts, Weight, One, PlaceFits, EntryFits, HandFits, Holding,
      Going, Adding, Updating, Removing, Dropping, Ops
<1>7. Settled(p)
  <2>1. /\ \A u \in Uids : mapUser[u] \in 0..Len(object)
        /\ call[p].uids \subseteq Uids
    BY <1>1, <1>2 DEF Known, TypeOK
  <2>2. /\ call'[p].uids \subseteq call[p].uids
        /\ platform = "managed" /\ call'[p].op = "UpdatePeer" =>
             /\ call[p].op = "UpdatePeer" /\ call'[p].uid = call[p].uid
             /\ call'[p].uids = call[p].uids
        /\ \/ mapUser'[call[p].uid] = None
           \/ object'[mapUser'[call[p].uid]].uid = call[p].uid
    BY <1>1, <1>2, <1>3, <2>1 DEF Known
  <2>3. ASSUME NEW u \in call[p].uids \ clashed
        PROVE  /\ \A q \in On(u)' : mapContext'[q] = mapUser'[u]
               /\ mapUser'[u] # None => object'[mapUser'[u]].alive
               /\ mapUser'[u] # None => On(u)' # {} \/ Minds(p, u)'
    <3>a. \A q : q \in On(u)' /\ q # p => mapContext'[q] = mapUser[u]
      BY <1>1, <1>3, <1>4, <2>1 DEF Users, Alone
    <3>1. \A q \in On(u)' : mapContext'[q] = mapUser'[u]
      BY <1>1, <1>2, <1>4, <2>1, <3>a DEF Users, FoundFits, Found
    <3>2. mapUser'[u] # None => object'[mapUser'[u]].alive
      BY <1>1, <1>2, <1>3, <2>1
      DEF Known, Users, HandFits, Minds, Alive, Found, FoundFits, Holding
    <3>3. mapUser'[u] # None => On(u)' # {} \/ Minds(p, u)'
      BY <1>1, <1>2, <1>3, <1>4, <2>1
      DEF Known, Users, HandFits, Minds, Alive, Found, FoundFits, Holding
    <3> QED BY <3>1, <3>2, <3>3
  <2> QED BY <2>2, <2>3 DEF Settled
<1> QED BY <1>1, <1>3, <1>5, <1>6, <1>7, StepKeeps

(* AddPeer() logs the peer in and relates it to its user.                   *)
LEMMA RelateKeeps ==
  ASSUME ConstantsAllowed, Inv, NEW p \in Peers,
         Relate(p),
         UNCHANGED <<platform, clashed>>
  PROVE  Inv'
<1>1. Known(p) /\ Fits(p) /\ Users(p) /\ Acts(p) /\ At(p, "relate")
  BY Before DEF Acts, Relate
<1>2. /\ mapContext' = mapContext /\ mapUser' = mapUser
      /\ login' = login \cup {p}
      /\ \A u \in Uids : p \in mapRelation'[u]
                           <=> (p \in mapRelation[u] \/ u = Uid(Puc(p)))
      /\ object' = object
  <2>1. mapRelation \in [Uids -> SUBSET Peers] /\ Uid(Puc(p)) \in Uids
    BY <1>1 DEF Known, TypeOK, At, Holding
  <2> QED BY <1>1, <2>1 DEF Known, Relate, Uid
<1> DEFINE c == Same(p, "stat", call[p].uid, call[p].puc, call[p].old,
                     call[p].seen)
<1>3. Now(p, c)
  <2>1. Turned(p, c)
    BY <1>1, Turns, Zenon DEF Known, Relate
  <2>2. c \in CallType'
    BY <1>1, <1>2, ObjectsKept
    DEF Known, Keeps, Same, Locals, CallType, Steps, Adding, Updating,
        Removing, Dropping, At, Puc, Holding, Recounts
  <2> QED BY <1>1, <2>1, <2>2, Moved
<1> USE DEF At, Puc, None, Uid, Now, Same, Locals, Fits
<1>4. \A u : On(u)' = On(u)
  BY <1>2, <1>3, Still
<1>5. Fits(p)'
  <2>1. PlaceFits(p)' /\ EntryFits(p)' /\ HandFits(p)'
    BY <1>1, <1>2, <1>3, <1>4
    DEF Known, PlaceFits, EntryFits, HandFits, Adding, Updating, Removing,
        Dropping, Holding, Going
  <2>2. SeenFits(p)' /\ LoginFits(p)'
    BY <1>1, <1>2, <1>3, <1>4 DEF Known, SeenFits, LoginFits, Going, EntryFits
  <2>3. RelationFits(p)'
    BY <1>1, <1>2, <1>3, <1>4
    DEF Users, RelationFits, EntryFits, HandFits, Holding, Going, Unlisted
  <2>4. FoundFits(p)' /\ OldFits(p)'
    BY <1>1, <1>2, <1>3, <1>4 DEF Known, Users, FoundFits, OldFits, Found
  <2> QED BY <2>1, <2>2, <2>3, <2>4
<1>6. Counts(p)
  BY <1>1, <1>2, <1>3
  DEF Known, Counts, Weight, One, PlaceFits, EntryFits, HandFits, Holding,
      Going, Adding, Updating, Removing, Dropping, Ops
<1>7. Settled(p)
  BY <1>1, <1>2, <1>3, <1>4
  DEF Known, Users, Settled, HandFits, Minds, Alive, Found, TypeOK
<1> QED BY <1>1, <1>3, <1>5, <1>6, <1>7, StepKeeps

(* AddPeer() notes the user's login and returns.                            *)
LEMMA StatKeeps ==
  ASSUME ConstantsAllowed, Inv, NEW p \in Peers,
         StatLogin(p),
         UNCHANGED <<platform, clashed>>
  PROVE  Inv'
<1>1. Known(p) /\ Fits(p) /\ Users(p) /\ Acts(p) /\ At(p, "stat")
  BY Before DEF Acts, StatLogin
<1>2. /\ mapContext' = mapContext /\ mapUser' = mapUser
      /\ login' = login /\ mapRelation' = mapRelation
      /\ object' = object
  BY <1>1 DEF Known, tables, StatLogin
<1>3. Now(p, Ended)
  <2>1. Turned(p, Ended)
    BY <1>1, Turns, Zenon DEF Known, Ended, StatLogin
  <2>2. Ended \in CallType'
    BY <1>1, EndedTyped, Zenon
  <2> QED BY <1>1, <2>1, <2>2, Moved
<1> USE DEF At, Puc, None, Uid, Now, Same, Locals, Fits, Ended
<1>4. \A u : On(u)' = On(u)
  BY <1>2, <1>3, Still
<1>5. Fits(p)'
  <2>1. PlaceFits(p)' /\ EntryFits(p)' /\ HandFits(p)'
    BY <1>1, <1>2, <1>3, <1>4
    DEF Known, PlaceFits, EntryFits, HandFits, Adding, Updating, Removing,
        Dropping, Holding, Going
  <2>2. SeenFits(p)' /\ LoginFits(p)'
    BY <1>1, <1>2, <1>3, <1>4 DEF Known, SeenFits, LoginFits, Going
  <2>3. RelationFits(p)'
    BY <1>1, <1>2, <1>3, <1>4
    DEF Users, RelationFits, EntryFits, HandFits, Holding, Going, Unlisted
  <2>4. FoundFits(p)' /\ OldFits(p)'
    BY <1>1, <1>2, <1>3, <1>4 DEF Known, Users, FoundFits, OldFits, Found
  <2> QED BY <2>1, <2>2, <2>3, <2>4
<1>6. Counts(p)
  BY <1>1, <1>2, <1>3
  DEF Known, Counts, Weight, One, PlaceFits, EntryFits, HandFits, Holding,
      Going, Adding, Updating, Removing, Dropping, Ops
<1>7. Settled(p)
  BY <1>1, <1>2, <1>3, <1>4
  DEF Known, Users, Settled, HandFits, Minds, Alive, Found, TypeOK
<1> QED BY <1>1, <1>3, <1>5, <1>6, <1>7, StepKeeps

(* UpdatePeer() moves the peer to its new user and releases the old one.    *)
LEMMA ExchangeKeeps ==
  ASSUME ConstantsAllowed, Inv, NEW p \in Peers,
         Exchange(p),
         UNCHANGED <<platform, clashed>>
  PROVE  Inv'
<1>1. Known(p) /\ Fits(p) /\ Users(p) /\ Acts(p) /\ At(p, "exchange")
  BY Before DEF Acts, Exchange, Exchanged
<1>2. /\ mapContext'[p] = Puc(p)
      /\ login' = login \cup {p}
      /\ mapUser' = mapUser
      /\ Recounts(mapContext[p], object[mapContext[p]].refs - 1)
      /\ \A u \in Uids : p \in mapRelation'[u] <=>
           u = call[p].uid \/ (p \in mapRelation[u] /\ u # Uid(mapContext[p]))
  <2>1. /\ mapContext[p] \in 1..Len(object) /\ Puc(p) \in 1..Len(object)
        /\ object[mapContext[p]].refs - 1 \in Int
    BY <1>1 DEF Known, At, Holding
  <2>2. object' = [object EXCEPT ![mapContext[p]].refs =
                                    object[mapContext[p]].refs - 1]
    BY DEF Exchange
  <2>3. /\ mapContext \in [Peers -> 0..Len(object)]
        /\ mapRelation \in [Uids -> SUBSET Peers]
        /\ Uid(mapContext[p]) \in Uids /\ Uid(Puc(p)) = call[p].uid
    BY <1>1, <2>1 DEF Known, TypeOK, Fits, HandFits, Holding, At
  <2> QED BY <1>1, <2>1, <2>2, <2>3, Recounted
  DEF Known, Exchange, Exchanged, Uid, At
<1> DEFINE c == Same(p, "test", call[p].uid, call[p].puc, mapContext[p],
                     call[p].seen)
<1>3. Now(p, c)
  <2>1. Turned(p, c)
    BY <1>1, Turns, Zenon DEF Known, Exchange, Exchanged
  <2>2. c \in CallType'
    BY <1>1, <1>2, ObjectsKept
    DEF Known, Keeps, Same, Locals, CallType, Steps, Adding, Updating,
        Removing, Dropping, At, Puc, Holding, Recounts
  <2> QED BY <1>1, <2>1, <2>2, Moved
<1> USE DEF At, Puc, None, Uid, Now, Same, Locals, Fits, Recounts
<1>4. \A u, q : q \in On(u)' <=> IF q = p THEN u = call[p].uid ELSE q \in On(u)
  BY <1>1, <1>2, <1>3, Shifted DEF Known, HandFits, Holding
<1>5. Fits(p)'
  <2>1. PlaceFits(p)' /\ EntryFits(p)' /\ HandFits(p)'
    BY <1>1, <1>2, <1>3, <1>4
    DEF Known, PlaceFits, EntryFits, HandFits, Adding, Updating, Removing,
        Dropping, Holding, Going
  <2>2. SeenFits(p)' /\ LoginFits(p)'
    BY <1>1, <1>2, <1>3, <1>4 DEF Known, SeenFits, LoginFits, Going, EntryFits
  <2>3. RelationFits(p)'
    BY <1>1, <1>2, <1>3, <1>4
    DEF Users, RelationFits, EntryFits, HandFits, Holding, Going, Unlisted
  <2>4. FoundFits(p)' /\ OldFits(p)'
    BY <1>1, <1>2, <1>3, <1>4
    DEF Known, Users, FoundFits, OldFits, Found, EntryFits
  <2> QED BY <2>1, <2>2, <2>3, <2>4
<1>6. Counts(p)
  BY <1>1, <1>2, <1>3, SMTT(30)
  DEF Known, Counts, Weight, One, PlaceFits, EntryFits, HandFits, Holding,
      Going, Adding, Updating, Removing, Dropping, Ops, SeenFits
<1>7. Settled(p)
  <2>1. /\ \A u \in Uids : mapUser[u] \in 0..Len(object)
        /\ call[p].uids \subseteq Uids
        /\ \A o \in 1..Len(object) : object'[o].alive = object[o].alive
    BY <1>1, <1>2 DEF Known, TypeOK
  <2>2. /\ call'[p].uids \subseteq call[p].uids
        /\ platform = "managed" /\ call'[p].op = "UpdatePeer" =>
             /\ call[p].op = "UpdatePeer" /\ call'[p].uid = call[p].uid
             /\ call'[p].uids = call[p].uids
        /\ \/ mapUser'[call[p].uid] = None
           \/ object'[mapUser'[call[p].uid]].uid = call[p].uid
    BY <1>1, <1>2, <1>3, <2>1 DEF Known
  <2>3. ASSUME NEW u \in call[p].uids \ clashed
        PROVE  /\ \A q \in On(u)' : mapContext'[q] = mapUser'[u]
               /\ mapUser'[u] # None => object'[mapUser'[u]].alive
               /\ mapUser'[u] # None => On(u)' # {} \/ Minds(p, u)'
    <3>a. \A q : q \in On(u)' /\ q # p => mapContext'[q] = mapUser[u]
      BY <1>1, <1>3, <1>4, <2>1 DEF Users, Alone
    <3>1. \A q \in On(u)' : mapContext'[q] = mapUser'[u]
      BY <1>1, <1>2, <1>4, <2>1, <3>a DEF Users, FoundFits, Found
    <3>2. mapUser'[u] # None => object'[mapUser'[u]].alive
      BY <1>1, <1>2, <1>3, <2>1 DEF Users, Alive
    <3>3. mapUser'[u] # None => On(u)' # {} \/ Minds(p, u)'
      BY <1>1, <1>2, <1>3, <1>4, <2>1 DEF Users, HandFits, Minds, Found
    <3> QED BY <3>1, <3>2, <3>3
  <2> QED BY <2>2, <2>3 DEF Settled
<1> QED BY <1>1, <1>3, <1>5, <1>6, <1>7, StepKeeps

(* The same for a managed call that has read the old user's count.          *)
LEMMA StoreOldKeeps ==
  ASSUME ConstantsAllowed, Inv, NEW p \in Peers,
         StoreOld(p),
         UNCHANGED <<platform, clashed>>
  PROVE  Inv'
<1>1. Known(p) /\ Fits(p) /\ Users(p) /\ Acts(p) /\ At(p, "exchangeStore")
  BY Before DEF Acts, StoreOld, Exchanged
<1>2. /\ mapContext'[p] = Puc(p)
      /\ login' = login \cup {p}
      /\ mapUser' = mapUser
      /\ Recounts(mapContext[p], call[p].seen - 1)
      /\ \A u \in Uids : p \in mapRelation'[u] <=>
           u = call[p].uid \/ (p \in mapRelation[u] /\ u # call[p].uid)
      /\ \A u \in Uids \ clashed : p \in On(u) => u = call[p].uid
  <2>1. /\ mapContext[p] \in 1..Len(object) /\ Puc(p) \in 1..Len(object)
        /\ call[p].seen - 1 \in Int
    BY <1>1 DEF Known, At, Holding
  <2>2. object' = [object EXCEPT ![mapContext[p]].refs = call[p].seen - 1]
    BY DEF StoreOld
  <2>3. /\ mapContext \in [Peers -> 0..Len(object)]
        /\ mapRelation \in [Uids -> SUBSET Peers]
        /\ Uid(mapContext[p]) \in Uids /\ Uid(Puc(p)) = call[p].uid
    BY <1>1, <2>1 DEF Known, TypeOK, Fits, HandFits, Holding, At
  <2>4. \A u \in Uids \ clashed : p \in On(u) => u = call[p].uid
    <3>1. platform = "managed" /\ call[p].op = "UpdatePeer"
      BY <1>1
      DEF Fits, PlaceFits, SeenFits, At, Adding, Removing, Dropping, Known,
          Ops
    <3>2. call[p].uids \subseteq clashed \/ call[p].uids = {call[p].uid}
      BY <3>1 DEF Inv, OneHandler
    <3> QED BY <1>1, <3>2 DEF Fits, EntryFits, Users, At
  <2> QED BY <1>1, <2>1, <2>2, <2>3, <2>4, Recounted
  DEF Known, StoreOld, Exchanged, Uid, At
<1> DEFINE c == Same(p, "test", call[p].uid, call[p].puc, mapContext[p],
                     call[p].seen)
<1>3. Now(p, c)
  <2>1. Turned(p, c)
    BY <1>1, Turns, Zenon DEF Known, StoreOld, Exchanged
  <2>2. c \in CallType'
    BY <1>1, <1>2, ObjectsKept
    DEF Known, Keeps, Same, Locals, CallType, Steps, Adding, Updating,
        Removing, Dropping, At, Puc, Holding, Recounts
  <2> QED BY <1>1, <2>1, <2>2, Moved
<1> USE DEF At, Puc, None, Uid, Now, Same, Locals, Fits, Recounts
<1>4. \A u, q : q \in On(u)' <=> IF q = p THEN u = call[p].uid ELSE q \in On(u)
  BY <1>1, <1>2, <1>3, Shifted DEF Known, HandFits, Holding
<1>5. Fits(p)'
  <2>1. PlaceFits(p)' /\ EntryFits(p)' /\ HandFits(p)'
    BY <1>1, <1>2, <1>3, <1>4
    DEF Known, PlaceFits, EntryFits, HandFits, Adding, Updating, Removing,
        Dropping, Holding, Going
  <2>2. SeenFits(p)' /\ LoginFits(p)'
    BY <1>1, <1>2, <1>3, <1>4 DEF Known, SeenFits, LoginFits, Going, EntryFits
  <2>3. RelationFits(p)'
    BY <1>1, <1>2, <1>3, <1>4
    DEF Users, RelationFits, EntryFits, HandFits, Holding, Going, Unlisted
  <2>4. FoundFits(p)' /\ OldFits(p)'
    BY <1>1, <1>2, <1>3, <1>4
    DEF Known, Users, FoundFits, OldFits, Found, EntryFits
  <2> QED BY <2>1, <2>2, <2>3, <2>4
<1>6. Counts(p)
  <2>1. /\ Puc(p) \in 1..Len(object) /\ mapContext[p] \in 1..Len(object)
        /\ call[p].op = "UpdatePeer" /\ platform = "managed"
        /\ \/ Uid(mapContext[p]) \in clashed
           \/ call[p].seen = object[mapContext[p]].refs
        /\ \A o \in 1..Len(object) : object[o].refs \in Int
    BY <1>1
    DEF Known, PlaceFits, SeenFits, Holding, Adding, Removing, Dropping, Ops
  <2> QED BY <1>1, <1>2, <1>3, <2>1 DEF Counts, Weight, One
<1>7. Settled(p)
  <2>1. /\ \A u \in Uids : mapUser[u] \in 0..Len(object)
        /\ call[p].uids \subseteq Uids
        /\ \A o \in 1..Len(object) : object'[o].alive = object[o].alive
    BY <1>1, <1>2 DEF Known, TypeOK
  <2>2. /\ call'[p].uids \subseteq call[p].uids
        /\ platform = "managed" /\ call'[p].op = "UpdatePeer" =>
             /\ call[p].op = "UpdatePeer" /\ call'[p].uid = call[p].uid
             /\ call'[p].uids = call[p].uids
        /\ \/ mapUser'[call[p].uid] = None
           \/ object'[mapUser'[call[p].uid]].uid = call[p].uid
    BY <1>1, <1>2, <1>3, <2>1 DEF Known
  <2>3. ASSUME NEW u \in call[p].uids \ clashed
        PROVE  /\ \A q \in On(u)' : mapContext'[q] = mapUser'[u]
               /\ mapUser'[u] # None => object'[mapUser'[u]].alive
               /\ mapUser'[u] # None => On(u)' # {} \/ Minds(p, u)'
    <3>a. \A q : q \in On(u)' /\ q # p => mapContext'[q] = mapUser[u]
      BY <1>1, <1>3, <1>4, <2>1 DEF Users, Alone
    <3>1. \A q \in On(u)' : mapContext'[q] = mapUser'[u]
      BY <1>1, <1>2, <1>4, <2>1, <3>a DEF Users, FoundFits, Found
    <3>2. mapUser'[u] # None => object'[mapUser'[u]].alive
      BY <1>1, <1>2, <1>3, <2>1 DEF Users, Alive
    <3>3. mapUser'[u] # None => On(u)' # {} \/ Minds(p, u)'
      BY <1>1, <1>2, <1>3, <1>4, <2>1 DEF Users, HandFits, Minds, Found
    <3> QED BY <3>1, <3>2, <3>3
  <2> QED BY <2>2, <2>3 DEF Settled
<1> QED BY <1>1, <1>3, <1>5, <1>6, <1>7, StepKeeps

(* A managed UpdatePeer() reads the count of the old user.                  *)
LEMMA LoadOldKeeps ==
  ASSUME ConstantsAllowed, Inv, NEW p \in Peers,
         platform = "managed", LoadOld(p),
         UNCHANGED <<platform, clashed>>
  PROVE  Inv'
<1>1. Known(p) /\ Fits(p) /\ Users(p) /\ Acts(p) /\ At(p, "exchange")
  BY Before DEF Acts, LoadOld
<1>2. /\ mapContext' = mapContext /\ mapUser' = mapUser
      /\ login' = login /\ mapRelation' = mapRelation
      /\ object' = object
  BY <1>1 DEF Known, tables, LoadOld
<1> DEFINE c == Same(p, "exchangeStore", call[p].uid, call[p].puc,
                     call[p].old, object[mapContext[p]].refs)
<1>3. Now(p, c)
  <2>1. Turned(p, c)
    BY <1>1, Turns, Zenon DEF Known, LoadOld
  <2>2. c \in CallType'
    BY <1>1, <1>2, ObjectsKept
    DEF Known, Keeps, Same, Locals, CallType, Steps, Adding, Updating,
        Removing, Dropping, At, Puc, Holding, Recounts
  <2> QED BY <1>1, <2>1, <2>2, Moved
<1> USE DEF At, Puc, None, Uid, Now, Same, Locals, Fits
<1>4. \A u : On(u)' = On(u)
  BY <1>2, <1>3, Still
<1>5. Fits(p)'
  <2>1. PlaceFits(p)' /\ EntryFits(p)' /\ HandFits(p)'
    BY <1>1, <1>2, <1>3, <1>4
    DEF Known, PlaceFits, EntryFits, HandFits, Adding, Updating, Removing,
        Dropping, Holding, Going
  <2>2. SeenFits(p)' /\ LoginFits(p)'
    BY <1>1, <1>2, <1>3, <1>4 DEF Known, SeenFits, LoginFits, Going
  <2>3. RelationFits(p)'
    BY <1>1, <1>2, <1>3, <1>4
    DEF Users, RelationFits, EntryFits, HandFits, Holding, Going, Unlisted
  <2>4. FoundFits(p)' /\ OldFits(p)'
    BY <1>1, <1>2, <1>3, <1>4 DEF Known, Users, FoundFits, OldFits, Found
  <2> QED BY <2>1, <2>2, <2>3, <2>4
<1>6. Counts(p)
  BY <1>1, <1>2, <1>3
  DEF Known, Counts, Weight, One, PlaceFits, EntryFits, HandFits, Holding,
      Going, Adding, Updating, Removing, Dropping, Ops
<1>7. Settled(p)
  BY <1>1, <1>2, <1>3, <1>4
  DEF Known, Users, Settled, HandFits, Minds, Alive, Found, TypeOK
<1> QED BY <1>1, <1>3, <1>5, <1>6, <1>7, StepKeeps

(* A call that tests an unclashed user sees the count of its peers.         *)
LEMMA Lone ==
  ASSUME ConstantsAllowed, Inv, NEW p \in Peers, At(p, "test"),
         Uid(call[p].old) \notin clashed
  PROVE  object[call[p].old].refs = 0 <=> On(Uid(call[p].old)) = {}
<1> DEFINE o == call[p].old
           u == Uid(o)
           M == {q \in Peers : mapContext[q] = o}
<1>1. /\ Known(p) /\ o \in 1..Len(object) /\ o \in Objects
      /\ u \in call[p].uids /\ mapUser[u] = o
  BY Before, ObjectsTyped DEF Known, Fits, HandFits, OldFits, None, At
<1>2. ASSUME NEW q \in Peers, Puc(q) = o, call[q].step \in Holding
      PROVE  q = p
  <2>1. u \in call[q].uids
    BY <1>2, HandsTyped DEF Inv, CallsFit, HandFits, PlaceFits, At, Holding
  <2> QED BY <1>1, <2>1 DEF Inv, OneHandler
<1>3. /\ CallsAt("AddPeer", "insert", o) = {}
      /\ CallsAt("UpdatePeer", "exchange", o) = {}
      /\ CallsAt("UpdatePeer", "exchangeStore", o) = {}
      /\ CallsAt("RemovePeer", "erase", o) = {}
  BY <1>2 DEF CallsAt, At, Holding
<1>4. object[o].refs = Cardinality(M)
                         + Cardinality(CallsAt("AddPeer", "insert", o))
                         + Cardinality(CallsAt("UpdatePeer", "exchange", o))
                         + Cardinality(CallsAt("UpdatePeer", "exchangeStore", o))
                         - Cardinality(CallsAt("RemovePeer", "erase", o))
  BY <1>1 DEF Inv, UserRefsCounted, Uid
<1>5. M = {} <=> On(u) = {}
  <2>1. \A q \in On(u) : mapContext[q] = o
    BY <1>1, Before DEF Users
  <2>2. \A q \in M : q \in On(u)
    BY <1>1 DEF On, None
  <2>3. On(u) \subseteq Peers
    BY DEF On
  <2> QED BY <2>1, <2>2, <2>3
<1>6. IsFiniteSet(M) /\ Cardinality({}) = 0
  BY FS_Subset, FS_EmptySet DEF ConstantsAllowed
<1> HIDE DEF M
<1>7. Cardinality(M) = 0 <=> M = {}
  BY <1>6, FS_EmptySet
<1>8. Cardinality(M) \in Nat
  BY <1>6, FS_CardinalityType
<1>9. /\ Cardinality(CallsAt("AddPeer", "insert", o)) = 0
      /\ Cardinality(CallsAt("UpdatePeer", "exchange", o)) = 0
      /\ Cardinality(CallsAt("UpdatePeer", "exchangeStore", o)) = 0
      /\ Cardinality(CallsAt("RemovePeer", "erase", o)) = 0
  BY <1>3, <1>6, Zenon
<1> QED BY <1>4, <1>5, <1>7, <1>8, <1>9

(* Somebody still refers to the former user: the call returns.              *)
LEMMA TestsEnd ==
  ASSUME ConstantsAllowed, Inv, NEW p \in Peers,
         Tests(p),
         object[call[p].old].refs # 0,
         UNCHANGED <<platform, clashed>>
  PROVE  Inv'
<1>1. Known(p) /\ Fits(p) /\ Users(p) /\ Acts(p) /\ At(p, "test")
  BY Before DEF Acts, Tests, TestRef
<1>2. /\ mapContext' = mapContext /\ mapUser' = mapUser
      /\ login' = login /\ mapRelation' = mapRelation
      /\ object' = object
  BY <1>1 DEF Known, tables, Tests, TestRef
<1>3. Now(p, Ended)
  <2>1. Turned(p, Ended)
    BY <1>1, Turns, Zenon DEF Known, Ended, Tests, TestRef
  <2>2. Ended \in CallType'
    BY <1>1, EndedTyped, Zenon
  <2> QED BY <1>1, <2>1, <2>2, Moved
<1> USE DEF At, Puc, None, Uid, Now, Same, Locals, Fits, Ended
<1>4. \A u : On(u)' = On(u)
  BY <1>2, <1>3, Still
<1>5. Fits(p)'
  <2>1. PlaceFits(p)' /\ EntryFits(p)' /\ HandFits(p)'
    BY <1>1, <1>2, <1>3, <1>4
    DEF Known, PlaceFits, EntryFits, HandFits, Adding, Updating, Removing,
        Dropping, Holding, Going
  <2>2. SeenFits(p)' /\ LoginFits(p)'
    BY <1>1, <1>2, <1>3, <1>4 DEF Known, SeenFits, LoginFits, Going
  <2>3. RelationFits(p)'
    BY <1>1, <1>2, <1>3, <1>4
    DEF Users, RelationFits, EntryFits, HandFits, Holding, Going, Unlisted
  <2>4. FoundFits(p)' /\ OldFits(p)'
    BY <1>1, <1>2, <1>3, <1>4 DEF Known, Users, FoundFits, OldFits, Found
  <2> QED BY <2>1, <2>2, <2>3, <2>4
<1>6. Counts(p)
  BY <1>1, <1>2, <1>3
  DEF Known, Counts, Weight, One, PlaceFits, EntryFits, HandFits, Holding,
      Going, Adding, Updating, Removing, Dropping, Ops
<1>7. Settled(p)
  <2>1. Uid(call[p].old) \in clashed \/ On(Uid(call[p].old)) # {}
    BY <1>1, Lone
  <2>2. \A u \in Uids : ~(Minds(p, u) /\ u \notin clashed /\ On(u) = {})
    BY <1>1, <2>1 DEF Minds, Found
  <2>3. ASSUME NEW u \in call[p].uids \ clashed
        PROVE  /\ \A q \in On(u)' : mapContext'[q] = mapUser'[u]
               /\ mapUser'[u] # None => object'[mapUser'[u]].alive
               /\ mapUser'[u] # None => On(u)' # {} \/ Minds(p, u)'
    <3>1. u \in Uids
      BY <1>1 DEF Known
    <3> QED BY <1>1, <1>2, <1>4, <2>2, <3>1 DEF Users, Alive
  <2>4. /\ call'[p].uids = {} /\ call'[p].op = "none"
        /\ \/ mapUser'[call[p].uid] = None
           \/ object'[mapUser'[call[p].uid]].uid = call[p].uid
    BY <1>1, <1>2, <1>3 DEF Known
  <2> QED BY <2>3, <2>4 DEF Settled
<1> QED BY <1>1, <1>3, <1>5, <1>6, <1>7, StepKeeps

(* Nobody refers to the former user: the call looks for what to drop.       *)
LEMMA TestsGo ==
  ASSUME ConstantsAllowed, Inv, NEW p \in Peers,
         Tests(p),
         object[call[p].old].refs = 0,
         UNCHANGED <<platform, clashed>>
  PROVE  Inv'
<1>1. Known(p) /\ Fits(p) /\ Users(p) /\ Acts(p) /\ At(p, "test")
  BY Before DEF Acts, Tests, TestRef
<1>2. /\ mapContext' = mapContext /\ mapUser' = mapUser
      /\ login' = login /\ mapRelation' = mapRelation
      /\ object' = object
      /\ Follows(p) \in call[p].uids
      /\ Uid(call[p].old) \in call[p].uids
      /\ platform = "managed" /\ call[p].op = "UpdatePeer"
           => Follows(p) = call[p].uid
      /\ \A u \in call[p].uids \ clashed :
           Uid(call[p].old) = u <=> Follows(p) = u
  <2>1. Follows(p) \in call[p].uids /\ Uid(call[p].old) \in call[p].uids
    BY <1>1 DEF Known, Fits, PlaceFits, HandFits, Follows, OldUid, Uid, At
  <2>2. platform = "managed" /\ call[p].op = "UpdatePeer" =>
          /\ Follows(p) = call[p].uid
          /\ call[p].uids \subseteq clashed \/ call[p].uids = {call[p].uid}
    BY DEF Follows, Inv, OneHandler
  <2>3. \/ Follows(p) = Uid(call[p].old)
        \/ platform = "managed" /\ call[p].op = "UpdatePeer"
    BY DEF Follows, OldUid, Uid
  <2> QED BY <1>1, <2>1, <2>2, <2>3 DEF Known, tables, Tests, TestRef
<1> DEFINE c == Same(p, "findStored", Follows(p), call[p].puc, call[p].old,
                     call[p].seen)
<1>3. Now(p, c)
  <2>1. Turned(p, c)
    BY <1>1, Turns, Zenon DEF Known, Tests, TestRef
  <2>2. c \in CallType'
    BY <1>1, <1>2, ObjectsKept
    DEF Known, Keeps, Same, Locals, CallType, Steps, Adding, Updating,
        Removing, Dropping, At, Puc, Holding, Recounts
  <2> QED BY <1>1, <2>1, <2>2, Moved
<1> USE DEF At, Puc, None, Uid, Now, Same, Locals, Fits
<1>4. \A u : On(u)' = On(u)
  BY <1>2, <1>3, Still
<1>5. Fits(p)'
  <2>1. PlaceFits(p)' /\ EntryFits(p)' /\ HandFits(p)'
    BY <1>1, <1>2, <1>3, <1>4
    DEF Known, PlaceFits, EntryFits, HandFits, Adding, Updating, Removing,
        Dropping, Holding, Going
  <2>2. SeenFits(p)' /\ LoginFits(p)'
    BY <1>1, <1>2, <1>3, <1>4 DEF Known, SeenFits, LoginFits, Going
  <2>3. RelationFits(p)'
    BY <1>1, <1>2, <1>3, <1>4
    DEF Users, RelationFits, EntryFits, HandFits, Holding, Going, Unlisted
  <2>4. FoundFits(p)' /\ OldFits(p)'
    <3>1. Follows(p) \notin clashed => On(Follows(p)) = {}
      BY <1>1, <1>2, Lone
    <3> QED BY <1>3, <1>4, <3>1 DEF FoundFits, OldFits, Found
  <2> QED BY <2>1, <2>2, <2>3, <2>4
<1>6. Counts(p)
  BY <1>1, <1>2, <1>3
  DEF Known, Counts, Weight, One, PlaceFits, EntryFits, HandFits, Holding,
      Going, Adding, Updating, Removing, Dropping, Ops
<1>7. Settled(p)
  BY <1>1, <1>2, <1>3, <1>4
  DEF Known, Users, Settled, HandFits, Minds, Alive, Found, TypeOK
<1> QED BY <1>1, <1>3, <1>5, <1>6, <1>7, StepKeeps

(* RemovePeer() takes the user of its peer in hand.                         *)
LEMMA GetPeerKeeps ==
  ASSUME ConstantsAllowed, Inv, NEW p \in Peers,
         GetPeer(p),
         UNCHANGED <<platform, clashed>>
  PROVE  Inv'
<1>1. Known(p) /\ Fits(p) /\ Users(p) /\ Acts(p) /\ At(p, "getPeer")
  BY Before DEF Acts, GetPeer
<1>2. /\ mapContext' = mapContext /\ mapUser' = mapUser
      /\ mapRelation' = mapRelation
      /\ object' = object
  BY <1>1 DEF Known, tables, GetPeer
<1> DEFINE c == Same(p, "unrelate", call[p].uid, mapContext[p], mapContext[p],
                     call[p].seen)
<1>3. Now(p, c)
  <2>1. Turned(p, c)
    BY <1>1, Turns, Zenon DEF Known, GetPeer
  <2>2. c \in CallType'
    BY <1>1, <1>2, ObjectsKept
    DEF Known, Keeps, Same, Locals, CallType, Steps, Adding, Updating,
        Removing, Dropping, At, Puc, Holding, Recounts
  <2> QED BY <1>1, <2>1, <2>2, Moved
<1> USE DEF At, Puc, None, Uid, Now, Same, Locals, Fits
<1>4. \A u : On(u)' = On(u)
  BY <1>2, <1>3, Still
<1>5. Fits(p)'
  <2>1. PlaceFits(p)' /\ EntryFits(p)' /\ HandFits(p)'
    BY <1>1, <1>2, <1>3, <1>4
    DEF Known, PlaceFits, EntryFits, HandFits, Adding, Updating, Removing,
        Dropping, Holding, Going
  <2>2. SeenFits(p)' /\ LoginFits(p)'
    BY <1>1, <1>2, <1>3, <1>4 DEF Known, SeenFits, LoginFits, Going
  <2>3. RelationFits(p)'
    BY <1>1, <1>2, <1>3, <1>4
    DEF Users, RelationFits, EntryFits, HandFits, Holding, Going, Unlisted
  <2>4. FoundFits(p)' /\ OldFits(p)'
    BY <1>1, <1>2, <1>3, <1>4 DEF Known, Users, FoundFits, OldFits, Found
  <2> QED BY <2>1, <2>2, <2>3, <2>4
<1>6. Counts(p)
  BY <1>1, <1>2, <1>3
  DEF Known, Counts, Weight, One, PlaceFits, EntryFits, HandFits, Holding,
      Going, Adding, Updating, Removing, Dropping, Ops
<1>7. Settled(p)
  BY <1>1, <1>2, <1>3, <1>4
  DEF Known, Users, Settled, HandFits, Minds, Alive, Found, TypeOK
<1> QED BY <1>1, <1>3, <1>5, <1>6, <1>7, StepKeeps

(* RemovePeer() takes the peer out of the relation of its user.             *)
LEMMA UnrelateKeeps ==
  ASSUME ConstantsAllowed, Inv, NEW p \in Peers,
         Unrelate(p),
         UNCHANGED <<platform, clashed>>
  PROVE  Inv'
<1>1. Known(p) /\ Fits(p) /\ Users(p) /\ Acts(p) /\ At(p, "unrelate")
  BY Before DEF Acts, Unrelate
<1>2. /\ mapContext' = mapContext /\ mapUser' = mapUser
      /\ login' = login
      /\ \A u \in Uids : p \in mapRelation'[u]
                           <=> (p \in mapRelation[u] /\ u # Uid(Puc(p)))
      /\ object' = object
  <2>1. mapRelation \in [Uids -> SUBSET Peers] /\ Uid(Puc(p)) \in Uids
    BY <1>1 DEF Known, TypeOK, At, Holding
  <2> QED BY <1>1, <2>1 DEF Known, Unrelate, Uid
<1> DEFINE c == Same(p, "countDown", call[p].uid, call[p].puc, call[p].old,
                     call[p].seen)
<1>3. Now(p, c)
  <2>1. Turned(p, c)
    BY <1>1, Turns, Zenon DEF Known, Unrelate
  <2>2. c \in CallType'
    BY <1>1, <1>2, ObjectsKept
    DEF Known, Keeps, Same, Locals, CallType, Steps, Adding, Updating,
        Removing, Dropping, At, Puc, Holding, Recounts
  <2> QED BY <1>1, <2>1, <2>2, Moved
<1> USE DEF At, Puc, None, Uid, Now, Same, Locals, Fits
<1>4. \A u : On(u)' = On(u)
  BY <1>2, <1>3, Still
<1>5. Fits(p)'
  <2>1. PlaceFits(p)' /\ EntryFits(p)' /\ HandFits(p)'
    BY <1>1, <1>2, <1>3, <1>4
    DEF Known, PlaceFits, EntryFits, HandFits, Adding, Updating, Removing,
        Dropping, Holding, Going
  <2>2. SeenFits(p)' /\ LoginFits(p)'
    BY <1>1, <1>2, <1>3, <1>4 DEF Known, SeenFits, LoginFits, Going, EntryFits
  <2>3. RelationFits(p)'
    BY <1>1, <1>2, <1>3, <1>4
    DEF Users, RelationFits, EntryFits, HandFits, Holding, Going, Unlisted
  <2>4. FoundFits(p)' /\ OldFits(p)'
    BY <1>1, <1>2, <1>3, <1>4 DEF Known, Users, FoundFits, OldFits, Found
  <2> QED BY <2>1, <2>2, <2>3, <2>4
<1>6. Counts(p)
  BY <1>1, <1>2, <1>3
  DEF Known, Counts, Weight, One, PlaceFits, EntryFits, HandFits, Holding,
      Going, Adding, Updating, Removing, Dropping, Ops
<1>7. Settled(p)
  BY <1>1, <1>2, <1>3, <1>4
  DEF Known, Users, Settled, HandFits, Minds, Alive, Found, TypeOK
<1> QED BY <1>1, <1>3, <1>5, <1>6, <1>7, StepKeeps

(* The count of the user in hand goes down at once.                         *)
LEMMA CountDownKeeps ==
  ASSUME ConstantsAllowed, Inv, NEW p \in Peers,
         CountDown(p),
         UNCHANGED <<platform, clashed>>
  PROVE  Inv'
<1>1. Known(p) /\ Fits(p) /\ Users(p) /\ Acts(p) /\ At(p, "countDown")
  BY Before DEF Acts, CountDown
<1>2. /\ mapContext' = mapContext /\ mapUser' = mapUser
      /\ login' = login /\ mapRelation' = mapRelation
      /\ Recounts(Puc(p), object[Puc(p)].refs - 1)
  <2>1. Puc(p) \in 1..Len(object) /\ object[Puc(p)].refs - 1 \in Int
    BY <1>1 DEF Known, At, Holding
  <2>2. object' = [object EXCEPT ![Puc(p)].refs = object[Puc(p)].refs - 1]
    BY DEF CountDown
  <2> QED BY <1>1, <2>1, <2>2, Recounted DEF Known, tables, CountDown
<1> DEFINE c == Same(p, "erase", call[p].uid, call[p].puc, call[p].old,
                     call[p].seen)
<1>3. Now(p, c)
  <2>1. Turned(p, c)
    BY <1>1, Turns, Zenon DEF Known, CountDown
  <2>2. c \in CallType'
    BY <1>1, <1>2, ObjectsKept
    DEF Known, Keeps, Same, Locals, CallType, Steps, Adding, Updating,
        Removing, Dropping, At, Puc, Holding, Recounts
  <2> QED BY <1>1, <2>1, <2>2, Moved
<1> USE DEF At, Puc, None, Uid, Now, Same, Locals, Fits, Recounts
<1>4. \A u : On(u)' = On(u)
  BY <1>2, <1>3, Still
<1>5. Fits(p)'
  <2>1. PlaceFits(p)' /\ EntryFits(p)' /\ HandFits(p)'
    BY <1>1, <1>2, <1>3, <1>4
    DEF Known, PlaceFits, EntryFits, HandFits, Adding, Updating, Removing,
        Dropping, Holding, Going
  <2>2. SeenFits(p)' /\ LoginFits(p)'
    BY <1>1, <1>2, <1>3, <1>4 DEF Known, SeenFits, LoginFits, Going
  <2>3. RelationFits(p)'
    BY <1>1, <1>2, <1>3, <1>4
    DEF Users, RelationFits, EntryFits, HandFits, Holding, Going, Unlisted
  <2>4. FoundFits(p)' /\ OldFits(p)'
    BY <1>1, <1>2, <1>3, <1>4 DEF Known, Users, FoundFits, OldFits, Found
  <2> QED BY <2>1, <2>2, <2>3, <2>4
<1>6. Counts(p)
  BY <1>1, <1>2, <1>3
  DEF Known, Counts, Weight, One, PlaceFits, EntryFits, HandFits, Holding,
      Going, Adding, Updating, Removing, Dropping, Ops
<1>7. Settled(p)
  <2>1. /\ \A u \in Uids : mapUser[u] \in 0..Len(object)
        /\ call[p].uids \subseteq Uids
        /\ \A o \in 1..Len(object) : object'[o].alive = object[o].alive
    BY <1>1, <1>2 DEF Known, TypeOK
  <2>2. /\ call'[p].uids \subseteq call[p].uids
        /\ platform = "managed" /\ call'[p].op = "UpdatePeer" =>
             /\ call[p].op = "UpdatePeer" /\ call'[p].uid = call[p].uid
             /\ call'[p].uids = call[p].uids
        /\ \/ mapUser'[call[p].uid] = None
           \/ object'[mapUser'[call[p].uid]].uid = call[p].uid
    BY <1>1, <1>2, <1>3, <2>1 DEF Known
  <2>3. ASSUME NEW u \in call[p].uids \ clashed
        PROVE  /\ \A q \in On(u)' : mapContext'[q] = mapUser'[u]
               /\ mapUser'[u] # None => object'[mapUser'[u]].alive
               /\ mapUser'[u] # None => On(u)' # {} \/ Minds(p, u)'
    <3>1. \A q \in On(u)' : mapContext'[q] = mapUser'[u]
      BY <1>1, <1>2, <1>4, <2>1 DEF Users
    <3>2. mapUser'[u] # None => object'[mapUser'[u]].alive
      BY <1>1, <1>2, <1>3, <2>1 DEF Users, Alive
    <3>3. mapUser'[u] # None => On(u)' # {} \/ Minds(p, u)'
      BY <1>1, <1>2, <1>3, <1>4, <2>1 DEF Users, HandFits, Minds, Found
    <3> QED BY <3>1, <3>2, <3>3
  <2> QED BY <2>2, <2>3 DEF Settled
<1> QED BY <1>1, <1>3, <1>5, <1>6, <1>7, StepKeeps

(* A managed call reads the count that it will decrease.                    *)
LEMMA LoadDown ==
  ASSUME ConstantsAllowed, Inv, NEW p \in Peers,
         platform = "managed", LoadRef(p, "countDown", "storeDown"),
         UNCHANGED <<platform, clashed>>
  PROVE  Inv'
<1>1. Known(p) /\ Fits(p) /\ Users(p) /\ Acts(p) /\ At(p, "countDown")
  BY Before DEF Acts, LoadRef
<1>2. /\ mapContext' = mapContext /\ mapUser' = mapUser
      /\ login' = login /\ mapRelation' = mapRelation
      /\ object' = object
  BY <1>1 DEF Known, tables, LoadRef
<1> DEFINE c == Same(p, "storeDown", call[p].uid, call[p].puc, call[p].old,
                     object[Puc(p)].refs)
<1>3. Now(p, c)
  <2>1. Turned(p, c)
    BY <1>1, Turns, Zenon DEF Known, LoadRef
  <2>2. c \in CallType'
    BY <1>1, <1>2, ObjectsKept
    DEF Known, Keeps, Same, Locals, CallType, Steps, Adding, Updating,
        Removing, Dropping, At, Puc, Holding, Recounts
  <2> QED BY <1>1, <2>1, <2>2, Moved
<1> USE DEF At, Puc, None, Uid, Now, Same, Locals, Fits
<1>4. \A u : On(u)' = On(u)
  BY <1>2, <1>3, Still
<1>5. Fits(p)'
  <2>1. PlaceFits(p)' /\ EntryFits(p)' /\ HandFits(p)'
    BY <1>1, <1>2, <1>3, <1>4
    DEF Known, PlaceFits, EntryFits, HandFits, Adding, Updating, Removing,
        Dropping, Holding, Going
  <2>2. SeenFits(p)' /\ LoginFits(p)'
    BY <1>1, <1>2, <1>3, <1>4 DEF Known, SeenFits, LoginFits, Going
  <2>3. RelationFits(p)'
    BY <1>1, <1>2, <1>3, <1>4
    DEF Users, RelationFits, EntryFits, HandFits, Holding, Going, Unlisted
  <2>4. FoundFits(p)' /\ OldFits(p)'
    BY <1>1, <1>2, <1>3, <1>4 DEF Known, Users, FoundFits, OldFits, Found
  <2> QED BY <2>1, <2>2, <2>3, <2>4
<1>6. Counts(p)
  BY <1>1, <1>2, <1>3
  DEF Known, Counts, Weight, One, PlaceFits, EntryFits, HandFits, Holding,
      Going, Adding, Updating, Removing, Dropping, Ops
<1>7. Settled(p)
  BY <1>1, <1>2, <1>3, <1>4
  DEF Known, Users, Settled, HandFits, Minds, Alive, Found, TypeOK
<1> QED BY <1>1, <1>3, <1>5, <1>6, <1>7, StepKeeps

(* A managed call stores the count that it has decreased.                   *)
LEMMA StoreDown ==
  ASSUME ConstantsAllowed, Inv, NEW p \in Peers,
         StoreRef(p, "storeDown", Puc(p), call[p].seen - 1, "erase"),
         UNCHANGED <<platform, clashed>>
  PROVE  Inv'
<1>1. Known(p) /\ Fits(p) /\ Users(p) /\ Acts(p) /\ At(p, "storeDown")
  BY Before DEF Acts, StoreRef
<1>2. /\ mapContext' = mapContext /\ mapUser' = mapUser
      /\ login' = login /\ mapRelation' = mapRelation
      /\ Recounts(Puc(p), call[p].seen - 1)
  <2>1. Puc(p) \in 1..Len(object) /\ call[p].seen - 1 \in Int
    BY <1>1 DEF Known, At, Holding
  <2>2. object' = [object EXCEPT ![Puc(p)].refs = call[p].seen - 1]
    BY DEF StoreRef
  <2> QED BY <1>1, <2>1, <2>2, Recounted DEF Known, tables, StoreRef
<1> DEFINE c == Same(p, "erase", call[p].uid, call[p].puc, call[p].old, 0)
<1>3. Now(p, c)
  <2>1. Turned(p, c)
    BY <1>1, Turns, Zenon DEF Known, StoreRef
  <2>2. c \in CallType'
    BY <1>1, <1>2, ObjectsKept
    DEF Known, Keeps, Same, Locals, CallType, Steps, Adding, Updating,
        Removing, Dropping, At, Puc, Holding, Recounts
  <2> QED BY <1>1, <2>1, <2>2, Moved
<1> USE DEF At, Puc, None, Uid, Now, Same, Locals, Fits, Recounts
<1>4. \A u : On(u)' = On(u)
  BY <1>2, <1>3, Still
<1>5. Fits(p)'
  <2>1. PlaceFits(p)' /\ EntryFits(p)' /\ HandFits(p)'
    BY <1>1, <1>2, <1>3, <1>4
    DEF Known, PlaceFits, EntryFits, HandFits, Adding, Updating, Removing,
        Dropping, Holding, Going
  <2>2. SeenFits(p)' /\ LoginFits(p)'
    BY <1>1, <1>2, <1>3, <1>4 DEF Known, SeenFits, LoginFits, Going
  <2>3. RelationFits(p)'
    BY <1>1, <1>2, <1>3, <1>4
    DEF Users, RelationFits, EntryFits, HandFits, Holding, Going, Unlisted
  <2>4. FoundFits(p)' /\ OldFits(p)'
    BY <1>1, <1>2, <1>3, <1>4 DEF Known, Users, FoundFits, OldFits, Found
  <2> QED BY <2>1, <2>2, <2>3, <2>4
<1>6. Counts(p)
  BY <1>1, <1>2, <1>3
  DEF Known, Counts, Weight, One, PlaceFits, EntryFits, HandFits, Holding,
      Going, Adding, Updating, Removing, Dropping, Ops, SeenFits
<1>7. Settled(p)
  <2>1. /\ \A u \in Uids : mapUser[u] \in 0..Len(object)
        /\ call[p].uids \subseteq Uids
        /\ \A o \in 1..Len(object) : object'[o].alive = object[o].alive
    BY <1>1, <1>2 DEF Known, TypeOK
  <2>2. /\ call'[p].uids \subseteq call[p].uids
        /\ platform = "managed" /\ call'[p].op = "UpdatePeer" =>
             /\ call[p].op = "UpdatePeer" /\ call'[p].uid = call[p].uid
             /\ call'[p].uids = call[p].uids
        /\ \/ mapUser'[call[p].uid] = None
           \/ object'[mapUser'[call[p].uid]].uid = call[p].uid
    BY <1>1, <1>2, <1>3, <2>1 DEF Known
  <2>3. ASSUME NEW u \in call[p].uids \ clashed
        PROVE  /\ \A q \in On(u)' : mapContext'[q] = mapUser'[u]
               /\ mapUser'[u] # None => object'[mapUser'[u]].alive
               /\ mapUser'[u] # None => On(u)' # {} \/ Minds(p, u)'
    <3>1. \A q \in On(u)' : mapContext'[q] = mapUser'[u]
      BY <1>1, <1>2, <1>4, <2>1 DEF Users
    <3>2. mapUser'[u] # None => object'[mapUser'[u]].alive
      BY <1>1, <1>2, <1>3, <2>1 DEF Users, Alive
    <3>3. mapUser'[u] # None => On(u)' # {} \/ Minds(p, u)'
      BY <1>1, <1>2, <1>3, <1>4, <2>1 DEF Users, HandFits, Minds, Found
    <3> QED BY <3>1, <3>2, <3>3
  <2> QED BY <2>2, <2>3 DEF Settled
<1> QED BY <1>1, <1>3, <1>5, <1>6, <1>7, StepKeeps

(* RemovePeer() erases the entry of the peer.                               *)
LEMMA EraseKeeps ==
  ASSUME ConstantsAllowed, Inv, NEW p \in Peers,
         Erase(p),
         UNCHANGED <<platform, clashed>>
  PROVE  Inv'
<1>1. Known(p) /\ Fits(p) /\ Users(p) /\ Acts(p) /\ At(p, "erase")
  BY Before DEF Acts, Erase
<1>2. /\ mapContext[p] = Puc(p) /\ call[p].old = Puc(p)
      /\ mapContext'[p] = None
      /\ mapUser' = mapUser
      /\ login' = login /\ mapRelation' = mapRelation
      /\ object' = object
  BY <1>1 DEF Known, TypeOK, Fits, EntryFits, HandFits, Going, At, Erase
<1> DEFINE c == Same(p, "test", call[p].uid, call[p].puc, call[p].old,
                     call[p].seen)
<1>3. Now(p, c)
  <2>1. Turned(p, c)
    BY <1>1, Turns, Zenon DEF Known, Erase
  <2>2. c \in CallType'
    BY <1>1, <1>2, ObjectsKept
    DEF Known, Keeps, Same, Locals, CallType, Steps, Adding, Updating,
        Removing, Dropping, At, Puc, Holding, Recounts
  <2> QED BY <1>1, <2>1, <2>2, Moved
<1> USE DEF At, Puc, None, Uid, Now, Same, Locals, Fits
<1>4. \A u, q : q \in On(u)' <=> IF q = p THEN FALSE ELSE q \in On(u)
  BY <1>1, <1>2, <1>3, Shifted DEF Known, HandFits, Holding
<1>5. Fits(p)'
  <2>1. PlaceFits(p)' /\ EntryFits(p)' /\ HandFits(p)'
    BY <1>1, <1>2, <1>3, <1>4
    DEF Known, PlaceFits, EntryFits, HandFits, Adding, Updating, Removing,
        Dropping, Holding, Going
  <2>2. SeenFits(p)' /\ LoginFits(p)'
    BY <1>1, <1>2, <1>3, <1>4 DEF Known, SeenFits, LoginFits, Going, EntryFits
  <2>3. RelationFits(p)'
    BY <1>1, <1>2, <1>3, <1>4
    DEF Users, RelationFits, EntryFits, HandFits, Holding, Going, Unlisted
  <2>4. FoundFits(p)' /\ OldFits(p)'
    <3>1. /\ Uid(Puc(p)) = call[p].uid /\ p \in On(call[p].uid)
          /\ call[p].uid \notin clashed => mapUser[call[p].uid] = Puc(p)
          /\ Puc(p) \in 1..Len(object)
      BY <1>1, <1>2 DEF Known, Users, HandFits, Holding
    <3> QED BY <1>2, <1>3, <3>1 DEF FoundFits, OldFits, Found
  <2> QED BY <2>1, <2>2, <2>3, <2>4
<1>6. Counts(p)
  BY <1>1, <1>2, <1>3
  DEF Known, Counts, Weight, One, PlaceFits, EntryFits, HandFits, Holding,
      Going, Adding, Updating, Removing, Dropping, Ops
<1>7. Settled(p)
  <2>1. /\ \A u \in Uids : mapUser[u] \in 0..Len(object)
        /\ call[p].uids \subseteq Uids
    BY <1>1, <1>2 DEF Known, TypeOK
  <2>2. /\ call'[p].uids \subseteq call[p].uids
        /\ platform = "managed" /\ call'[p].op = "UpdatePeer" =>
             /\ call[p].op = "UpdatePeer" /\ call'[p].uid = call[p].uid
             /\ call'[p].uids = call[p].uids
        /\ \/ mapUser'[call[p].uid] = None
           \/ object'[mapUser'[call[p].uid]].uid = call[p].uid
    BY <1>1, <1>2, <1>3, <2>1 DEF Known
  <2>3. ASSUME NEW u \in call[p].uids \ clashed
        PROVE  /\ \A q \in On(u)' : mapContext'[q] = mapUser'[u]
               /\ mapUser'[u] # None => object'[mapUser'[u]].alive
               /\ mapUser'[u] # None => On(u)' # {} \/ Minds(p, u)'
    <3>a. \A q : q \in On(u)' /\ q # p => mapContext'[q] = mapUser[u]
      BY <1>1, <1>3, <1>4, <2>1 DEF Users, Alone
    <3>1. \A q \in On(u)' : mapContext'[q] = mapUser'[u]
      BY <1>1, <1>2, <1>4, <2>1, <3>a DEF Users, FoundFits, Found
    <3>2. mapUser'[u] # None => object'[mapUser'[u]].alive
      BY <1>1, <1>2, <1>3, <2>1
      DEF Known, Users, HandFits, Minds, Alive, Found, Going
    <3>3. mapUser'[u] # None => On(u)' # {} \/ Minds(p, u)'
      BY <1>1, <1>2, <1>3, <1>4, <2>1
      DEF Known, Users, HandFits, Minds, Alive, Found, Going
    <3> QED BY <3>1, <3>2, <3>3
  <2> QED BY <2>2, <2>3 DEF Settled
<1> QED BY <1>1, <1>3, <1>5, <1>6, <1>7, StepKeeps

(* The user to drop is not stored any more: the call returns.               *)
LEMMA FindStoredNone ==
  ASSUME ConstantsAllowed, Inv, NEW p \in Peers,
         FindStored(p),
         mapUser[call[p].uid] = None,
         UNCHANGED <<platform, clashed>>
  PROVE  Inv'
<1>1. Known(p) /\ Fits(p) /\ Users(p) /\ Acts(p) /\ At(p, "findStored")
  BY Before DEF Acts, FindStored
<1>2. /\ mapContext' = mapContext /\ mapUser' = mapUser
      /\ login' = login /\ mapRelation' = mapRelation
      /\ object' = object
  BY <1>1 DEF Known, tables, FindStored
<1>3. Now(p, Ended)
  <2>1. Turned(p, Ended)
    BY <1>1, Turns, Zenon DEF Known, Ended, FindStored
  <2>2. Ended \in CallType'
    BY <1>1, EndedTyped, Zenon
  <2> QED BY <1>1, <2>1, <2>2, Moved
<1> USE DEF At, Puc, None, Uid, Now, Same, Locals, Fits, Ended
<1>4. \A u : On(u)' = On(u)
  BY <1>2, <1>3, Still
<1>5. Fits(p)'
  <2>1. PlaceFits(p)' /\ EntryFits(p)' /\ HandFits(p)'
    BY <1>1, <1>2, <1>3, <1>4
    DEF Known, PlaceFits, EntryFits, HandFits, Adding, Updating, Removing,
        Dropping, Holding, Going
  <2>2. SeenFits(p)' /\ LoginFits(p)'
    BY <1>1, <1>2, <1>3, <1>4 DEF Known, SeenFits, LoginFits, Going
  <2>3. RelationFits(p)'
    BY <1>1, <1>2, <1>3, <1>4
    DEF Users, RelationFits, EntryFits, HandFits, Holding, Going, Unlisted
  <2>4. FoundFits(p)' /\ OldFits(p)'
    BY <1>1, <1>2, <1>3, <1>4 DEF Known, Users, FoundFits, OldFits, Found
  <2> QED BY <2>1, <2>2, <2>3, <2>4
<1>6. Counts(p)
  BY <1>1, <1>2, <1>3
  DEF Known, Counts, Weight, One, PlaceFits, EntryFits, HandFits, Holding,
      Going, Adding, Updating, Removing, Dropping, Ops
<1>7. Settled(p)
  <2>1. /\ \A u \in Uids : mapUser[u] \in 0..Len(object)
        /\ call[p].uids \subseteq Uids
    BY <1>1, <1>2 DEF Known, TypeOK
  <2>2. /\ call'[p].uids \subseteq call[p].uids
        /\ platform = "managed" /\ call'[p].op = "UpdatePeer" =>
             /\ call[p].op = "UpdatePeer" /\ call'[p].uid = call[p].uid
             /\ call'[p].uids = call[p].uids
        /\ \/ mapUser'[call[p].uid] = None
           \/ object'[mapUser'[call[p].uid]].uid = call[p].uid
    BY <1>1, <1>2, <1>3, <2>1 DEF Known
  <2>3. ASSUME NEW u \in call[p].uids \ clashed
        PROVE  /\ \A q \in On(u)' : mapContext'[q] = mapUser'[u]
               /\ mapUser'[u] # None => object'[mapUser'[u]].alive
               /\ mapUser'[u] # None => On(u)' # {} \/ Minds(p, u)'
    <3>1. \A q \in On(u)' : mapContext'[q] = mapUser'[u]
      BY <1>1, <1>2, <1>4, <2>1 DEF Users
    <3>2. mapUser'[u] # None => object'[mapUser'[u]].alive
      BY <1>1, <1>2, <1>3, <2>1
      DEF Known, Users, HandFits, Minds, Alive, Found
    <3>3. mapUser'[u] # None => On(u)' # {} \/ Minds(p, u)'
      BY <1>1, <1>2, <1>3, <1>4, <2>1
      DEF Known, Users, HandFits, Minds, Alive, Found
    <3> QED BY <3>1, <3>2, <3>3
  <2> QED BY <2>2, <2>3 DEF Settled
<1> QED BY <1>1, <1>3, <1>5, <1>6, <1>7, StepKeeps

(* The user to drop is found in the store.                                  *)
LEMMA FindStoredUser ==
  ASSUME ConstantsAllowed, Inv, NEW p \in Peers,
         FindStored(p),
         mapUser[call[p].uid] # None,
         UNCHANGED <<platform, clashed>>
  PROVE  Inv'
<1>1. Known(p) /\ Fits(p) /\ Users(p) /\ Acts(p) /\ At(p, "findStored")
  BY Before DEF Acts, FindStored
<1>2. /\ mapContext' = mapContext /\ mapUser' = mapUser
      /\ login' = login /\ mapRelation' = mapRelation
      /\ object' = object
  BY <1>1 DEF Known, tables, FindStored
<1> DEFINE c == Same(p, "dropUser", call[p].uid, mapUser[call[p].uid],
                     call[p].old, call[p].seen)
<1>3. Now(p, c)
  <2>1. Turned(p, c)
    BY <1>1, Turns, Zenon DEF Known, FindStored
  <2>2. c \in CallType'
    BY <1>1, <1>2, ObjectsKept
    DEF Known, Keeps, Same, Locals, CallType, Steps, Adding, Updating,
        Removing, Dropping, At, Puc, Holding, Recounts
  <2> QED BY <1>1, <2>1, <2>2, Moved
<1> USE DEF At, Puc, None, Uid, Now, Same, Locals, Fits
<1>4. \A u : On(u)' = On(u)
  BY <1>2, <1>3, Still
<1>5. Fits(p)'
  <2>1. PlaceFits(p)' /\ EntryFits(p)' /\ HandFits(p)'
    BY <1>1, <1>2, <1>3, <1>4
    DEF Known, PlaceFits, EntryFits, HandFits, Adding, Updating, Removing,
        Dropping, Holding, Going
  <2>2. SeenFits(p)' /\ LoginFits(p)'
    BY <1>1, <1>2, <1>3, <1>4 DEF Known, SeenFits, LoginFits, Going
  <2>3. RelationFits(p)'
    BY <1>1, <1>2, <1>3, <1>4
    DEF Users, RelationFits, EntryFits, HandFits, Holding, Going, Unlisted
  <2>4. FoundFits(p)' /\ OldFits(p)'
    BY <1>1, <1>2, <1>3, <1>4 DEF Known, Users, FoundFits, OldFits, Found
  <2> QED BY <2>1, <2>2, <2>3, <2>4
<1>6. Counts(p)
  BY <1>1, <1>2, <1>3
  DEF Known, Counts, Weight, One, PlaceFits, EntryFits, HandFits, Holding,
      Going, Adding, Updating, Removing, Dropping, Ops
<1>7. Settled(p)
  BY <1>1, <1>2, <1>3, <1>4
  DEF Known, Users, Settled, HandFits, Minds, Alive, Found, TypeOK
<1> QED BY <1>1, <1>3, <1>5, <1>6, <1>7, StepKeeps

(* The native call takes the user out of the store, to delete it.           *)
LEMMA DropUserNative ==
  ASSUME ConstantsAllowed, Inv, NEW p \in Peers,
         DropUser(p),
         platform = "native",
         UNCHANGED <<platform, clashed>>
  PROVE  Inv'
<1>1. Known(p) /\ Fits(p) /\ Users(p) /\ Acts(p) /\ At(p, "dropUser")
  BY Before DEF Acts, DropUser
<1>2. /\ mapContext' = mapContext
      /\ mapUser'[call[p].uid] = None
      /\ \A u \in Uids : u # call[p].uid => mapUser'[u] = mapUser[u]
      /\ login' = login /\ mapRelation' = mapRelation
      /\ object' = object
  BY <1>1 DEF Known, TypeOK, At, DropUser
<1> DEFINE c == Same(p, "delete", call[p].uid, call[p].puc, call[p].old,
                     call[p].seen)
<1>3. Now(p, c)
  <2>1. Turned(p, c)
    BY <1>1, Turns, Zenon DEF Known, DropUser
  <2>2. c \in CallType'
    BY <1>1, <1>2, ObjectsKept
    DEF Known, Keeps, Same, Locals, CallType, Steps, Adding, Updating,
        Removing, Dropping, At, Puc, Holding, Recounts
  <2> QED BY <1>1, <2>1, <2>2, Moved
<1> USE DEF At, Puc, None, Uid, Now, Same, Locals, Fits
<1>4. \A u : On(u)' = On(u)
  BY <1>2, <1>3, Still
<1>5. Fits(p)'
  <2>1. PlaceFits(p)' /\ EntryFits(p)' /\ HandFits(p)'
    BY <1>1, <1>2, <1>3, <1>4
    DEF Known, PlaceFits, EntryFits, HandFits, Adding, Updating, Removing,
        Dropping, Holding, Going
  <2>2. SeenFits(p)' /\ LoginFits(p)'
    BY <1>1, <1>2, <1>3, <1>4 DEF Known, SeenFits, LoginFits, Going
  <2>3. RelationFits(p)'
    BY <1>1, <1>2, <1>3, <1>4
    DEF Users, RelationFits, EntryFits, HandFits, Holding, Going, Unlisted
  <2>4. FoundFits(p)' /\ OldFits(p)'
    BY <1>1, <1>2, <1>3, <1>4 DEF Known, Users, FoundFits, OldFits, Found
  <2> QED BY <2>1, <2>2, <2>3, <2>4
<1>6. Counts(p)
  BY <1>1, <1>2, <1>3
  DEF Known, Counts, Weight, One, PlaceFits, EntryFits, HandFits, Holding,
      Going, Adding, Updating, Removing, Dropping, Ops
<1>7. Settled(p)
  <2>1. /\ \A u \in Uids : mapUser[u] \in 0..Len(object)
        /\ call[p].uids \subseteq Uids
    BY <1>1, <1>2 DEF Known, TypeOK
  <2>2. /\ call'[p].uids \subseteq call[p].uids
        /\ platform = "managed" /\ call'[p].op = "UpdatePeer" =>
             /\ call[p].op = "UpdatePeer" /\ call'[p].uid = call[p].uid
             /\ call'[p].uids = call[p].uids
        /\ \/ mapUser'[call[p].uid] = None
           \/ object'[mapUser'[call[p].uid]].uid = call[p].uid
    BY <1>1, <1>2, <1>3, <2>1 DEF Known
  <2>3. ASSUME NEW u \in call[p].uids \ clashed
        PROVE  /\ \A q \in On(u)' : mapContext'[q] = mapUser'[u]
               /\ mapUser'[u] # None => object'[mapUser'[u]].alive
               /\ mapUser'[u] # None => On(u)' # {} \/ Minds(p, u)'
    <3>a. u = call[p].uid => On(u) = {}
      BY <1>1 DEF Users, FoundFits
    <3>1. \A q \in On(u)' : mapContext'[q] = mapUser'[u]
      BY <1>1, <1>2, <1>4, <2>1, <3>a DEF Users
    <3>2. mapUser'[u] # None => object'[mapUser'[u]].alive
      BY <1>1, <1>2, <1>3, <2>1
      DEF Known, Users, HandFits, Minds, Alive, Found, FoundFits
    <3>3. mapUser'[u] # None => On(u)' # {} \/ Minds(p, u)'
      BY <1>1, <1>2, <1>3, <1>4, <2>1
      DEF Known, Users, HandFits, Minds, Alive, Found, FoundFits
    <3> QED BY <3>1, <3>2, <3>3
  <2> QED BY <2>2, <2>3 DEF Settled
<1> QED BY <1>1, <1>3, <1>5, <1>6, <1>7, StepKeeps

(* The managed call takes the user out of the store and returns.            *)
LEMMA DropUserManaged ==
  ASSUME ConstantsAllowed, Inv, NEW p \in Peers,
         DropUser(p),
         platform # "native",
         UNCHANGED <<platform, clashed>>
  PROVE  Inv'
<1>1. Known(p) /\ Fits(p) /\ Users(p) /\ Acts(p) /\ At(p, "dropUser")
  BY Before DEF Acts, DropUser
<1>2. /\ mapContext' = mapContext
      /\ mapUser'[call[p].uid] = None
      /\ \A u \in Uids : u # call[p].uid => mapUser'[u] = mapUser[u]
      /\ login' = login /\ mapRelation' = mapRelation
      /\ object' = object
  BY <1>1 DEF Known, TypeOK, At, DropUser
<1>3. Now(p, Ended)
  <2>1. Turned(p, Ended)
    BY <1>1, Turns, Zenon DEF Known, Ended, DropUser
  <2>2. Ended \in CallType'
    BY <1>1, EndedTyped, Zenon
  <2> QED BY <1>1, <2>1, <2>2, Moved
<1> USE DEF At, Puc, None, Uid, Now, Same, Locals, Fits, Ended
<1>4. \A u : On(u)' = On(u)
  BY <1>2, <1>3, Still
<1>5. Fits(p)'
  <2>1. PlaceFits(p)' /\ EntryFits(p)' /\ HandFits(p)'
    BY <1>1, <1>2, <1>3, <1>4
    DEF Known, PlaceFits, EntryFits, HandFits, Adding, Updating, Removing,
        Dropping, Holding, Going
  <2>2. SeenFits(p)' /\ LoginFits(p)'
    BY <1>1, <1>2, <1>3, <1>4 DEF Known, SeenFits, LoginFits, Going
  <2>3. RelationFits(p)'
    BY <1>1, <1>2, <1>3, <1>4
    DEF Users, RelationFits, EntryFits, HandFits, Holding, Going, Unlisted
  <2>4. FoundFits(p)' /\ OldFits(p)'
    BY <1>1, <1>2, <1>3, <1>4 DEF Known, Users, FoundFits, OldFits, Found
  <2> QED BY <2>1, <2>2, <2>3, <2>4
<1>6. Counts(p)
  BY <1>1, <1>2, <1>3
  DEF Known, Counts, Weight, One, PlaceFits, EntryFits, HandFits, Holding,
      Going, Adding, Updating, Removing, Dropping, Ops
<1>7. Settled(p)
  <2>1. /\ \A u \in Uids : mapUser[u] \in 0..Len(object)
        /\ call[p].uids \subseteq Uids
    BY <1>1, <1>2 DEF Known, TypeOK
  <2>2. /\ call'[p].uids \subseteq call[p].uids
        /\ platform = "managed" /\ call'[p].op = "UpdatePeer" =>
             /\ call[p].op = "UpdatePeer" /\ call'[p].uid = call[p].uid
             /\ call'[p].uids = call[p].uids
        /\ \/ mapUser'[call[p].uid] = None
           \/ object'[mapUser'[call[p].uid]].uid = call[p].uid
    BY <1>1, <1>2, <1>3, <2>1 DEF Known
  <2>3. ASSUME NEW u \in call[p].uids \ clashed
        PROVE  /\ \A q \in On(u)' : mapContext'[q] = mapUser'[u]
               /\ mapUser'[u] # None => object'[mapUser'[u]].alive
               /\ mapUser'[u] # None => On(u)' # {} \/ Minds(p, u)'
    <3>a. u = call[p].uid => On(u) = {}
      BY <1>1 DEF Users, FoundFits
    <3>1. \A q \in On(u)' : mapContext'[q] = mapUser'[u]
      BY <1>1, <1>2, <1>4, <2>1, <3>a DEF Users
    <3>2. mapUser'[u] # None => object'[mapUser'[u]].alive
      BY <1>1, <1>2, <1>3, <2>1
      DEF Known, Users, HandFits, Minds, Alive, Found, FoundFits
    <3>3. mapUser'[u] # None => On(u)' # {} \/ Minds(p, u)'
      BY <1>1, <1>2, <1>3, <1>4, <2>1
      DEF Known, Users, HandFits, Minds, Alive, Found, FoundFits
    <3> QED BY <3>1, <3>2, <3>3
  <2> QED BY <2>2, <2>3 DEF Settled
<1> QED BY <1>1, <1>3, <1>5, <1>6, <1>7, StepKeeps

(* The native call deletes the user that it has dropped.                    *)
LEMMA DeleteKeeps ==
  ASSUME ConstantsAllowed, Inv, NEW p \in Peers,
         Delete(p),
         UNCHANGED <<platform, clashed>>
  PROVE  Inv'
<1>1. Known(p) /\ Fits(p) /\ Users(p) /\ Acts(p) /\ At(p, "delete")
  BY Before DEF Acts, Delete
<1>2. /\ mapContext' = mapContext /\ mapUser' = mapUser
      /\ login' = login /\ mapRelation' = mapRelation
      /\ Len(object') = Len(object)
      /\ \A i \in 1..Len(object) : i # Puc(p) => object'[i] = object[i]
      /\ object'[Puc(p)].refs = object[Puc(p)].refs
      /\ object'[Puc(p)].uid = object[Puc(p)].uid
  <2>1. Puc(p) \in 1..Len(object)
    BY <1>1 DEF Known, At, Holding
  <2>2. object' = [object EXCEPT ![Puc(p)].alive = FALSE]
    BY DEF Delete
  <2> QED BY <1>1, <2>1, <2>2, Died DEF Known, tables, Delete
<1>3. Now(p, Ended)
  <2>1. Turned(p, Ended)
    BY <1>1, Turns, Zenon DEF Known, Ended, Delete
  <2>2. Ended \in CallType'
    BY <1>1, EndedTyped, Zenon
  <2> QED BY <1>1, <2>1, <2>2, Moved
<1> USE DEF At, Puc, None, Uid, Now, Same, Locals, Fits, Ended
<1>4. \A u : On(u)' = On(u)
  BY <1>2, <1>3, Still
<1>5. Fits(p)'
  <2>1. PlaceFits(p)' /\ EntryFits(p)' /\ HandFits(p)'
    BY <1>1, <1>2, <1>3, <1>4
    DEF Known, PlaceFits, EntryFits, HandFits, Adding, Updating, Removing,
        Dropping, Holding, Going
  <2>2. SeenFits(p)' /\ LoginFits(p)'
    BY <1>1, <1>2, <1>3, <1>4 DEF Known, SeenFits, LoginFits, Going
  <2>3. RelationFits(p)'
    BY <1>1, <1>2, <1>3, <1>4
    DEF Users, RelationFits, EntryFits, HandFits, Holding, Going, Unlisted
  <2>4. FoundFits(p)' /\ OldFits(p)'
    BY <1>1, <1>2, <1>3, <1>4 DEF Known, Users, FoundFits, OldFits, Found
  <2> QED BY <2>1, <2>2, <2>3, <2>4
<1>6. Counts(p)
  BY <1>1, <1>2, <1>3
  DEF Known, Counts, Weight, One, PlaceFits, EntryFits, HandFits, Holding,
      Going, Adding, Updating, Removing, Dropping, Ops
<1>7. Settled(p)
  <2>1. /\ \A u \in Uids : mapUser[u] \in 0..Len(object)
        /\ call[p].uids \subseteq Uids
    BY <1>1, <1>2 DEF Known, TypeOK
  <2>2. /\ call'[p].uids \subseteq call[p].uids
        /\ platform = "managed" /\ call'[p].op = "UpdatePeer" =>
             /\ call[p].op = "UpdatePeer" /\ call'[p].uid = call[p].uid
             /\ call'[p].uids = call[p].uids
        /\ \/ mapUser'[call[p].uid] = None
           \/ object'[mapUser'[call[p].uid]].uid = call[p].uid
    BY <1>1, <1>2, <1>3, <2>1 DEF Known
  <2>3. ASSUME NEW u \in call[p].uids \ clashed
        PROVE  /\ \A q \in On(u)' : mapContext'[q] = mapUser'[u]
               /\ mapUser'[u] # None => object'[mapUser'[u]].alive
               /\ mapUser'[u] # None => On(u)' # {} \/ Minds(p, u)'
    <3>1. \A q \in On(u)' : mapContext'[q] = mapUser'[u]
      BY <1>1, <1>2, <1>4, <2>1 DEF Users
    <3>2. mapUser'[u] # None => object'[mapUser'[u]].alive
      BY <1>1, <1>2, <1>3, <2>1
      DEF Known, Users, HandFits, Minds, Alive, Found, FoundFits, Holding
    <3>3. mapUser'[u] # None => On(u)' # {} \/ Minds(p, u)'
      BY <1>1, <1>2, <1>3, <1>4, <2>1
      DEF Known, Users, HandFits, Minds, Alive, Found, FoundFits, Holding
    <3> QED BY <3>1, <3>2, <3>3
  <2> QED BY <2>2, <2>3 DEF Settled
<1> QED BY <1>1, <1>3, <1>5, <1>6, <1>7, StepKeeps
-----------------------------------------------------------------------------
(* Every step of a call.                                                    *)
LEMMA StepInv ==
  ASSUME ConstantsAllowed, Inv, NEW p \in Peers, Step(p)
  PROVE  Inv'
<1>a. Acts(p) /\ UNCHANGED <<platform, clashed>>
  BY ActsOf DEF Inv
<1>1. CASE FindPeer(p) \/ FindUser(p) \/ AddUser(p)
  BY <1>a, <1>1, FindPeerKnown, FindPeerNew, FindUserStored, FindUserMissing,
     AddUserKeeps
<1>2. CASE \/ CountUp(p)
           \/ platform = "managed" /\ LoadRef(p, "countUp", "storeUp")
           \/ StoreRef(p, "storeUp", Puc(p), call[p].seen + 1, Counted(p))
  BY <1>a, <1>2, CountUpKeeps, LoadUp, StoreUp
<1>3. CASE Insert(p) \/ Relate(p) \/ StatLogin(p)
  BY <1>a, <1>3, InsertKeeps, RelateKeeps, StatKeeps
<1>4. CASE Exchange(p) \/ (platform = "managed" /\ LoadOld(p)) \/ StoreOld(p)
  BY <1>a, <1>4, ExchangeKeeps, LoadOldKeeps, StoreOldKeeps
<1>5. CASE Tests(p) \/ GetPeer(p) \/ Unrelate(p)
  BY <1>a, <1>5, TestsEnd, TestsGo, GetPeerKeeps, UnrelateKeeps
<1>6. CASE \/ CountDown(p)
           \/ platform = "managed" /\ LoadRef(p, "countDown", "storeDown")
           \/ StoreRef(p, "storeDown", Puc(p), call[p].seen - 1, "erase")
  BY <1>a, <1>6, CountDownKeeps, LoadDown, StoreDown
<1>7. CASE Erase(p) \/ FindStored(p)
  BY <1>a, <1>7, EraseKeeps, FindStoredNone, FindStoredUser
<1>8. CASE DropUser(p) \/ Delete(p)
  BY <1>a, <1>8, DropUserNative, DropUserManaged, DeleteKeeps
<1> QED BY <1>a, <1>1, <1>2, <1>3, <1>4, <1>5, <1>6, <1>7, <1>8 DEF Acts

(* A call begins: it clashes with those that handle one of its users.       *)
LEMMA BeginInv ==
  ASSUME ConstantsAllowed, Inv, NEW p \in Peers, NEW uid \in Uids,
         NEW op \in {"AddPeer", "UpdatePeer", "RemovePeer"}, Begin(p, op, uid)
  PROVE  Inv'
<1> DEFINE old   == IF mapContext[p] = None THEN {}
                    ELSE {object[mapContext[p]].uid}
           uids  == old \cup {uid}
           first == CASE op = "AddPeer"    -> "findPeer"
                      [] op = "UpdatePeer" -> "findUser"
                      [] OTHER             -> "getPeer"
           c == Locals(op, first, uid, None, None, 0, uids)
<1>1. /\ At(p, "idle") /\ UNCHANGED <<platform, object, tables>>
      /\ op = "UpdatePeer" => mapContext[p] # None
      /\ op = "RemovePeer" => old = {uid}
  BY DEF Begin
<1> DEFINE swaps == platform = "managed" /\ op = "UpdatePeer" /\ old # {uid}
<1>b. /\ call' = [call EXCEPT ![p] = [Idle EXCEPT !.op = op, !.step = first,
                                              !.uid = uid, !.uids = uids]]
      /\ clashed' = clashed \cup (UNION {call[q].uids \cap uids : q \in Running})
                           \cup (IF swaps THEN uids ELSE {})
  BY DEF Begin
<1>2. call' = [call EXCEPT ![p] = c]
  <2> HIDE DEF first, uids
  <2>1. [Idle EXCEPT !.op = op, !.step = first, !.uid = uid, !.uids = uids] = c
    <3> DEFINE c1 == [Idle EXCEPT !.op = op]
               c2 == [c1 EXCEPT !.step = first]
               c3 == [c2 EXCEPT !.uid = uid]
    <3>1. c1 = Locals(op, "idle", None, None, None, 0, {})
      BY DEF Idle, Locals
    <3> HIDE DEF c1
    <3>2. c2 = Locals(op, first, None, None, None, 0, {})
      BY <3>1 DEF Locals
    <3> HIDE DEF c2
    <3>3. c3 = Locals(op, first, uid, None, None, 0, {})
      BY <3>2 DEF Locals
    <3> HIDE DEF c3
    <3>4. [c3 EXCEPT !.uids = uids] = c
      BY <3>3 DEF Locals
    <3> QED BY <3>4 DEF c1, c2, c3
  <2> QED BY <1>b, <2>1
<1>3. /\ clashed \subseteq clashed'
      /\ \A q \in Running : call[q].uids \cap uids \subseteq clashed'
      /\ platform = "managed" /\ op = "UpdatePeer"
           => uids \subseteq clashed' \/ uids = {uid}
      /\ \A u \in clashed' : u \in clashed \/ u \in uids
  <2>1. ~swaps /\ platform = "managed" /\ op = "UpdatePeer" => uids = {uid}
    OBVIOUS
  <2> DEFINE C == UNION {call[q].uids \cap uids : q \in Running}
             D == IF swaps THEN uids ELSE {}
  <2>2. clashed' = (clashed \cup C) \cup D
    BY <1>b, Zenon
  <2> HIDE DEF uids, swaps
  <2>3. /\ \A q \in Running : call[q].uids \cap uids \subseteq C
        /\ \A u \in C : u \in uids
        /\ \A u \in D : u \in uids
        /\ swaps => D = uids
    OBVIOUS
  <2> HIDE DEF C, D
  <2> QED BY <2>1, <2>2, <2>3
<1>4. /\ TypeOK /\ StoredFits /\ CallsFit /\ OneHandler /\ LocalsFit
      /\ UserFits /\ NotForgotten /\ UserRefsCounted
  BY DEF Inv
<1>5. /\ Len(object) \in Nat /\ mapContext[p] \in 0..Len(object)
      /\ \A o \in 1..Len(object) : object[o].uid \in Uids
      /\ \A q \in Peers : call[q] \in CallType /\ call[q].uids \subseteq Uids
  BY <1>4, HandsTyped, ObjectsTyped DEF TypeOK
<1>6. /\ uids \subseteq Uids /\ uid \in uids /\ c \in CallType
      /\ mapContext[p] = None \/ Uid(mapContext[p]) \in uids
      /\ op = "RemovePeer" =>
           mapContext[p] # None /\ Uid(mapContext[p]) = uid
  <2>1. uids \subseteq Uids
    BY <1>5 DEF None
  <2>2. first \in {"findPeer", "findUser", "getPeer"}
    OBVIOUS
  <2>3. {"findPeer", "findUser", "getPeer"} \subseteq Steps
    BY DEF Steps, Adding, Updating, Removing
  <2>4. op \in Ops
    BY DEF Ops
  <2>5. c \in CallType
    <3> HIDE DEF first, uids
    <3> QED BY <1>5, <2>1, <2>2, <2>3, <2>4 DEF CallType, Locals, None
  <2> QED BY <1>1, <2>1, <2>5 DEF Uid
<1>7. /\ op = "AddPeer" <=> first = "findPeer"
      /\ op = "UpdatePeer" <=> first = "findUser"
      /\ op = "RemovePeer" <=> first = "getPeer"
      /\ first \in {"findPeer", "findUser", "getPeer"}
  OBVIOUS
<1> HIDE DEF uids, first, old, swaps
<1>8. /\ c.op = op /\ c.step = first /\ c.uid = uid /\ c.puc = None
      /\ c.old = None /\ c.seen = 0 /\ c.uids = uids
  BY DEF Locals
<1> HIDE DEF c
<1>9. /\ call \in [Peers -> CallType] /\ call' \in [Peers -> CallType]
      /\ call'[p] = c /\ \A q \in Peers : q # p => call'[q] = call[q]
      /\ object' = object /\ mapContext' = mapContext /\ login' = login
      /\ mapUser' = mapUser /\ mapRelation' = mapRelation
      /\ mapUserStat' = mapUserStat /\ platform' = platform
  BY <1>1, <1>2, <1>4, <1>6 DEF TypeOK, tables
<1>10. TypeOK'
  <2>1. CallType' = CallType
    BY <1>9 DEF CallType
  <2>2. clashed' \subseteq Uids
    BY <1>3, <1>4, <1>6 DEF TypeOK
  <2> QED BY <1>4, <1>9, <2>1, <2>2 DEF TypeOK
<1>11. StoredFits'
  BY <1>4, <1>9 DEF StoredFits, Uid
<1>12. CallsFit'
  <2>1. ASSUME NEW q \in Peers, q # p
        PROVE  PlaceFits(q)' /\ EntryFits(q)' /\ HandFits(q)'
    BY <1>4, <1>9, <2>1
    DEF CallsFit, PlaceFits, EntryFits, HandFits, At, Puc, Uid
  <2>2. PlaceFits(p)'
    BY <1>6, <1>7, <1>8, <1>9 DEF PlaceFits, At, Adding, Updating, Removing
  <2>3. EntryFits(p)'
    BY <1>1, <1>6, <1>7, <1>8, <1>9, <1>4 DEF EntryFits, At, Going, Uid, None
  <2>4. HandFits(p)'
    BY <1>7, <1>8, <1>9 DEF HandFits, At, Holding, Going
  <2> QED BY <2>1, <2>2, <2>3, <2>4 DEF CallsFit
<1>13. ASSUME NEW q \in Peers, q # p
       PROVE  call[q].uids \cap uids \subseteq clashed'
  <2>1. CASE q \in Running
    BY <1>3, <2>1
  <2>2. CASE At(q, "idle")
    <3>1. call[q].op \in Ops
      BY <1>5 DEF CallType
    <3>2. call[q].uids = {}
      BY <1>4, <2>2, <3>1
      DEF CallsFit, PlaceFits, At, Ops, Adding, Updating, Removing, Dropping
    <3> QED BY <3>2
  <2> QED BY <2>1, <2>2 DEF Running
<1>14. OneHandler'
  <2>1. ASSUME NEW q \in Peers, NEW r \in Peers, q # r
        PROVE  call'[q].uids \cap call'[r].uids \subseteq clashed'
    BY <1>3, <1>4, <1>8, <1>9, <1>13, <2>1 DEF OneHandler
  <2>2. ASSUME NEW q \in Peers, platform' = "managed",
               call'[q].op = "UpdatePeer"
        PROVE  \/ call'[q].uids \subseteq clashed'
               \/ call'[q].uids = {call'[q].uid}
    BY <1>3, <1>4, <1>8, <1>9, <2>2 DEF OneHandler
  <2> QED BY <2>1, <2>2 DEF OneHandler
<1>15. \A u : On(u)' = On(u)
  BY <1>9 DEF On, Uid
<1>16. LocalsFit'
  <2>1. ASSUME NEW q \in Peers, q # p
        PROVE  /\ SeenFits(q)' /\ LoginFits(q)' /\ RelationFits(q)'
               /\ FoundFits(q)' /\ OldFits(q)'
    <3>1. /\ SeenFits(q) /\ LoginFits(q) /\ RelationFits(q)
          /\ FoundFits(q) /\ OldFits(q)
      BY <1>4 DEF LocalsFit
    <3>2. call'[q] = call[q]
      BY <1>9, <2>1
    <3>3. SeenFits(q)'
      BY <1>3, <1>9, <3>1, <3>2 DEF SeenFits, At, Puc, Uid
    <3>4. LoginFits(q)' /\ RelationFits(q)'
      BY <1>3, <1>9, <1>15, <3>1, <3>2 DEF LoginFits, RelationFits
    <3>5. FoundFits(q)'
      BY <1>3, <1>9, <1>15, <3>1, <3>2 DEF FoundFits, Puc
    <3>6. OldFits(q)'
      BY <1>3, <1>9, <3>1, <3>2 DEF OldFits, At, Uid
    <3> QED BY <3>3, <3>4, <3>5, <3>6
  <2>2. SeenFits(p)' /\ OldFits(p)'
    BY <1>7, <1>8, <1>9 DEF SeenFits, OldFits, At
  <2>3. LoginFits(p)' /\ RelationFits(p)'
    BY <1>1, <1>3, <1>4, <1>7, <1>8, <1>9, <1>15
    DEF LocalsFit, LoginFits, RelationFits, At, Going, Unlisted
  <2>4. FoundFits(p)'
    BY <1>7, <1>8, <1>9 DEF FoundFits, Found
  <2> QED BY <2>1, <2>2, <2>3, <2>4 DEF LocalsFit
<1>17. UserFits'
  BY <1>3, <1>4, <1>9, <1>15 DEF UserFits, Alive
<1>18. NotForgotten'
  <2>1. ASSUME NEW u, NEW q \in Peers, Minds(q, u)
        PROVE  Minds(q, u)'
    <3>1. q # p
      BY <1>1, <2>1 DEF Minds, At, Found
    <3> QED BY <1>9, <2>1, <3>1 DEF Minds, At, Uid
  <2> QED BY <1>3, <1>4, <1>9, <1>15, <2>1 DEF NotForgotten
<1>19. UserRefsCounted'
  <2>1. \A o : /\ CallsAt("AddPeer", "insert", o)'
                    = CallsAt("AddPeer", "insert", o)
               /\ CallsAt("UpdatePeer", "exchange", o)'
                    = CallsAt("UpdatePeer", "exchange", o)
               /\ CallsAt("UpdatePeer", "exchangeStore", o)'
                    = CallsAt("UpdatePeer", "exchangeStore", o)
               /\ CallsAt("RemovePeer", "erase", o)'
                    = CallsAt("RemovePeer", "erase", o)
    BY <1>1, <1>7, <1>8, <1>9 DEF CallsAt, At, Puc
  <2> QED BY <1>3, <1>4, <1>9, <2>1, Zenon DEF UserRefsCounted, Objects
<1> QED
  BY <1>10, <1>11, <1>12, <1>14, <1>16, <1>17, <1>18, <1>19 DEF Inv

(* Nobody is logged in at first.                                            *)
LEMMA Starts == Init => Inv
<1> SUFFICES ASSUME Init PROVE Inv
  OBVIOUS
<1>1. /\ Len(object) = 0 /\ object \in Seq(UserType) /\ Objects = {}
      /\ mapContext = [p \in Peers |-> None]
      /\ mapUser = [u \in Uids |-> None]
  BY DEF Init, Objects
<1>2. Idle \in CallType
  BY <1>1 DEF Idle, CallType, Ops, Steps, None
<1>3. TypeOK
  BY <1>1, <1>2 DEF Init, TypeOK, None
<1>4. /\ call = [p \in Peers |-> Idle] /\ login = {} /\ clashed = {}
      /\ mapRelation = [u \in Uids |-> {}]
      /\ Idle.op = "none" /\ Idle.step = "idle" /\ Idle.uids = {}
  BY DEF Init, Idle
<1>5. \A u : On(u) = {}
  BY <1>1 DEF On
<1>6. StoredFits /\ UserFits /\ NotForgotten
  BY <1>1, <1>5 DEF StoredFits, UserFits, NotForgotten
<1>7. OneHandler
  BY <1>4 DEF OneHandler
<1>8. CallsFit
  BY <1>1, <1>4
  DEF CallsFit, PlaceFits, EntryFits, HandFits, At, Holding, Going
<1>9. LocalsFit
  BY <1>1, <1>4, <1>5
  DEF LocalsFit, SeenFits, LoginFits, RelationFits, FoundFits, OldFits, At,
      Found
<1>10. UserRefsCounted
  BY <1>1 DEF UserRefsCounted
<1> QED BY <1>3, <1>6, <1>7, <1>8, <1>9, <1>10 DEF Inv

(* Nobody handles the user: its peers, its store and its relation agree.    *)
LEMMA InvKeepsUsers == Inv => UsersKept
<1> SUFFICES ASSUME Inv,
                    NEW uid \in Uids \ (clashed \cup UNION
                                          {call[p].uids : p \in Peers})
             PROVE  LET on == {p \in Peers :
                                 /\ mapContext[p] # None
                                 /\ object[mapContext[p]].uid = uid}
                    IN /\ \A p \in on :
                            mapContext[p] = mapUser[uid] /\ p \in login
                       /\ mapRelation[uid] = on
                       /\ mapUser[uid] # None <=> on # {}
                       /\ on # {} => Alive(mapUser[uid])
  BY DEF UsersKept
<1>1. {p \in Peers : /\ mapContext[p] # None
                     /\ object[mapContext[p]].uid = uid} = On(uid)
  BY DEF On, Uid
<1>2. /\ uid \in Uids \ clashed /\ \A p \in Peers : uid \notin call[p].uids
      /\ CallsFit /\ mapRelation[uid] \subseteq Peers
  BY DEF Inv, TypeOK
<1>3. ASSUME NEW p \in On(uid)
      PROVE  /\ p \in Peers /\ At(p, "idle") /\ mapContext[p] = mapUser[uid]
             /\ mapContext[p] # None
  BY <1>2 DEF CallsFit, EntryFits, On, Inv, UserFits
<1>4. \A p \in On(uid) : p \in login
  BY <1>3 DEF Inv, LocalsFit, LoginFits, At, Going
<1>5. mapRelation[uid] = On(uid)
  <2>1. ASSUME NEW p \in Peers
        PROVE  p \in mapRelation[uid] <=> p \in On(uid)
    <3>1. p \in mapRelation[uid] <=>
            p \in On(uid) /\ call[p].step \notin Unlisted
      BY <1>2 DEF Inv, LocalsFit, RelationFits
    <3> QED BY <1>3, <3>1 DEF At, Unlisted
  <2> QED BY <1>2, <1>3, <2>1
<1>6. ASSUME mapUser[uid] # None PROVE On(uid) # {}
  <2>1. \A p \in Peers : ~Minds(p, uid)
    BY <1>2 DEF CallsFit, PlaceFits, HandFits, Minds, Found, At
  <2> QED BY <1>2, <1>6, <2>1 DEF Inv, NotForgotten
<1>7. On(uid) # {} => mapUser[uid] # None /\ Alive(mapUser[uid])
  BY <1>2, <1>3 DEF Inv, UserFits
<1> QED BY <1>1, <1>3, <1>4, <1>5, <1>6, <1>7

-----------------------------------------------------------------------------
(* The invariant of the context holds in every reachable state.             *)
THEOREM InvHolds ==
  ASSUME ConstantsAllowed
  PROVE  Spec => []Inv
<1>1. Inv /\ [Next]_vars => Inv'
  <2> SUFFICES ASSUME Inv, [Next]_vars PROVE Inv'
    OBVIOUS
  <2>1. CASE UNCHANGED vars
    <3> USE <2>1 DEF vars, Inv, Uid, At, Puc
    <3>1. TypeOK'
      BY DEF TypeOK, CallType
    <3>5. StoredFits' /\ OneHandler'
      BY DEF StoredFits, OneHandler
    <3>6. UserFits'
      BY DEF UserFits, On, Alive
    <3>7. NotForgotten'
      BY DEF NotForgotten, On, Minds
    <3>2. CallsFit'
      BY DEF CallsFit, PlaceFits, EntryFits, HandFits
    <3>3. LocalsFit'
      BY DEF LocalsFit, SeenFits, LoginFits, RelationFits, FoundFits,
             OldFits, On
    <3>4. UserRefsCounted'
      BY DEF UserRefsCounted, Objects, CallsAt
    <3> QED BY <3>1, <3>2, <3>3, <3>4, <3>5, <3>6, <3>7
  <2>2. CASE Next
    <3>1. PICK p \in Peers :
            \/ Step(p)
            \/ \E op \in {"AddPeer", "UpdatePeer", "RemovePeer"} :
               \E uid \in Uids : Begin(p, op, uid)
      BY <2>2, Zenon DEF Next
    <3>2. CASE Step(p)
      BY <3>2, StepInv
    <3>3. ASSUME NEW op \in {"AddPeer", "UpdatePeer", "RemovePeer"},
                 NEW uid \in Uids, Begin(p, op, uid)
          PROVE  Inv'
      BY <3>3, BeginInv
    <3> QED BY <3>1, <3>2, <3>3
  <2> QED BY <2>1, <2>2
<1> QED BY Starts, <1>1, PTL DEF Spec

(* The count of a user context is that of its peers, for any peers, users   *)
(* and calls.                                                               *)
THEOREM CountIsOfPeers ==
  ASSUME ConstantsAllowed
  PROVE  Spec => []UserRefsCounted
<1>1. Inv => UserRefsCounted
  BY DEF Inv
<1> QED BY InvHolds, <1>1, PTL

(* The tables agree on every user that one call handles at a time.          *)
THEOREM TablesAgree ==
  ASSUME ConstantsAllowed
  PROVE  Spec => []UsersKept
<1> QED BY InvHolds, InvKeepsUsers, PTL

=============================================================================

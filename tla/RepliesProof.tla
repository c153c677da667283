----------------------------- MODULE RepliesProof -----------------------------
(* Proofs about Replies, for every set of threads, peers and hops, and any   *)
(* number of packets and of bricks that an action returns.                   *)
EXTENDS Replies, TLAPS

Brick    == [conn : Conns, packet : Nat, hop : Hops, part : Nat]
Handled  == [at : {"mainHop", "hops"}, conn : Conns, packet : Nat,
             op : {"None", "Close", "Continue"}, handled : BOOLEAN,
             hops : SUBSET Hops]
Once(q)  == \A i, j \in DOMAIN q : q[i] = q[j] => i = j
Busy(w)  == handling[w] # Idle

TypeOK ==
  /\ dictHop \in [Names -> Hops \cup {NoHop}]
  /\ returned \in [AllThreads -> Seq(Brick)]
  /\ written \in [Conns -> Seq(Brick)]
  /\ handling \in [Workers -> Handled \cup {Idle}]
  /\ several \in SUBSET Nat
  /\ packets \in Nat

(* MainHop is asked first, and never again as a hop of the table.            *)
MainHopApart ==
  /\ \A n \in Names : dictHop[n] = MainHop => dictHop[n] = NoHop
  /\ \A w \in Workers : Busy(w) =>
       /\ handling[w].at = "mainHop" => handling[w].hops \subseteq {MainHop}
       /\ handling[w].at = "hops" => MainHop \notin handling[w].hops

(* Every packet is handled by one worker, and numbered when it is received.  *)
PacketsApart ==
  /\ \A w \in Workers : Busy(w) => handling[w].packet <= packets
  /\ \A w, u \in Workers :
       Busy(w) /\ Busy(u) /\ handling[w].packet = handling[u].packet => w = u

(* A brick that exists was returned by a hop that is not asked again for its *)
(* packet.                                                                   *)
Earlier(b) ==
  /\ b.packet <= packets
  /\ \A w \in Workers : Busy(w) /\ b.packet = handling[w].packet =>
       /\ b.hop \notin handling[w].hops
       /\ handling[w].at = "mainHop" => b.hop = MainHop

BricksEarlier ==
  /\ \A t \in AllThreads : \A b \in ToSet(returned[t]) : Earlier(b)
  /\ \A c \in Conns : \A b \in ToSet(written[c]) : Earlier(b)

(* No brick is in two chains, or twice in one.                               *)
BricksOnce ==
  /\ \A t \in AllThreads : Once(returned[t])
  /\ \A c \in Conns : Once(written[c])
  /\ \A t, u \in AllThreads :
       t # u => ToSet(returned[t]) \cap ToSet(returned[u]) = {}
  /\ \A c, d \in Conns : c # d => ToSet(written[c]) \cap ToSet(written[d]) = {}
  /\ \A t \in AllThreads, c \in Conns :
       ToSet(returned[t]) \cap ToSet(written[c]) = {}

(* A brick in a worker's slot answers the packet that this worker handles,   *)
(* and will be sent if no other hop is asked; what was sent went to the peer *)
(* of its packet.                                                            *)
Answers ==
  /\ \A w \in Workers : \A b \in ToSet(returned[w]) : Strays(b) \/
       /\ Busy(w)
       /\ b.packet = handling[w].packet /\ b.conn = handling[w].conn
       /\ handling[w].handled /\ handling[w].op = "Continue"
  /\ \A c \in Conns : \A b \in ToSet(written[c]) : Strays(b) \/ b.conn = c

IInv ==
  /\ TypeOK /\ MainHopApart /\ PacketsApart
  /\ BricksEarlier /\ BricksOnce /\ Answers

-----------------------------------------------------------------------------
(* The elements of a chain.                                                 *)
LEMMA InChain ==
  ASSUME NEW S, NEW q \in Seq(S)
  PROVE  /\ \A i \in DOMAIN q : q[i] \in ToSet(q)
         /\ \A b \in ToSet(q) : b \in S /\ \E i \in DOMAIN q : q[i] = b
         /\ ToSet(<<>>) = {} /\ Once(<<>>)
BY DEF ToSet, Once

(* What Return() makes of two chains without a brick in common.              *)
LEMMA Joined ==
  ASSUME NEW S, NEW p \in Seq(S), NEW q \in Seq(S)
  PROVE  /\ p \o q \in Seq(S)
         /\ ToSet(p \o q) = ToSet(p) \cup ToSet(q)
         /\ Once(p) /\ Once(q) /\ ToSet(p) \cap ToSet(q) = {} => Once(p \o q)
<1> DEFINE r == p \o q
<1>1. /\ r \in Seq(S) /\ Len(r) = Len(p) + Len(q)
      /\ DOMAIN p = 1 .. Len(p) /\ DOMAIN q = 1 .. Len(q)
      /\ DOMAIN r = 1 .. Len(r)
      /\ Len(p) \in Nat /\ Len(q) \in Nat
      /\ \A i \in 1 .. Len(p) : r[i] = p[i]
      /\ \A i \in Len(p) + 1 .. Len(r) : r[i] = q[i - Len(p)]
  OBVIOUS
<1> HIDE DEF r
<1>2. \A b \in ToSet(r) : b \in ToSet(p) \cup ToSet(q)
  <2> SUFFICES ASSUME NEW i \in DOMAIN r PROVE r[i] \in ToSet(p) \cup ToSet(q)
    BY DEF ToSet
  <2>1. CASE i <= Len(p)
    BY <2>1, <1>1 DEF ToSet
  <2>2. CASE i > Len(p)
    <3>1. i - Len(p) \in DOMAIN q /\ r[i] = q[i - Len(p)]
      BY <2>2, <1>1
    <3> QED BY <3>1 DEF ToSet
  <2> QED BY <2>1, <2>2, <1>1
<1>3. \A b \in ToSet(p) : b \in ToSet(r)
  BY <1>1 DEF ToSet
<1>4. \A b \in ToSet(q) : b \in ToSet(r)
  <2> SUFFICES ASSUME NEW i \in DOMAIN q PROVE q[i] \in ToSet(r)
    BY DEF ToSet
  <2>1. i + Len(p) \in DOMAIN r /\ r[i + Len(p)] = q[i]
    BY <1>1
  <2> QED BY <2>1 DEF ToSet
<1>5. ASSUME Once(p), Once(q), ToSet(p) \cap ToSet(q) = {} PROVE Once(r)
  <2> SUFFICES ASSUME NEW i \in DOMAIN r, NEW j \in DOMAIN r, r[i] = r[j]
               PROVE i = j
    BY DEF Once
  <2>1. CASE i <= Len(p) /\ j <= Len(p)
    BY <2>1, <1>1, <1>5 DEF Once
  <2>2. CASE i > Len(p) /\ j > Len(p)
    <3>1. i - Len(p) \in DOMAIN q /\ j - Len(p) \in DOMAIN q
          /\ q[i - Len(p)] = q[j - Len(p)]
      BY <2>2, <1>1
    <3>2. i - Len(p) = j - Len(p)
      BY <3>1, <1>5 DEF Once
    <3> QED BY <3>2, <1>1
  <2>3. CASE i <= Len(p) /\ j > Len(p)
    <3>1. r[i] \in ToSet(p) /\ r[j] \in ToSet(q)
      <4>1. i \in DOMAIN p /\ r[i] = p[i] /\ j - Len(p) \in DOMAIN q
            /\ r[j] = q[j - Len(p)]
        BY <2>3, <1>1
      <4> QED BY <4>1 DEF ToSet
    <3> QED BY <3>1, <1>5
  <2>4. CASE i > Len(p) /\ j <= Len(p)
    <3>1. r[j] \in ToSet(p) /\ r[i] \in ToSet(q)
      <4>1. j \in DOMAIN p /\ r[j] = p[j] /\ i - Len(p) \in DOMAIN q
            /\ r[i] = q[i - Len(p)]
        BY <2>4, <1>1
      <4> QED BY <4>1 DEF ToSet
    <3> QED BY <3>1, <1>5
  <2> QED BY <2>1, <2>2, <2>3, <2>4, <1>1
<1> QED BY <1>1, <1>2, <1>3, <1>4, <1>5 DEF r

(* What the type invariant says of a worker that handles a packet.           *)
LEMMA BusyWorker ==
  ASSUME TypeOK, NEW w \in Workers, Busy(w)
  PROVE  /\ handling[w] \in Handled
         /\ handling[w].conn \in Conns /\ handling[w].packet \in Nat
         /\ handling[w].at \in {"mainHop", "hops"}
         /\ handling[w].handled \in BOOLEAN /\ handling[w].hops \subseteq Hops
BY DEF TypeOK, Busy, Handled

(* A brick that hop h returns for the packet that w handles.                 *)
Own(b, w, h) == b.conn = handling[w].conn /\ b.packet = handling[w].packet
                /\ b.hop = h

(* The bricks that an action returns.                                        *)
LEMMA NewBricks ==
  ASSUME TypeOK, NEW w \in Workers, Busy(w), NEW h \in Hops, NEW n \in Nat
  PROVE  /\ Bricks(w, h, n) \in Seq(Brick) /\ Once(Bricks(w, h, n))
         /\ \A b \in ToSet(Bricks(w, h, n)) : Own(b, w, h)
         /\ n = 0 => ToSet(Bricks(w, h, n)) = {}
<1> DEFINE B(i) == [conn |-> handling[w].conn, packet |-> handling[w].packet,
                    hop |-> h, part |-> i]
<1>1. \A i \in 1 .. n : B(i) \in Brick /\ Own(B(i), w, h) /\ B(i).part = i
  BY BusyWorker DEF Brick, Own
<1> HIDE DEF B
<1>2. Bricks(w, h, n) = [i \in 1 .. n |-> B(i)]
  BY DEF Bricks, B
<1> QED BY <1>1, <1>2 DEF Once, ToSet

(* What HopIo(w, h) does, whichever the row: one thread's slot changes.      *)
Adds(w, h, t, chain, op, handled) ==
  /\ Told(w, h, op, handled)
  /\ returned' = [returned EXCEPT ![t] = chain]
  /\ chain \in Seq(Brick) /\ Once(chain)
  /\ \A b \in ToSet(chain) : b \in ToSet(returned[t]) \/ Own(b, w, h)
  /\ t \in Workers => t = w
  /\ t = w => \/ handled /\ op = "Continue"
              \/ ToSet(chain) \subseteq ToSet(returned[w])

(* Nothing exists yet of what a hop that is still to be asked will return.   *)
LEMMA OwnIsNew ==
  ASSUME IInv, NEW w \in Workers, Busy(w), NEW h \in handling[w].hops
  PROVE  /\ \A t \in AllThreads : \A b \in ToSet(returned[t]) : ~Own(b, w, h)
         /\ \A c \in Conns : \A b \in ToSet(written[c]) : ~Own(b, w, h)
BY DEF IInv, BricksEarlier, Earlier, Own

(* So it is for each row.                                                    *)
LEMMA Row ==
  ASSUME ConstantsAllowed, IInv, NEW w \in Workers, Busy(w),
         NEW h \in handling[w].hops, HopIo(w, h)
  PROVE  \E t \in AllThreads, chain \in Seq(Brick),
            op \in {"None", "Close", "Continue"}, handled \in BOOLEAN :
           Adds(w, h, t, chain, op, handled)
<1>1. /\ w \in AllThreads /\ h \in Hops
      /\ \A t \in AllThreads : returned[t] \in Seq(Brick) /\ Once(returned[t])
      /\ returned = [returned EXCEPT ![w] = returned[w]]
  BY BusyWorker DEF IInv, TypeOK, BricksOnce, AllThreads
<1>2. ASSUME NEW n \in 0 .. MaxParts, NEW t \in AllThreads
      PROVE /\ Return(returned[t], Bricks(w, h, n)) \in Seq(Brick)
            /\ Return(Bricks(w, h, n), returned[t]) \in Seq(Brick)
            /\ Once(Return(returned[t], Bricks(w, h, n)))
            /\ Once(Return(Bricks(w, h, n), returned[t]))
            /\ ToSet(Return(returned[t], Bricks(w, h, n)))
                 = ToSet(returned[t]) \cup ToSet(Bricks(w, h, n))
            /\ ToSet(Return(Bricks(w, h, n), returned[t]))
                 = ToSet(returned[t]) \cup ToSet(Bricks(w, h, n))
            /\ Bricks(w, h, n) \in Seq(Brick) /\ Once(Bricks(w, h, n))
            /\ \A b \in ToSet(Bricks(w, h, n)) : Own(b, w, h)
            /\ n = 0 => ToSet(Bricks(w, h, n)) = {}
  <2>1. n \in Nat
    BY DEF ConstantsAllowed
  <2>2. /\ Bricks(w, h, n) \in Seq(Brick) /\ Once(Bricks(w, h, n))
        /\ \A b \in ToSet(Bricks(w, h, n)) : Own(b, w, h)
        /\ n = 0 => ToSet(Bricks(w, h, n)) = {}
    BY <2>1, <1>1, NewBricks DEF IInv
  <2>3. ToSet(returned[t]) \cap ToSet(Bricks(w, h, n)) = {}
    BY <2>2, OwnIsNew
  <2> HIDE DEF Bricks
  <2>4. ToSet(Bricks(w, h, n)) \cap ToSet(returned[t]) = {}
    BY <2>3
  <2>5. /\ returned[t] \o Bricks(w, h, n) \in Seq(Brick)
        /\ Once(returned[t] \o Bricks(w, h, n))
        /\ ToSet(returned[t] \o Bricks(w, h, n))
             = ToSet(returned[t]) \cup ToSet(Bricks(w, h, n))
    BY <1>1, <2>2, <2>3, Joined
  <2>6. /\ Bricks(w, h, n) \o returned[t] \in Seq(Brick)
        /\ Once(Bricks(w, h, n) \o returned[t])
        /\ ToSet(Bricks(w, h, n) \o returned[t])
             = ToSet(returned[t]) \cup ToSet(Bricks(w, h, n))
    BY <1>1, <2>2, <2>4, Joined
  <2> QED BY <2>2, <2>5, <2>6 DEF Return
<1>3. ASSUME NoRow(w, h) \/ OperationRow(w, h)
      PROVE  \E handled \in BOOLEAN :
               Adds(w, h, w, returned[w], "None", handled)
  BY <1>1, <1>3 DEF NoRow, OperationRow, Adds
<1>4. ASSUME SyncAction(w, h) \/ TaggedAction(w, h)
      PROVE  \E chain \in Seq(Brick), op \in {"None", "Close", "Continue"} :
               Adds(w, h, w, chain, op, TRUE)
  <2>0. PICK n \in 0 .. MaxParts :
          \E op \in OpsFor(n) :
          \E chain \in Restored(returned[w], Bricks(w, h, n)) :
            /\ Told(w, h, op, TRUE)
            /\ returned' = [returned EXCEPT ![w] = chain]
    BY <1>4 DEF SyncAction, TaggedAction, Restored
  <2>1. PICK op \in OpsFor(n),
             chain \in Restored(returned[w], Bricks(w, h, n)) :
          /\ Told(w, h, op, TRUE)
          /\ returned' = [returned EXCEPT ![w] = chain]
    BY <2>0
  <2>2. /\ chain \in Seq(Brick) /\ Once(chain)
        /\ ToSet(chain) = ToSet(returned[w]) \cup ToSet(Bricks(w, h, n))
    BY <1>1, <1>2 DEF Restored
  <2>3. op \in {"None", "Close", "Continue"} /\ (op = "Continue" \/ n = 0)
    BY DEF OpsFor, ConstantsAllowed
  <2> QED BY <1>1, <1>2, <2>1, <2>2, <2>3 DEF Adds
<1>5. ASSUME AsyncAction(w, h)
      PROVE  \E t \in PoolThreads, chain \in Seq(Brick),
                op \in {"None", "Close", "Continue"} :
               Adds(w, h, t, chain, op, TRUE)
  <2>1. PICK t \in PoolThreads, n \in 0 .. MaxParts, keep \in BOOLEAN :
          /\ \E op \in OpsFor(n) : Told(w, h, op, TRUE)
          /\ returned' = [returned EXCEPT ![t] =
               Return(IF keep THEN <<>> ELSE returned[t], Bricks(w, h, n))]
    BY <1>5 DEF AsyncAction
  <2>2. t \in AllThreads /\ t \notin Workers
    BY DEF AllThreads, ConstantsAllowed
  <2>3. PICK op \in {"None", "Close", "Continue"} : Told(w, h, op, TRUE)
    BY <2>1 DEF OpsFor
  <2>4. CASE keep
    <3>1. returned' = [returned EXCEPT ![t] = Bricks(w, h, n)]
      BY <2>1, <2>4, <1>2, <2>2 DEF Return
    <3> QED BY <3>1, <1>2, <2>2, <2>3 DEF Adds
  <2>5. CASE ~keep
    <3>1. returned' =
            [returned EXCEPT ![t] = Return(returned[t], Bricks(w, h, n))]
      BY <2>1, <2>5
    <3> QED BY <3>1, <1>2, <2>2, <2>3 DEF Adds
  <2> QED BY <2>4, <2>5
<1>6. \/ NoRow(w, h) \/ OperationRow(w, h)
      \/ SyncAction(w, h) \/ TaggedAction(w, h) \/ AsyncAction(w, h)
  BY DEF HopIo
<1> QED BY <1>1, <1>3, <1>4, <1>5, <1>6 DEF AllThreads

-----------------------------------------------------------------------------
(* No brick exists at first.                                                 *)
LEMMA InitHolds == Init => IInv
<1> SUFFICES ASSUME Init PROVE IInv
  OBVIOUS
<1>1. /\ \A t \in AllThreads : returned[t] = <<>> /\ ToSet(returned[t]) = {}
      /\ \A c \in Conns : written[c] = <<>> /\ ToSet(written[c]) = {}
      /\ \A w \in Workers : ~Busy(w)
  BY DEF Init, ToSet, Busy
<1>2. <<>> \in Seq(Brick) /\ Once(<<>>)
  BY DEF Once
<1>3. TypeOK
  BY <1>2 DEF Init, TypeOK
<1>4. MainHopApart /\ PacketsApart
  BY <1>1 DEF Init, MainHopApart, PacketsApart
<1>5. BricksEarlier /\ BricksOnce /\ Answers
  BY <1>1, <1>2 DEF BricksEarlier, BricksOnce, Answers, AllThreads
<1> QED BY <1>3, <1>4, <1>5 DEF IInv

(* The table of hops.                                                        *)
LEMMA TableStep ==
  ASSUME IInv, NEW h \in Hops,
         OnLoad(h) \/ OnVisibleChanged(h) \/ Collect(h) \/ Finalize(h)
  PROVE  IInv'
<1>1. UNCHANGED packetVars
  BY DEF OnLoad, OnVisibleChanged, Collect, Finalize
<1>2. \/ dictHop' = dictHop
      \/ RemoveHop(h)
      \/ h # MainHop /\ AddHop(h)
  BY DEF OnLoad, OnVisibleChanged, Collect, Finalize
<1>3. HopNames[h] \in Names
  BY DEF Names
<1>4. /\ dictHop' \in [Names -> Hops \cup {NoHop}]
      /\ \A n \in Names : dictHop'[n] = MainHop => dictHop'[n] = NoHop
  <2>1. CASE dictHop' = dictHop
    BY <2>1 DEF IInv, TypeOK, MainHopApart
  <2>2. CASE RemoveHop(h)
    BY <2>2, <1>3 DEF IInv, TypeOK, MainHopApart, RemoveHop
  <2>3. CASE h # MainHop /\ AddHop(h)
    BY <2>3, <1>3 DEF IInv, TypeOK, MainHopApart, AddHop
  <2> QED BY <1>2, <2>1, <2>2, <2>3
<1>5. TypeOK'
  BY <1>1, <1>4 DEF IInv, TypeOK, packetVars
<1>6. MainHopApart'
  BY <1>1, <1>4 DEF IInv, MainHopApart, packetVars, Busy
<1>7. PacketsApart' /\ BricksEarlier'
  BY <1>1 DEF IInv, PacketsApart, BricksEarlier, Earlier, packetVars, Busy
<1>8. BricksOnce' /\ Answers'
  BY <1>1, Zenon DEF IInv, BricksOnce, Answers, packetVars, Busy, Strays
<1> QED BY <1>5, <1>6, <1>7, <1>8 DEF IInv

(* The invariant is about these variables alone.                             *)
LEMMA Unmoved ==
  ASSUME IInv,
         UNCHANGED <<dictHop, returned, handling, written, several, packets>>
  PROVE  IInv'
<1>1. TypeOK' /\ MainHopApart' /\ PacketsApart'
  BY DEF IInv, TypeOK, MainHopApart, PacketsApart, Busy
<1>2. BricksOnce'
  BY DEF IInv, BricksOnce
<1>3. Answers'
  BY DEF IInv, Answers, Busy, Strays
<1>4. BricksEarlier'
  BY DEF IInv, BricksEarlier, Earlier, Busy
<1> QED BY <1>1, <1>2, <1>3, <1>4 DEF IInv

(* A new packet: no brick of its number exists.                              *)
LEMMA ReceiveStep ==
  ASSUME ConstantsAllowed, IInv, NEW w \in Workers, Receive(w)
  PROVE  IInv'
<1> DEFINE new(c) == [at |-> "mainHop", conn |-> c, packet |-> packets + 1,
                      op |-> "None", handled |-> FALSE,
                      hops |-> {MainHop} \ {NoHop}]
<1>1. PICK c \in Conns :
        /\ handling[w] = Idle /\ packets' = packets + 1
        /\ handling' = [handling EXCEPT ![w] = new(c)]
        /\ UNCHANGED <<returned, written, several, dictHop>>
  BY DEF Receive, hopVars
<1>2. /\ new(c) \in Handled /\ new(c) # Idle
      /\ new(c).packet = packets + 1 /\ new(c).at = "mainHop"
      /\ new(c).hops \subseteq {MainHop}
  BY DEF Handled, Idle, ConstantsAllowed, IInv, TypeOK
<1> HIDE DEF new
<1>3. /\ handling'[w] = new(c)
      /\ \A u \in Workers \ {w} : handling'[u] = handling[u]
      /\ packets \in Nat
  BY <1>1 DEF IInv, TypeOK
<1>4. TypeOK'
  BY <1>1, <1>2 DEF IInv, TypeOK
<1>5. MainHopApart'
  BY <1>1, <1>2, <1>3 DEF IInv, MainHopApart, Busy
<1>6. PacketsApart'
  <2>1. \A u \in Workers : Busy(u) => handling[u].packet \in Nat
                                       /\ handling[u].packet <= packets
    BY BusyWorker DEF IInv, PacketsApart
  <2>2. \A u \in Workers \ {w} :
          Busy(u)' => Busy(u) /\ handling'[u] = handling[u]
    BY <1>3 DEF Busy
  <2>3. \A u \in Workers : Busy(u)' => handling'[u].packet <= packets'
    BY <1>1, <1>2, <1>3, <2>1, <2>2
  <2>4. ASSUME NEW u \in Workers, NEW v \in Workers, Busy(u)', Busy(v)',
               handling'[u].packet = handling'[v].packet
        PROVE  u = v
    <3>1. CASE u = w
      BY <2>4, <3>1, <1>2, <1>3, <2>1, <2>2
    <3>2. CASE v = w
      BY <2>4, <3>2, <1>2, <1>3, <2>1, <2>2
    <3>3. CASE u # w /\ v # w
      BY <2>4, <3>3, <2>2 DEF IInv, PacketsApart
    <3> QED BY <3>1, <3>2, <3>3
  <2> QED BY <2>3, <2>4 DEF PacketsApart
<1>7. BricksEarlier'
  <2>1. ASSUME NEW b \in Brick, Earlier(b) PROVE Earlier(b)'
    <3>1. b.packet \in Nat /\ b.packet <= packets
      BY <2>1 DEF Brick, Earlier
    <3>2. ASSUME NEW u \in Workers, Busy(u)', b.packet = handling'[u].packet
          PROVE  u # w /\ Busy(u) /\ handling'[u] = handling[u]
      BY <3>1, <3>2, <1>2, <1>3 DEF Busy
    <3> QED BY <3>1, <3>2, <2>1, <1>1, <1>3 DEF Earlier
  <2>2. /\ \A t \in AllThreads : \A b \in ToSet(returned[t]) : b \in Brick
        /\ \A d \in Conns : \A b \in ToSet(written[d]) : b \in Brick
    BY DEF IInv, TypeOK, ToSet
  <2> QED BY <2>1, <2>2, <1>1 DEF IInv, BricksEarlier
<1>8. BricksOnce'
  BY <1>1 DEF IInv, BricksOnce
<1>9. Answers'
  <2>1. ASSUME NEW u \in Workers, NEW b \in ToSet(returned[u]), ~Strays(b)
        PROVE  u # w /\ Busy(u) /\ handling'[u] = handling[u]
    BY <2>1, <1>1, <1>3 DEF IInv, Answers, Busy
  <2> QED BY <2>1, <1>1, <1>3 DEF IInv, Answers, Strays, Busy
<1> QED BY <1>4, <1>5, <1>6, <1>7, <1>8, <1>9 DEF IInv

(* From MainHop to the hops of the table, which have not been asked: what    *)
(* exists of the packet MainHop has returned.                                *)
LEMMA ValuesStep ==
  ASSUME IInv, NEW w \in Workers, Values(w)
  PROVE  IInv'
<1> DEFINE hops == {dictHop[n] : n \in Names} \ {NoHop}
           r    == [handling[w] EXCEPT !.at = "hops", !.hops = hops]
<1>1. /\ handling[w].at = "mainHop" /\ handling[w].hops = {}
      /\ handling' = [handling EXCEPT ![w] = r]
      /\ UNCHANGED <<returned, written, several, packets, dictHop>>
  BY DEF Values, hopVars
<1>2. Busy(w)
  BY <1>1 DEF Busy, Idle
<1>3. hops \subseteq Hops /\ MainHop \notin hops
  BY DEF IInv, TypeOK, MainHopApart
<1> HIDE DEF hops
<1>4. /\ r \in Handled /\ r # Idle /\ r.at = "hops" /\ r.hops = hops
      /\ r.packet = handling[w].packet /\ r.conn = handling[w].conn
      /\ r.handled = handling[w].handled /\ r.op = handling[w].op
  BY <1>2, <1>3, BusyWorker DEF IInv, Handled, Idle
<1> HIDE DEF r
<1>5. /\ handling'[w] = r
      /\ \A u \in Workers \ {w} : handling'[u] = handling[u]
  BY <1>1 DEF IInv, TypeOK
<1>6. TypeOK'
  BY <1>1, <1>4 DEF IInv, TypeOK
<1>7. MainHopApart'
  BY <1>1, <1>3, <1>4, <1>5 DEF IInv, MainHopApart, Busy
<1>8. \A u \in Workers : (Busy(u)' <=> Busy(u))
         /\ (Busy(u) => handling'[u].packet = handling[u].packet)
  BY <1>2, <1>4, <1>5 DEF Busy
<1>9. PacketsApart'
  BY <1>1, <1>8 DEF IInv, PacketsApart
<1>10. BricksEarlier'
  <2>1. ASSUME NEW b, Earlier(b) PROVE Earlier(b)'
    <3>1. b.packet = handling[w].packet => b.hop = MainHop
      BY <2>1, <1>1, <1>2 DEF Earlier
    <3> QED BY <3>1, <2>1, <1>1, <1>3, <1>4, <1>5, <1>8 DEF Earlier
  <2> QED BY <2>1, <1>1 DEF IInv, BricksEarlier
<1>11. BricksOnce'
  BY <1>1 DEF IInv, BricksOnce
<1>12. Answers'
  BY <1>1, <1>2, <1>4, <1>5 DEF IInv, Answers, Strays, Busy
<1> QED BY <1>6, <1>7, <1>9, <1>10, <1>11, <1>12 DEF IInv

(* A worker loses a hop that it has asked, and says what it has been told.   *)
LEMMA Asked ==
  ASSUME IInv, NEW w \in Workers, Busy(w), NEW r \in Handled,
         handling' = [handling EXCEPT ![w] = r],
         r.hops \subseteq handling[w].hops,
         r.at = handling[w].at, r.packet = handling[w].packet,
         UNCHANGED <<packets, dictHop>>
  PROVE  /\ MainHopApart' /\ PacketsApart'
         /\ \A b : Earlier(b) => Earlier(b)'
         /\ \A u \in Workers : Busy(u)' <=> Busy(u)
         /\ handling'[w] = r
         /\ \A u \in Workers \ {w} : handling'[u] = handling[u]
<1>1. /\ handling'[w] = r
      /\ \A u \in Workers \ {w} : handling'[u] = handling[u]
  BY DEF IInv, TypeOK
<1>2. r # Idle
  BY BusyWorker DEF IInv, Idle
<1>3. \A u \in Workers : /\ Busy(u)' <=> Busy(u)
         /\ handling'[u].packet = handling[u].packet
         /\ handling'[u].at = handling[u].at
         /\ handling'[u].hops \subseteq handling[u].hops
  BY <1>1, <1>2 DEF Busy
<1>4. MainHopApart'
  BY <1>3 DEF IInv, MainHopApart
<1>5. PacketsApart'
  BY <1>3 DEF IInv, PacketsApart
<1>6. \A b : Earlier(b) => Earlier(b)'
  BY <1>3 DEF Earlier
<1> QED BY <1>1, <1>3, <1>4, <1>5, <1>6

(* A hop that is collected.                                                  *)
LEMMA PassedOver ==
  ASSUME IInv, NEW w \in Workers, Busy(w), NEW h \in Hops,
         handling' = [handling EXCEPT ![w].hops = @ \ {h}],
         UNCHANGED <<returned, written, several, packets, dictHop>>
  PROVE  IInv'
<1> DEFINE r == [handling[w] EXCEPT !.hops = @ \ {h}]
<1>1. handling' = [handling EXCEPT ![w] = r]
  BY DEF IInv, TypeOK
<1>2. /\ r \in Handled /\ r.hops \subseteq handling[w].hops
      /\ r.at = handling[w].at /\ r.packet = handling[w].packet
      /\ r.conn = handling[w].conn /\ r.handled = handling[w].handled
      /\ r.op = handling[w].op
  BY BusyWorker DEF IInv, Handled
<1> HIDE DEF r
<1>3. /\ MainHopApart' /\ PacketsApart'
      /\ \A b : Earlier(b) => Earlier(b)'
      /\ \A u \in Workers : Busy(u)' <=> Busy(u)
      /\ handling'[w] = r
      /\ \A u \in Workers \ {w} : handling'[u] = handling[u]
  BY <1>1, <1>2, Asked
<1>4. TypeOK'
  BY <1>1, <1>2 DEF IInv, TypeOK
<1>5. BricksEarlier' /\ BricksOnce'
  BY <1>3 DEF IInv, BricksEarlier, BricksOnce
<1>6. Answers'
  BY <1>2, <1>3 DEF IInv, Answers, Strays
<1> QED BY <1>3, <1>4, <1>5, <1>6 DEF IInv

(* A hop that answers: what the worker's slot holds of this packet strays    *)
(* from now on, so that the answer is that of the hop.                       *)
LEMMA HopAsked ==
  ASSUME ConstantsAllowed, IInv, NEW w \in Workers, Busy(w),
         NEW h \in handling[w].hops, HopIo(w, h),
         several' = several \cup ({b.packet : b \in ToSet(returned[w])}
                                    \cap {handling[w].packet}),
         UNCHANGED <<written, packets, dictHop>>
  PROVE  IInv'
<1>1. PICK t \in AllThreads, chain \in Seq(Brick),
           op \in {"None", "Close", "Continue"}, handled \in BOOLEAN :
        Adds(w, h, t, chain, op, handled)
  BY Row
<1> DEFINE r == [handling[w] EXCEPT !.op = op, !.handled = @ \/ handled,
                                    !.hops = @ \ {h}]
<1>2. handling' = [handling EXCEPT ![w] = r]
  BY <1>1 DEF IInv, TypeOK, Adds, Told
<1>3. /\ r \in Handled /\ r.hops = handling[w].hops \ {h}
      /\ r.at = handling[w].at /\ r.packet = handling[w].packet
      /\ r.conn = handling[w].conn /\ r.op = op
      /\ handled => r.handled
  <2>1. /\ handling[w] \in Handled /\ handling[w].hops \subseteq Hops
        /\ handling[w].handled \in BOOLEAN
    BY BusyWorker DEF IInv
  <2> DEFINE g == handling[w].handled \/ handled
  <2>2. g \in BOOLEAN
    OBVIOUS
  <2> HIDE DEF g
  <2>3. r = [handling[w] EXCEPT !.op = op, !.handled = g, !.hops = @ \ {h}]
    BY DEF g
  <2>4. /\ r \in Handled /\ r.hops = handling[w].hops \ {h}
        /\ r.at = handling[w].at /\ r.packet = handling[w].packet
        /\ r.conn = handling[w].conn /\ r.op = op
        /\ r.handled = g
    BY <2>1, <2>2, <2>3 DEF Handled
  <2> QED BY <2>4 DEF g
<1> HIDE DEF r
<1>4. /\ returned' = [returned EXCEPT ![t] = chain]
      /\ Once(chain)
      /\ \A b \in ToSet(chain) : b \in ToSet(returned[t]) \/ Own(b, w, h)
      /\ t \in Workers => t = w
      /\ t = w => \/ handled /\ op = "Continue"
                  \/ ToSet(chain) \subseteq ToSet(returned[w])
  BY <1>1 DEF Adds
<1>5. /\ MainHopApart' /\ PacketsApart'
      /\ \A b : Earlier(b) => Earlier(b)'
      /\ \A u \in Workers : Busy(u)' <=> Busy(u)
      /\ handling'[w] = r
      /\ \A u \in Workers \ {w} : handling'[u] = handling[u]
  BY <1>2, <1>3, Asked
<1>6. /\ returned'[t] = chain
      /\ \A u \in AllThreads \ {t} : returned'[u] = returned[u]
  BY <1>4 DEF IInv, TypeOK
<1>7. TypeOK'
  <2>1. several' \subseteq Nat
    BY BusyWorker DEF IInv, TypeOK
  <2> QED BY <2>1, <1>2, <1>3, <1>4 DEF IInv, TypeOK
<1>8. BricksEarlier'
  <2>1. ASSUME NEW b, Own(b, w, h) PROVE Earlier(b)'
    <3>1. b.packet = handling[w].packet /\ b.packet <= packets /\ b.hop = h
      BY <2>1 DEF Own, IInv, PacketsApart
    <3>2. \A u \in Workers : Busy(u)' /\ b.packet = handling'[u].packet => u = w
      BY <3>1, <1>5, <1>3 DEF IInv, PacketsApart
    <3>3. h \notin r.hops /\ (r.at = "mainHop" => h = MainHop)
      BY <1>3 DEF IInv, MainHopApart
    <3> QED BY <3>1, <3>2, <3>3, <1>5 DEF Earlier
  <2>2. \A b \in ToSet(chain) : Earlier(b)'
    BY <2>1, <1>4, <1>5 DEF IInv, BricksEarlier
  <2> QED BY <2>2, <1>5, <1>6 DEF IInv, BricksEarlier
<1>9. BricksOnce'
  <2>1. /\ \A u \in AllThreads \ {t} : ToSet(chain) \cap ToSet(returned[u]) = {}
        /\ \A c \in Conns : ToSet(chain) \cap ToSet(written[c]) = {}
    BY <1>4, OwnIsNew DEF IInv, BricksOnce
  <2>2. \A u \in AllThreads : Once(returned'[u])
    BY <1>4, <1>6 DEF IInv, BricksOnce
  <2>3. ASSUME NEW u \in AllThreads, NEW v \in AllThreads, u # v
        PROVE  ToSet(returned'[u]) \cap ToSet(returned'[v]) = {}
    <3>1. CASE u = t
      BY <2>1, <2>3, <3>1, <1>6
    <3>2. CASE v = t
      BY <2>1, <2>3, <3>2, <1>6
    <3>3. CASE u # t /\ v # t
      BY <2>3, <3>3, <1>6 DEF IInv, BricksOnce
    <3> QED BY <3>1, <3>2, <3>3
  <2>4. \A u \in AllThreads, c \in Conns :
          ToSet(returned'[u]) \cap ToSet(written[c]) = {}
    BY <2>1, <1>6 DEF IInv, BricksOnce
  <2> QED BY <2>2, <2>3, <2>4 DEF IInv, BricksOnce
<1>10. Answers'
  <2>1. \A b : Strays(b) => Strays(b)'
    BY DEF Strays
  <2>2. ASSUME NEW b \in ToSet(returned[w]) PROVE Strays(b)'
    BY <2>2 DEF IInv, Answers, Strays
  <2>3. ASSUME NEW b \in ToSet(returned'[w]), ~Strays(b)'
        PROVE  /\ b.packet = r.packet /\ b.conn = r.conn
               /\ r.handled /\ r.op = "Continue"
    <3>1. b \notin ToSet(returned[w])
      BY <2>2, <2>3
    <3>2. t = w
      BY <3>1, <2>3, <1>6 DEF AllThreads
    <3> QED BY <3>1, <3>2, <2>3, <1>3, <1>4, <1>6 DEF Own
  <2>4. \A u \in Workers \ {w} : returned'[u] = returned[u]
    BY <1>4, <1>6 DEF AllThreads
  <2> QED BY <2>1, <2>3, <2>4, <1>5 DEF IInv, Answers
<1> QED BY <1>5, <1>7, <1>8, <1>9, <1>10 DEF IInv

(* Ask() is one of the two.                                                  *)
LEMMA AskStep ==
  ASSUME ConstantsAllowed, IInv, NEW w \in Workers, Ask(w)
  PROVE  IInv'
<1>1. PICK h \in Hops :
        /\ handling[w] # Idle /\ h \in handling[w].hops
        /\ \/ /\ handling' = [handling EXCEPT ![w].hops = @ \ {h}]
              /\ UNCHANGED <<returned, dropped, several>>
           \/ /\ HopIo(w, h)
              /\ several' = several \cup ({b.packet : b \in ToSet(returned[w])}
                                            \cap {handling[w].packet})
  BY DEF Ask
<1>2. UNCHANGED <<written, packets, dictHop>>
  BY DEF Ask, hopVars
<1> QED BY <1>1, <1>2, PassedOver, HopAsked DEF Busy

-----------------------------------------------------------------------------
(* The packet is answered: the worker is idle, its bricks are sent or given  *)
(* back, or stay in its slot.                                                *)
LEMMA NowIdle ==
  ASSUME IInv, NEW w \in Workers,
         handling' = [handling EXCEPT ![w] = Idle],
         UNCHANGED <<packets, dictHop>>
  PROVE  /\ MainHopApart' /\ PacketsApart'
         /\ handling' \in [Workers -> Handled \cup {Idle}]
         /\ \A b : Earlier(b) => Earlier(b)'
         /\ ~Busy(w)'
         /\ \A u \in Workers \ {w} : handling'[u] = handling[u]
<1>1. /\ handling' \in [Workers -> Handled \cup {Idle}]
      /\ handling'[w] = Idle
      /\ \A u \in Workers \ {w} : handling'[u] = handling[u]
  BY DEF IInv, TypeOK
<1>2. ~Busy(w)' /\ \A u \in Workers : Busy(u)' => u # w /\ Busy(u)
  BY <1>1 DEF Busy
<1>3. MainHopApart'
  BY <1>1, <1>2 DEF IInv, MainHopApart
<1>4. PacketsApart'
  BY <1>1, <1>2 DEF IInv, PacketsApart
<1>5. \A b : Earlier(b) => Earlier(b)'
  BY <1>1, <1>2 DEF Earlier
<1> QED BY <1>1, <1>2, <1>3, <1>4, <1>5

(* BIO_Continue: the bricks of the slot go to the peer of the packet, or to  *)
(* the shack if it closes.                                                   *)
LEMMA ContinueStep ==
  ASSUME IInv, NEW w \in Workers, Continue(w)
  PROVE  IInv'
<1> DEFINE c == handling[w].conn
<1>1. /\ handling[w].at = "hops" /\ handling[w].hops = {}
      /\ handling' = [handling EXCEPT ![w] = Idle]
      /\ returned' = [returned EXCEPT ![w] = <<>>]
      /\ UNCHANGED <<packets, dictHop, several>>
      /\ \/ written' = written
         \/ written' = [written EXCEPT ![c] = @ \o returned[w]]
  BY DEF Continue, Answered, hopVars
<1>2. Busy(w) /\ w \in AllThreads
  BY <1>1 DEF Busy, Idle, AllThreads
<1>3. c \in Conns
  BY <1>2, BusyWorker DEF IInv
<1> HIDE DEF c
<1>4. /\ MainHopApart' /\ PacketsApart'
      /\ handling' \in [Workers -> Handled \cup {Idle}]
      /\ \A b : Earlier(b) => Earlier(b)'
      /\ ~Busy(w)'
      /\ \A u \in Workers \ {w} : handling'[u] = handling[u]
  BY <1>1, NowIdle
<1>5. /\ returned'[w] = <<>> /\ ToSet(<<>>) = {} /\ Once(<<>>)
      /\ <<>> \in Seq(Brick)
      /\ \A t \in AllThreads \ {w} : returned'[t] = returned[t]
      /\ returned' \in [AllThreads -> Seq(Brick)]
  BY <1>1, <1>2 DEF IInv, TypeOK, ToSet, Once
<1>6. /\ written' \in [Conns -> Seq(Brick)]
      /\ \A d \in Conns \ {c} : written'[d] = written[d]
      /\ Once(written'[c])
      /\ ToSet(written'[c]) \subseteq ToSet(written[c]) \cup ToSet(returned[w])
  <2>1. written[c] \in Seq(Brick) /\ returned[w] \in Seq(Brick)
        /\ Once(written[c]) /\ Once(returned[w])
        /\ ToSet(written[c]) \cap ToSet(returned[w]) = {}
    BY <1>2, <1>3 DEF IInv, TypeOK, BricksOnce
  <2> DEFINE new == written[c] \o returned[w]
  <2>2. /\ new \in Seq(Brick) /\ Once(new)
        /\ ToSet(new) = ToSet(written[c]) \cup ToSet(returned[w])
    BY <2>1, Joined
  <2>3. CASE written' = written
    BY <2>1, <2>3, <1>3 DEF IInv, TypeOK
  <2>4. CASE written' = [written EXCEPT ![c] = new]
    <3> HIDE DEF new
    <3>1. written'[c] = new /\ written' \in [Conns -> Seq(Brick)]
          /\ \A d \in Conns \ {c} : written'[d] = written[d]
      BY <2>2, <2>4, <1>3 DEF IInv, TypeOK
    <3> QED BY <3>1, <2>2
  <2> QED BY <1>1, <2>3, <2>4
<1>7. TypeOK'
  BY <1>1, <1>4, <1>5, <1>6 DEF IInv, TypeOK
<1>8. BricksEarlier'
  BY <1>2, <1>3, <1>4, <1>5, <1>6 DEF IInv, BricksEarlier
<1>9. BricksOnce'
  <2>1. \A t \in AllThreads :
          /\ Once(returned'[t])
          /\ ToSet(returned'[t]) \subseteq ToSet(returned[t])
    BY <1>5 DEF IInv, BricksOnce
  <2>2. \A d \in Conns : Once(written'[d])
    BY <1>6 DEF IInv, BricksOnce
  <2>3. \A d \in Conns : \A b \in ToSet(written'[d]) :
          b \in ToSet(written[d]) \/ (d = c /\ b \in ToSet(returned[w]))
    BY <1>3, <1>6
  <2>4. ASSUME NEW d \in Conns, NEW e \in Conns, d # e,
               NEW b \in ToSet(written'[d]), b \in ToSet(written'[e])
        PROVE  FALSE
    BY <1>2, <2>4, <2>3 DEF IInv, BricksOnce
  <2>5. ASSUME NEW t \in AllThreads, NEW d \in Conns,
               NEW b \in ToSet(returned'[t]), b \in ToSet(written'[d])
        PROVE  FALSE
    <3>1. t # w /\ b \in ToSet(returned[t])
      BY <2>5, <1>5
    <3> QED BY <1>2, <2>5, <2>3, <3>1 DEF IInv, BricksOnce
  <2>6. \A t, u \in AllThreads :
          t # u => ToSet(returned'[t]) \cap ToSet(returned'[u]) = {}
    BY <2>1 DEF IInv, BricksOnce
  <2> QED BY <2>1, <2>2, <2>4, <2>5, <2>6 DEF BricksOnce
<1>10. Answers'
  <2>1. \A b : Strays(b)' <=> Strays(b)
    BY <1>1 DEF Strays
  <2>2. \A b \in ToSet(returned[w]) : Strays(b) \/ b.conn = c
    BY DEF IInv, Answers, c
  <2>3. \A d \in Conns : \A b \in ToSet(written'[d]) : Strays(b) \/ b.conn = d
    BY <2>2, <1>3, <1>6 DEF IInv, Answers
  <2>4. \A u \in Workers : \A b \in ToSet(returned'[u]) :
          u # w /\ handling'[u] = handling[u] /\ returned'[u] = returned[u]
    BY <1>4, <1>5 DEF AllThreads
  <2> QED BY <2>1, <2>3, <2>4 DEF IInv, Answers, Busy
<1> QED BY <1>4, <1>7, <1>8, <1>9, <1>10 DEF IInv

(* Otherwise they stay in the slot: none of them was returned by the last hop*)
(* that was asked.                                                           *)
LEMMA OtherwiseStep ==
  ASSUME IInv, NEW w \in Workers, Otherwise(w)
  PROVE  IInv'
<1>1. /\ handling' = [handling EXCEPT ![w] = Idle]
      /\ ~(handling[w].handled /\ handling[w].op = "Continue")
      /\ UNCHANGED <<packets, dictHop, several, returned, written>>
  BY DEF Otherwise, Answered, hopVars
<1>2. /\ MainHopApart' /\ PacketsApart'
      /\ handling' \in [Workers -> Handled \cup {Idle}]
      /\ \A b : Earlier(b) => Earlier(b)'
      /\ ~Busy(w)'
      /\ \A u \in Workers \ {w} : handling'[u] = handling[u]
  BY <1>1, NowIdle
<1>3. TypeOK'
  BY <1>1, <1>2 DEF IInv, TypeOK
<1>4. BricksEarlier' /\ BricksOnce'
  BY <1>1, <1>2 DEF IInv, BricksEarlier, BricksOnce
<1>5. Answers'
  BY <1>1, <1>2 DEF IInv, Answers, Strays, Busy
<1> QED BY <1>2, <1>3, <1>4, <1>5 DEF IInv

-----------------------------------------------------------------------------
(* The invariant holds in every reachable state.                             *)
THEOREM InvHolds ==
  ASSUME ConstantsAllowed
  PROVE  Spec => []IInv
<1>1. IInv /\ [Next]_vars => IInv'
  <2> SUFFICES ASSUME IInv, [Next]_vars PROVE IInv'
    OBVIOUS
  <2>1. CASE UNCHANGED vars
    BY <2>1, Unmoved DEF vars
  <2>2. CASE \E h \in Hops :
               OnLoad(h) \/ OnVisibleChanged(h) \/ Collect(h) \/ Finalize(h)
    BY <2>2, TableStep
  <2>3. CASE \E w \in Workers :
               Receive(w) \/ Ask(w) \/ Values(w) \/ Continue(w) \/ Otherwise(w)
    BY <2>3, ReceiveStep, AskStep, ValuesStep, ContinueStep, OtherwiseStep
  <2>4. CASE \E c \in Conns : Close(c)
    BY <2>4, Unmoved DEF Close, hopVars
  <2> QED BY <2>1, <2>2, <2>3, <2>4 DEF Next
<1> QED BY <1>1, InitHolds, PTL DEF Spec

(* It implies the property.                                                  *)
LEMMA InvIsEnough == IInv => RepliesReachTheirPeer
<1> SUFFICES ASSUME IInv PROVE RepliesReachTheirPeer
  OBVIOUS
<1>1. ASSUME NEW c \in Conns, NEW i \in DOMAIN written[c]
      PROVE  /\ written[c][i].conn = c \/ Strays(written[c][i])
             /\ \A j \in 1 .. i - 1 : written[c][j] # written[c][i]
  <2>1. written[c] \in Seq(Brick) /\ written[c][i] \in ToSet(written[c])
        /\ Once(written[c])
    BY DEF IInv, TypeOK, ToSet, BricksOnce
  <2>2. \A j \in 1 .. i - 1 : j \in DOMAIN written[c] /\ j # i
    BY <2>1
  <2>3. \A j \in 1 .. i - 1 : written[c][j] # written[c][i]
    BY <2>1, <2>2 DEF Once
  <2> QED BY <2>1, <2>3 DEF IInv, Answers
<1>2. ASSUME NEW w \in Workers, handling[w] = Idle, NEW i \in DOMAIN returned[w]
      PROVE  Strays(returned[w][i])
  <2>1. returned[w][i] \in ToSet(returned[w])
    BY DEF ToSet
  <2> QED BY <2>1, <1>2 DEF IInv, Answers, Busy
<1> QED BY <1>1, <1>2 DEF RepliesReachTheirPeer, IInv, BricksOnce

(* What an action returns goes to the peer it answers, once, whatever hops   *)
(* come and go: RepliesReachTheirPeer for every number of threads, peers,    *)
(* hops, packets and bricks.                                                 *)
THEOREM RepliesDelivered ==
  ASSUME ConstantsAllowed
  PROVE  Spec => []RepliesReachTheirPeer
BY InvHolds, InvIsEnough, PTL
=============================================================================

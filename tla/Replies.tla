------------------------------- MODULE Replies -------------------------------
(* A packet on its way from Craft() through the hops of TransmissionRouter, *)
(* and what they answer: Return() puts a brick into a slot of the thread    *)
(* (TSK_Return_Brick), whatever the peer, and Craft() sends what is in the  *)
(* slot of its own thread if the operation that comes back is BIO_Continue. *)
EXTENDS Integers, Sequences, FiniteSets, SequencesExt

CONSTANTS
  Workers,      \* threads that run Craft()
  PoolThreads,  \* other threads: those that run an AsyncAction
  Conns,        \* peers
  Hops, NoHop,  \* MainHop is one of them or nobody
  MainHop,
  HopNames,     \* HopName of each hop that is added to the router
  Rows,         \* the kinds of rows that the table of each hop has
  MaxParts,     \* bound: bricks that an action returns
  MaxPackets    \* bound: packets

(* The threads of the dispatcher are none of the pool's.                    *)
ConstantsAllowed ==
  /\ Workers \cap PoolThreads = {}
  /\ MainHop \in Hops \cup {NoHop}
  /\ MaxParts \in Nat

AllThreads == Workers \cup PoolThreads
Names   == {HopNames[h] : h \in Hops}

VARIABLES
  hop,        \* what a hop is: not loaded, shown, hidden, or collected
  dictHop,    \* TransmissionRouter._dictHop
  returned,   \* TSK_Return_Brick of each thread: the bricks of the chain
  handling,   \* the packet that a worker handles
  written,    \* history: the bricks pushed to a peer's write context
  shack,      \* bricks that went back unsent
  dropped,    \* bricks in a PeerStateKeeper that nobody restores
  closing,    \* peers with a m_closeFlag
  several,    \* history: packets that a hop was asked about after another
              \* one had returned something
  packets

vars == <<hop, dictHop, returned, handling, written, shack, dropped, closing,
          several, packets>>

Idle == [at |-> "idle"]

Init ==
  /\ hop = [h \in Hops |-> IF h = MainHop THEN "shown" ELSE "new"]
  /\ dictHop = [n \in Names |-> NoHop]
  /\ returned = [t \in AllThreads |-> <<>>]
  /\ handling = [w \in Workers |-> Idle]
  /\ written = [c \in Conns |-> <<>>]
  /\ shack = {} /\ dropped = {} /\ closing = {} /\ several = {}
  /\ packets = 0

-----------------------------------------------------------------------------
(* The router's table of hops                                               *)

packetVars == <<returned, handling, written, shack, dropped, closing, several,
                packets>>

(* An entry of that name that is there already stays.                       *)
AddHop(h) ==
  dictHop' = [dictHop EXCEPT ![HopNames[h]] = IF @ = NoHop THEN h ELSE @]

(* It is removed by its name, whoever it belongs to.                        *)
RemoveHop(h) == dictHop' = [dictHop EXCEPT ![HopNames[h]] = NoHop]

OnLoad(h) ==
  /\ h # MainHop /\ hop[h] = "new" /\ hop' = [hop EXCEPT ![h] = "shown"]
  /\ AddHop(h)
  /\ UNCHANGED packetVars

OnVisibleChanged(h) ==
  /\ h # MainHop
  /\ \/ hop[h] = "hidden" /\ hop' = [hop EXCEPT ![h] = "shown"] /\ AddHop(h)
     \/ hop[h] = "shown" /\ hop' = [hop EXCEPT ![h] = "hidden"] /\ RemoveHop(h)
  /\ UNCHANGED packetVars

(* The router holds weak references only; the finalizer removes the hop.    *)
Collect(h) ==
  /\ hop[h] \in {"shown", "hidden"} /\ h # MainHop
  /\ \A w \in Workers : handling[w] = Idle
  /\ hop' = [hop EXCEPT ![h] = "collected"]
  /\ UNCHANGED dictHop /\ UNCHANGED packetVars

Finalize(h) ==
  /\ hop[h] = "collected" /\ hop' = [hop EXCEPT ![h] = "finalized"]
  /\ RemoveHop(h)
  /\ UNCHANGED packetVars

-----------------------------------------------------------------------------
(* Return() and PeerStateKeeper                                             *)

Return(chain, bricks) == chain \o bricks

(* What Restore() does with the bricks that Keep() has moved out; a Return()*)
(* that is given the keeper restores first.                                 *)
Restored(kept, bricks) == {Return(bricks, kept), Return(kept, bricks)}

-----------------------------------------------------------------------------
(* What a hop answers.  An action that has returned bricks answers Continue;*)
(* one that has not, as there was nothing to return or the object could not *)
(* be laid out, answers anything.  Read counts as None here and Retire as   *)
(* Close: they differ in the read chain only.                               *)

OpsFor(parts) ==
  IF parts > 0 THEN {"Continue"}
  ELSE {"None", "Close", "Continue"}

Told(w, h, op, handled) ==
  handling' = [handling EXCEPT ![w].op = op, ![w].handled = @ \/ handled,
                               ![w].hops = @ \ {h}]

Bricks(w, h, parts) ==
  [i \in 1 .. parts |->
     [conn |-> handling[w].conn, packet |-> handling[w].packet,
      hop |-> h, part |-> i]]

(* No row: BiuIoActionTable.Dispatch() says None, for a name that it knows  *)
(* the DefaultOperation, and neither counts as handled.                     *)
NoRow(w, h) ==
  /\ Told(w, h, "None", FALSE)
  /\ UNCHANGED <<returned, dropped>>

OperationRow(w, h) ==
  /\ Told(w, h, "None", TRUE)
  /\ UNCHANGED <<returned, dropped>>

SyncAction(w, h) == \E parts \in 0 .. MaxParts : \E op \in OpsFor(parts) :
  /\ Told(w, h, op, TRUE)
  /\ returned' = [returned EXCEPT ![w] = Return(@, Bricks(w, h, parts))]
  /\ UNCHANGED dropped

(* With a tag, the action runs on the worker and Restore() follows it.      *)
TaggedAction(w, h) == \E parts \in 0 .. MaxParts : \E op \in OpsFor(parts) :
  /\ Told(w, h, op, TRUE)
  /\ \E chain \in Restored(returned[w], Bricks(w, h, parts)) :
       returned' = [returned EXCEPT ![w] = chain]
  /\ UNCHANGED dropped

(* Without one it runs on a thread of the pool, and the bricks are in the   *)
(* slot of that thread; what it keeps is not restored.                      *)
AsyncAction(w, h) ==
  \E t \in PoolThreads, parts \in 0 .. MaxParts, keep \in BOOLEAN :
    /\ \E op \in OpsFor(parts) : Told(w, h, op, TRUE)
    /\ returned' = [returned EXCEPT ![t] =
                      Return(IF keep THEN <<>> ELSE @, Bricks(w, h, parts))]
    /\ dropped' = IF keep THEN dropped \cup ToSet(returned[t]) ELSE dropped

HopIo(w, h) == \E row \in Rows[h] :
  \/ row = "absent" /\ NoRow(w, h)
  \/ row = "operation" /\ OperationRow(w, h)
  \/ row = "sync" /\ SyncAction(w, h)
  \/ row = "tagged" /\ TaggedAction(w, h)
  \/ row = "async" /\ AsyncAction(w, h)

-----------------------------------------------------------------------------
(* Craft() and DispatchIo()                                                 *)

hopVars == <<hop, dictHop>>

(* A peer in serial mode: one worker at a time.                             *)
Receive(w) == \E c \in Conns \ closing :
  /\ handling[w] = Idle /\ packets < MaxPackets
  /\ \A u \in Workers : handling[u] # Idle => handling[u].conn # c
  /\ packets' = packets + 1
  /\ handling' = [handling EXCEPT ![w] =
       [at |-> "mainHop", conn |-> c, packet |-> packets', op |-> "None",
        handled |-> FALSE, hops |-> {MainHop} \ {NoHop}]]
  /\ UNCHANGED <<returned, written, shack, dropped, closing, several, hopVars>>

(* MainHop is asked alone, then the hops of the table in any order; one     *)
(* that is collected is passed over.                                        *)
Ask(w) == \E h \in Hops :
  /\ handling[w] # Idle /\ h \in handling[w].hops
  /\ IF hop[h] \in {"collected", "finalized"}
       THEN /\ handling' = [handling EXCEPT ![w].hops = @ \ {h}]
            /\ UNCHANGED <<returned, dropped, several>>
       ELSE /\ HopIo(w, h)
            /\ several' = several \cup
                 ({brick.packet : brick \in ToSet(returned[w])}
                    \cap {handling[w].packet})
  /\ UNCHANGED <<written, shack, closing, packets, hopVars>>

Values(w) ==
  /\ handling[w].at = "mainHop" /\ handling[w].hops = {}
  /\ handling' = [handling EXCEPT
       ![w].at = "hops", ![w].hops = {dictHop[n] : n \in Names} \ {NoHop}]
  /\ UNCHANGED <<returned, written, shack, dropped, closing, several, packets,
                 hopVars>>

(* All hops have answered, and Craft() goes by what the last one said.      *)
Answered(w) ==
  /\ handling[w].at = "hops" /\ handling[w].hops = {}
  /\ handling' = [handling EXCEPT ![w] = Idle]
  /\ UNCHANGED <<dropped, packets, hopVars>>

ContinueMistake(w) ==
  /\ Answered(w) /\ handling[w].handled /\ handling[w].op = "Continue"
  /\ LET c == handling[w].conn
     IN IF c \in closing
          THEN UNCHANGED <<written, shack, returned>>
          ELSE /\ written' = [written EXCEPT ![c] = @ \o returned[w]]
               /\ returned' = [returned EXCEPT ![w] = <<>>]
               /\ UNCHANGED shack
  /\ UNCHANGED <<closing, several>>

Continue(w) ==
  /\ Answered(w) /\ handling[w].handled /\ handling[w].op = "Continue"
  /\ LET c == handling[w].conn
     IN IF c \in closing
          THEN /\ shack' = shack \cup ToSet(returned[w]) /\ UNCHANGED written
          ELSE /\ written' = [written EXCEPT ![c] = @ \o returned[w]]
               /\ UNCHANGED shack
  /\ returned' = [returned EXCEPT ![w] = <<>>]
  /\ UNCHANGED <<closing, several>>

(* Everything else leaves the slot as it is.                                *)
Otherwise(w) ==
  /\ Answered(w) /\ ~(handling[w].handled /\ handling[w].op = "Continue")
  /\ closing' = IF handling[w].handled /\ handling[w].op = "Close"
                  THEN closing \cup {handling[w].conn} ELSE closing
  /\ UNCHANGED <<returned, written, shack, several>>

Close(c) ==
  /\ c \notin closing /\ closing' = closing \cup {c}
  /\ UNCHANGED <<returned, handling, written, shack, dropped, several, packets,
                 hopVars>>

Next ==
  \/ \E h \in Hops :
       OnLoad(h) \/ OnVisibleChanged(h) \/ Collect(h) \/ Finalize(h)
  \/ \E w \in Workers :
       Receive(w) \/ Ask(w) \/ Values(w) \/ Continue(w) \/ Otherwise(w)
  \/ \E c \in Conns : Close(c)

Spec == Init /\ [][Next]_vars

-----------------------------------------------------------------------------
(* "Send returned data & Read" (biohand.h, of BIO_Continue): what an action *)
(* returns for a packet goes to the peer of that packet, once, and a worker *)
(* that is idle has nothing left in its slot for the peer it serves next -  *)
(* as long as no hop is asked after the one that returned: it may answer    *)
(* None, and then the bricks go to whoever is answered next.                *)
Strays(brick) == brick.packet \in several

RepliesReachTheirPeer ==
  /\ \A c \in Conns : \A i \in DOMAIN written[c] :
       /\ written[c][i].conn = c \/ Strays(written[c][i])
       /\ \A j \in 1 .. i - 1 : written[c][j] # written[c][i]
  /\ \A w \in Workers : handling[w] = Idle =>
       \A i \in DOMAIN returned[w] : Strays(returned[w][i])
  /\ \A c, d \in Conns : c # d => ToSet(written[c]) \cap ToSet(written[d]) = {}
=============================================================================

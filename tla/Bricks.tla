------------------------------- MODULE Bricks -------------------------------
(***************************************************************************)
(* The memory every message of a dispatcher lives in: BMemoryShack hands    *)
(* out bricks of a fixed size, a message is a chain of them, and the        *)
(* serializers, the protocols and the IO contexts cut, extend and return    *)
(* such chains.                                                             *)
(*                                                                         *)
(* A chain is the sequence of its bricks (what following m_pNext gives, the *)
(* empty sequence for NULL).  A shack is a record                           *)
(*   free   m_qBrick, the queue of the bricks nobody holds                  *)
(*   data   the bytes a brick holds (m_pLoc up to GetDataSize())            *)
(*   walls  the length of m_listWall                                        *)
(* A brick holds Cap units; what a unit is belongs to the protocols.        *)
(***************************************************************************)
EXTENDS Integers, Sequences, SequencesExt, FiniteSets, TLC

CONSTANTS
  Cap,               (* m_cbBrick, the size of a brick                      *)
  ChunkCount,        (* m_nChunkCount, the bricks of one wall               *)
  MaxWalls           (* bound: the walls a shack may have                   *)

ASSUME BricksAssumption ==
  /\ Cap \in Nat \ {0}
  /\ ChunkCount \in Nat \ {0}
  /\ MaxWalls \in Nat \ {0}

Brick == 1..(ChunkCount * MaxWalls)

Junk == <<"junk">>   (* what memory beyond the data of a brick holds        *)

Index(chain, b) == CHOOSE i \in DOMAIN chain : chain[i] = b

---------------------------------------------------------------------------
(* The shack *)

(* The bricks of wall w, in the order NewWall() makes them *)
Wall(w) == [i \in 1..ChunkCount |-> (w - 1) * ChunkCount + i]

NewWall(s) ==
  [s EXCEPT !.free = @ \o Wall(s.walls + 1), !.walls = @ + 1]

NewShack ==
  NewWall([free |-> <<>>, data |-> [b \in Brick |-> <<>>], walls |-> 0])

(* The shack with at least k free bricks; a wall is built when the queue    *)
(* runs empty, so the order in which bricks come out is that of m_qBrick.   *)
Stocked(s, k) ==
  LET missing == k - Len(s.free)
      extra == IF missing <= 0 THEN 0 ELSE (missing + ChunkCount - 1) \div ChunkCount
  IN  [s EXCEPT !.free = @ \o FlattenSeq([i \in 1..extra |-> Wall(s.walls + i)]),
                !.walls = @ + extra]

CanPop(s, k) == Stocked(s, k).walls <= MaxWalls

(* Pop(): the k bricks that come out next, and the shack without them *)
Popped(s, k) == SubSeq(Stocked(s, k).free, 1, k)

Pop(s, k) == [Stocked(s, k) EXCEPT !.free = SubSeq(@, k + 1, Len(@))]

(* Clear() of a brick forgets its data *)
Cleared(s, chain) == [b \in ToSet(chain) |-> <<>>] @@ s.data

(* Push(): every brick of the chain goes to the end of the queue *)
Push(s, chain) ==
  [s EXCEPT !.free = @ \o chain, !.data = Cleared(s, chain)]

(* The links Push() resets: a chain whose first brick has been pushed is    *)
(* left with that brick alone.                                              *)
Severed(chain, pushed) ==
  IF chain # <<>> /\ Head(chain) \in ToSet(pushed) THEN <<Head(chain)>> ELSE chain

---------------------------------------------------------------------------
(* Reading a chain *)

Bytes(s, chain) == FlattenSeq([i \in DOMAIN chain |-> s.data[chain[i]]])

UntilGetDataSize(s, chain) == Len(Bytes(s, chain))

UntilGetSize(chain) == Cap * Len(chain)

(* The data in front of brick i of the chain *)
Before(s, chain, i) == UntilGetDataSize(s, SubSeq(chain, 1, i - 1))

(* The brick that holds position pos, counted so that the end of a brick    *)
(* belongs to it, and the position within it; the head when pos lies        *)
(* beyond the data.                                                         *)
BFindBrickXY(s, chain, pos) ==
  LET within == {i \in DOMAIN chain : pos <= Before(s, chain, i + 1)}
      first == CHOOSE i \in within : \A j \in within : i <= j
  IN  IF within = {} THEN [brick |-> 1, pos |-> pos]
      ELSE [brick |-> first, pos |-> pos - Before(s, chain, first)]

(* BReadBrickSparsely(): n units from pos on, or a failure that leaves the  *)
(* position alone.                                                          *)
ReadSparsely(s, chain, n, pos) ==
  LET bytes == Bytes(s, chain) IN
  IF n # 0 /\ pos + n > Len(bytes)
  THEN [ok |-> FALSE, got |-> <<>>, pos |-> pos]
  ELSE [ok |-> TRUE, got |-> SubSeq(bytes, pos + 1, pos + n), pos |-> pos + n]

(* BReadBrickSparselyUnchecked() with a buffer that holds the rest: what    *)
(* lies between pos and stop, or up to the end when stop is 0.              *)
ReadUnchecked(s, chain, stop, pos) ==
  LET bytes == Bytes(s, chain) IN
  SubSeq(bytes, pos + 1, IF stop = 0 \/ stop > Len(bytes) THEN Len(bytes) ELSE stop)

---------------------------------------------------------------------------
(* Writing a chain: each operator gives the shack and the chain after it    *)

(* Mutation: the last brick is taken to have room for everything *)
WriteMistake(s, chain, units) ==
  LET last == chain[Len(chain)] IN
  [shack |-> [s EXCEPT !.data[last] = @ \o units], chain |-> chain]

(* BWriteBrick(): the last brick is filled first, then bricks are popped *)
Write(s, chain, units) ==
  LET last == chain[Len(chain)]
      all == s.data[last] \o units
      more == (Len(all) - 1) \div Cap
      k == IF all = <<>> THEN 0 ELSE more
      new == Popped(s, k)
      bricks == <<last>> \o new
      Part(i) == SubSeq(all, (i - 1) * Cap + 1, IF i * Cap < Len(all) THEN i * Cap ELSE Len(all))
      put == [b \in ToSet(bricks) |-> Part(Index(bricks, b))]
  IN  [shack |-> [Pop(s, k) EXCEPT !.data = put @@ @], chain |-> chain \o new]

(* BReserveBrick(): room for n units, with whatever the memory holds *)
Reserve(s, chain, n) == Write(s, chain, [i \in 1..n |-> Junk])

(* Old content with units laid over it, the first one behind position at    *)
(* (negative when they begin in an earlier brick)                           *)
Overwritten(old, at, units) ==
  LET from == IF at < 0 THEN 0 ELSE at
      rest == SubSeq(units, from - at + 1, Len(units))
      n == IF Len(rest) < Len(old) - from THEN Len(rest) ELSE Len(old) - from
  IN  IF n <= 0 THEN old
      ELSE SubSeq(old, 1, from) \o SubSeq(rest, 1, n) \o SubSeq(old, from + n + 1, Len(old))

(* BWriteReservedBrick(): overwrites at pos, counting every brick as full *)
WriteReserved(s, chain, pos, units) ==
  LET put == [b \in ToSet(chain) |->
                Overwritten(s.data[b], pos - (Index(chain, b) - 1) * Cap, units)]
  IN  [s EXCEPT !.data = put @@ @]

(* Replace() of [begin, end) of a chain by another.  It refuses a range     *)
(* that is not empty or backwards; its branch for begin > end has no        *)
(* caller and is left out.                                                  *)
CanReplace(src, begin, end) ==
  ~(begin < end \/ begin > UntilGetSize(src) \/ end > UntilGetSize(src))

Replace(s, src, new, begin) ==
  LET p1 == BFindBrickXY(s, src, begin)
      after == SubSeq(src, p1.brick + 1, Len(src))
      pushed == Push(s, after)
  IN  [shack |-> [pushed EXCEPT !.data[src[p1.brick]] = SubSeq(@, 1, p1.pos)],
       chain |-> SubSeq(src, 1, p1.brick) \o new]

(* Mutation: the position in the brick that stays held is forgotten *)
CutAndCopyMistake(s, held, pos) ==
  LET whole == {i \in DOMAIN held : Before(s, held, i + 1) <= pos}
      k == Cardinality(whole)
      copy == Popped(s, 1)[1]
  IN  IF k < Len(held) /\ pos > Before(s, held, k + 1)
      THEN [shack |-> [Pop(s, 1) EXCEPT !.data[copy] = s.data[held[k + 1]]],
            taken |-> Append(SubSeq(held, 1, k), copy),
            held |-> SubSeq(held, k + 1, Len(held)), pos |-> 0]
      ELSE [shack |-> s, taken |-> SubSeq(held, 1, k),
            held |-> SubSeq(held, k + 1, Len(held)), pos |-> 0]

(* CutAndCopy(): the bricks up to pos are taken from the held chain.  When  *)
(* pos ends within a brick that brick is copied; the copy closes the taken  *)
(* chain and the original stays held, to be read from the remaining pos on. *)
(* A pos that ends before the first brick takes nothing away: the chain     *)
(* returned is the one still held.                                          *)
CutAndCopy(s, held, pos) ==
  LET whole == {i \in DOMAIN held : Before(s, held, i + 1) <= pos}
      k == Cardinality(whole)
      rest == pos - Before(s, held, k + 1)
      copy == Popped(s, 1)[1]
  IN  IF rest > 0 /\ k < Len(held)
      THEN [shack |-> [Pop(s, 1) EXCEPT !.data[copy] = s.data[held[k + 1]]],
            taken |-> Append(SubSeq(held, 1, k), copy),
            held |-> SubSeq(held, k + 1, Len(held)), pos |-> rest]
      ELSE [shack |-> s,
            taken |-> IF rest > 0 \/ k = 0 THEN held ELSE SubSeq(held, 1, k),
            held |-> SubSeq(held, k + 1, Len(held)), pos |-> rest]
=============================================================================

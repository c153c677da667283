------------------------------- MODULE Ashley -------------------------------
(***************************************************************************)
(* The two protocols of the library: how a message is laid out in a chain   *)
(* of bricks and how it is found again in the chain a connection has read.  *)
(*                                                                         *)
(* BAshley frames one object: a base header (magic, version, size, flags),  *)
(* a security header when the message is sealed (P4: RSA, P4S: a session    *)
(* key), the recognition header, a part header, the object.  BSora frames   *)
(* nothing.  Lengths are in units (SizeBase for the base header, one for    *)
(* each other field); the cryptography is exact: a hash differs when what   *)
(* is hashed differs, a cipher has Pad units more than its plain text.      *)
(***************************************************************************)
EXTENDS Objects

CONSTANTS
  Restriction        (* BProtocolRestriction: Identification, Min, Max      *)

SizeBase == 2        (* B_Ashley_Size_Of_BaseHeader: magic and version, size and flags *)
SizeRecog == 1       (* B_Ashley_Size_Of_Recog                              *)
SizePart == 1        (* B_Ashley_Size_Of_Part                               *)
Pad == 1             (* what a cipher adds                                  *)

(* The fields of a security header: the type, then a length and a value for *)
(* the hash, the signature and, with P4S, the session key                   *)
SecSize(sec) == CASE sec = "P4" -> 5 [] sec = "P4S" -> 7 [] OTHER -> 0

Magic == <<"magic">>
BaseHeader(size, sec, part) == <<Magic, <<"size", size, sec, part>>>>

---------------------------------------------------------------------------
(* Messages: an object of a class as one platform stores it, with what the  *)
(* sender puts in the header.                                               *)

(* The values of the fields of message m *)
Vals(m) == [i \in DOMAIN Layout[m.from][m.cls] |-> <<100 * m.id + i>>]

(* BP4::Encrypt(), BP4S::Encrypt(): what is behind the headers is replaced  *)
(* by its cipher, in bricks of its own                                      *)
Cipher(plain) ==
  [i \in 1..(Len(plain) + Pad) |->
    <<"crypt", i, IF i <= Len(plain) THEN plain[i] ELSE Junk>>]

Plain(cipher) == [i \in 1..(Len(cipher) - Pad) |-> cipher[i][3]]

SecurityHeader(m, cipher) ==
  LET sig == <<"sig", m.id>>
      key == <<"key", m.id>>
      signed == IF m.sec = "P4S" THEN <<sig, key>> ELSE <<sig>>
  IN  <<<<"type", m.sec>>, <<"len", 1>>, <<"hash", signed \o cipher>>, <<"len", 1>>, sig>>
        \o (IF m.sec = "P4S" THEN <<<<"len", 1>>, key>> ELSE <<>>)

Encrypt(s, chain, m) ==
  LET pos == SizeBase + SecSize(m.sec)
      cipher == Cipher(ReadUnchecked(s, chain, 0, pos))
      new == Write(Pop(s, 1), Popped(s, 1), cipher)
      r == Replace(new.shack, chain, new.chain, pos)
      sized == WriteReserved(r.shack, r.chain, 0,
                             BaseHeader(pos + Len(cipher), m.sec, m.part))
  IN  [ok |-> TRUE, chain |-> r.chain,
       shack |-> WriteReserved(sized, r.chain, SizeBase, SecurityHeader(m, cipher))]

(* BAshley::CreateObj() (and Ashley::CreateObject() of the managed side)    *)
CreateObj(s, brick, m) ==
  LET cbHeader == SizeBase + SecSize(m.sec) + SizeRecog + (IF m.part THEN SizePart ELSE 0)
      header == Reserve(s, <<brick>>, cbHeader)
      obj == Write(header.shack, header.chain, Store(Layout[m.from][m.cls], Vals(m)))
      size == UntilGetDataSize(obj.shack, obj.chain)
      base == WriteReserved(obj.shack, obj.chain, 0, BaseHeader(size, m.sec, m.part))
      recog == <<<<"recog", m.ident, m.cls, cbHeader - SizeBase>>>>
                 \o (IF m.part THEN <<<<"part", m.id>>>> ELSE <<>>)
      done == WriteReserved(base, obj.chain, SizeBase + SecSize(m.sec), recog)
  IN  CASE m.sec = "none" -> [ok |-> TRUE, shack |-> done, chain |-> obj.chain]
        [] m.sec \in {"P4", "P4S"} -> Encrypt(done, obj.chain, m)
        [] OTHER -> [ok |-> FALSE, shack |-> s, chain |-> <<brick>>]

---------------------------------------------------------------------------
(* BP4::Decrypt(), BP4S::Decrypt().  The loop over the bricks hashes        *)
(* GetDataSize() bytes of the first brick from position pos on, which runs  *)
(* pos bytes past its data, and every byte behind the message.              *)

Hashed(s, chain, pos) ==
  LET first == s.data[Head(chain)] IN
  (IF pos < Len(first)
   THEN SubSeq(first, pos + 1, Len(first)) \o [i \in 1..pos |-> Junk] ELSE <<>>)
    \o Bytes(s, Tail(chain))

(* Mutation: a failed decryption keeps the brick it has popped *)
DecryptMistake(s, chain, fields, pos, pos2) ==
  [ok |-> FALSE, chain |-> chain, cbCrypt |-> 0, shack |-> Pop(s, 1)]

Decrypt(s, chain, fields, pos, pos2) ==
  LET hash == fields[3][2]
      signed == IF Len(fields) = SecSize("P4S") THEN <<fields[5], fields[7]>> ELSE <<fields[5]>>
      verified == hash = signed \o Hashed(s, chain, pos)
      plain == Plain(ReadUnchecked(s, chain, IF pos = pos2 THEN 0 ELSE pos2, pos))
      new == Write(Pop(s, 1), Popped(s, 1), plain)
      r == Replace(new.shack, chain, new.chain, pos)
  IN  IF verified /\ CanReplace(chain, pos, pos2)
      THEN [ok |-> TRUE, shack |-> r.shack, chain |-> r.chain, cbCrypt |-> Len(plain)]
      ELSE [ok |-> FALSE, chain |-> chain, cbCrypt |-> 0,
            shack |-> Push(Pop(s, 1), Popped(s, 1))]

(* BAshley::ParseData().  Each stage gives the result (r), the chain and    *)
(* shack after it, the position behind the message (pos) and, for a message *)
(* found, where its object begins (at) and what it is (processing).         *)
Outcome(r, s, chain, pos) ==
  [r |-> r, shack |-> s, chain |-> chain, pos |-> pos, at |-> 0, processing |-> "none"]

Restricted(recog, cbPacket) ==
  \/ Restriction.ident # 0 /\ recog[2] # Restriction.ident
  \/ Restriction.max # 0 /\ cbPacket > Restriction.max
  \/ Restriction.min # 0 /\ cbPacket < Restriction.min

(* Recognition and part header, restriction, and what is left behind them *)
ParseRest(s, chain, dataPos, pos, size, part) ==
  LET recog == ReadSparsely(s, chain, SizeRecog, pos)
      cbPacket == size - recog.got[1][4] - SizeBase
      pa == ReadSparsely(s, chain, IF part THEN SizePart ELSE 0, recog.pos)
      next == pa.pos + cbPacket
      result == IF UntilGetDataSize(s, chain) - pa.pos > cbPacket THEN "More" ELSE "Succeeded"
  IN  IF ~recog.ok THEN Outcome("Continue", s, chain, dataPos)
      ELSE IF ~pa.ok \/ Restricted(recog.got[1], cbPacket)
           THEN Outcome("Failed", s, chain, dataPos)
      ELSE [Outcome(result, s, chain, next) EXCEPT !.at = pa.pos, !.processing = recog.got[1][3]]

(* The security header, and the message with its cipher replaced *)
ParseSealed(s, chain, dataPos, pos, size, flags) ==
  LET sec == ReadSparsely(s, chain, SecSize(flags[3]), pos)
      behind == IF UntilGetDataSize(s, chain) > size THEN dataPos + size ELSE sec.pos
      open == Decrypt(s, chain, sec.got, sec.pos, behind)
  IN  IF ~sec.ok THEN Outcome("Failed", s, chain, dataPos)
      ELSE IF ~open.ok THEN Outcome("DecryptFailed", open.shack, chain, dataPos)
      ELSE ParseRest(open.shack, open.chain, dataPos, sec.pos, sec.pos + open.cbCrypt, flags[4])

ParseData(s, chain, dataPos) ==
  LET base == ReadSparsely(s, chain, SizeBase, dataPos)
      flags == base.got[2]
      size == flags[2]
  IN  IF ~base.ok THEN Outcome("Continue", s, chain, dataPos)
      ELSE IF base.got[1] # Magic \/ size = 0 THEN Outcome("Failed", s, chain, dataPos)
      ELSE IF size > UntilGetDataSize(s, chain) THEN Outcome("Continue", s, chain, dataPos)
      ELSE IF flags[3] = "none"
           THEN ParseRest(s, chain, dataPos, base.pos, size, flags[4])
      ELSE ParseSealed(s, chain, dataPos, base.pos, size, flags)

(* BAshley::GetObj(): the object of a message that was found, read from the *)
(* chain ChangeMemory() has put in place.                                   *)
GetObj(platform, processing, s, chain, at) ==
  Load(Layout[platform][processing], s, chain, at)

---------------------------------------------------------------------------
(* BSora *)

(* CreatePod() *)
CreatePod(s, brick, m) ==
  LET w == Write(s, <<brick>>, Store(Layout[m.from][m.cls], Vals(m))) IN
  [ok |-> TRUE, shack |-> w.shack, chain |-> w.chain]

(* ParseData(): without a minimum every chain is a message, and the         *)
(* position stays where it is.                                              *)
SoraParseData(s, chain, dataPos) ==
  LET cbData == UntilGetDataSize(s, chain)
      more == Restriction.min # 0 /\ cbData > Restriction.max
      short == Restriction.min > cbData
  IN  [Outcome(IF more THEN "More" ELSE IF short THEN "Continue" ELSE "Succeeded",
               s, chain, IF more THEN dataPos + Restriction.max ELSE dataPos)
         EXCEPT !.at = dataPos]

(* GetPod(): everything that has been received *)
GetPod(s, chain, at) == ReadUnchecked(s, chain, 0, at)
=============================================================================

------------------------------ MODULE Objects ------------------------------
(***************************************************************************)
(* How the commands of the library are laid out in bricks.  BSerializer     *)
(* writes one tagged field per value: a number (tags N1, N2, N4, N8) is one *)
(* unit, tag and value together, as the code reads it in one call; a string *)
(* or buffer (tag V) is a unit for the tag and the length and one unit per  *)
(* byte.  A class is the sequence of the tags its BSerialize() writes and   *)
(* reads.  The library has every class twice, native (Arch/aqobj.cpp) and   *)
(* managed (Biu.Transmission/QuickObject.cpp).                              *)
(*                                                                         *)
(* The value of a field is a sequence of bytes, of length one for a number. *)
(***************************************************************************)
EXTENDS Bricks

Tag == {"N1", "N2", "N4", "N8", "V"}

---------------------------------------------------------------------------
(* BSerializer *)

SerializeN(tag, v) == <<<<tag, v[1]>>>>

SerializeV(v) == <<<<"V", Len(v)>>>> \o [i \in DOMAIN v |-> <<"byte", v[i]>>]

Serialize(tag, v) == IF tag = "V" THEN SerializeV(v) ELSE SerializeN(tag, v)

(* A reader is the position in a chain, what has been read so far, and      *)
(* whether a read has failed: every Deserialize() gives up at the first     *)
(* failure, with the position behind what it has consumed.                  *)
Reader(pos) == [ok |-> TRUE, pos |-> pos, vals |-> <<>>]

DeserializeN(s, chain, r, tag) ==
  LET u == ReadSparsely(s, chain, 1, r.pos)
      ok == u.ok /\ u.got[1][1] = tag
  IN  [ok |-> ok, pos |-> u.pos,
       vals |-> IF ok THEN Append(r.vals, <<u.got[1][2]>>) ELSE r.vals]

DeserializeV(s, chain, r) ==
  LET head == ReadSparsely(s, chain, 1, r.pos)
      tagged == head.ok /\ head.got[1][1] = "V"
      body == ReadSparsely(s, chain, IF tagged THEN head.got[1][2] ELSE 0, head.pos)
      ok == tagged /\ body.ok
  IN  [ok |-> ok, pos |-> body.pos,
       vals |-> IF ok THEN Append(r.vals, [i \in DOMAIN body.got |-> body.got[i][2]])
                ELSE r.vals]

Deserialize(s, chain, r, tag) ==
  IF ~r.ok THEN r
  ELSE IF tag = "V" THEN DeserializeV(s, chain, r)
  ELSE DeserializeN(s, chain, r, tag)

(* BSerialize(true, ...) and BSerialize(false, ...) of a class *)
Store(layout, vals) == FlattenSeq([i \in DOMAIN layout |-> Serialize(layout[i], vals[i])])

Load(layout, s, chain, pos) ==
  FoldLeft(LAMBDA r, tag : Deserialize(s, chain, r, tag), Reader(pos), layout)

---------------------------------------------------------------------------
(* The native classes *)

Biu_CmdBase == <<"N8", "N8", "N4">>               (* time, variable, token  *)
Biu_Ack == Biu_CmdBase \o <<"N8", "N4", "N8">>
Biu_AckMessage == Biu_CmdBase \o <<"V", "V", "V", "V">>
Biu_Hello == Biu_CmdBase \o <<"V", "V", "N8">>
Biu_SendFile == Biu_CmdBase \o <<"N4", "N8", "N4", "V", "V", "V">>
Biu_RecvFile == Biu_CmdBase \o <<"N4", "N8", "N8">>
Biu_AskFile == Biu_CmdBase \o <<"V", "V">>
Biu_ReplyFile == Biu_AckMessage \o <<"N4", "V", "V">>
Biu_PurifyFile == Biu_CmdBase \o <<"N4", "N8", "V", "V", "V">>
Biu_RawData == Biu_CmdBase \o <<"V">>
Biu_Token == Biu_CmdBase \o <<"V">>
Biu_Login == Biu_CmdBase \o <<"V", "V">>
Biu_ChangePassword == Biu_CmdBase \o <<"V", "V", "V">>

(* The managed classes *)

CommandBase == <<"N8", "N8", "N4">>
Ack == CommandBase \o <<"N8", "N4", "N8">>
AckMessage == Ack \o <<"V", "V", "V", "V">>
Hello == CommandBase \o <<"V", "V", "N8">>
SendFile == CommandBase \o <<"N4", "N8", "N4", "V", "V", "V">>
RecvFile == CommandBase \o <<"N4", "N8", "N8">>
AskFile == CommandBase \o <<"V", "V">>
ReplyFile == AckMessage \o <<"N4", "V", "V">>
PurifyFile == CommandBase \o <<"N4", "N8", "V", "V", "V">>
RawData == CommandBase \o <<"V">>
Token == CommandBase \o <<"V", "V">>
Login == CommandBase \o <<"V", "V">>
ChangePassword == CommandBase \o <<"V", "V", "V">>

Layout ==
  [native |-> [Ack |-> Biu_Ack, AckMessage |-> Biu_AckMessage, Hello |-> Biu_Hello,
               SendFile |-> Biu_SendFile, RecvFile |-> Biu_RecvFile,
               AskFile |-> Biu_AskFile, ReplyFile |-> Biu_ReplyFile,
               PurifyFile |-> Biu_PurifyFile, RawData |-> Biu_RawData,
               Token |-> Biu_Token, Login |-> Biu_Login,
               ChangePassword |-> Biu_ChangePassword],
   managed |-> [Ack |-> Ack, AckMessage |-> AckMessage, Hello |-> Hello,
                SendFile |-> SendFile, RecvFile |-> RecvFile, AskFile |-> AskFile,
                ReplyFile |-> ReplyFile, PurifyFile |-> PurifyFile,
                RawData |-> RawData, Token |-> Token, Login |-> Login,
                ChangePassword |-> ChangePassword]]

Platform == DOMAIN Layout
Class == DOMAIN Layout.native

---------------------------------------------------------------------------
(* BiuSerializer, the managed serializer: collections *)

(* Serialize(ICollection), SerializeT(): the count, then the elements, each *)
(* of them with the layout of its type                                      *)
StoreCollection(layout, elems) ==
  Serialize("N4", <<Len(elems)>>) \o FlattenSeq([i \in DOMAIN elems |-> Store(layout, elems[i])])

(* DeserializeT(), Deserialize(ICollection): the result of reading the count *)
(* is not looked at, a count that cannot be read leaves none to read; an    *)
(* element of a plain type that cannot be read throws.                      *)
LoadCollection(layout, s, chain, pos) ==
  LET count == Deserialize(s, chain, Reader(pos), "N4")
      n == IF count.ok THEN count.vals[1][1] ELSE 0
      Elem(c, i) == LET r == Load(layout, s, chain, c.pos) IN
                    [ok |-> r.ok, pos |-> r.pos, elems |-> Append(c.elems, r.vals)]
  IN  FoldLeft(LAMBDA c, i : IF c.ok THEN Elem(c, i) ELSE c,
               [ok |-> TRUE, pos |-> count.pos, elems |-> <<>>], [i \in 1..n |-> i])
=============================================================================

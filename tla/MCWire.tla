------------------------------- MODULE MCWire -------------------------------
(***************************************************************************)
(* Instances of Wire: short scripts that cover a message of one and of two  *)
(* bricks, a part header, a rejected, an unloadable and an unsealable       *)
(* message, sealed ones, and two messages under way at once.                *)
(***************************************************************************)
EXTENDS Wire

M(id, cls, from, sec, part, ident) ==
  [id |-> id, cls |-> cls, from |-> from, sec |-> sec, part |-> part,
   ident |-> ident]

S(window, reader, msgs) == [window |-> window, reader |-> reader, msgs |-> msgs]

MCRestriction == [ident |-> 1, min |-> 0, max |-> 12]

MCScripts ==
  {S(1, "native", <<M(1, "Hello", "native", "none", FALSE, 1),
                    M(2, "Ack", "managed", "none", TRUE, 1)>>),
   S(1, "native", <<M(1, "Ack", "native", "none", FALSE, 2),
                    M(2, "SendFile", "native", "none", FALSE, 1),
                    M(3, "Token", "managed", "unknown", FALSE, 1)>>),
   S(1, "native", <<M(1, "AckMessage", "managed", "none", FALSE, 1),
                    M(2, "Login", "native", "none", FALSE, 1)>>),
   S(1, "managed", <<M(1, "Token", "native", "none", FALSE, 1),
                     M(2, "RawData", "managed", "none", TRUE, 1)>>),
   S(1, "native", <<M(1, "Ack", "native", "P4", FALSE, 1),
                    M(2, "Ack", "native", "none", FALSE, 1)>>),
   S(2, "native", <<M(1, "Token", "native", "none", FALSE, 1),
                    M(2, "Hello", "native", "none", FALSE, 1)>>),
   S(2, "native", <<M(1, "Token", "native", "none", FALSE, 1),
                    M(2, "Token", "native", "P4S", FALSE, 1)>>)}

MCSealed == {S(1, "native", <<M(1, "Token", "native", "P4S", FALSE, 1)>>)}
=============================================================================

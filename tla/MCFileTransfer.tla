--------------------------- MODULE MCFileTransfer ---------------------------
(* Two files to send, one to ask for, of one or two blocks.                 *)
EXTENDS FileTransfer

MCSize == [f \in Files |-> IF f = "u1" THEN 2 ELSE 1]
=============================================================================

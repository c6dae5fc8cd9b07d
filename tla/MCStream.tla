------------------------------ MODULE MCStream ------------------------------
(* CommandStream with two one-byte commands, 's' and '~', and a command of  *)
(* three bytes that stands for 'V' (13 bytes in the code); "x" is unknown.  *)
EXTENDS CommandStream

MCMessageLen == [c \in {"s", "V", "~"} |-> IF c = "V" THEN 3 ELSE 1]
=============================================================================

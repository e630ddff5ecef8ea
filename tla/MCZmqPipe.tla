------------------------------ MODULE MCZmqPipe ------------------------------
(* ZmqPipe for TLC: one way messages of up to two parts, with room for     *)
(* three in the pipe, the other way a message that fills it.               *)
EXTENDS ZmqPipe

MCHwm == [e \in End |-> IF e = "socket" THEN 3 ELSE 1]
MCMaxMessages == [e \in End |-> IF e = "socket" THEN 4 ELSE 1]
MCMaxParts == [e \in End |-> IF e = "socket" THEN 1 ELSE 0]
=============================================================================

----------------------------- MODULE MCTcpServer -----------------------------
(* TcpServer for TLC.  Either a patient peer asks twice while another sends *)
(* three requests at will - with fewer, one that is buffered is never       *)
(* looked at - and a slot stays free; or two silent peers come and go       *)
(* beside a patient one, take over its slot or use up all there are.        *)
EXTENDS TcpServer

CONSTANTS c1, c2, c3

MCKinds == [c \in Conns |-> IF c \in Patient THEN {"malformed", "array", "fatal"} ELSE {"object"}]
MCLoads == {[c \in {c1, c2} |-> IF c = c1 THEN 2 ELSE 3],
            [c \in {c1, c2, c3} |-> IF c = c1 THEN 1 ELSE 0]}

\* For the counterexamples.
OneEach == {[c \in Conns |-> 1]}
TwoEach == {[c \in Conns |-> 2]}
Objects == [c \in Conns |-> {"object"}]
Unknowns == [c \in Conns |-> {"object", "fatal"}]
=============================================================================

-------------------------- MODULE MCNavdataServer ---------------------------
(* NavdataServer with the rounds of each thread: two packets, next to one    *)
(* PCMD.                                                                     *)
EXTENDS NavdataServer

MCRounds == [t \in Threads |-> IF t = "navdata" THEN 2 ELSE 1]
\* The number is the last before the wrap.
MCAsked == {SeqModulus - 1, None}
=============================================================================

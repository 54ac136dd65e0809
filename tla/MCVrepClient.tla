---------------------------- MODULE MCVrepClient ----------------------------
(* VrepClient with the rounds of each thread: one PCMD, the first and a later *)
(* frame, two navdata packets.                                                *)
EXTENDS VrepClient

MCRounds == [t \in Threads |-> IF t = "control" THEN 1 ELSE 2]
=============================================================================

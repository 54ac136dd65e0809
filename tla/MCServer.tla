------------------------------ MODULE MCServer ------------------------------
(* Server with a datagram that asks twice, and one that asks for something   *)
(* else than the configuration before a command without a handler of its own. *)
EXTENDS Server

MCShapes == {<<<<"CTRL", "args4">>, <<"CTRL", "args4">>>>,
             <<<<"CTRL", "args">>, <<"CALIB", "args4">>>>}
=============================================================================

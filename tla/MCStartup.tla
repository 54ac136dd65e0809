------------------------------ MODULE MCStartup ------------------------------
(* Startup with the lines a file may have: the names 1, 2, 21 and 3, values  *)
(* of one and two characters, a line that stops after its name, a blank one. *)
EXTENDS Startup

Full(k, v) == [kind |-> "full", key |-> k, value |-> v]
MCLines == {Full(<<2>>, <<7>>), Full(<<2, 1>>, <<8>>), Full(<<2, 1>>, <<8, 9>>), Full(<<1>>, <<8>>),
            Full(<<3>>, <<9, 7>>),
            [kind |-> "bare", key |-> <<2, 3>>, value |-> <<>>],
            [kind |-> "blank", key |-> <<>>, value |-> <<>>]}
MCStrays == {Full(<<1>>, <<7>>), [kind |-> "bare", key |-> <<1, 2>>, value |-> <<>>]}
=============================================================================

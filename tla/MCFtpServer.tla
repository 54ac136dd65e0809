----------------------------- MODULE MCFtpServer -----------------------------
(* FtpServer with the lines each client may send.                            *)
EXTENDS FtpServer

TransferLines == {<<"PASV", "EOL">>, <<"RETR", "config", "EOL">>, <<"QUIT", "EOL">>}
PoliteLines == TransferLines \cup {<<"RETR", "missing", "EOL">>, <<"NOOP", "somebody", "EOL">>}
\* Every handler, with and without the arguments that change what it does.
EveryLine == TransferLines \cup
             {<<"RETR", "EOL">>, <<"USER", "EOL">>, <<"USER", "somebody", "EOL">>,
              <<"TYPE", "I", "EOL">>, <<"TYPE", "EOL">>, <<"SIZE", "config", "EOL">>,
              <<"NOOP", "QUIT", "EOL">>}

\* One client sends anything, the other one asks for transfers.
AnyClient == CHOOSE s \in Sessions : TRUE
MCLines == [s \in Sessions |-> IF s = AnyClient THEN EveryLine ELSE TransferLines]
MCMaxLines == [s \in Sessions |-> IF s = AnyClient THEN 3 ELSE 2]

\* Both clients keep the discipline.
PoliteClients == [s \in Sessions |-> PoliteLines]
PoliteMaxLines == [s \in Sessions |-> 3]
=============================================================================

--------------------------- MODULE MCControlServer ---------------------------
(* ControlServer with the datagrams a client composes.                       *)
EXTENDS ControlServer

\* One movement command; a name that continues another, in a datagram that
\* just fits; arguments that no handler reads before a command that must be
\* seen, and before one the buffer cuts; names that part at AT*CO; two kinds of
\* CTRL, one before a command whose arguments are no number.
MCShapes == {<<<<"PCMD", "args">>>>,
             <<<<"REF", "args">>, <<"PCMD_MAG", "args">>>>,
             <<<<"FTRIM", "text">>, <<"REF", "args">>>>,
             <<<<"CONFIG_IDS", "text">>, <<"REF", "args">>>>,
             <<<<"COMWDG", "args4">>>>,
             <<<<"CTRL", "args4">>>>,
             <<<<"CTRL", "args">>, <<"PCMD", "text">>>>}
=============================================================================

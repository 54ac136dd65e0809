----------------------------- MODULE OptionMap ------------------------------
(* What util/config.c and data_structures/trie.c promise between them: a map *)
(* from names to values.                                                     *)
EXTENDS Naturals

CONSTANTS Keys, None
VARIABLES
    key, value,     \* the option read last
    puts,           \* how many were read
    map

mapVars == <<puts, map>>

MapInit == map = [k \in Keys |-> None] /\ puts = 0

\* An option replaces an earlier one of its name.
Put ==
    /\ puts' = puts + 1
    /\ map' = [map EXCEPT ![key'] = value']

MapSpec == MapInit /\ [][Put]_mapVars
=============================================================================

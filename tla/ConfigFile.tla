----------------------------- MODULE ConfigFile -----------------------------
(***************************************************************************)
(* config_read_options of util/config.c: each line of the file             *)
(* "configuration" goes through sscanf into the local buffers key and      *)
(* value, and what is in the buffers then goes into the trie.  sscanf      *)
(* leaves alone what it does not convert, and "%80c" stores no zero.       *)
(*                                                                         *)
(* A line is "full" (name = value, blanks around the sign), "bare" (sscanf *)
(* stops after the name) or "blank".  Names and values are sequences of    *)
(* characters, shorter than the buffers.                                   *)
(***************************************************************************)
EXTENDS Trie

CONSTANTS
    Lines,      \* the lines a file may have: [kind, key, value]
    MaxLines,   \* bound: lines of the file
    Strays,     \* what strtok_r may take for lines where it misses the end of the buffer
    MaxStrays   \* bound: how many of them

Kinds == {"full", "bare", "blank"}

ASSUME ConfigAssumption ==
    /\ Lines \cup Strays \subseteq [kind : Kinds, key : Seq(Chars), value : Seq(Chars)]
    /\ MaxLines \in Nat
    /\ MaxStrays \in Nat

VARIABLES
    opt_trie,   \* the static trie
    key, value, \* the buffers of config_read_options
    file,       \* the lines of the file read so far
    strayed     \* how many lines were read that the file does not have

configVars == <<opt_trie, key, value, file, strayed>>

ConfigInit ==
    /\ opt_trie = EmptyTrie
    /\ key = <<>> /\ value = <<>>
    /\ file = <<>>
    /\ strayed = 0

\* Slip: the value is added to what the buffer holds.
AddToEnd(new, old) == old \o new

\* What "%80c" makes of the buffer: the end of a longer value stays.
Overlay(new, old) == new \o SubSeq(old, Len(new) + 1, Len(old))

\* sscanf and insert_kv_pair_to_trie
Scan(l) ==
    /\ key' = IF l.kind = "blank" THEN key ELSE l.key
    /\ value' = IF l.kind = "full" THEN Overlay(l.value, value) ELSE value
    /\ opt_trie' = Insert(opt_trie, key', value')

ReadLine(l) ==
    /\ strayed = 0
    /\ Len(file) < MaxLines
    /\ Scan(l)
    /\ file' = Append(file, l)
    /\ UNCHANGED strayed

\* The buffer has no zero at its end.  What follows it in memory is taken for
\* the end of the last line, when that has no newline, and for any number of
\* lines after it, until a zero is found.
ReadStray(l) ==
    /\ strayed < MaxStrays
    /\ Scan(l)
    /\ strayed' = strayed + 1
    /\ UNCHANGED file

-----------------------------------------------------------------------------
Keys == UNION {{SubSeq(l.key, 1, k) : k \in 0..Len(l.key)} : l \in Lines \cup Strays}
Options == [k \in Keys |-> Lookup(opt_trie, k)]

Map == INSTANCE OptionMap WITH
            map <- Options, puts <- Len(file) + strayed

\* Looked up by walking down the tree one character at a time, the options
\* are a map in which the option read last replaces the earlier one of its
\* name and no other name changes: also for names that are prefixes of each
\* other, for the empty name that a blank first line leaves, and for names
\* that were never stored.
ImplementsMap == Map!MapSpec

\* In a plain file every line is full and no value is shorter than the one
\* in the line before.
Plain(lines) ==
    /\ \A i \in DOMAIN lines : lines[i].kind = "full"
    /\ \A i \in 2..Len(lines) : Len(lines[i].value) >= Len(lines[i - 1].value)

\* The line of a plain file that is in force for a name.
LastFor(lines, k) ==
    CHOOSE i \in DOMAIN lines : lines[i].key = k /\ \A j \in (i + 1)..Len(lines) : lines[j].key # k

\* After a plain file the value of every name is the one of its last line,
\* as long as strtok_r has found its end where the file ends.
PlainFileIsRead ==
    Plain(file) /\ strayed = 0 =>
        \A k \in Keys : Options[k] =
            IF \E i \in DOMAIN file : file[i].key = k THEN file[LastFor(file, k)].value ELSE None
=============================================================================

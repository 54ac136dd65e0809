------------------------- MODULE ControlServerProofs -------------------------
(***************************************************************************)
(* ControlServer, for any buffer, any width of the sequence number, any    *)
(* datagrams and any number of them: commands take effect in the order of  *)
(* their sequence numbers; the handlers called are those of the commands   *)
(* of each datagram; whole datagrams leave the server running and ready    *)
(* for the next; and every AT*CTRL=...,4 reaches its handler.              *)
(***************************************************************************)
EXTENDS ControlServer, TLAPS, SequenceTheorems, WellFoundedInduction

\* What NewestWins needs of the types: applied commands have numbers, and the
\* number kept is one.  The contents of the buffer do not matter: whatever
\* sscanf makes of the arguments is in the range of the variable.
OrderInv ==
    /\ seq_num \in SeqNums
    /\ applied \in Seq(Names \X SeqNums)
    /\ NewestWins

\* A node with the name of a command determines a command.
LEMMA CommandAtNode ==
    ASSUME NEW C \in SUBSET Names, AtCommand(C)
    PROVE  CommandAt(node) \in Names
BY DEF AtCommand, CommandAt

\* Appending a command whose number is not below those before it.
LEMMA AppendInOrder ==
    ASSUME OrderInv, NEW c \in Names, NEW n \in SeqNums, n >= seq_num,
           applied' = Append(applied, <<c, n>>), seq_num' = n
    PROVE  OrderInv'
<1> DEFINE a == Append(applied, <<c, n>>)
<1>1. applied \in Seq(Names \X SeqNums) /\ <<c, n>> \in Names \X SeqNums
  BY DEF OrderInv
<1>2. /\ a \in Seq(Names \X SeqNums)
      /\ Len(a) = Len(applied) + 1
      /\ Len(applied) \in Nat
      /\ a[Len(a)] = <<c, n>>
      /\ \A i \in 1..Len(applied) : a[i] = applied[i]
  BY <1>1
<1>3. \A i \in 1..Len(applied) : applied[i] \in Names \X SeqNums
  BY <1>1
<1>4. \A i \in 1..Len(applied) : applied[i][2] \in Nat /\ applied[i][2] <= seq_num
  <2> SUFFICES ASSUME NEW i \in 1..Len(applied)
               PROVE  applied[i][2] \in Nat /\ applied[i][2] <= seq_num
    OBVIOUS
  <2>1. applied # <<>> /\ Len(applied) \in 1..Len(applied)
    BY <1>1, <1>2
  <2>2. applied[i][2] \in SeqNums /\ applied[Len(applied)][2] \in SeqNums
    BY <1>3, <2>1
  <2>3. applied[i][2] \in Nat /\ applied[Len(applied)][2] \in Nat
    BY <2>2, ControlAssumption DEF SeqNums
  <2>4. seq_num = applied[Len(applied)][2]
    BY <2>1 DEF OrderInv, NewestWins
  <2>5. i < Len(applied) => applied[i][2] <= applied[Len(applied)][2]
    BY <1>1, <2>1 DEF OrderInv, NewestWins
  <2> QED
    BY <1>2, <2>3, <2>4, <2>5
<1>5. seq_num \in Nat /\ n \in Nat
  BY ControlAssumption DEF OrderInv, SeqNums
<1>6. \A i, j \in 1..Len(a) : i < j => a[i][2] <= a[j][2]
  <2> SUFFICES ASSUME NEW i \in 1..Len(a), NEW j \in 1..Len(a), i < j
               PROVE  a[i][2] <= a[j][2]
    OBVIOUS
  <2>1. i \in 1..Len(applied) /\ a[i] = applied[i]
    BY <1>2
  <2>2. CASE j = Len(a)
    <3>1. a[j][2] = n
      BY <1>2, <2>2
    <3> QED
      BY <1>4, <1>5, <2>1, <3>1
  <2>3. CASE j # Len(a)
    <3>1. j \in 1..Len(applied) /\ a[j] = applied[j]
      BY <1>2, <2>3
    <3> QED
      BY <1>1, <2>1, <3>1 DEF OrderInv, NewestWins
  <2> QED
    BY <2>2, <2>3
<1>7. DOMAIN a = 1..Len(a)
  BY <1>2
<1>8. NewestWins'
  <2>1. applied' = a /\ seq_num' = a[Len(a)][2]
    BY <1>2
  <2> QED
    BY <1>6, <1>7, <2>1 DEF NewestWins
<1> QED
  BY <1>2, <1>8 DEF OrderInv

LEMMA OrderInit == Init => OrderInv
BY ControlAssumption DEF Init, OrderInv, NewestWins, SeqNums

LEMMA OrderNext == OrderInv /\ [Next]_vars => OrderInv'
<1> SUFFICES ASSUME OrderInv, [Next]_vars PROVE OrderInv'
  OBVIOUS
<1>1. CASE UNCHANGED <<applied, seq_num>>
  BY <1>1 DEF OrderInv, NewestWins
<1>2. CASE CallMove
  <2>1. CommandAt(node) \in Names
    BY <1>2, CommandAtNode DEF CallMove, WithArgs, Moves, Names, NameOf
  <2>2. PICK n \in ReadSeq :
          \/ /\ n >= seq_num
             /\ applied' = Append(applied, <<CommandAt(node), n>>)
             /\ seq_num' = n
          \/ UNCHANGED <<applied, seq_num>>
    BY <1>2 DEF CallMove
  <2>3. n \in SeqNums
    BY DEF ReadSeq
  <2> QED
    BY <1>1, <2>1, <2>2, <2>3, AppendInOrder
<1> QED
  BY <1>1, <1>2
  DEF Next, vars, BindFails, Send, Receive, ParseStep, Walk, EqualsWithoutCommand, CallEmpty,
      Unterminated, CallCtrl, WithArgs, outcome

\* A delayed or repeated command never overrides a newer one, for every
\* network, every datagram and every width of the number.
THEOREM NewestWinsAlways == Spec => []NewestWins
<1>1. OrderInv => NewestWins
  BY DEF OrderInv
<1> QED
  BY <1>1, OrderInit, OrderNext, PTL DEF Spec

-----------------------------------------------------------------------------
(* Names and nodes                                                          *)

\* What follows AT* in a name
Texts == {"REF", "PCMD", "_MAG", "FTRIM", "C", "O", "NFIG", "_IDS", "MWDG", "ALIB", "TRL"}
NameSymbols == {Symbol(x) : x \in Texts}

LEMMA NameIs ==
    /\ Names = {"REF", "PCMD", "PCMD_MAG", "FTRIM", "CONFIG", "CONFIG_IDS", "COMWDG", "CALIB", "CTRL"}
    /\ NameOf["REF"] = <<AT, Symbol("REF")>>
    /\ NameOf["PCMD"] = <<AT, Symbol("PCMD")>>
    /\ NameOf["PCMD_MAG"] = <<AT, Symbol("PCMD"), Symbol("_MAG")>>
    /\ NameOf["FTRIM"] = <<AT, Symbol("FTRIM")>>
    /\ NameOf["CONFIG"] = <<AT, Symbol("C"), Symbol("O"), Symbol("NFIG")>>
    /\ NameOf["CONFIG_IDS"] = <<AT, Symbol("C"), Symbol("O"), Symbol("NFIG"), Symbol("_IDS")>>
    /\ NameOf["COMWDG"] = <<AT, Symbol("C"), Symbol("O"), Symbol("MWDG")>>
    /\ NameOf["CALIB"] = <<AT, Symbol("C"), Symbol("ALIB")>>
    /\ NameOf["CTRL"] = <<AT, Symbol("C"), Symbol("TRL")>>
BY DEF Names, NameOf

\* The last symbol of a name tells which name it is.
LastOf ==
    [REF |-> "REF", PCMD |-> "PCMD", PCMD_MAG |-> "_MAG", FTRIM |-> "FTRIM", CONFIG |-> "NFIG",
     CONFIG_IDS |-> "_IDS", COMWDG |-> "MWDG", CALIB |-> "ALIB", CTRL |-> "TRL"]

LEMMA NameForms ==
    ASSUME NEW c \in Names
    PROVE  /\ NameOf[c] \in Seq({AT} \cup NameSymbols) /\ Len(NameOf[c]) \in 2..5
           /\ NameOf[c][1] = AT
           /\ \A i \in 2..Len(NameOf[c]) : NameOf[c][i] \in NameSymbols
           /\ NameOf[c][Len(NameOf[c])] = Symbol(LastOf[c])
<1> DEFINE S == {AT} \cup NameSymbols
           Good(n, last) == /\ n \in Seq(S) /\ Len(n) \in 2..5 /\ n[1] = AT
                            /\ \A i \in 2..Len(n) : n[i] \in NameSymbols
                            /\ n[Len(n)] = last
<1>1. \A x \in Texts : Symbol(x) \in NameSymbols
  BY DEF NameSymbols
<1>2. ASSUME NEW x \in NameSymbols PROVE Good(<<AT, x>>, x)
  OBVIOUS
<1>3. ASSUME NEW x \in NameSymbols, NEW y \in NameSymbols PROVE Good(<<AT, x, y>>, y)
  OBVIOUS
<1>4. ASSUME NEW x \in NameSymbols, NEW y \in NameSymbols, NEW z \in NameSymbols
      PROVE  Good(<<AT, x, y, z>>, z)
  OBVIOUS
<1>5. ASSUME NEW w \in NameSymbols, NEW x \in NameSymbols, NEW y \in NameSymbols, NEW z \in NameSymbols
      PROVE  Good(<<AT, w, x, y, z>>, z)
  OBVIOUS
<1> HIDE DEF Good
<1>6. Good(NameOf[c], Symbol(LastOf[c]))
  <2>1. CASE c \in {"REF", "PCMD", "FTRIM"}
    <3>1. \E t \in Texts : LastOf[c] = t /\ NameOf[c] = <<AT, Symbol(t)>>
      BY <2>1, NameIs DEF LastOf, Texts
    <3> QED
      BY <1>1, <1>2, <3>1
  <2>2. CASE c \in {"PCMD_MAG", "CALIB", "CTRL"}
    <3>1. \E s, t \in Texts : LastOf[c] = t /\ NameOf[c] = <<AT, Symbol(s), Symbol(t)>>
      BY <2>2, NameIs DEF LastOf, Texts
    <3> QED
      BY <1>1, <1>3, <3>1
  <2>3. CASE c \in {"CONFIG", "COMWDG"}
    <3>1. PICK t : t = LastOf[c]
      OBVIOUS
    <3>2. t \in {"NFIG", "MWDG"} /\ NameOf[c] = <<AT, Symbol("C"), Symbol("O"), Symbol(t)>>
      BY <2>3, <3>1, NameIs DEF LastOf
    <3>3. {"C", "O", "NFIG", "MWDG"} \subseteq Texts
      BY DEF Texts
    <3> QED
      BY <1>1, <1>4, <3>1, <3>2, <3>3
  <2>4. CASE c = "CONFIG_IDS"
    <3>1. NameOf[c] = <<AT, Symbol("C"), Symbol("O"), Symbol("NFIG"), Symbol("_IDS")>>
          /\ LastOf[c] = "_IDS" /\ {"C", "O", "NFIG", "_IDS"} \subseteq Texts
      BY <2>4, NameIs DEF LastOf, Texts
    <3> QED
      BY <1>1, <1>5, <3>1
  <2> QED
    BY <2>1, <2>2, <2>3, <2>4, NameIs
<1> QED
  BY <1>6 DEF Good

\* The symbols of a name and those that follow it are all different from AT*
\* and from each other.
LEMMA SymbolsDiffer ==
    /\ AT # EQ /\ AT # CR /\ EQ # CR
    /\ AT \notin ArgKinds \X SeqNums
    /\ EQ \notin ArgKinds \X SeqNums
    /\ CR \notin ArgKinds \X SeqNums
    /\ \A x \in Texts :
          Symbol(x) \notin {AT, EQ, CR} \cup (ArgKinds \X SeqNums)
<1>1. /\ AT # EQ /\ AT # CR /\ EQ # CR
      /\ \A x \in Texts : Symbol(x) \notin {AT, EQ, CR}
  BY DEF AT, EQ, CR, Symbol, Texts
<1>2. \A x : x \notin ArgKinds => Symbol(x) \notin ArgKinds \X SeqNums
  BY DEF Symbol
<1>3. /\ "AT*" \notin ArgKinds /\ "=" \notin ArgKinds /\ "CR" \notin ArgKinds
      /\ \A x \in Texts : x \notin ArgKinds
  BY DEF ArgKinds, Texts
<1> QED
  BY <1>1, <1>2, <1>3 DEF AT, EQ, CR

\* A name is AT* and at least one symbol more, and what follows it in a
\* command occurs in no name.
LEMMA NameFacts ==
    ASSUME NEW c \in Names
    PROVE  /\ NameOf[c] \in Seq(Symbols)
           /\ Len(NameOf[c]) \in 2..5
           /\ NameOf[c][1] = AT
           /\ \A i \in 2..Len(NameOf[c]) : NameOf[c][i] # AT
           /\ \A i \in 1..Len(NameOf[c]) :
                NameOf[c][i] \notin {EQ, CR} \cup (ArgKinds \X SeqNums)
<1> DEFINE After == {AT, EQ, CR} \cup (ArgKinds \X SeqNums)
<1>a. AT \notin {EQ, CR} \cup (ArgKinds \X SeqNums)
  BY SymbolsDiffer
<1>1. /\ NameOf[c] \in Seq({AT} \cup NameSymbols) /\ Len(NameOf[c]) \in 2..5
      /\ NameOf[c][1] = AT /\ \A i \in 2..Len(NameOf[c]) : NameOf[c][i] \in NameSymbols
  BY NameForms
<1>3. Len(NameOf[c]) \in 2..5 /\ DOMAIN NameOf[c] = 1..Len(NameOf[c])
  BY <1>1
<1>4. NameOf[c] \in Seq(Symbols)
  <2>1. ASSUME NEW i \in 1..Len(NameOf[c]) PROVE NameOf[c][i] \in Symbols
    <3>1. NameOf[c][i] \in {NameOf[c][k] : k \in DOMAIN NameOf[c]}
      BY <1>3
    <3>2. {NameOf[c][k] : k \in DOMAIN NameOf[c]}
              \in {{NameOf[b][k] : k \in DOMAIN NameOf[b]} : b \in Names}
      OBVIOUS
    <3>3. NameOf[c][i] \in UNION {{NameOf[b][k] : k \in DOMAIN NameOf[b]} : b \in Names}
      BY <3>1, <3>2
    <3> QED
      BY <3>3 DEF Symbols
  <2> QED
    BY <1>1, <2>1
<1>5. NameOf[c][1] = AT /\ \A i \in 2..Len(NameOf[c]) : NameOf[c][i] \notin After
  <2>1. \A x \in NameSymbols : x \notin After
    BY SymbolsDiffer DEF NameSymbols
  <2> QED
    BY <1>1, <2>1
<1> HIDE DEF After
<1>6. \A i \in 1..Len(NameOf[c]) : NameOf[c][i] \notin {EQ, CR} \cup (ArgKinds \X SeqNums)
  <2> SUFFICES ASSUME NEW i \in 1..Len(NameOf[c])
               PROVE  NameOf[c][i] \notin {EQ, CR} \cup (ArgKinds \X SeqNums)
    OBVIOUS
  <2>1. CASE i = 1
    BY <1>5, <1>a, <2>1
  <2>2. CASE i # 1
    BY <1>3, <1>5, <2>2 DEF After
  <2> QED
    BY <2>1, <2>2
<1>7. \A i \in 2..Len(NameOf[c]) : NameOf[c][i] # AT
  BY <1>5 DEF After
<1> QED
  BY <1>3, <1>4, <1>5, <1>6, <1>7

\* No two commands have the same name.
LEMMA NamesDiffer ==
    ASSUME NEW c \in Names, NEW b \in Names, NameOf[c] = NameOf[b]
    PROVE  c = b
<1>1. Symbol(LastOf[c]) = Symbol(LastOf[b])
  BY NameForms
<1>2. LastOf[c] = LastOf[b]
  BY <1>1 DEF Symbol
<1> QED
  BY <1>2, NameIs DEF LastOf

-----------------------------------------------------------------------------
(* Nodes                                                                    *)

\* The root is a node; the trie goes on along a name, and starts with AT*.
LEMMA NodeFacts ==
    /\ Root \in Nodes
    /\ \A c \in Names : \A k \in 0..Len(NameOf[c]) : SubSeq(NameOf[c], 1, k) \in Nodes
    /\ \A n \in Nodes : n = Root \/ (n[1] = AT /\ \A i \in 2..Len(n) : n[i] # AT)
    /\ \A n \in Nodes : n \in Seq(Symbols)
<1>1. ASSUME NEW c \in Names, NEW k \in 0..Len(NameOf[c])
      PROVE  SubSeq(NameOf[c], 1, k) \in Nodes
  BY DEF Nodes
<1>2. Root \in Nodes
  <2>1. "REF" \in Names /\ 0 \in 0..Len(NameOf["REF"]) /\ SubSeq(NameOf["REF"], 1, 0) = Root
    <3>1. "REF" \in Names
      BY DEF Names, NameOf
    <3> QED
      BY <3>1, NameFacts DEF Root
  <2> QED
    BY <1>1, <2>1
<1>3. ASSUME NEW n \in Nodes
      PROVE  /\ n = Root \/ (n[1] = AT /\ \A i \in 2..Len(n) : n[i] # AT)
             /\ n \in Seq(Symbols)
  <2>4. PICK c \in Names : \E k \in 0..Len(NameOf[c]) : n = SubSeq(NameOf[c], 1, k)
    BY DEF Nodes
  <2>1. PICK k \in 0..Len(NameOf[c]) : n = SubSeq(NameOf[c], 1, k)
    BY <2>4
  <2>2. /\ NameOf[c] \in Seq(Symbols) /\ k \in Nat
        /\ n \in Seq(Symbols) /\ Len(n) = k /\ \A i \in 1..k : n[i] = NameOf[c][i]
    BY <2>1, NameFacts
  <2>3. k = 0 => n = Root
    BY <2>2 DEF Root
  <2> QED
    BY <2>2, <2>3, NameFacts
<1> QED
  BY <1>1, <1>2, <1>3

\* One symbol more leads on in the trie only where a name goes on.
LEMMA WalkOn ==
    ASSUME NEW x
    PROVE  /\ \A c \in Names : \A k \in 0..(Len(NameOf[c]) - 1) :
                x = NameOf[c][k + 1] =>
                    Append(SubSeq(NameOf[c], 1, k), x) = SubSeq(NameOf[c], 1, k + 1)
           /\ x # AT => Append(Root, x) \notin Nodes
           /\ \A n \in Nodes \ {Root} : Append(n, AT) \notin Nodes
<1>1. ASSUME NEW c \in Names, NEW k \in 0..(Len(NameOf[c]) - 1), x = NameOf[c][k + 1]
      PROVE  Append(SubSeq(NameOf[c], 1, k), x) = SubSeq(NameOf[c], 1, k + 1)
  BY <1>1, NameFacts
<1>2. ASSUME x # AT PROVE Append(Root, x) \notin Nodes
  <2>1. Append(Root, x) # Root /\ Append(Root, x)[1] = x
    BY DEF Root
  <2> QED
    BY <1>2, <2>1, NodeFacts
<1>3. ASSUME NEW n \in Nodes \ {Root} PROVE Append(n, AT) \notin Nodes
  <2>1. n \in Seq(Symbols) /\ n # <<>>
    BY NodeFacts DEF Root
  <2> DEFINE m == Append(n, AT)
  <2>2. m # <<>> /\ Len(m) \in 2..Len(m) /\ m[Len(m)] = AT
    BY <2>1
  <2> QED
    BY <2>2, NodeFacts DEF Root
<1> QED
  BY <1>1, <1>2, <1>3

\* The name of a command has the handler of that command, the root has none.
LEMMA HandlerFacts ==
    /\ ~HasHandler(Root)
    /\ \A c \in Names : HasHandler(NameOf[c]) /\ CommandAt(NameOf[c]) = c
<1>1. ~HasHandler(Root)
  BY NameFacts DEF HasHandler, Root
<1>2. ASSUME NEW c \in Names PROVE HasHandler(NameOf[c]) /\ CommandAt(NameOf[c]) = c
  BY NamesDiffer DEF HasHandler, CommandAt
<1> QED
  BY <1>1, <1>2


-----------------------------------------------------------------------------
(* What a client writes                                                     *)

\* Every set of natural numbers has a least element.
LEMMA LeastNumber ==
    ASSUME NEW T \in SUBSET Nat, T # {}
    PROVE  \E x \in T : \A y \in T : x <= y
<1> DEFINE Less == {ss \in Nat \X Nat : ss[1] < ss[2]}
<1>1. IsWellFoundedOn(Less, Nat)
  BY NatLessThanWellFounded DEF OpToRel
<1>2. PICK x \in T : \A y \in T : ~(<<y, x>> \in Less)
  BY <1>1, WFMin
<1>3. ASSUME NEW y \in T PROVE x <= y
  <2>1. <<y, x>> \in Less <=> y < x
    OBVIOUS
  <2> QED
    BY <1>2, <2>1
<1> QED
  BY <1>3

\* x is what stands at place i of a command c.
Size(c) == Len(NameOf[c]) + 3
Piece(c, i, x) ==
    /\ i <= Len(NameOf[c]) => x = NameOf[c][i]
    /\ i = Len(NameOf[c]) + 1 => x = EQ
    /\ i = Len(NameOf[c]) + 2 => x \in ArgKinds \X SeqNums
    /\ i = Len(NameOf[c]) + 3 => x = CR

LEMMA SpellFacts ==
    ASSUME NEW c \in Names, NEW kind \in ArgKinds, NEW n \in SeqNums
    PROVE  /\ Spell(c, kind, n) \in Seq(Symbols)
           /\ Len(Spell(c, kind, n)) = Size(c)
           /\ \A i \in 1..Size(c) : Piece(c, i, Spell(c, kind, n)[i])
<1> DEFINE rest == <<EQ, <<kind, n>>, CR>>
           name == NameOf[c]
<1>1. <<kind, n>> \in ArgKinds \X SeqNums
  OBVIOUS
<1>2. EQ \in Symbols /\ CR \in Symbols /\ <<kind, n>> \in Symbols
  <2> DEFINE parts == UNION {{NameOf[b][i] : i \in DOMAIN NameOf[b]} : b \in Names}
  <2>1. Symbols = parts \cup {EQ, CR} \cup (ArgKinds \X SeqNums)
    BY DEF Symbols
  <2> HIDE DEF parts
  <2> QED
    BY <1>1, <2>1
<1>3. rest \in Seq(Symbols) /\ Len(rest) = 3 /\ rest[1] = EQ /\ rest[2] \in ArgKinds \X SeqNums /\ rest[3] = CR
  BY <1>1, <1>2
<1>4. name \in Seq(Symbols) /\ Len(name) \in 2..5
  BY NameFacts
<1> HIDE DEF rest, name
<1>5. /\ name \o rest \in Seq(Symbols)
      /\ Len(name \o rest) = Len(name) + 3
      /\ \A i \in 1..Len(name) : (name \o rest)[i] = name[i]
      /\ \A i \in 1..3 : (name \o rest)[Len(name) + i] = rest[i]
  <2> DEFINE n1 == Len(name)
             all == name \o rest
  <2>1. n1 \in Nat
    BY <1>4
  <2>2. /\ all \in Seq(Symbols)
        /\ Len(all) = n1 + 3
        /\ \A i \in 1..(n1 + 3) : all[i] = IF i <= n1 THEN name[i] ELSE rest[i - n1]
    <3>1. \A i \in 1..(Len(name) + Len(rest)) :
              (name \o rest)[i] = IF i <= Len(name) THEN name[i] ELSE rest[i - Len(name)]
      BY <1>3, <1>4, ConcatProperties
    <3>2. name \o rest \in Seq(Symbols) /\ Len(name \o rest) = Len(name) + Len(rest)
      BY <1>3, <1>4, ConcatProperties
    <3> QED
      BY <1>3, <3>1, <3>2
  <2> HIDE DEF n1, all
  <2>3. \A i \in 1..n1 : all[i] = name[i]
    BY <2>1, <2>2
  <2>4. \A i \in 1..3 : all[n1 + i] = rest[i]
    <3> SUFFICES ASSUME NEW i \in 1..3 PROVE all[n1 + i] = rest[i]
      OBVIOUS
    <3>1. n1 + i \in 1..(n1 + 3) /\ ~(n1 + i <= n1) /\ (n1 + i) - n1 = i
      BY <2>1
    <3> QED
      BY <2>2, <3>1
  <2> QED
    BY <2>2, <2>3, <2>4 DEF n1, all
<1>6. Spell(c, kind, n) = name \o rest
  BY DEF Spell, rest, name
<1>7. ASSUME NEW i \in 1..(Len(name) + 3)
      PROVE  /\ i <= Len(name) => (name \o rest)[i] = name[i]
             /\ i = Len(name) + 1 => (name \o rest)[i] = EQ
             /\ i = Len(name) + 2 => (name \o rest)[i] \in ArgKinds \X SeqNums
             /\ i = Len(name) + 3 => (name \o rest)[i] = CR
  BY <1>3, <1>4, <1>5
<1> QED
  BY <1>5, <1>6, <1>7 DEF Piece, Size, name

\* f[k] is what the first k commands of a shape look like, for k up to n.
Spelled(f, shape, n) ==
    \A k \in 0..n :
        f[k] = IF k = 0 THEN <<>>
               ELSE f[k - 1] \o Spell(shape[k][1], shape[k][2], SeqAfter(k))

\* There is such a function for as many commands as the shape has, so that
\* the recursive definition has a value.
LEMMA SpelledExists ==
    ASSUME NEW shape, NEW n \in Nat
    PROVE  \E f : Spelled(f, shape, n)
<1> DEFINE Bad == {m \in Nat : ~\E f : Spelled(f, shape, m)}
<1>1. SUFFICES ASSUME Bad # {} PROVE FALSE
  OBVIOUS
<1>2. PICK m \in Bad : \A k \in Bad : m <= k
  BY <1>1, LeastNumber
<1>3. m # 0
  <2>1. Spelled([k \in {0} |-> <<>>], shape, 0)
    BY DEF Spelled
  <2> QED
    BY <2>1
<1>4. m - 1 \in Nat /\ m - 1 \notin Bad
  BY <1>2, <1>3
<1>5. PICK f : Spelled(f, shape, m - 1)
  BY <1>4
<1> DEFINE g == [k \in 0..m |-> IF k = m THEN f[m - 1] \o Spell(shape[m][1], shape[m][2], SeqAfter(m))
                               ELSE f[k]]
<1>6. Spelled(g, shape, m)
  <2> SUFFICES ASSUME NEW k \in 0..m
               PROVE  g[k] = IF k = 0 THEN <<>>
                             ELSE g[k - 1] \o Spell(shape[k][1], shape[k][2], SeqAfter(k))
    BY DEF Spelled
  <2>1. CASE k = m
    BY <1>3, <2>1
  <2>2. CASE k # m
    <3>1. k \in 0..(m - 1)
      BY <2>2
    <3>2. g[k] = f[k] /\ (k # 0 => g[k - 1] = f[k - 1])
      BY <2>2, <3>1
    <3>3. f[k] = IF k = 0 THEN <<>>
                 ELSE f[k - 1] \o Spell(shape[k][1], shape[k][2], SeqAfter(k))
      BY <1>5, <3>1 DEF Spelled
    <3> QED
      BY <3>2, <3>3
  <2> QED
    BY <2>1, <2>2
<1> QED
  BY <1>6

LEMMA SpellAllIs ==
    ASSUME NEW shape, Len(shape) \in Nat
    PROVE  \E f : Spelled(f, shape, Len(shape)) /\ SpellAll(shape) = f[Len(shape)]
<1> DEFINE F(g) == g = [k \in 0..Len(shape) |->
                          IF k = 0 THEN <<>>
                          ELSE g[k - 1] \o Spell(shape[k][1], shape[k][2], SeqAfter(k))]
<1>1. PICK f : Spelled(f, shape, Len(shape))
  BY SpelledExists
<1> DEFINE h == [k \in 0..Len(shape) |-> f[k]]
<1>2. F(h)
  <2> SUFFICES ASSUME NEW k \in 0..Len(shape)
               PROVE  f[k] = IF k = 0 THEN <<>>
                             ELSE h[k - 1] \o Spell(shape[k][1], shape[k][2], SeqAfter(k))
    OBVIOUS
  <2>1. k # 0 => h[k - 1] = f[k - 1]
    OBVIOUS
  <2> QED
    BY <1>1, <2>1 DEF Spelled
<1> DEFINE g == CHOOSE g : F(g)
<1>3. F(g)
  BY <1>2
<1>4. SpellAll(shape) = g[Len(shape)]
  BY DEF SpellAll
<1>5. Spelled(g, shape, Len(shape))
  <2> HIDE DEF g
  <2> QED
    BY <1>3 DEF Spelled
<1> QED
  BY <1>4, <1>5

\* After k commands the m-th of them stands where it was written.
Part(f, shape, m, k) ==
    /\ Len(f[m - 1]) \in Nat
    /\ Len(f[m]) = Len(f[m - 1]) + Size(shape[m][1])
    /\ Len(f[m]) <= Len(f[k])
    /\ \A i \in 1..Size(shape[m][1]) :
          Piece(shape[m][1], i, f[k][Len(f[m - 1]) + i])

LEMMA OneMore ==
    ASSUME NEW shape \in Seq(Names \X ArgKinds), clientSeq \in SeqNums,
           NEW f, Spelled(f, shape, Len(shape)),
           NEW k \in 1..Len(shape), f[k - 1] \in Seq(Symbols),
           \A m \in 1..(k - 1) : Part(f, shape, m, k - 1)
    PROVE  f[k] \in Seq(Symbols) /\ \A m \in 1..k : Part(f, shape, m, k)
<1> DEFINE c == shape[k][1]
           s == Spell(c, shape[k][2], SeqAfter(k))
           old == f[k - 1]
           n == Len(old)
           new == old \o s
<1>1. shape[k] \in Names \X ArgKinds
  OBVIOUS
<1>2. SeqAfter(k) \in SeqNums
  BY ControlAssumption DEF SeqAfter, SeqNums
<1>3. c \in Names /\ shape[k][2] \in ArgKinds
  BY <1>1
<1>4. s \in Seq(Symbols) /\ Len(s) = Size(c) /\ \A i \in 1..Size(c) : Piece(c, i, s[i])
  BY <1>2, <1>3, SpellFacts
<1>5. f[k] = new
  <2>1. k \in 0..Len(shape) /\ k # 0
    OBVIOUS
  <2>2. f[k] = IF k = 0 THEN <<>>
               ELSE f[k - 1] \o Spell(shape[k][1], shape[k][2], SeqAfter(k))
    BY <2>1 DEF Spelled
  <2> QED
    BY <2>1, <2>2
<1>6. Size(c) \in Nat /\ n \in Nat
  BY <1>3, NameFacts DEF Size
<1> HIDE DEF c, s
<1>7. /\ new \in Seq(Symbols)
      /\ Len(new) = n + Size(c)
      /\ \A i \in 1..(n + Size(c)) : new[i] = IF i <= n THEN old[i] ELSE s[i - n]
  <2>1. \A i \in 1..(Len(old) + Len(s)) :
            (old \o s)[i] = IF i <= Len(old) THEN old[i] ELSE s[i - Len(old)]
    BY <1>4, ConcatProperties
  <2>2. old \o s \in Seq(Symbols) /\ Len(old \o s) = Len(old) + Len(s)
    BY <1>4, ConcatProperties
  <2> QED
    BY <1>4, <2>1, <2>2
<1> HIDE DEF n, new
<1>8. Part(f, shape, k, k)
  <2>1. \A i \in 1..Size(c) : new[n + i] = s[i]
    <3> SUFFICES ASSUME NEW i \in 1..Size(c) PROVE new[n + i] = s[i]
      OBVIOUS
    <3>1. n + i \in 1..(n + Size(c)) /\ ~(n + i <= n) /\ (n + i) - n = i
      BY <1>6
    <3> QED
      BY <1>7, <3>1
  <2>2. n + Size(c) <= n + Size(c)
    BY <1>6
  <2> QED
    BY <1>4, <1>5, <1>6, <1>7, <2>1, <2>2 DEF Part, n, c
<1>9. ASSUME NEW m \in 1..(k - 1) PROVE Part(f, shape, m, k)
  <2> DEFINE a == Len(f[m - 1])
             b == Size(shape[m][1])
  <2>1. /\ a \in Nat /\ Len(f[m]) = a + b /\ a + b <= n
        /\ \A i \in 1..b : Piece(shape[m][1], i, old[a + i])
    BY DEF Part, n
  <2>2. b \in Nat
    <3>1. shape[m] \in Names \X ArgKinds
      OBVIOUS
    <3> QED
      BY <3>1, NameFacts DEF Size
  <2> HIDE DEF a, b
  <2>3. \A i \in 1..b : new[a + i] = old[a + i]
    <3> SUFFICES ASSUME NEW i \in 1..b PROVE new[a + i] = old[a + i]
      OBVIOUS
    <3>1. a + i \in 1..(n + Size(c)) /\ a + i <= n
      BY <1>6, <2>1, <2>2
    <3> QED
      BY <1>7, <3>1
  <2>4. a + b <= n + Size(c)
    BY <1>6, <2>1, <2>2
  <2> QED
    BY <1>5, <1>7, <2>1, <2>3, <2>4 DEF Part, a, b
<1>10. \A m \in 1..k : m = k \/ m \in 1..(k - 1)
  OBVIOUS
<1> QED
  BY <1>5, <1>7, <1>8, <1>9, <1>10

LEMMA AllWritten ==
    ASSUME NEW shape \in Seq(Names \X ArgKinds), clientSeq \in SeqNums,
           NEW f, Spelled(f, shape, Len(shape))
    PROVE  \A k \in 0..Len(shape) :
              f[k] \in Seq(Symbols) /\ \A m \in 1..k : Part(f, shape, m, k)
<1> DEFINE Bad == {k \in 0..Len(shape) :
                      ~(f[k] \in Seq(Symbols) /\ \A m \in 1..k : Part(f, shape, m, k))}
<1>1. SUFFICES ASSUME Bad # {} PROVE FALSE
  OBVIOUS
<1>2. Bad \in SUBSET Nat
  OBVIOUS
<1>3. PICK k \in Bad : \A j \in Bad : k <= j
  BY <1>1, <1>2, LeastNumber
<1>4. k # 0
  <2>1. f[0] = <<>>
    BY DEF Spelled
  <2>2. f[0] \in Seq(Symbols)
    BY <2>1
  <2>3. \A m \in 1..0 : Part(f, shape, m, 0)
    OBVIOUS
  <2>4. 0 \notin Bad
    BY <2>2, <2>3
  <2> QED
    BY <1>3, <2>4
<1>5. k - 1 \in 0..Len(shape) /\ k - 1 \notin Bad /\ k \in 1..Len(shape)
  BY <1>3, <1>4
<1> QED
  BY <1>3, <1>5, OneMore

-----------------------------------------------------------------------------
(* Datagrams                                                                *)

\* off[k] is where command k of a datagram ends, if the datagram is that long.
Laid(d, off) ==
    /\ off \in [0..Len(d.cmds) -> Nat]
    /\ off[0] = 0
    /\ \A k \in 1..Len(d.cmds) : off[k] = off[k - 1] + Size(d.cmds[k])
    /\ Len(d.symbols) <= off[Len(d.cmds)]
    /\ d.whole => Len(d.symbols) = off[Len(d.cmds)]
    /\ \A k \in 1..Len(d.cmds) : \A i \in 1..Size(d.cmds[k]) :
          off[k - 1] + i <= Len(d.symbols) =>
              Piece(d.cmds[k], i, d.symbols[off[k - 1] + i])

IsDatagram(d) ==
    /\ d.cmds \in Seq(Names) /\ d.cmds # <<>>
    /\ d.symbols \in Seq(Symbols)
    /\ d.whole \in BOOLEAN
    /\ \E off : Laid(d, off)

\* Whatever a client sends, cut or not, is laid out so.
LEMMA SentIsDatagram ==
    ASSUME NEW shape \in Shapes, clientSeq \in SeqNums,
           NEW n \in 0..Len(SpellAll(shape))
    PROVE  /\ IsDatagram(Datagram([i \in DOMAIN shape |-> shape[i][1]],
                                  SubSeq(SpellAll(shape), 1, n), n = Len(SpellAll(shape))))
           /\ Len(SpellAll(shape)) \in Nat
<1> DEFINE text == SpellAll(shape)
           cmds == [i \in DOMAIN shape |-> shape[i][1]]
           d == Datagram(cmds, SubSeq(text, 1, n), n = Len(text))
           N == Len(shape)
<1>1. shape \in Seq(Names \X ArgKinds) /\ shape # <<>> /\ N \in Nat
  BY ControlAssumption
<1>2. PICK f : Spelled(f, shape, N) /\ text = f[N]
  BY <1>1, SpellAllIs
<1>3. /\ f[0] = <<>>
      /\ \A k \in 0..N : f[k] \in Seq(Symbols)
      /\ \A m \in 1..N : Part(f, shape, m, N)
  <2>1. 0 \in 0..N /\ N \in 0..N
    BY <1>1
  <2>2. f[0] = <<>>
    BY <1>2, <2>1 DEF Spelled
  <2>3. \A k \in 0..N : f[k] \in Seq(Symbols) /\ \A m \in 1..k : Part(f, shape, m, k)
    BY <1>1, <1>2, AllWritten
  <2> QED
    BY <2>1, <2>2, <2>3
<1>4. text \in Seq(Symbols) /\ Len(text) \in Nat
  BY <1>1, <1>2, <1>3
<1>5. /\ cmds \in Seq(Names) /\ cmds # <<>> /\ Len(cmds) = N
      /\ \A k \in 1..N : cmds[k] = shape[k][1]
  BY <1>1
<1>6. /\ d.cmds = cmds /\ d.symbols = SubSeq(text, 1, n) /\ d.whole = (n = Len(text))
  BY DEF Datagram
<1> HIDE DEF text, cmds, d, N
<1>7. /\ SubSeq(text, 1, n) \in Seq(Symbols) /\ Len(SubSeq(text, 1, n)) = n
      /\ \A i \in 1..n : SubSeq(text, 1, n)[i] = text[i]
  BY <1>4 DEF text
<1> DEFINE off == [k \in 0..N |-> Len(f[k])]
<1>8. /\ off \in [0..N -> Nat]
      /\ off[0] = 0
      /\ off[N] = Len(text)
      /\ \A k \in 1..N : off[k - 1] = Len(f[k - 1]) /\ off[k] = Len(f[k])
  BY <1>1, <1>2, <1>3
<1> HIDE DEF off
<1>9. \A k \in 1..N :
          /\ off[k] = off[k - 1] + Size(cmds[k])
          /\ \A i \in 1..Size(cmds[k]) : Piece(cmds[k], i, text[off[k - 1] + i])
  BY <1>2, <1>3, <1>5, <1>8 DEF Part
<1>10. n <= off[N] /\ ((n = Len(text)) => n = off[N])
  BY <1>4, <1>8 DEF text
<1>11. ASSUME NEW k \in 1..N, NEW i \in 1..Size(cmds[k]), off[k - 1] + i <= n
       PROVE  Piece(cmds[k], i, SubSeq(text, 1, n)[off[k - 1] + i])
  <2>1. off[k - 1] + i \in 1..n
    <3>1. Size(cmds[k]) \in Nat
      BY <1>5, NameFacts DEF Size
    <3>2. off[k - 1] \in Nat
      BY <1>1, <1>8
    <3> QED
      BY <1>4, <1>11, <3>1, <3>2 DEF text
  <2> QED
    BY <1>7, <1>9, <2>1
<1>12. Laid(d, off)
  <2>1. Len(d.cmds) = N /\ Len(d.symbols) = n
    BY <1>5, <1>6, <1>7
  <2>2. \A k \in 1..N : \A i \in 1..Size(d.cmds[k]) :
            off[k - 1] + i <= n => Piece(d.cmds[k], i, d.symbols[off[k - 1] + i])
    BY <1>6, <1>11
  <2>3. /\ off \in [0..N -> Nat] /\ off[0] = 0
        /\ \A k \in 1..N : off[k] = off[k - 1] + Size(d.cmds[k])
        /\ n <= off[N] /\ (d.whole => n = off[N])
    BY <1>6, <1>8, <1>9, <1>10
  <2> QED
    BY <2>1, <2>2, <2>3 DEF Laid
<1> QED
  BY <1>4, <1>5, <1>6, <1>7, <1>12 DEF IsDatagram, d, cmds, text

\* The numbers in a layout.
LEMMA OffFacts ==
    ASSUME NEW d, IsDatagram(d), NEW off, Laid(d, off)
    PROVE  /\ Len(d.cmds) \in Nat /\ Len(d.symbols) \in Nat
           /\ \A k \in 0..Len(d.cmds) : off[k] \in Nat
           /\ \A k \in 1..Len(d.cmds) :
                /\ d.cmds[k] \in Names
                /\ Len(NameOf[d.cmds[k]]) \in 2..5
                /\ Size(d.cmds[k]) = Len(NameOf[d.cmds[k]]) + 3
                /\ off[k - 1] \in Nat /\ off[k] \in Nat
                /\ off[k] = off[k - 1] + Size(d.cmds[k])
<1>1. Len(d.cmds) \in Nat /\ Len(d.symbols) \in Nat
  BY DEF IsDatagram
<1>2. \A k \in 0..Len(d.cmds) : off[k] \in Nat
  BY DEF Laid
<1>3. ASSUME NEW k \in 1..Len(d.cmds)
      PROVE  /\ d.cmds[k] \in Names
             /\ off[k - 1] \in Nat /\ off[k] \in Nat
             /\ off[k] = off[k - 1] + Size(d.cmds[k])
  <2>1. k - 1 \in 0..Len(d.cmds) /\ k \in 0..Len(d.cmds)
    BY <1>1
  <2>2. d.cmds[k] \in Names
    BY DEF IsDatagram
  <2>3. off[k] = off[k - 1] + Size(d.cmds[k])
    BY DEF Laid
  <2> QED
    BY <1>2, <2>1, <2>2, <2>3
<1> QED
  BY <1>1, <1>2, <1>3, NameFacts DEF Size

\* Commands follow each other.
LEMMA OffGrows ==
    ASSUME NEW d, IsDatagram(d), NEW off, Laid(d, off)
    PROVE  \A a, b \in 0..Len(d.cmds) : a < b => off[a] < off[b]
<1> DEFINE N == Len(d.cmds)
<1>1. N \in Nat
  BY OffFacts
<1>2. ASSUME NEW k \in 1..N PROVE off[k - 1] \in Nat /\ off[k] \in Nat /\ off[k - 1] < off[k]
  <2>1. /\ off[k] = off[k - 1] + Size(d.cmds[k]) /\ off[k - 1] \in Nat
        /\ Size(d.cmds[k]) = Len(NameOf[d.cmds[k]]) + 3 /\ Len(NameOf[d.cmds[k]]) \in 2..5
    BY OffFacts
  <2> QED
    BY <2>1
<1> HIDE DEF N
<1> SUFFICES ASSUME NEW a \in 0..N PROVE \A b \in 0..N : a < b => off[a] < off[b]
  BY DEF N
<1> DEFINE Bad == {b \in 0..N : a < b /\ ~(off[a] < off[b])}
<1>3. SUFFICES ASSUME Bad # {} PROVE FALSE
  OBVIOUS
<1>4. Bad \in SUBSET Nat
  BY <1>1
<1>5. PICK b \in Bad : \A x \in Bad : b <= x
  BY <1>3, <1>4, LeastNumber
<1>6. b \in 1..N /\ off[b - 1] < off[b] /\ off[b - 1] \in Nat /\ off[b] \in Nat
  BY <1>1, <1>2, <1>5
<1>7. CASE b - 1 = a
  BY <1>5, <1>6, <1>7
<1>8. CASE b - 1 # a
  <2>1. b - 1 \in 0..N /\ a < b - 1 /\ b - 1 \notin Bad
    BY <1>1, <1>5, <1>6, <1>8
  <2>2. off[a] < off[b - 1]
    BY <2>1
  <2>3. a + 1 \in 1..N /\ off[a] \in Nat
    BY <1>1, <1>2, <2>1
  <2> QED
    BY <1>5, <1>6, <2>2, <2>3
<1> QED
  BY <1>7, <1>8

-----------------------------------------------------------------------------
(* Where the parser is                                                      *)

Fits(d) == IF Len(d.symbols) < BufSize THEN Len(d.symbols) ELSE BufSize

\* What is left of the datagram starts after its first p symbols.
BufAt(d, p) ==
    /\ p \in Nat
    /\ p <= Fits(d)
    /\ Len(buf) = Fits(d) - p
    /\ \A i \in 1..Len(buf) : buf[i] = d.symbols[p + i]

\* The walk has followed the name of c, or is at the root when there is no name
\* to follow; in a command that was entered in the middle of another name it
\* is lost, and back at the root after one symbol.
NodeAt(c, j, lost) ==
    IF lost THEN IF j = 0 THEN node \in Nodes \ {Root} ELSE node = Root
    ELSE node = IF j <= Len(NameOf[c]) THEN SubSeq(NameOf[c], 1, j) ELSE Root

\* The first commands of the datagram are done; one that was lost was skipped.
CalledAt(d, root, done) ==
    /\ Len(called) = IF root \/ done = 0 THEN done ELSE done - 1
    /\ \A i \in 1..Len(called) : called[i] = d.cmds[IF root THEN i ELSE i + 1]

\* The parser stands after j symbols of command k of d.
At(d, root, off, k, j) ==
    /\ k \in 1..Len(d.cmds) /\ j \in 0..Size(d.cmds[k])
    /\ BufAt(d, off[k - 1] + j)
    /\ NodeAt(d.cmds[k], j, k = 1 /\ ~root)
    /\ CalledAt(d, root, IF j <= Len(NameOf[d.cmds[k]]) THEN k - 1 ELSE k)

\* It is somewhere in d.
Placed(d, root) == \E off, k, j : Laid(d, off) /\ At(d, root, off, k, j)

\* Nothing was received yet.
Idle == current.datagram = NoDatagram /\ current.fromRoot /\ buf = <<>> /\ node = Root /\ called = <<>>

PlaceInv ==
    status = "running" =>
        \/ Idle
        \/ \E d, root : /\ d = current.datagram /\ root = current.fromRoot
                        /\ Placed(d, root)

\* Clients that send whole datagrams that fit keep the server up.
WholeInv ==
    received > 0 /\ (\A d \in net : d.whole /\ Len(d.symbols) <= BufSize) => status = "running"

NetInv == \A d \in net : IsDatagram(d)

ParseInv == TypeOK /\ NetInv /\ PlaceInv /\ WholeInv

LEMMA ParseInit == Init => ParseInv
<1> SUFFICES ASSUME Init PROVE ParseInv
  OBVIOUS
<1>1. TypeOK
  <2>1. 0 \in SeqNums /\ BufSize \in Nat /\ 0 <= BufSize
    BY ControlAssumption DEF SeqNums
  <2>2. 0 \in 0..MaxSent /\ 0 \in 0..MaxReceived
    BY ControlAssumption
  <2>3. <<>> \in Seq(Symbols) /\ <<>> \in Seq(Names) /\ <<>> \in Seq(Moves \X SeqNums) /\ Len(<<>>) = 0
    OBVIOUS
  <2> QED
    BY <2>1, <2>2, <2>3, NodeFacts DEF Init, TypeOK
<1> QED
  BY <1>1 DEF Init, ParseInv, NetInv, PlaceInv, WholeInv, Idle

\* While there is something left, the parser is in front of the next symbol of
\* a command, and what follows is the rest of that command as far as it was
\* received.
LEMMA Here ==
    ASSUME ParseInv, Parsing,
           NEW d, d = current.datagram, NEW root, root = current.fromRoot
    PROVE  /\ IsDatagram(d) /\ d \in net
           /\ \E off, k, j :
                /\ Laid(d, off) /\ At(d, root, off, k, j)
                /\ j < Size(d.cmds[k])
                /\ \A i \in 1..Len(buf) :
                      j + i <= Size(d.cmds[k]) => Piece(d.cmds[k], j + i, buf[i])
<1>1. PICK off, k0, j0 : Laid(d, off) /\ At(d, root, off, k0, j0)
  BY DEF ParseInv, PlaceInv, Placed, Parsing, Idle
<1>2. d # NoDatagram
  <2>1. Len(NoDatagram.cmds) = 0
    BY DEF NoDatagram, Datagram
  <2> QED
    BY <1>1, <2>1 DEF At
<1>3. d \in net /\ IsDatagram(d)
  BY <1>2 DEF ParseInv, TypeOK, NetInv
<1> DEFINE N == Len(d.cmds)
<1>4. /\ N \in Nat /\ \A k \in 1..N : d.cmds[k] \in Names /\ Size(d.cmds[k]) \in Nat \ {0}
      /\ \A k \in 1..N : Size(d.cmds[k]) = Len(NameOf[d.cmds[k]]) + 3 /\ Len(NameOf[d.cmds[k]]) \in 2..5
      /\ d.symbols \in Seq(Symbols)
  <2>1. \A k \in 1..N : /\ d.cmds[k] \in Names
                        /\ Size(d.cmds[k]) = Len(NameOf[d.cmds[k]]) + 3
                        /\ Len(NameOf[d.cmds[k]]) \in 2..5
    BY <1>1, <1>3, OffFacts
  <2>2. \A k \in 1..N : Size(d.cmds[k]) \in Nat \ {0}
    BY <2>1
  <2>3. N \in Nat
    BY <1>1, <1>3, OffFacts
  <2>4. d.symbols \in Seq(Symbols)
    BY <1>3 DEF IsDatagram
  <2> QED
    BY <2>1, <2>2, <2>3, <2>4
<1>5. /\ Len(d.symbols) <= off[N] /\ off[N] \in Nat
      /\ \A k \in 1..N : off[k] = off[k - 1] + Size(d.cmds[k]) /\ off[k - 1] \in Nat /\ off[k] \in Nat
  <2>1. N \in 0..N
    BY <1>4
  <2> QED
    BY <1>1, <1>3, <2>1, OffFacts DEF Laid
<1>6. buf \in Seq(Symbols) /\ Len(buf) \in Nat \ {0}
  BY DEF ParseInv, TypeOK, Parsing
<1>7. /\ BufSize \in Nat /\ Len(d.symbols) \in Nat /\ Fits(d) \in Nat
      /\ Fits(d) <= Len(d.symbols) /\ Fits(d) <= BufSize
  BY <1>4, ControlAssumption DEF Fits
<1> HIDE DEF N
<1>8. \E k, j : At(d, root, off, k, j) /\ j < Size(d.cmds[k])
  <2>1. k0 \in 1..N /\ j0 \in 0..Size(d.cmds[k0]) /\ BufAt(d, off[k0 - 1] + j0)
    BY <1>1 DEF At, N
  <2>2. CASE j0 < Size(d.cmds[k0])
    BY <1>1, <2>2
  <2>3. CASE ~(j0 < Size(d.cmds[k0]))
    <3>1. j0 = Size(d.cmds[k0]) /\ off[k0 - 1] + j0 = off[k0]
      BY <1>4, <1>5, <2>1, <2>3
    <3>2. off[k0] < off[N]
      <4>1. Len(buf) = Fits(d) - off[k0]
        BY <2>1, <3>1 DEF BufAt
      <4>2. off[k0] \in Nat /\ off[N] \in Nat
        BY <1>4, <1>5, <2>1
      <4> QED
        BY <1>5, <1>6, <1>7, <4>1, <4>2
    <3>3. k0 + 1 \in 1..N /\ (k0 + 1) - 1 = k0 /\ k0 # 0 /\ k0 + 1 # 1
      BY <1>4, <1>5, <2>1, <3>2
    <3>4. 0 \in 0..Size(d.cmds[k0 + 1]) /\ 0 < Size(d.cmds[k0 + 1]) /\ 0 <= Len(NameOf[d.cmds[k0 + 1]])
      BY <1>4, <3>3
    <3>5. off[(k0 + 1) - 1] + 0 = off[k0 - 1] + j0
      BY <1>5, <2>1, <3>1, <3>3
    <3>6. BufAt(d, off[(k0 + 1) - 1] + 0)
      BY <2>1, <3>5
    <3>7. node = Root /\ CalledAt(d, root, k0)
      <4>1. ~(j0 <= Len(NameOf[d.cmds[k0]])) /\ j0 # 0
        BY <1>4, <2>1, <3>1
      <4> QED
        BY <1>1, <4>1 DEF At, NodeAt
    <3>8. NodeAt(d.cmds[k0 + 1], 0, k0 + 1 = 1 /\ ~root)
      <4>1. SubSeq(NameOf[d.cmds[k0 + 1]], 1, 0) = Root
        BY <1>4, <3>3, NameFacts DEF Root
      <4> QED
        BY <3>3, <3>4, <3>7, <4>1 DEF NodeAt
    <3>9. At(d, root, off, k0 + 1, 0)
      BY <3>3, <3>4, <3>6, <3>7, <3>8 DEF At, N
    <3> QED
      BY <3>4, <3>9
  <2> QED
    BY <2>2, <2>3
<1>9. PICK k, j : At(d, root, off, k, j) /\ j < Size(d.cmds[k])
  BY <1>8
<1>10. ASSUME NEW i \in 1..Len(buf), j + i <= Size(d.cmds[k])
       PROVE  Piece(d.cmds[k], j + i, buf[i])
  <2>1. k \in 1..N /\ j \in Nat /\ BufAt(d, off[k - 1] + j)
    BY <1>4, <1>9 DEF At, N
  <2>2. off[k - 1] \in Nat
    BY <1>4, <1>5, <2>1
  <2>3. /\ buf[i] = d.symbols[(off[k - 1] + j) + i]
        /\ Len(buf) = Fits(d) - (off[k - 1] + j)
    BY <2>1 DEF BufAt
  <2>4. (off[k - 1] + j) + i = off[k - 1] + (j + i) /\ j + i \in 1..Size(d.cmds[k])
        /\ off[k - 1] + (j + i) <= Len(d.symbols)
    <3> DEFINE o == off[k - 1]
               l == Len(buf)
               z == Size(d.cmds[k])
    <3>1. o \in Nat /\ z \in Nat /\ l \in Nat /\ l = Fits(d) - (o + j)
      BY <1>4, <1>6, <2>1, <2>2, <2>3
    <3>2. i \in 1..l /\ j + i <= z
      BY <1>10
    <3> HIDE DEF o, l, z
    <3>3. (o + j) + i = o + (j + i) /\ j + i \in 1..z /\ o + (j + i) <= Len(d.symbols)
      BY <1>7, <2>1, <3>1, <3>2
    <3> QED
      BY <3>3 DEF o, z
  <2>5. Piece(d.cmds[k], j + i, d.symbols[off[k - 1] + (j + i)])
    BY <1>1, <2>1, <2>4 DEF Laid, N
  <2> QED
    BY <2>3, <2>4, <2>5
<1> QED
  BY <1>1, <1>3, <1>9, <1>10

-----------------------------------------------------------------------------
(* The parser's steps                                                       *)

\* The buffer after m symbols.
LEMMA Advance ==
    ASSUME NEW d, Fits(d) \in Nat, buf \in Seq(Symbols), NEW p, BufAt(d, p),
           NEW m \in 1..Len(buf), buf' = SubSeq(buf, m + 1, Len(buf))
    PROVE  BufAt(d, p + m)'
<1> DEFINE n == Len(buf)
           F == Fits(d)
           rest == SubSeq(buf, m + 1, n)
<1>1. n \in Nat /\ p \in Nat /\ n = F - p /\ F \in Nat /\ \A i \in 1..n : buf[i] = d.symbols[p + i]
  BY DEF BufAt
<1>2. /\ Len(rest) = n - m
      /\ \A i \in 1..(n - m) : rest[i] = buf[m + i]
  <2>1. Len(SubSeq(buf, m + 1, n)) = IF m + 1 <= n THEN n - (m + 1) + 1 ELSE 0
    BY <1>1, SubSeqProperties
  <2>2. \A i \in 1..(n - (m + 1) + 1) : rest[i] = buf[(m + 1) + i - 1]
    BY <1>1, SubSeqProperties
  <2>3. ASSUME NEW i \in 1..(n - m) PROVE rest[i] = buf[m + i]
    <3>1. i \in 1..(n - (m + 1) + 1) /\ (m + 1) + i - 1 = m + i
      BY <1>1
    <3> QED
      BY <2>2, <3>1
  <2>4. Len(rest) = n - m
    <3> HIDE DEF n, rest
    <3>1. n \in Nat /\ m \in 1..n
      BY <1>1 DEF n
    <3>2. IF m + 1 <= n THEN n - (m + 1) + 1 = n - m ELSE 0 = n - m
      BY <3>1
    <3>3. Len(rest) = IF m + 1 <= n THEN n - (m + 1) + 1 ELSE 0
      BY <2>1 DEF rest
    <3> QED
      BY <3>2, <3>3
  <2> QED
    BY <2>3, <2>4
<1> HIDE DEF n, F, rest
<1>3. m \in 1..n
  BY DEF n
<1>4. p + m \in Nat /\ p + m <= F /\ n - m = F - (p + m)
  BY <1>1, <1>3
<1>5. ASSUME NEW i \in 1..(n - m) PROVE rest[i] = d.symbols[(p + m) + i]
  <2>1. m + i \in 1..n /\ p + (m + i) = (p + m) + i
    BY <1>1, <1>3
  <2> QED
    BY <1>1, <1>2, <2>1
<1>6. buf' = rest
  BY DEF rest, n
<1> QED
  BY <1>2, <1>4, <1>5, <1>6 DEF BufAt, F, Fits

\* The symbol in front of the parser, by the place in the command.
LEMMA NextSymbol ==
    ASSUME NEW c \in Names, NEW j \in 0..(Size(c) - 1), NEW x, Piece(c, j + 1, x)
    PROVE  /\ x = EQ <=> j = Len(NameOf[c])
           /\ j < Len(NameOf[c]) => x = NameOf[c][j + 1]
           /\ x = AT => j = 0
<1> DEFINE L == Len(NameOf[c])
<1>1. L \in 2..5 /\ Size(c) = L + 3
  BY NameFacts DEF Size
<1>2. CASE j < L
  <2>1. x = NameOf[c][j + 1] /\ j + 1 \in 1..L
    BY <1>1, <1>2 DEF Piece
  <2>2. x # EQ /\ (j # 0 => x # AT)
    <3>1. j # 0 => j + 1 \in 2..L
      BY <1>1, <1>2
    <3> QED
      BY <2>1, <3>1, NameFacts
  <2> QED
    BY <1>1, <1>2, <2>1, <2>2
<1>3. CASE j = L
  BY <1>1, <1>3, SymbolsDiffer DEF Piece
<1>4. CASE j = L + 1
  BY <1>1, <1>4, SymbolsDiffer DEF Piece
<1>5. CASE j = L + 2
  BY <1>1, <1>5, SymbolsDiffer DEF Piece
<1> QED
  BY <1>1, <1>2, <1>3, <1>4, <1>5

\* The walk over one symbol
LEMMA WalkNode ==
    ASSUME NEW c \in Names, NEW j \in 0..(Size(c) - 1), NEW lost \in BOOLEAN,
           NEW x, Piece(c, j + 1, x), x # EQ, NodeAt(c, j, lost),
           node' = IF Append(node, x) \in Nodes THEN Append(node, x) ELSE Root
    PROVE  NodeAt(c, j + 1, lost)'
<1> DEFINE L == Len(NameOf[c])
<1>1. L \in 2..5 /\ Size(c) = L + 3 /\ j # L /\ j + 1 # 0
  <2>1. L \in 2..5 /\ Size(c) = L + 3
    BY NameFacts DEF Size
  <2>2. j # L
    BY NextSymbol
  <2> QED
    BY <2>1, <2>2
<1>2. CASE lost /\ j = 0
  <2>1. x = AT /\ node \in Nodes \ {Root}
    BY <1>1, <1>2, NameFacts, NextSymbol DEF NodeAt
  <2>2. node' = Root
    BY <2>1, WalkOn
  <2> QED
    BY <1>1, <1>2, <2>2 DEF NodeAt
<1>3. CASE lost /\ j # 0
  <2>1. x # AT /\ node = Root
    BY <1>3, NextSymbol DEF NodeAt
  <2>2. node' = Root
    BY <2>1, WalkOn
  <2> QED
    BY <1>1, <1>3, <2>2 DEF NodeAt
<1>4. CASE ~lost /\ j < L
  <2>1. x = NameOf[c][j + 1] /\ node = SubSeq(NameOf[c], 1, j) /\ j \in 0..(L - 1)
    BY <1>1, <1>4, NextSymbol DEF NodeAt
  <2>2. Append(node, x) = SubSeq(NameOf[c], 1, j + 1)
    BY <2>1, WalkOn
  <2>3. j + 1 \in 0..L
    BY <1>1, <2>1
  <2>4. node' = SubSeq(NameOf[c], 1, j + 1)
    BY <2>2, <2>3, NodeFacts
  <2> QED
    BY <1>4, <2>3, <2>4 DEF NodeAt
<1>5. CASE ~lost /\ j > L
  <2>1. x # AT /\ node = Root /\ ~(j + 1 <= L)
    BY <1>1, <1>5, NextSymbol DEF NodeAt
  <2>2. node' = Root
    BY <2>1, WalkOn
  <2> QED
    BY <1>5, <2>1, <2>2 DEF NodeAt
<1> QED
  BY <1>1, <1>2, <1>3, <1>4, <1>5

LEMMA TailIs ==
    ASSUME buf \in Seq(Symbols), buf # <<>>
    PROVE  Tail(buf) = SubSeq(buf, 1 + 1, Len(buf)) /\ 1 \in 1..Len(buf) /\ Head(buf) = buf[1]
BY TailIsSubSeq

LEMMA FitsNat ==
    ASSUME NEW d, IsDatagram(d)
    PROVE  /\ Fits(d) \in Nat /\ Fits(d) <= Len(d.symbols) /\ Fits(d) <= BufSize
           /\ Len(d.symbols) <= BufSize => Fits(d) = Len(d.symbols)
<1>1. Len(d.symbols) \in Nat /\ BufSize \in Nat
  BY ControlAssumption DEF IsDatagram
<1> QED
  BY <1>1 DEF Fits

LEMMA WalkStep ==
    ASSUME ParseInv, Walk,
           NEW d, d = current.datagram, NEW root, root = current.fromRoot
    PROVE  Placed(d, root)'
<1>1. Parsing /\ buf \in Seq(Symbols) /\ buf # <<>> /\ root \in BOOLEAN
  BY DEF Walk, Parsing, ParseInv, TypeOK
<1>2. IsDatagram(d)
  BY <1>1, Here
<1>3. PICK off, k, j :
        /\ Laid(d, off) /\ At(d, root, off, k, j)
        /\ j < Size(d.cmds[k])
        /\ \A i \in 1..Len(buf) : j + i <= Size(d.cmds[k]) => Piece(d.cmds[k], j + i, buf[i])
  BY <1>1, Here
<1> DEFINE c == d.cmds[k]
           lost == k = 1 /\ ~root
           x == Head(buf)
           p == off[k - 1] + j
<1>4. /\ k \in 1..Len(d.cmds) /\ j \in 0..Size(c) /\ j < Size(c)
      /\ BufAt(d, p) /\ NodeAt(c, j, lost)
      /\ CalledAt(d, root, IF j <= Len(NameOf[c]) THEN k - 1 ELSE k)
  BY <1>3 DEF At
<1>5. /\ c \in Names /\ Size(c) = Len(NameOf[c]) + 3 /\ Len(NameOf[c]) \in 2..5
      /\ off[k - 1] \in Nat
  BY <1>2, <1>3, <1>4, OffFacts
<1>6. j \in 0..(Size(c) - 1) /\ j + 1 \in 0..Size(c) /\ p + 1 = off[k - 1] + (j + 1)
  BY <1>4, <1>5
<1>7. Piece(c, j + 1, x)
  BY <1>1, <1>3, <1>4, <1>5, TailIs
<1> HIDE DEF c, lost, x, p
<1>8. x # EQ /\ buf' = Tail(buf) /\ called' = called
      /\ node' = IF Append(node, x) \in Nodes THEN Append(node, x) ELSE Root
  BY DEF Walk, x
<1>9. BufAt(d, p + 1)'
  BY <1>1, <1>2, <1>4, <1>8, TailIs, FitsNat, Advance
<1>10. NodeAt(c, j + 1, lost)'
  <2>1. lost \in BOOLEAN
    BY <1>1 DEF lost
  <2> QED
    BY <1>4, <1>5, <1>6, <1>7, <1>8, <2>1, WalkNode
<1>11. CalledAt(d, root, IF j + 1 <= Len(NameOf[c]) THEN k - 1 ELSE k)'
  <2>1. j # Len(NameOf[c])
    BY <1>5, <1>6, <1>7, <1>8, NextSymbol
  <2>2. (j + 1 <= Len(NameOf[c])) <=> (j <= Len(NameOf[c]))
    BY <1>5, <1>6, <2>1
  <2> QED
    BY <1>4, <1>8, <2>2 DEF CalledAt
<1>12. At(d, root, off, k, j + 1)'
  BY <1>4, <1>6, <1>9, <1>10, <1>11 DEF At, c, lost
<1> QED
  BY <1>3, <1>12 DEF Placed, Laid

\* The parser in front of an equals sign is behind the name of a command:
\* at its node, or lost at the root.
AtEquals(d, root, off, k) ==
    /\ Laid(d, off)
    /\ At(d, root, off, k, Len(NameOf[d.cmds[k]]))
    /\ IF k = 1 /\ ~root THEN node = Root ELSE node = NameOf[d.cmds[k]]
    /\ Len(buf) >= 2 => buf[2] \in ArgKinds \X SeqNums
    /\ Len(buf) >= 3 => buf[3] = CR

LEMMA HereEquals ==
    ASSUME ParseInv, Parsing, Head(buf) = EQ,
           NEW d, d = current.datagram, NEW root, root = current.fromRoot
    PROVE  \E off, k : AtEquals(d, root, off, k)
<1>1. buf \in Seq(Symbols) /\ buf # <<>> /\ root \in BOOLEAN
  BY DEF Parsing, ParseInv, TypeOK
<1>2. IsDatagram(d)
  BY Here
<1>3. PICK off, k, j :
        /\ Laid(d, off) /\ At(d, root, off, k, j)
        /\ j < Size(d.cmds[k])
        /\ \A i \in 1..Len(buf) : j + i <= Size(d.cmds[k]) => Piece(d.cmds[k], j + i, buf[i])
  BY Here
<1> DEFINE c == d.cmds[k]
           L == Len(NameOf[c])
<1>4. k \in 1..Len(d.cmds) /\ j \in 0..Size(c) /\ NodeAt(c, j, k = 1 /\ ~root)
  BY <1>3 DEF At
<1>5. c \in Names /\ Size(c) = L + 3 /\ L \in 2..5
  BY <1>2, <1>3, <1>4, OffFacts
<1>6. j = L
  <2>1. j + 1 <= Size(c) /\ j \in 0..(Size(c) - 1)
    BY <1>3, <1>4, <1>5
  <2>2. Piece(c, j + 1, EQ)
    BY <1>1, <1>3, <2>1, TailIs
  <2> QED
    BY <1>5, <2>1, <2>2, NextSymbol
<1>7. IF k = 1 /\ ~root THEN node = Root ELSE node = NameOf[c]
  <2>1. NameOf[c] \in Seq(Symbols)
    BY <1>5, NameFacts
  <2>2. SubSeq(NameOf[c], 1, L) = NameOf[c]
    BY <2>1, SubSeqFull
  <2> HIDE DEF c
  <2>3. L # 0 /\ L <= L
    BY <1>5
  <2> QED
    BY <1>4, <1>6, <2>2, <2>3 DEF NodeAt
<1>8. Len(buf) >= 2 => buf[2] \in ArgKinds \X SeqNums
  <2> SUFFICES ASSUME Len(buf) >= 2 PROVE buf[2] \in ArgKinds \X SeqNums
    OBVIOUS
  <2>1. 2 \in 1..Len(buf) /\ L + 2 <= Size(c)
    BY <1>1, <1>5
  <2>2. Piece(c, L + 2, buf[2])
    BY <1>3, <1>6, <2>1
  <2> QED
    BY <2>2 DEF Piece
<1>9. Len(buf) >= 3 => buf[3] = CR
  <2> SUFFICES ASSUME Len(buf) >= 3 PROVE buf[3] = CR
    OBVIOUS
  <2>1. 3 \in 1..Len(buf) /\ L + 3 <= Size(c)
    BY <1>1, <1>5
  <2>2. Piece(c, L + 3, buf[3])
    BY <1>3, <1>6, <2>1
  <2> QED
    BY <2>2 DEF Piece
<1>10. AtEquals(d, root, off, k)
  BY <1>3, <1>6, <1>7, <1>8, <1>9 DEF AtEquals
<1> QED
  BY <1>10

\* Over the equals sign, or over the arguments, too: the command is done, or
\* skipped when the walk was lost.
LEMMA Over ==
    ASSUME ParseInv, NEW d, IsDatagram(d), NEW root \in BOOLEAN, NEW off, NEW k,
           AtEquals(d, root, off, k),
           NEW m \in {1, 2}, m \in 1..Len(buf), buf' = SubSeq(buf, m + 1, Len(buf)),
           node' = Root,
           called' = IF k = 1 /\ ~root THEN called ELSE Append(called, d.cmds[k])
    PROVE  Placed(d, root)'
<1> DEFINE c == d.cmds[k]
           L == Len(NameOf[c])
           lost == k = 1 /\ ~root
           p == off[k - 1] + L
<1>1. /\ Laid(d, off) /\ k \in 1..Len(d.cmds) /\ L \in 0..Size(c)
      /\ BufAt(d, p) /\ CalledAt(d, root, IF L <= L THEN k - 1 ELSE k)
  BY DEF AtEquals, At
<1>2. /\ c \in Names /\ Size(c) = L + 3 /\ L \in 2..5
      /\ off[k - 1] \in Nat /\ Len(d.cmds) \in Nat
  BY <1>1, OffFacts
<1>3. buf \in Seq(Symbols) /\ called \in Seq(Names)
  BY DEF ParseInv, TypeOK
<1>4. /\ L + m \in 0..Size(c) /\ p + m = off[k - 1] + (L + m)
      /\ ~(L + m <= L) /\ L + m # 0
  <2> DEFINE o == off[k - 1]
             z == Size(c)
  <2>1. o \in Nat /\ z = L + 3 /\ L \in 2..5
    BY <1>2
  <2> HIDE DEF o, z, L
  <2>2. L + m \in 0..z /\ (o + L) + m = o + (L + m) /\ ~(L + m <= L) /\ L + m # 0
    BY <2>1
  <2> QED
    BY <2>2 DEF o, z, L
<1>5. CalledAt(d, root, k - 1)
  BY <1>1, <1>2
<1> HIDE DEF c, L, lost, p
<1>6. BufAt(d, p + m)'
  BY <1>1, <1>3, FitsNat, Advance
<1>7. NodeAt(c, L + m, lost)'
  BY <1>4 DEF NodeAt, L
<1>8. CalledAt(d, root, k)'
  <2>1. CASE lost
    <3>1. k = 1 /\ ~root /\ called' = called /\ k - 1 = 0
      BY <2>1 DEF lost
    <3> QED
      BY <1>5, <3>1 DEF CalledAt
  <2>2. CASE ~lost
    <3> DEFINE n == Len(called)
    <3>1. called' = Append(called, c)
      BY <2>2 DEF lost, c
    <3>2. /\ n \in Nat /\ Len(called') = n + 1 /\ called'[n + 1] = c
          /\ \A i \in 1..n : called'[i] = called[i]
      BY <1>2, <1>3, <3>1
    <3>3. /\ n = IF root \/ k - 1 = 0 THEN k - 1 ELSE (k - 1) - 1
          /\ \A i \in 1..n : called[i] = d.cmds[IF root THEN i ELSE i + 1]
      BY <1>5 DEF CalledAt
    <3>4. k \in Nat /\ k # 0 /\ (k # 1 \/ root)
      BY <1>1, <1>2, <2>2 DEF lost
    <3> HIDE DEF n
    <3>5. n + 1 = (IF root \/ k = 0 THEN k ELSE k - 1) /\ k = IF root THEN n + 1 ELSE (n + 1) + 1
      BY <3>2, <3>3, <3>4
    <3>6. \A i \in 1..(n + 1) : i = n + 1 \/ i \in 1..n
      BY <3>2
    <3>7. \A i \in 1..(n + 1) : called'[i] = d.cmds[IF root THEN i ELSE i + 1]
      <4> SUFFICES ASSUME NEW i \in 1..(n + 1)
                   PROVE  called'[i] = d.cmds[IF root THEN i ELSE i + 1]
        OBVIOUS
      <4>1. CASE i \in 1..n
        BY <3>2, <3>3, <4>1
      <4>2. CASE i = n + 1
        BY <3>2, <3>5, <4>2 DEF c
      <4> QED
        BY <3>6, <4>1, <4>2
    <3> QED
      BY <3>2, <3>5, <3>7 DEF CalledAt
  <2> QED
    BY <2>1, <2>2
<1>9. At(d, root, off, k, L + m)'
  BY <1>1, <1>4, <1>6, <1>7, <1>8 DEF At, c, lost, L
<1> QED
  BY <1>1, <1>9 DEF Placed, Laid

LEMMA EqualsStep ==
    ASSUME ParseInv, EqualsWithoutCommand,
           NEW d, d = current.datagram, NEW root, root = current.fromRoot
    PROVE  Placed(d, root)'
<1>1. /\ Parsing /\ Head(buf) = EQ /\ ~HasHandler(node) /\ node' = Root /\ buf' = Tail(buf)
      /\ called' = called
  BY DEF EqualsWithoutCommand
<1>2. buf \in Seq(Symbols) /\ buf # <<>> /\ root \in BOOLEAN
  BY <1>1 DEF Parsing, ParseInv, TypeOK
<1>3. IsDatagram(d)
  BY <1>1, Here
<1>4. PICK off, k : AtEquals(d, root, off, k)
  BY <1>1, HereEquals
<1>5. d.cmds[k] \in Names
  BY <1>3, <1>4, OffFacts DEF AtEquals, At
<1>6. k = 1 /\ ~root
  BY <1>1, <1>4, <1>5, HandlerFacts DEF AtEquals
<1> QED
  BY <1>1, <1>2, <1>3, <1>4, <1>6, TailIs, Over

\* A handler is called for the command the parser is at.
LEMMA CommandHere ==
    ASSUME ParseInv, NEW C \in SUBSET Names, AtCommand(C),
           NEW d, d = current.datagram, NEW root, root = current.fromRoot
    PROVE  /\ IsDatagram(d) /\ d \in net /\ root \in BOOLEAN
           /\ CommandAt(node) \in C
           /\ \E off, k : AtEquals(d, root, off, k) /\ ~(k = 1 /\ ~root) /\ CommandAt(node) = d.cmds[k]
<1>1. Parsing /\ Head(buf) = EQ
  BY DEF AtCommand
<1>2. PICK b \in C : node = NameOf[b]
  BY DEF AtCommand
<1>3. IsDatagram(d) /\ d \in net /\ root \in BOOLEAN
  BY <1>1, Here DEF ParseInv, TypeOK
<1>4. PICK off, k : AtEquals(d, root, off, k)
  BY <1>1, HereEquals
<1>5. d.cmds[k] \in Names
  BY <1>3, <1>4, OffFacts DEF AtEquals, At
<1>6. CommandAt(node) = b
  BY <1>2, HandlerFacts
<1>7. node # Root
  BY <1>2, HandlerFacts
<1>8. ~(k = 1 /\ ~root) /\ b = d.cmds[k]
  BY <1>2, <1>4, <1>5, <1>7, NamesDiffer DEF AtEquals
<1> QED
  BY <1>3, <1>4, <1>6, <1>8

LEMMA EmptyStep ==
    ASSUME ParseInv, CallEmpty,
           NEW d, d = current.datagram, NEW root, root = current.fromRoot
    PROVE  Placed(d, root)'
<1>1. AtCommand(Empties) /\ node' = Root /\ buf' = Tail(buf) /\ called' = Append(called, CommandAt(node))
  BY DEF CallEmpty, AtCommand
<1>2. buf \in Seq(Symbols) /\ buf # <<>>
  BY <1>1 DEF AtCommand, Parsing, ParseInv, TypeOK
<1>3. Empties \in SUBSET Names
  BY DEF Empties
<1>4. IsDatagram(d) /\ root \in BOOLEAN
  BY <1>1, <1>3, CommandHere
<1>5. PICK off, k : AtEquals(d, root, off, k) /\ ~(k = 1 /\ ~root) /\ CommandAt(node) = d.cmds[k]
  BY <1>1, <1>3, CommandHere
<1> QED
  BY <1>1, <1>2, <1>4, <1>5, TailIs, Over

\* The arguments of a command are one symbol; when there is a CR behind them it
\* is the next one.
LEMMA ArgsEnd ==
    ASSUME ParseInv, NEW d, NEW root, NEW off, NEW k, AtEquals(d, root, off, k),
           Parsing, Head(buf) = EQ, CrPositions # {}
    PROVE  EndOfArgs = 3 /\ Len(buf) >= 3
<1>1. buf \in Seq(Symbols) /\ buf # <<>> /\ Len(buf) \in Nat /\ DOMAIN buf = 1..Len(buf)
  BY DEF Parsing, ParseInv, TypeOK
<1>2. buf[1] # CR
  BY <1>1, TailIs, SymbolsDiffer
<1>3. Len(buf) >= 2 => buf[2] # CR
  BY SymbolsDiffer DEF AtEquals
<1>4. \A i \in CrPositions : i \in Nat /\ i <= Len(buf) /\ i >= 3
  <2> SUFFICES ASSUME NEW i \in CrPositions PROVE i \in Nat /\ i <= Len(buf) /\ i >= 3
    OBVIOUS
  <2>1. i \in 1..Len(buf) /\ buf[i] = CR
    BY <1>1 DEF CrPositions
  <2>2. i # 1 /\ i # 2
    BY <1>1, <1>2, <1>3, <2>1
  <2> QED
    BY <1>1, <2>1, <2>2
<1>5. Len(buf) >= 3
  BY <1>1, <1>4
<1>6. 3 \in CrPositions
  BY <1>1, <1>5 DEF CrPositions, AtEquals
<1>7. EndOfArgs \in CrPositions /\ \A j \in CrPositions : EndOfArgs <= j
  <2>1. \A j \in CrPositions : 3 <= j
    BY <1>4
  <2> QED
    BY <1>6, <2>1 DEF EndOfArgs
<1>8. EndOfArgs <= 3 /\ EndOfArgs >= 3 /\ EndOfArgs \in Nat
  BY <1>4, <1>6, <1>7
<1> QED
  BY <1>5, <1>8

LEMMA ArgsStep ==
    ASSUME ParseInv, NEW C \in SUBSET Names, WithArgs(C),
           NEW d, d = current.datagram, NEW root, root = current.fromRoot
    PROVE  Placed(d, root)'
<1>1. /\ AtCommand(C) /\ node' = Root /\ CrPositions # {} /\ buf' = AfterArgs
      /\ called' = Append(called, CommandAt(node)) /\ Parsing /\ Head(buf) = EQ
  BY DEF WithArgs, AtCommand
<1>2. IsDatagram(d) /\ root \in BOOLEAN
  BY <1>1, CommandHere
<1>3. PICK off, k : AtEquals(d, root, off, k) /\ ~(k = 1 /\ ~root) /\ CommandAt(node) = d.cmds[k]
  BY <1>1, CommandHere
<1>4. EndOfArgs = 3 /\ Len(buf) >= 3 /\ Len(buf) \in Nat
  BY <1>1, <1>3, ArgsEnd DEF ParseInv, TypeOK
<1>5. buf' = SubSeq(buf, 2 + 1, Len(buf)) /\ 2 \in 1..Len(buf)
  BY <1>1, <1>4 DEF AfterArgs
<1> QED
  BY <1>1, <1>2, <1>3, <1>5, Over

-----------------------------------------------------------------------------
(* The invariant                                                            *)

\* Nothing moves the parser but its own steps.
LEMMA PlaceStays ==
    ASSUME PlaceInv, UNCHANGED <<status, buf, node, current, called>>
    PROVE  PlaceInv'
<1>1. ASSUME NEW d, NEW root, Placed(d, root) PROVE Placed(d, root)'
  <2>1. PICK off, k, j : Laid(d, off) /\ At(d, root, off, k, j)
    BY <1>1 DEF Placed
  <2>2. BufAt(d, off[k - 1] + j)'
    BY <2>1 DEF At, BufAt
  <2>3. NodeAt(d.cmds[k], j, k = 1 /\ ~root)'
    BY <2>1 DEF At, NodeAt
  <2>4. CalledAt(d, root, IF j <= Len(NameOf[d.cmds[k]]) THEN k - 1 ELSE k)'
    BY <2>1 DEF At, CalledAt
  <2>5. At(d, root, off, k, j)'
    BY <2>1, <2>2, <2>3, <2>4 DEF At
  <2> QED
    BY <2>1, <2>5 DEF Placed
<1> QED
  BY <1>1 DEF PlaceInv, Idle

\* The datagrams a client sends keep their types.
LEMMA SendKeeps ==
    ASSUME ParseInv, NEW shape \in Shapes, Send(shape)
    PROVE  ParseInv'
<1> DEFINE cmds == [i \in DOMAIN shape |-> shape[i][1]]
           text == SpellAll(shape)
<1>1. PICK n \in IF Clipped THEN 0..Len(text) ELSE {Len(text)} :
        net' = net \cup {Datagram(cmds, SubSeq(text, 1, n), n = Len(text))}
  BY DEF Send
<1>2. sent < MaxSent /\ sent' = sent + 1 /\ clientSeq' = SeqAfter(Len(shape))
      /\ UNCHANGED <<status, received, buf, node, outcome, current, called>>
  BY DEF Send
<1>3. clientSeq \in SeqNums /\ sent \in 0..MaxSent /\ MaxSent \in Nat
  BY ControlAssumption DEF ParseInv, TypeOK
<1>4. Len(text) \in Nat
  <2>1. Len(shape) \in Nat /\ shape \in Seq(Names \X ArgKinds)
    BY ControlAssumption
  <2>2. PICK f : Spelled(f, shape, Len(shape)) /\ text = f[Len(shape)]
    BY <2>1, SpellAllIs
  <2>3. text \in Seq(Symbols)
    BY <1>3, <2>1, <2>2, AllWritten
  <2> QED
    BY <2>3
<1>5. n \in 0..Len(text)
  BY <1>1, <1>4
<1> DEFINE d == Datagram(cmds, SubSeq(text, 1, n), n = Len(text))
<1>6. IsDatagram(d)
  BY <1>3, <1>5, SentIsDatagram
<1> HIDE DEF d
<1>7. net' = net \cup {d}
  BY <1>1 DEF d
<1>8. NetInv'
  BY <1>6, <1>7 DEF ParseInv, NetInv
<1>9. TypeOK'
  <2>1. d.symbols \in Seq(Symbols) /\ d.cmds \in Seq(Names) /\ d.whole \in BOOLEAN
    BY <1>6 DEF IsDatagram
  <2>2. sent' \in 0..MaxSent
    BY <1>2, <1>3
  <2>3. clientSeq' \in SeqNums
    <3>1. Len(shape) \in Nat
      BY ControlAssumption
    <3> QED
      BY <1>2, <1>3, <3>1, ControlAssumption DEF SeqAfter, SeqNums
  <2> QED
    BY <1>2, <1>7, <2>1, <2>2, <2>3 DEF ParseInv, TypeOK, outcome
<1>10. PlaceInv'
  BY <1>2, PlaceStays DEF ParseInv
<1>11. WholeInv'
  BY <1>2, <1>7 DEF ParseInv, WholeInv
<1> QED
  BY <1>8, <1>9, <1>10, <1>11 DEF ParseInv

\* The parser starts in front of the first command; where the last datagram
\* left it decides whether it will find that.
LEMMA ReceiveKeeps ==
    ASSUME ParseInv, NEW d \in net, Receive(d)
    PROVE  ParseInv'
<1> DEFINE root == node = Root
<1>1. /\ buf = <<>> /\ status = "running" /\ received < MaxReceived /\ received' = received + 1
      /\ buf' = SubSeq(d.symbols, 1, Fits(d))
      /\ status' = IF d.symbols = <<>> THEN "exit" ELSE status
      /\ current' = [datagram |-> d, fromRoot |-> root]
      /\ called' = <<>>
      /\ UNCHANGED <<net, sent, clientSeq, node, outcome>>
  BY DEF Receive, Fits
<1>2. IsDatagram(d)
  BY DEF ParseInv, NetInv
<1>3. PICK off : Laid(d, off)
  BY <1>2 DEF IsDatagram
<1>4. /\ Fits(d) \in Nat /\ Fits(d) <= Len(d.symbols) /\ Fits(d) <= BufSize
      /\ d.symbols \in Seq(Symbols) /\ Len(d.cmds) \in Nat \ {0}
  BY <1>2, FitsNat DEF IsDatagram
<1>5. /\ buf' \in Seq(Symbols) /\ Len(buf') = Fits(d)
      /\ \A i \in 1..Fits(d) : buf'[i] = d.symbols[i]
  BY <1>1, <1>4
<1>6. TypeOK'
  <2>1. received' \in 0..MaxReceived
    BY <1>1, ControlAssumption DEF ParseInv, TypeOK
  <2>2. status' \in {"running", "exit"}
    BY <1>1
  <2>3. current'.datagram \in net' /\ current'.fromRoot \in BOOLEAN
    BY <1>1
  <2>4. called' \in Seq(Names)
    BY <1>1
  <2> QED
    BY <1>1, <1>4, <1>5, <2>1, <2>2, <2>3, <2>4 DEF ParseInv, TypeOK, outcome
<1>7. 1 \in 1..Len(d.cmds) /\ off[1 - 1] + 0 = 0 /\ 0 \in 0..Size(d.cmds[1])
      /\ 0 <= Len(NameOf[d.cmds[1]]) /\ d.cmds[1] \in Names
  <2>1. 1 \in 1..Len(d.cmds)
    BY <1>4
  <2>2. /\ d.cmds[1] \in Names /\ Size(d.cmds[1]) = Len(NameOf[d.cmds[1]]) + 3
        /\ Len(NameOf[d.cmds[1]]) \in 2..5
    BY <1>2, <1>3, <2>1, OffFacts
  <2>3. off[0] = 0
    BY <1>3 DEF Laid
  <2> QED
    BY <2>1, <2>2, <2>3
<1>8. BufAt(d, 0)'
  BY <1>4, <1>5 DEF BufAt, Fits
<1>9. /\ root => node' = SubSeq(NameOf[d.cmds[1]], 1, 0)
      /\ ~root => node' \in Nodes \ {Root}
  <2>1. SubSeq(NameOf[d.cmds[1]], 1, 0) = Root
    BY <1>7, NameFacts DEF Root
  <2>2. node' = node /\ node \in Nodes
    BY <1>1 DEF ParseInv, TypeOK
  <2> QED
    BY <2>1, <2>2
<1> HIDE DEF root
<1>10. PICK r \in BOOLEAN : r = root
  BY DEF root
<1>11. CalledAt(d, r, 0)'
  BY <1>1 DEF CalledAt
<1>12. NodeAt(d.cmds[1], 0, 1 = 1 /\ ~r)'
  BY <1>7, <1>9, <1>10 DEF NodeAt
<1>13. Placed(d, r)'
  <2>1. BufAt(d, off[1 - 1] + 0)'
    BY <1>7, <1>8
  <2>2. CalledAt(d, r, 1 - 1)'
    BY <1>11
  <2>3. At(d, r, off, 1, 0)'
    BY <1>7, <1>12, <2>1, <2>2 DEF At
  <2> QED
    BY <1>3, <2>3 DEF Placed
<1>14. PlaceInv'
  <2>1. d = current'.datagram /\ r = current'.fromRoot
    BY <1>1, <1>10
  <2> QED
    BY <1>13, <2>1 DEF PlaceInv
<1>15. WholeInv'
  <2> SUFFICES ASSUME \A x \in net : x.whole /\ Len(x.symbols) <= BufSize
               PROVE  d.symbols # <<>>
    BY <1>1 DEF WholeInv
  <2>1. Len(d.symbols) = off[Len(d.cmds)]
    BY <1>3 DEF Laid
  <2>2. off[0] = 0 /\ off[0] < off[Len(d.cmds)]
    <3>1. 0 \in 0..Len(d.cmds) /\ Len(d.cmds) \in 0..Len(d.cmds) /\ 0 < Len(d.cmds)
      BY <1>4
    <3> QED
      BY <1>2, <1>3, <3>1, OffGrows DEF Laid
  <2> QED
    BY <2>1, <2>2
<1> QED
  BY <1>1, <1>6, <1>14, <1>15 DEF ParseInv, NetInv

\* What the parser leaves behind has its type.
LEMMA ParseTypes ==
    ASSUME ParseInv, ParseStep
    PROVE  TypeOK'
<1>1. UNCHANGED <<network, current>>
  BY DEF ParseStep, Walk, EqualsWithoutCommand, CallEmpty, Unterminated, CallMove, CallCtrl, WithArgs
<1>2. TypeOK /\ Parsing /\ buf \in Seq(Symbols) /\ buf # <<>> /\ Len(buf) <= BufSize /\ called \in Seq(Names)
  BY DEF ParseStep, Walk, EqualsWithoutCommand, CallEmpty, Unterminated, CallMove, CallCtrl, WithArgs,
         AtCommand, Parsing, ParseInv, TypeOK
<1>3. BufSize \in Nat /\ Root \in Nodes
  BY ControlAssumption, NodeFacts
<1>4. Tail(buf) \in Seq(Symbols) /\ Len(Tail(buf)) <= BufSize
  BY <1>2, <1>3
\* What a step must keep, once the rest is seen to be unchanged
<1>5. ASSUME status' \in {"running", "exit"}, buf' \in Seq(Symbols), Len(buf') <= BufSize,
             node' \in Nodes, called' \in Seq(Names), seq_num' \in SeqNums,
             applied' \in Seq(Moves \X SeqNums), configs' \in Nat
      PROVE  TypeOK'
  BY <1>1, <1>2, <1>5 DEF TypeOK, network
<1>6. CASE Walk
  BY <1>2, <1>3, <1>4, <1>5, <1>6 DEF Walk, TypeOK, outcome
<1>7. CASE EqualsWithoutCommand
  BY <1>2, <1>3, <1>4, <1>5, <1>7 DEF EqualsWithoutCommand, TypeOK, outcome
<1>8. CASE CallEmpty
  <2>1. CommandAt(node) \in Names
    BY <1>8, CommandHere DEF CallEmpty, Empties
  <2>2. called' \in Seq(Names)
    BY <1>2, <1>8, <2>1 DEF CallEmpty
  <2> QED
    BY <1>2, <1>3, <1>4, <1>5, <1>8, <2>2 DEF CallEmpty, AtCommand, TypeOK, outcome
<1>9. CASE Unterminated
  BY <1>2, <1>3, <1>5, <1>9 DEF Unterminated, AtCommand, TypeOK, outcome
<1>10. ASSUME NEW C \in SUBSET Names, WithArgs(C)
       PROVE  /\ buf' \in Seq(Symbols) /\ Len(buf') <= BufSize /\ node' = Root /\ status' = status
              /\ CommandAt(node) \in C /\ called' \in Seq(Names)
  <2>1. AtCommand(C) /\ CommandAt(node) \in C
    BY <1>10, CommandHere DEF WithArgs
  <2>2. PICK d, root : d = current.datagram /\ root = current.fromRoot
    OBVIOUS
  <2>3. PICK off, k : AtEquals(d, root, off, k)
    BY <2>1, <2>2, CommandHere
  <2>4. EndOfArgs = 3 /\ Len(buf) >= 3
    BY <1>10, <2>1, <2>3, ArgsEnd DEF WithArgs, AtCommand
  <2>5. buf' = SubSeq(buf, 3, Len(buf)) /\ Len(buf) \in Nat
    BY <1>2, <1>10, <2>4 DEF WithArgs, AfterArgs
  <2>6. buf' \in Seq(Symbols) /\ Len(buf') <= BufSize
    BY <1>2, <1>3, <2>4, <2>5
  <2> QED
    BY <1>2, <1>10, <2>1, <2>6 DEF WithArgs, AtCommand
<1>11. CASE CallMove
  <2>1. Moves \in SUBSET Names
    BY DEF Moves, Names, NameOf
  <2>2. /\ buf' \in Seq(Symbols) /\ Len(buf') <= BufSize /\ node' = Root /\ status' = status
        /\ CommandAt(node) \in Moves /\ called' \in Seq(Names)
    BY <1>10, <1>11, <2>1 DEF CallMove
  <2>3. PICK n \in ReadSeq : \/ /\ applied' = Append(applied, <<CommandAt(node), n>>)
                                /\ seq_num' = n
                             \/ UNCHANGED <<applied, seq_num>>
    BY <1>11 DEF CallMove
  <2>4. n \in SeqNums
    BY DEF ReadSeq
  <2>5. applied' \in Seq(Moves \X SeqNums) /\ seq_num' \in SeqNums
    <3> DEFINE moved == <<CommandAt(node), n>>
               Log == Moves \X SeqNums
    <3>1. moved \in Log
      BY <2>2, <2>4
    <3>2. applied \in Seq(Log) /\ seq_num \in SeqNums
      BY <1>2 DEF TypeOK
    <3>3. \/ applied' = Append(applied, moved) /\ seq_num' = n
          \/ applied' = applied /\ seq_num' = seq_num
      BY <2>3
    <3> HIDE DEF moved, Log
    <3>4. applied' \in Seq(Log) /\ seq_num' \in SeqNums
      BY <2>4, <3>1, <3>2, <3>3
    <3> QED
      BY <3>4 DEF Log
  <2>6. configs' = configs
    BY <1>11 DEF CallMove
  <2> QED
    BY <1>2, <1>3, <1>5, <2>2, <2>5, <2>6 DEF TypeOK
<1>12. CASE CallCtrl
  <2>1. {"CTRL"} \in SUBSET Names
    BY DEF Names, NameOf
  <2>2. /\ buf' \in Seq(Symbols) /\ Len(buf') <= BufSize /\ node' = Root /\ status' = status
        /\ called' \in Seq(Names)
    BY <1>10, <1>12, <2>1 DEF CallCtrl
  <2>3. configs' \in {configs, configs + 1} /\ UNCHANGED <<seq_num, applied>>
    BY <1>12 DEF CallCtrl
  <2> QED
    BY <1>2, <1>3, <1>5, <2>2, <2>3 DEF TypeOK
<1> QED
  BY <1>6, <1>7, <1>8, <1>9, <1>11, <1>12 DEF ParseStep

\* Only what was cut can end in front of the CR.
LEMMA UnterminatedIsCut ==
    ASSUME ParseInv, Unterminated
    PROVE  \E d \in net : ~(d.whole /\ Len(d.symbols) <= BufSize)
<1>1. PICK d, root : d = current.datagram /\ root = current.fromRoot
  OBVIOUS
<1>2. /\ AtCommand(Moves \cup {"CTRL"}) /\ CrPositions = {}
      /\ Moves \cup {"CTRL"} \in SUBSET Names
  BY DEF Unterminated, Moves, Names, NameOf
<1>3. d \in net /\ IsDatagram(d)
  BY <1>1, <1>2, CommandHere
<1>4. PICK off, k : AtEquals(d, root, off, k)
  BY <1>1, <1>2, CommandHere
<1> SUFFICES ASSUME d.whole /\ Len(d.symbols) <= BufSize PROVE FALSE
  BY <1>3
<1> DEFINE N == Len(d.cmds)
           L == Len(NameOf[d.cmds[k]])
           n == Len(buf)
           o == off[k - 1]
<1>5. Laid(d, off) /\ k \in 1..N /\ BufAt(d, o + L)
  BY <1>4 DEF AtEquals, At
<1>6. Fits(d) = off[N] /\ n = off[N] - (o + L)
  BY <1>3, <1>5, FitsNat DEF Laid, BufAt
<1>7. /\ o \in Nat /\ L \in 2..5 /\ off[k] = o + (L + 3) /\ off[k] \in Nat /\ off[N] \in Nat
      /\ N \in Nat
  <2>1. N \in 0..N
    BY <1>3, <1>5, OffFacts
  <2> QED
    BY <1>3, <1>5, <2>1, OffFacts
<1>8. off[k] <= off[N]
  <2>1. k \in 0..N /\ N \in 0..N /\ (k = N \/ k < N)
    BY <1>5, <1>7
  <2>2. k < N => off[k] < off[N]
    BY <1>3, <1>5, <2>1, OffGrows
  <2> QED
    BY <1>7, <2>1, <2>2
<1> HIDE DEF N, L, n, o
<1>9. n >= 3
  BY <1>6, <1>7, <1>8
<1>10. buf[3] = CR /\ 3 \in DOMAIN buf
  <2>1. buf \in Seq(Symbols)
    BY DEF ParseInv, TypeOK
  <2> QED
    BY <1>4, <1>9, <2>1 DEF AtEquals, n
<1> QED
  BY <1>2, <1>10 DEF CrPositions

LEMMA ParseKeeps ==
    ASSUME ParseInv, ParseStep
    PROVE  ParseInv'
<1>1. UNCHANGED <<network, current>>
  BY DEF ParseStep, Walk, EqualsWithoutCommand, CallEmpty, Unterminated, CallMove, CallCtrl, WithArgs
<1>2. PICK d, root : d = current.datagram /\ root = current.fromRoot
  OBVIOUS
<1>3. Moves \in SUBSET Names /\ {"CTRL"} \in SUBSET Names
  BY DEF Moves, Names, NameOf
<1>4. CASE ~Unterminated
  <2>1. Placed(d, root)'
    BY <1>2, <1>3, <1>4, WalkStep, EqualsStep, EmptyStep, ArgsStep DEF ParseStep, CallMove, CallCtrl
  <2>2. status' = status
    BY <1>4 DEF ParseStep, Walk, EqualsWithoutCommand, CallEmpty, CallMove, CallCtrl, WithArgs
  <2>3. PlaceInv'
    BY <1>1, <1>2, <2>1 DEF PlaceInv
  <2>4. WholeInv'
    BY <1>1, <2>2 DEF ParseInv, WholeInv, network
  <2> QED
    BY <1>1, <2>3, <2>4, ParseTypes DEF ParseInv, NetInv, network
<1>5. CASE Unterminated
  <2>1. status' = "exit"
    BY <1>5 DEF Unterminated
  <2>2. PlaceInv'
    BY <2>1 DEF PlaceInv
  <2>3. WholeInv'
    BY <1>1, <1>5, UnterminatedIsCut DEF WholeInv, network
  <2> QED
    BY <1>1, <2>2, <2>3, ParseTypes DEF ParseInv, NetInv, network
<1> QED
  BY <1>4, <1>5

LEMMA ParseNext == ParseInv /\ [Next]_vars => ParseInv'
<1> SUFFICES ASSUME ParseInv, [Next]_vars PROVE ParseInv'
  OBVIOUS
<1>1. CASE UNCHANGED vars
  <2>1. PlaceInv'
    BY <1>1, PlaceStays DEF ParseInv, vars
  <2>2. TypeOK' /\ NetInv' /\ WholeInv'
    BY <1>1 DEF ParseInv, TypeOK, NetInv, WholeInv, vars, network, outcome
  <2> QED
    BY <2>1, <2>2 DEF ParseInv
<1>2. CASE BindFails
  <2>1. received = 0 /\ status' = "exit"
        /\ UNCHANGED <<network, buf, node, outcome, current, called>>
    BY <1>2 DEF BindFails
  <2>2. PlaceInv' /\ WholeInv'
    BY <2>1 DEF PlaceInv, WholeInv, network
  <2>3. TypeOK' /\ NetInv'
    BY <2>1 DEF ParseInv, TypeOK, NetInv, network, outcome
  <2> QED
    BY <2>2, <2>3 DEF ParseInv
<1> QED
  BY <1>1, <1>2, SendKeeps, ReceiveKeeps, ParseKeeps DEF Next

LEMMA ParseAlways == Spec => []ParseInv
BY ParseInit, ParseNext, PTL DEF Spec

-----------------------------------------------------------------------------
(* Theorems                                                                 *)

\* For any datagrams, cut anywhere, and any of them received again.
THEOREM TypeCorrect == Spec => []TypeOK
<1>1. ParseInv => TypeOK
  BY DEF ParseInv
<1> QED
  BY <1>1, ParseAlways, PTL

\* When the buffer is used up and the datagram was received whole, the parser
\* is behind its last command.
LEMMA AtTheEnd ==
    ASSUME ParseInv, status = "running", ~Idle, buf = <<>>,
           NEW d, d = current.datagram, NEW root, root = current.fromRoot,
           d.whole, Len(d.symbols) <= BufSize
    PROVE  node = Root /\ CalledAt(d, root, Len(d.cmds))
<1>1. PICK off, k, j : Laid(d, off) /\ At(d, root, off, k, j)
  BY DEF ParseInv, PlaceInv, Placed
<1>2. IsDatagram(d)
  <2>1. d # NoDatagram
    <3>1. Len(NoDatagram.cmds) = 0
      BY DEF NoDatagram, Datagram
    <3> QED
      BY <1>1, <3>1 DEF At
  <2> QED
    BY <2>1 DEF ParseInv, TypeOK, NetInv
<1> DEFINE N == Len(d.cmds)
           L == Len(NameOf[d.cmds[k]])
           o == off[k - 1]
<1>3. /\ k \in 1..N /\ j \in 0..Size(d.cmds[k]) /\ BufAt(d, o + j)
      /\ NodeAt(d.cmds[k], j, k = 1 /\ ~root)
      /\ CalledAt(d, root, IF j <= L THEN k - 1 ELSE k)
  BY <1>1 DEF At
<1>4. o + j = off[N]
  <2>1. Len(buf) = 0 /\ Fits(d) = off[N] /\ Fits(d) \in Nat
    BY <1>1, <1>2, FitsNat DEF Laid
  <2>2. o + j \in Nat /\ Len(buf) = Fits(d) - (o + j)
    BY <1>3 DEF BufAt
  <2> QED
    BY <2>1, <2>2
<1>5. /\ o \in Nat /\ L \in 2..5 /\ off[k] = o + (L + 3) /\ Size(d.cmds[k]) = L + 3
      /\ off[k] \in Nat /\ off[N] \in Nat /\ N \in Nat
  <2>1. N \in Nat /\ N \in 0..N
    BY <1>1, <1>2, OffFacts
  <2>2. off[N] \in Nat
    BY <1>1, <1>2, <2>1, OffFacts
  <2>3. /\ o \in Nat /\ L \in 2..5 /\ Size(d.cmds[k]) = L + 3
        /\ off[k] \in Nat /\ off[k] = o + Size(d.cmds[k])
    <3>1. k \in 1..Len(d.cmds) /\ Laid(d, off)
      BY <1>1, <1>3
    <3> HIDE DEF N, L, o
    <3>2. IsDatagram(d) /\ Laid(d, off)
      BY <1>2, <3>1
    <3>3. /\ Len(NameOf[d.cmds[k]]) \in 2..5
          /\ Size(d.cmds[k]) = Len(NameOf[d.cmds[k]]) + 3
          /\ off[k - 1] \in Nat /\ off[k] \in Nat
          /\ off[k] = off[k - 1] + Size(d.cmds[k])
      BY <3>1, <3>2, OffFacts
    <3> QED
      BY <3>3 DEF L, o
  <2> QED
    BY <2>1, <2>2, <2>3
<1>6. k < N => off[k] < off[N]
  <2>1. k \in 0..N /\ N \in 0..N
    BY <1>3, <1>5
  <2> QED
    BY <1>1, <1>2, <2>1, OffGrows
<1>7. k = N /\ j = L + 3
  <2> DEFINE e == off[k]
             f == off[N]
             z == Size(d.cmds[k])
  <2>1. /\ k \in 1..N /\ N \in Nat /\ j \in 0..z /\ z = L + 3 /\ L \in 2..5
        /\ o \in Nat /\ e = o + (L + 3) /\ f = o + j /\ (k < N => e < f)
    BY <1>3, <1>4, <1>5, <1>6
  <2>2. k = N => e = f
    OBVIOUS
  <2> HIDE DEF N, L, o, e, f, z
  <2>3. ~(k < N)
    BY <2>1
  <2>4. k = N
    BY <2>1, <2>3
  <2>5. o + (L + 3) = o + j /\ o \in Nat /\ L \in Nat /\ j \in Nat
    BY <2>1, <2>2, <2>4
  <2>6. j = L + 3
    BY <2>5
  <2> QED
    BY <2>4, <2>6
<1>8. ~(j <= L) /\ j # 0
  <2>1. j = L + 3 /\ L \in 2..5
    BY <1>5, <1>7
  <2> HIDE DEF L
  <2> QED
    BY <2>1
<1>9. node = Root
  <2>1. PICK c, lost : c = d.cmds[k] /\ lost = (k = 1 /\ ~root)
    OBVIOUS
  <2>2. NodeAt(c, j, lost) /\ ~(j <= Len(NameOf[c])) /\ j # 0
    BY <1>3, <1>8, <2>1
  <2> QED
    BY <2>2 DEF NodeAt
<1>10. CalledAt(d, root, N)
  <2>1. (IF j <= L THEN k - 1 ELSE k) = N
    BY <1>7, <1>8
  <2> QED
    BY <1>3, <2>1
<1> QED
  BY <1>9, <1>10

\* Every handler called is that of a command of the datagram, in order and
\* without a gap, whatever was received before; for a whole datagram all are
\* called.
THEOREM ParsesCommandsAlways == Spec => []ParsesCommands
<1>1. ASSUME ParseInv PROVE ParsesCommands
  <2> SUFFICES ASSUME status = "running"
               PROVE  /\ IsPrefixOf(called, Visible)
                      /\ buf = <<>> /\ current.datagram.whole
                            /\ Len(current.datagram.symbols) <= BufSize
                            => called = Visible
    BY DEF ParsesCommands
  <2>1. CASE Idle
    <3>1. called = <<>> /\ Visible = <<>>
      BY <2>1 DEF Idle, Visible, NoDatagram, Datagram
    <3> QED
      BY <3>1 DEF IsPrefixOf
  <2>2. CASE ~Idle
    <3>1. PICK d, root : d = current.datagram /\ root = current.fromRoot /\ Placed(d, root)
      BY <1>1, <2>2 DEF ParseInv, PlaceInv
    <3>2. PICK off, k, j : Laid(d, off) /\ At(d, root, off, k, j)
      BY <3>1 DEF Placed
    <3>3. IsDatagram(d) /\ root \in BOOLEAN
      <4>1. d # NoDatagram
        <5>1. Len(NoDatagram.cmds) = 0
          BY DEF NoDatagram, Datagram
        <5> QED
          BY <3>2, <5>1 DEF At
      <4> QED
        BY <1>1, <3>1, <4>1 DEF ParseInv, TypeOK, NetInv
    <3> DEFINE N == Len(d.cmds)
               seen == IF root THEN d.cmds ELSE Tail(d.cmds)
    <3>4. /\ seen \in Seq(Names) /\ Len(seen) = (IF root THEN N ELSE N - 1) /\ N \in Nat \ {0}
          /\ \A i \in 1..Len(seen) : seen[i] = d.cmds[IF root THEN i ELSE i + 1]
      BY <3>3 DEF IsDatagram
    <3>5. Visible = seen
      BY <3>1, <3>3, <3>4 DEF Visible, IsDatagram
    <3>6. called \in Seq(Names)
      BY <1>1 DEF ParseInv, TypeOK
    <3> HIDE DEF seen
    <3>7. ASSUME NEW done \in 0..N, CalledAt(d, root, done)
          PROVE  /\ IsPrefixOf(called, seen)
                 /\ done = N => called = seen
      <4> DEFINE n == Len(called)
                 m == Len(seen)
      <4>1. /\ n = IF root \/ done = 0 THEN done ELSE done - 1
            /\ \A i \in 1..n : called[i] = d.cmds[IF root THEN i ELSE i + 1]
            /\ n \in Nat /\ m \in Nat
        BY <3>4, <3>6, <3>7 DEF CalledAt
      <4>2. n <= m /\ (done = N => n = m)
        <5> HIDE DEF n, m, N
        <5>1. done \in Nat /\ done <= N /\ N \in Nat \ {0} /\ m = IF root THEN N ELSE N - 1
          BY <3>4, <3>7 DEF m, N
        <5> QED
          BY <4>1, <5>1
      <4>3. \A i \in 1..n : called[i] = seen[i]
        BY <3>4, <4>1, <4>2
      <4>4. /\ SubSeq(seen, 1, n) \in Seq(Names) /\ Len(SubSeq(seen, 1, n)) = n
            /\ \A i \in 1..n : SubSeq(seen, 1, n)[i] = seen[i]
        BY <3>4, <4>1, <4>2
      <4>5. called = SubSeq(seen, 1, n)
        BY <3>6, <4>3, <4>4, SeqEqual
      <4>6. done = N => called = seen
        BY <3>4, <3>6, <4>2, <4>3, SeqEqual
      <4> QED
        BY <4>2, <4>5, <4>6 DEF IsPrefixOf
    <3>8. IsPrefixOf(called, seen)
      <4>1. k \in 1..N /\ CalledAt(d, root, IF j <= Len(NameOf[d.cmds[k]]) THEN k - 1 ELSE k)
        BY <3>2 DEF At
      <4>2. k \in 0..N /\ k - 1 \in 0..N
        BY <3>4, <4>1
      <4> QED
        BY <3>7, <4>1, <4>2
    <3>9. ASSUME buf = <<>>, d.whole, Len(d.symbols) <= BufSize
          PROVE  called = seen
      <4>1. CalledAt(d, root, N) /\ N \in 0..N
        BY <1>1, <2>2, <3>1, <3>4, <3>9, AtTheEnd
      <4> QED
        BY <3>7, <4>1
    <3> QED
      BY <3>1, <3>5, <3>8, <3>9
  <2> QED
    BY <2>1, <2>2
<1> QED
  BY <1>1, ParseAlways, PTL

\* After whole datagrams that fit, the parser runs and is back at the root.
LEMMA WholeIsSafe ==
    ASSUME ParseInv PROVE WholeDatagramsAreSafe
<1> SUFFICES ASSUME \A d \in net : d.whole /\ Len(d.symbols) <= BufSize
             PROVE  /\ received > 0 => status = "running"
                    /\ status = "running" /\ buf = <<>> => node = Root
  BY DEF WholeDatagramsAreSafe
<1>1. received > 0 => status = "running"
  BY DEF ParseInv, WholeInv
<1>2. ASSUME status = "running", buf = <<>> PROVE node = Root
  <2>1. CASE Idle
    BY <2>1 DEF Idle
  <2>2. CASE ~Idle
    <3>1. PICK d, root : d = current.datagram /\ root = current.fromRoot /\ Placed(d, root)
      BY <1>2, <2>2 DEF ParseInv, PlaceInv
    <3>2. d \in net
      <4>1. Len(NoDatagram.cmds) = 0
        BY DEF NoDatagram, Datagram
      <4>2. d # NoDatagram
        BY <3>1, <4>1 DEF Placed, At
      <4> QED
        BY <3>1, <4>2 DEF ParseInv, TypeOK
    <3> QED
      BY <1>1, <1>2, <2>2, <3>1, <3>2, AtTheEnd
  <2> QED
    BY <2>1, <2>2
<1> QED
  BY <1>1, <1>2

\* No sequence of whole datagrams that fit ends the process, and none leaves
\* the walk where the next datagram is misread.
THEOREM WholeDatagramsAreSafeAlways == Spec => []WholeDatagramsAreSafe
<1>1. ParseInv => WholeDatagramsAreSafe
  BY WholeIsSafe
<1> QED
  BY <1>1, ParseAlways, PTL

-----------------------------------------------------------------------------
(* What is asked for: the parser hands every AT*CTRL=...,4 on               *)

\* Where the arguments of an AT*CTRL=...,4 stand in a datagram
Wanted(d) ==
    {i \in 3..Len(d.symbols) : d.symbols[i][1] = "args4" /\ d.symbols[i - 2] = NameOf.CTRL[3]}

\* A datagram that nobody cut, with numbers for the arguments of AT*CTRL
Plain(d) ==
    /\ d.whole /\ Len(d.symbols) <= BufSize
    /\ \A i \in 3..Len(d.symbols) :
          d.symbols[i - 2] = NameOf.CTRL[3] => d.symbols[i][1] # "text"

\* How much of the datagram was read, and the requests behind that
Read == Fits(current.datagram) - Len(buf)
Waiting == {i \in Wanted(current.datagram) : i > Read}

\* The parser never stands behind AT*CTRL= (the handler reads on from there),
\* so that it does not walk through a request.
BehindCtrl ==
    /\ Read >= 2
    /\ current.datagram.symbols[Read] = EQ
    /\ current.datagram.symbols[Read - 1] = NameOf.CTRL[3]

LEMMA CtrlName ==
    /\ "CTRL" \in Names /\ Len(NameOf["CTRL"]) = 3 /\ NameOf.CTRL = NameOf["CTRL"]
    /\ NameOf.CTRL[3] = Symbol("TRL")
    /\ \A c \in Names : NameOf[c][Len(NameOf[c])] = NameOf.CTRL[3] => c = "CTRL"
<1>1. /\ "CTRL" \in Names /\ NameOf["CTRL"] = <<AT, Symbol("C"), Symbol("TRL")>>
      /\ NameOf.CTRL = NameOf["CTRL"]
  BY DEF NameOf, Names
<1>2. ASSUME NEW c \in Names, c # "CTRL"
      PROVE  NameOf[c][Len(NameOf[c])] # Symbol("TRL")
  <2>1. LastOf[c] # "TRL"
    BY <1>2, NameIs DEF LastOf
  <2> QED
    BY <2>1, NameForms DEF Symbol
<1>3. Len(NameOf["CTRL"]) = 3 /\ NameOf["CTRL"][3] = Symbol("TRL")
  BY <1>1
<1> QED
  BY <1>1, <1>2, <1>3

LEMMA ArgsOnly ==
    /\ EQ[1] # "args4" /\ CR[1] # "args4"
    /\ \A c \in Names : \A i \in 1..Len(NameOf[c]) : NameOf[c][i][1] # "args4"
<1>1. /\ EQ[1] # "args4" /\ CR[1] # "args4" /\ AT[1] # "args4"
      /\ \A x \in Texts : Symbol(x)[1] # "args4"
  BY DEF EQ, CR, AT, Symbol, Texts
<1>2. ASSUME NEW c \in Names, NEW i \in 1..Len(NameOf[c]) PROVE NameOf[c][i][1] # "args4"
  <2>1. NameOf[c][i] = AT \/ NameOf[c][i] \in NameSymbols
    BY NameForms
  <2> QED
    BY <1>1, <2>1 DEF NameSymbols
<1> QED
  BY <1>1, <1>2

\* Symbol s of a datagram is symbol i of its command k.
SymbolAt(d, off, k, i, s) ==
    /\ IsDatagram(d) /\ Laid(d, off)
    /\ k \in 1..Len(d.cmds) /\ i \in 1..Size(d.cmds[k])
    /\ s = off[k - 1] + i /\ s <= Len(d.symbols)

\* Of the symbols of a command only the arguments of AT*CTRL can be a request.
LEMMA WantedAt ==
    ASSUME NEW d, NEW off, NEW k, NEW i, NEW s, SymbolAt(d, off, k, i, s)
    PROVE  /\ s \in Wanted(d) => i = Len(NameOf[d.cmds[k]]) + 2 /\ d.cmds[k] = "CTRL"
           /\ i = Len(NameOf[d.cmds[k]]) + 2 /\ d.cmds[k] = "CTRL" =>
                /\ s \in 3..Len(d.symbols)
                /\ d.symbols[s - 1] = EQ
                /\ d.symbols[s - 2] = NameOf.CTRL[3]
<1> DEFINE c == d.cmds[k]
           L == Len(NameOf[c])
           o == off[k - 1]
           n == Len(d.symbols)
<1>0. /\ IsDatagram(d) /\ Laid(d, off) /\ k \in 1..Len(d.cmds) /\ i \in 1..Size(c)
      /\ s = o + i /\ s <= n
  BY DEF SymbolAt
<1>1. c \in Names /\ L \in 2..5 /\ Size(c) = L + 3 /\ o \in Nat /\ n \in Nat /\ o + i <= n
  BY <1>0, OffFacts
<1>2. \A h \in 1..Size(c) : o + h <= n => Piece(c, h, d.symbols[o + h])
  BY <1>0 DEF Laid
<1>3. Piece(c, i, d.symbols[o + i])
  BY <1>0, <1>1, <1>2
<1>4. i \in Nat /\ i >= 1 /\ i <= L + 3
  BY <1>0, <1>1
<1>8. s = o + i
  BY <1>0
<1> HIDE DEF c, L, o, n
<1>5. ASSUME i = L + 2
      PROVE  /\ o + i \in 3..n /\ d.symbols[(o + i) - 1] = EQ
             /\ d.symbols[(o + i) - 2] = NameOf[c][L]
  <2>1. /\ L \in 1..Size(c) /\ L + 1 \in 1..Size(c)
        /\ o + L <= n /\ o + (L + 1) <= n
        /\ (o + i) - 2 = o + L /\ (o + i) - 1 = o + (L + 1) /\ o + i \in 3..n
    BY <1>1, <1>4, <1>5
  <2>2. Piece(c, L, d.symbols[o + L]) /\ Piece(c, L + 1, d.symbols[o + (L + 1)])
    BY <1>2, <2>1
  <2>3. d.symbols[o + L] = NameOf[c][L] /\ d.symbols[o + (L + 1)] = EQ
    BY <1>1, <2>2 DEF Piece, L
  <2> QED
    BY <2>1, <2>3
<1>6. ASSUME o + i \in Wanted(d) PROVE i = L + 2 /\ c = "CTRL"
  <2>1. d.symbols[o + i][1] = "args4" /\ d.symbols[(o + i) - 2] = NameOf.CTRL[3]
    <3>1. s \in Wanted(d) /\ s = o + i
      BY <1>6, <1>8
    <3>2. d.symbols[s][1] = "args4" /\ d.symbols[s - 2] = NameOf.CTRL[3]
      BY <3>1 DEF Wanted
    <3> QED
      BY <3>1, <3>2
  <2>2. ~(i \in 1..L)
    <3>1. i \in 1..L => d.symbols[o + i] = NameOf[c][i]
      BY <1>3 DEF Piece, L
    <3> QED
      BY <1>1, <2>1, <3>1, ArgsOnly DEF L
  <2>3. i # L + 1 /\ i # L + 3
    BY <1>3, <2>1, ArgsOnly DEF Piece, L
  <2>4. i = L + 2
    BY <1>1, <1>4, <2>2, <2>3
  <2> QED
    BY <1>1, <1>5, <2>1, <2>4, CtrlName DEF L
<1>7. c = "CTRL" => NameOf[c][L] = NameOf.CTRL[3]
  BY CtrlName DEF L
<1> QED
  BY <1>8, <1>5, <1>6, <1>7 DEF c, L, o, n

\* What was read is where the parser stands.
LEMMA ReadIs ==
    ASSUME NEW d, d = current.datagram, IsDatagram(d), NEW p, BufAt(d, p)
    PROVE  Read = p /\ p \in Nat
<1> DEFINE f == Fits(d)
           n == Len(buf)
<1>1. f \in Nat /\ p \in Nat /\ n = f - p
  BY FitsNat DEF BufAt
<1>2. Read = f - n
  BY DEF Read
<1> HIDE DEF f, n
<1> QED
  BY <1>1, <1>2

\* A step over symbols that are no request leaves what is waiting.
LEMMA PassedOver ==
    ASSUME NEW d, d = current.datagram, current' = current, IsDatagram(d),
           NEW p, BufAt(d, p), NEW m \in {1, 2}, BufAt(d, p + m)'
    PROVE  /\ Read' = p + m
           /\ Waiting' = {i \in Wanted(d) : i > p + m}
           /\ Waiting = {i \in Wanted(d) : i > p}
           /\ Waiting = Waiting' \cup (Wanted(d) \cap {p + 1, p + m})
           /\ \A i \in Waiting' : i > p + m
<1>1. Read = p /\ p \in Nat
  BY ReadIs
<1>2. Read' = p + m
  <2> DEFINE f == Fits(d)
             n == Len(buf')
  <2>1. f \in Nat /\ n = f - (p + m)
    BY FitsNat DEF BufAt, Fits
  <2>2. Read' = f - n
    BY DEF Read, Fits
  <2> HIDE DEF f, n
  <2> QED
    BY <1>1, <2>1, <2>2
<1>3. Waiting' = {i \in Wanted(d) : i > p + m} /\ Waiting = {i \in Wanted(d) : i > p}
  BY <1>1, <1>2 DEF Waiting, Wanted
<1>4. \A i \in Wanted(d) : i \in Nat
  BY DEF Wanted, IsDatagram
<1>5. \A i \in Nat : i > p <=> i > p + m \/ i \in {p + 1, p + m}
  BY <1>1
<1>6. Waiting = Waiting' \cup (Wanted(d) \cap {p + 1, p + m})
  BY <1>1, <1>3, <1>4, <1>5
<1> QED
  BY <1>2, <1>3, <1>6

\* The walk does not pass a request: before it would stand AT*CTRL=.
LEMMA WalkAsks ==
    ASSUME ParseInv, Walk, ~BehindCtrl
    PROVE  Waiting' = Waiting /\ ~BehindCtrl'
<1>1. /\ Parsing /\ buf \in Seq(Symbols) /\ buf # <<>> /\ current' = current
      /\ Head(buf) # EQ /\ buf' = Tail(buf)
  BY DEF Walk, Parsing, ParseInv, TypeOK
<1>2. PICK d, root : d = current.datagram /\ root = current.fromRoot
  OBVIOUS
<1>3. IsDatagram(d)
  BY <1>1, <1>2, Here
<1>4. PICK off, k, j :
        /\ Laid(d, off) /\ At(d, root, off, k, j)
        /\ j < Size(d.cmds[k])
  BY <1>1, <1>2, Here
<1> DEFINE c == d.cmds[k]
           o == off[k - 1]
           L == Len(NameOf[c])
           p == o + j
<1>5. k \in 1..Len(d.cmds) /\ j \in 0..Size(c) /\ j < Size(c) /\ BufAt(d, p)
  BY <1>4 DEF At
<1>6. /\ c \in Names /\ Size(c) = L + 3 /\ L \in 2..5 /\ o \in Nat
  BY <1>3, <1>4, <1>5, OffFacts
<1>7. /\ p \in Nat /\ Len(buf) \in Nat /\ Len(buf) >= 1 /\ Fits(d) \in Nat /\ Fits(d) <= Len(d.symbols)
      /\ Len(buf) = Fits(d) - p /\ buf[1] = d.symbols[p + 1] /\ Len(d.symbols) \in Nat
  <2>1. Len(buf) \in Nat /\ Len(buf) >= 1 /\ 1 \in 1..Len(buf) /\ Len(d.symbols) \in Nat
    BY <1>1, <1>3 DEF IsDatagram
  <2> QED
    BY <1>3, <1>5, <2>1, FitsNat DEF BufAt
<1>8. j + 1 \in 1..Size(c) /\ o + (j + 1) <= Len(d.symbols) /\ p + 1 = o + (j + 1)
  <2> DEFINE n == Len(buf)
             f == Fits(d)
             z == Size(c)
             t == Len(d.symbols)
  <2>1. /\ j \in 0..z /\ z = L + 3 /\ L \in 2..5 /\ j < z /\ o \in Nat
        /\ n \in Nat /\ n >= 1 /\ f \in Nat /\ f <= t /\ n = f - (o + j) /\ t \in Nat
    BY <1>5, <1>6, <1>7
  <2> HIDE DEF n, f, z, t, o, L
  <2>2. j + 1 \in 1..z /\ o + (j + 1) <= t /\ (o + j) + 1 = o + (j + 1)
    BY <2>1
  <2> QED
    BY <2>2 DEF z, t
<1>9. BufAt(d, p + 1)'
  BY <1>1, <1>3, <1>5, TailIs, FitsNat, Advance
<1>10. Read = p
  BY <1>2, <1>3, <1>5, ReadIs
<1>11. p + 1 \notin Wanted(d)
  <2> SUFFICES ASSUME p + 1 \in Wanted(d) PROVE FALSE
    OBVIOUS
  <2>1. j + 1 = L + 2 /\ c = "CTRL"
    <3>1. PICK i, s : i = j + 1 /\ s = o + i
      OBVIOUS
    <3>2. SymbolAt(d, off, k, i, s) /\ s \in Wanted(d)
      BY <1>3, <1>4, <1>5, <1>8, <3>1 DEF SymbolAt
    <3> QED
      BY <3>1, <3>2, WantedAt
  <2>4. PICK i : i = j + 1
    OBVIOUS
  <2>2. /\ o + i \in 3..Len(d.symbols)
        /\ d.symbols[(o + i) - 1] = EQ /\ d.symbols[(o + i) - 2] = NameOf.CTRL[3]
    <3>0. PICK s : s = off[k - 1] + i
      OBVIOUS
    <3>1. i = Len(NameOf[d.cmds[k]]) + 2 /\ d.cmds[k] = "CTRL"
      BY <2>1, <2>4
    <3>2. SymbolAt(d, off, k, i, s)
      BY <1>3, <1>4, <1>5, <1>8, <2>4, <3>0 DEF SymbolAt
    <3>3. /\ s \in 3..Len(d.symbols)
          /\ d.symbols[s - 1] = EQ
          /\ d.symbols[s - 2] = NameOf.CTRL[3]
      BY <3>1, <3>2, WantedAt
    <3> QED
      BY <3>0, <3>3
  <2>3. p >= 2 /\ (o + i) - 1 = p /\ (o + i) - 2 = p - 1
    <3> DEFINE t == Len(d.symbols)
    <3>1. j \in Nat /\ o \in Nat /\ i = j + 1 /\ o + i \in 3..t /\ t \in Nat
      BY <1>5, <1>6, <1>7, <2>2, <2>4
    <3> HIDE DEF L, c, o, t
    <3> QED
      BY <3>1
  <2> QED
    BY <1>2, <1>10, <2>2, <2>3 DEF BehindCtrl
<1> HIDE DEF c, o, L, p
<1>12. Read' = p + 1 /\ Waiting' = Waiting
  <2>1. 1 \in {1, 2} /\ {p + 1, p + 1} = {p + 1}
    OBVIOUS
  <2>2. /\ Read' = p + 1
        /\ Waiting = Waiting' \cup (Wanted(d) \cap {p + 1, p + 1})
    BY <1>1, <1>2, <1>3, <1>5, <1>9, <2>1, PassedOver
  <2> QED
    BY <1>11, <2>1, <2>2
<1>13. d.symbols[p + 1] # EQ
  BY <1>1, <1>7, TailIs
<1> QED
  BY <1>1, <1>2, <1>12, <1>13 DEF BehindCtrl

\* In a datagram that the parser entered at the root, every equals sign is
\* behind the name of a command.
LEMMA NoLostEquals ==
    ASSUME ParseInv, EqualsWithoutCommand, current.fromRoot
    PROVE  FALSE
<1>1. Parsing /\ Head(buf) = EQ /\ ~HasHandler(node)
  BY DEF EqualsWithoutCommand
<1>2. PICK d, root : d = current.datagram /\ root = current.fromRoot
  OBVIOUS
<1>3. IsDatagram(d)
  BY <1>1, <1>2, Here
<1>4. PICK off, k : AtEquals(d, root, off, k)
  BY <1>1, <1>2, HereEquals
<1>5. d.cmds[k] \in Names
  BY <1>3, <1>4, OffFacts DEF AtEquals, At
<1> QED
  BY <1>1, <1>2, <1>4, <1>5, HandlerFacts DEF AtEquals

\* The handlers that do not look at their arguments are not that of AT*CTRL.
LEMMA EmptyAsks ==
    ASSUME ParseInv, CallEmpty
    PROVE  Waiting' = Waiting /\ ~BehindCtrl'
<1>1. /\ AtCommand(Empties) /\ Parsing /\ buf \in Seq(Symbols) /\ buf # <<>> /\ current' = current
      /\ buf' = Tail(buf) /\ Empties \in SUBSET Names
  BY DEF CallEmpty, AtCommand, Parsing, ParseInv, TypeOK, Empties
<1>2. PICK d, root : d = current.datagram /\ root = current.fromRoot
  OBVIOUS
<1>3. PICK off, k : AtEquals(d, root, off, k) /\ CommandAt(node) = d.cmds[k]
  BY <1>1, <1>2, CommandHere
<1>4. IsDatagram(d) /\ d.cmds[k] \in Empties
  BY <1>1, <1>2, <1>3, CommandHere
<1> DEFINE c == d.cmds[k]
           o == off[k - 1]
           L == Len(NameOf[c])
           p == o + L
<1>5. /\ Laid(d, off) /\ k \in 1..Len(d.cmds) /\ BufAt(d, p)
      /\ c \in Names /\ Size(c) = L + 3 /\ L \in 2..5 /\ o \in Nat
  BY <1>3, <1>4, OffFacts DEF AtEquals, At
<1>6. Read = p /\ p \in Nat
  BY <1>2, <1>4, <1>5, ReadIs
<1>7. BufAt(d, p + 1)'
  BY <1>1, <1>4, <1>5, TailIs, FitsNat, Advance
<1>8. p + 1 \notin Wanted(d) /\ d.symbols[p] # NameOf.CTRL[3]
  <2>1. /\ Fits(d) \in Nat /\ Fits(d) <= Len(d.symbols) /\ Len(d.symbols) \in Nat
        /\ Len(buf) \in Nat /\ Len(buf) >= 1 /\ Len(buf) = Fits(d) - p
    BY <1>1, <1>4, <1>5, FitsNat DEF IsDatagram, BufAt
  <2>2. /\ L \in 1..Size(c) /\ o + L <= Len(d.symbols)
        /\ L + 1 \in 1..Size(c) /\ o + (L + 1) <= Len(d.symbols) /\ p + 1 = o + (L + 1)
    <3> DEFINE n == Len(buf)
               f == Fits(d)
               z == Size(c)
               t == Len(d.symbols)
    <3>1. /\ z = L + 3 /\ L \in 2..5 /\ o \in Nat
          /\ n \in Nat /\ n >= 1 /\ f \in Nat /\ f <= t /\ n = f - (o + L) /\ t \in Nat
      BY <1>5, <2>1
    <3> HIDE DEF n, f, z, t, o, L
    <3>2. /\ L \in 1..z /\ o + L <= t
          /\ L + 1 \in 1..z /\ o + (L + 1) <= t /\ (o + L) + 1 = o + (L + 1)
      BY <3>1
    <3> QED
      BY <3>2 DEF z, t
  <2>3. o + (L + 1) \notin Wanted(d)
    <3>1. PICK i, s : i = L + 1 /\ s = o + i
      OBVIOUS
    <3>2. i # L + 2
      BY <1>5, <3>1
    <3>3. SymbolAt(d, off, k, i, s)
      BY <1>4, <1>5, <2>2, <3>1 DEF SymbolAt
    <3> QED
      BY <3>1, <3>2, <3>3, WantedAt
  <2>4. d.symbols[o + L] = NameOf[c][L]
    <3>1. Piece(c, L, d.symbols[o + L])
      BY <1>5, <2>2 DEF Laid
    <3>2. L <= L
      BY <1>5
    <3> QED
      BY <3>1, <3>2 DEF Piece
  <2>5. c # "CTRL"
    BY <1>4 DEF Empties
  <2>6. NameOf[c][L] # NameOf.CTRL[3]
    BY <1>5, <2>5, CtrlName
  <2> QED
    BY <2>2, <2>3, <2>4, <2>6
<1> HIDE DEF c, o, L, p
<1>9. Read' = p + 1 /\ Waiting' = Waiting
  <2>1. 1 \in {1, 2} /\ {p + 1, p + 1} = {p + 1}
    OBVIOUS
  <2>2. /\ Read' = p + 1
        /\ Waiting = Waiting' \cup (Wanted(d) \cap {p + 1, p + 1})
    BY <1>1, <1>2, <1>4, <1>5, <1>7, <2>1, PassedOver
  <2> QED
    BY <1>8, <2>1, <2>2
<1>10. (p + 1) - 1 = p
  BY <1>6
<1> QED
  BY <1>1, <1>2, <1>8, <1>9, <1>10 DEF BehindCtrl

\* A handler that reads its arguments takes a request that is there out of what
\* is waiting, and nothing else.
LEMMA ArgsAsk ==
    ASSUME ParseInv, NEW C \in SUBSET Names, WithArgs(C)
    PROVE  /\ ~BehindCtrl'
           /\ IF CommandAt(node) = "CTRL" /\ Args[1] = "args4"
              THEN \E i : i \notin Waiting' /\ Waiting = Waiting' \cup {i}
              ELSE Waiting' = Waiting
           /\ CommandAt(node) = "CTRL" /\ Plain(current.datagram) => Args[1] # "text"
<1>1. /\ AtCommand(C) /\ Parsing /\ Head(buf) = EQ /\ current' = current /\ CrPositions # {}
      /\ buf' = AfterArgs /\ buf \in Seq(Symbols) /\ Len(buf) \in Nat
  BY DEF WithArgs, AtCommand, Parsing, ParseInv, TypeOK
<1>2. PICK d, root : d = current.datagram /\ root = current.fromRoot
  OBVIOUS
<1>3. PICK off, k : AtEquals(d, root, off, k) /\ CommandAt(node) = d.cmds[k]
  BY <1>1, <1>2, CommandHere
<1>4. IsDatagram(d)
  BY <1>1, <1>2, CommandHere
<1>5. EndOfArgs = 3 /\ Len(buf) >= 3
  BY <1>1, <1>3, ArgsEnd
<1> DEFINE c == d.cmds[k]
           o == off[k - 1]
           L == Len(NameOf[c])
           p == o + L
<1>6. /\ Laid(d, off) /\ k \in 1..Len(d.cmds) /\ BufAt(d, p)
      /\ c \in Names /\ Size(c) = L + 3 /\ L \in 2..5 /\ o \in Nat
  BY <1>3, <1>4, OffFacts DEF AtEquals, At
<1>7. BufAt(d, p + 2)'
  <2>1. buf' = SubSeq(buf, 2 + 1, Len(buf)) /\ 2 \in 1..Len(buf)
    BY <1>1, <1>5 DEF AfterArgs
  <2> QED
    BY <1>1, <1>4, <1>6, <2>1, FitsNat, Advance
<1>8. Args = d.symbols[p + 2] /\ Args \in ArgKinds \X SeqNums
  <2>1. 2 \in 1..Len(buf) /\ Len(buf) >= 2
    BY <1>1, <1>5
  <2> QED
    BY <1>3, <1>6, <2>1 DEF BufAt, Args, AtEquals
<1>9. /\ L + 1 \in 1..Size(c) /\ o + (L + 1) <= Len(d.symbols) /\ p + 1 = o + (L + 1)
      /\ L + 2 \in 1..Size(c) /\ o + (L + 2) <= Len(d.symbols) /\ p + 2 = o + (L + 2)
  <2> DEFINE n == Len(buf)
             f == Fits(d)
             z == Size(c)
             t == Len(d.symbols)
  <2>1. /\ z = L + 3 /\ L \in 2..5 /\ o \in Nat
        /\ n \in Nat /\ n >= 3 /\ f \in Nat /\ f <= t /\ n = f - (o + L) /\ t \in Nat
    BY <1>1, <1>4, <1>5, <1>6, FitsNat DEF IsDatagram, BufAt
  <2> HIDE DEF n, f, z, t, o, L
  <2>2. /\ L + 1 \in 1..z /\ o + (L + 1) <= t /\ (o + L) + 1 = o + (L + 1)
        /\ L + 2 \in 1..z /\ o + (L + 2) <= t /\ (o + L) + 2 = o + (L + 2)
    BY <2>1
  <2> QED
    BY <2>2 DEF z, t
<1>10. p + 1 \notin Wanted(d)
  <2>1. PICK i, s : i = L + 1 /\ s = o + i
    OBVIOUS
  <2>2. i # L + 2
    BY <1>6, <2>1
  <2>3. SymbolAt(d, off, k, i, s)
    BY <1>4, <1>6, <1>9, <2>1 DEF SymbolAt
  <2>4. s \notin Wanted(d)
    BY <2>2, <2>3, WantedAt
  <2> QED
    BY <1>9, <2>1, <2>4
<1>11. /\ p + 2 \in Wanted(d) <=> c = "CTRL" /\ Args[1] = "args4"
       /\ c = "CTRL" => p + 2 \in 3..Len(d.symbols) /\ d.symbols[(p + 2) - 2] = NameOf.CTRL[3]
  <2>1. PICK i, s : i = L + 2 /\ s = off[k - 1] + i
    OBVIOUS
  <2>2. SymbolAt(d, off, k, i, s)
    BY <1>4, <1>6, <1>9, <2>1 DEF SymbolAt
  <2>3. /\ s \in Wanted(d) => c = "CTRL"
        /\ c = "CTRL" => /\ s \in 3..Len(d.symbols)
                         /\ d.symbols[s - 2] = NameOf.CTRL[3]
    BY <2>1, <2>2, WantedAt
  <2>4. s = p + 2 /\ d.symbols[s] = Args
    BY <1>8, <1>9, <2>1
  <2> HIDE DEF c, o, L, p
  <2>5. s \in Wanted(d) <=> c = "CTRL" /\ Args[1] = "args4"
    BY <2>3, <2>4 DEF Wanted
  <2> QED
    BY <2>3, <2>4, <2>5
<1>12. CommandAt(node) = c
  BY <1>3
<1> HIDE DEF c, o, L, p
<1>13. /\ Read' = p + 2
       /\ Waiting = Waiting' \cup (Wanted(d) \cap {p + 1, p + 2})
       /\ p + 2 \notin Waiting'
  <2>1. 2 \in {1, 2}
    OBVIOUS
  <2>2. /\ Read' = p + 2
        /\ Waiting = Waiting' \cup (Wanted(d) \cap {p + 1, p + 2})
        /\ \A i \in Waiting' : i > p + 2
    BY <1>1, <1>2, <1>4, <1>6, <1>7, <2>1, PassedOver
  <2>3. p \in Nat /\ ~(p + 2 > p + 2)
    BY <1>6 DEF BufAt
  <2> QED
    BY <2>2, <2>3
<1>14. ~BehindCtrl'
  <2>1. d.symbols[p + 2] # EQ
    BY <1>8, SymbolsDiffer
  <2> QED
    BY <1>1, <1>2, <1>13, <2>1 DEF BehindCtrl
<1>15. CASE c = "CTRL" /\ Args[1] = "args4"
  <2>1. Waiting = Waiting' \cup {p + 2}
    BY <1>10, <1>11, <1>13, <1>15
  <2>2. Plain(d) => Args[1] # "text"
    BY <1>15
  <2> QED
    BY <1>2, <1>12, <1>13, <1>14, <1>15, <2>1, <2>2
<1>16. CASE ~(c = "CTRL" /\ Args[1] = "args4")
  <2>1. Waiting' = Waiting
    BY <1>10, <1>11, <1>13, <1>16
  <2>2. c = "CTRL" /\ Plain(d) => Args[1] # "text"
    <3>1. PICK s : s = p + 2
      OBVIOUS
    <3>2. c = "CTRL" => s \in 3..Len(d.symbols) /\ d.symbols[s - 2] = NameOf.CTRL[3]
      BY <1>11, <3>1
    <3> QED
      BY <1>8, <3>1, <3>2 DEF Plain
  <2> QED
    BY <1>2, <1>12, <1>14, <1>16, <2>1, <2>2
<1> QED
  BY <1>15, <1>16

\* All that the client sent can be taken apart.
AllPlain == \A d \in net : Plain(d)

AskInv == AllPlain /\ status = "running" => current.fromRoot /\ ~BehindCtrl

LEMMA AskInit == Init => AskInv /\ Waiting = {}
<1> SUFFICES ASSUME Init PROVE AskInv /\ Waiting = {}
  OBVIOUS
<1>1. current.fromRoot /\ current.datagram = NoDatagram /\ buf = <<>>
  BY DEF Init
<1>2. Len(NoDatagram.symbols) = 0
  BY DEF NoDatagram, Datagram
<1>3. Fits(current.datagram) = 0 /\ Len(buf) = 0
  BY <1>1, <1>2, ControlAssumption DEF Fits
<1>4. Read = 0
  <2> DEFINE f == Fits(current.datagram)
             n == Len(buf)
  <2>1. Read = f - n
    BY DEF Read
  <2> HIDE DEF f, n
  <2>2. f = 0 /\ n = 0
    BY <1>3 DEF f, n
  <2> QED
    BY <2>1, <2>2
<1>5. ~BehindCtrl
  BY <1>4 DEF BehindCtrl
<1>6. Wanted(current.datagram) = {}
  BY <1>1, <1>2 DEF Wanted
<1> QED
  BY <1>1, <1>5, <1>6 DEF AskInv, Waiting

\* Of a datagram that was just received nothing was read.
LEMMA ReceiveAsks ==
    ASSUME ParseInv, NEW d \in net, Receive(d)
    PROVE  Read' = 0 /\ Waiting' = Wanted(d) /\ ~BehindCtrl'
<1> DEFINE f == Fits(d)
           n == Len(buf')
<1>1. IsDatagram(d) /\ current'.datagram = d
  BY DEF ParseInv, NetInv, Receive
<1>2. f \in Nat /\ f <= Len(d.symbols) /\ Len(d.symbols) \in Nat
  BY <1>1, FitsNat DEF IsDatagram
<1>3. buf' = SubSeq(d.symbols, 1, f) /\ d.symbols \in Seq(Symbols)
  BY <1>1 DEF Receive, Fits, IsDatagram
<1>4. n = f
  <2> HIDE DEF f
  <2> QED
    BY <1>2, <1>3
<1>5. Read' = f - n
  BY <1>1 DEF Read, Fits
<1> HIDE DEF f, n
<1>6. Read' = 0
  BY <1>2, <1>4, <1>5
<1>7. ~BehindCtrl'
  BY <1>6 DEF BehindCtrl
<1>8. \A i \in Wanted(d) : i > 0
  BY <1>2 DEF Wanted
<1>9. Waiting' = {i \in Wanted(d) : i > 0}
  BY <1>1, <1>6 DEF Waiting, Wanted
<1> QED
  BY <1>6, <1>7, <1>8, <1>9

LEMMA AskNext == ParseInv /\ AskInv /\ [Next]_vars => AskInv'
<1> SUFFICES ASSUME ParseInv, AskInv, [Next]_vars, AllPlain', status' = "running"
             PROVE  current'.fromRoot /\ ~BehindCtrl'
  BY DEF AskInv
<1>1. AllPlain /\ status = "running"
  <2>1. net \subseteq net'
    BY DEF Next, vars, network, BindFails, Send, Receive, ParseStep, Walk, EqualsWithoutCommand,
           CallEmpty, Unterminated, CallMove, CallCtrl, WithArgs
  <2>2. status = "running"
    BY DEF Next, vars, BindFails, Send, Receive, ParseStep, Walk, EqualsWithoutCommand, AtCommand,
           CallEmpty, Unterminated, CallMove, CallCtrl, WithArgs, Parsing
  <2> QED
    BY <2>1, <2>2 DEF AllPlain
<1>2. current.fromRoot /\ ~BehindCtrl
  BY <1>1 DEF AskInv
<1>3. CASE \E shape \in Shapes : Send(shape)
  <2>1. current' = current /\ buf' = buf
    BY <1>3 DEF Send
  <2> QED
    BY <1>2, <2>1 DEF BehindCtrl, Read, Fits
<1>4. ASSUME NEW d \in net, Receive(d) PROVE current'.fromRoot /\ ~BehindCtrl'
  <2>1. node = Root
    <3>1. WholeDatagramsAreSafe
      BY WholeIsSafe
    <3>2. buf = <<>> /\ \A e \in net : e.whole /\ Len(e.symbols) <= BufSize
      BY <1>1, <1>4 DEF Receive, AllPlain, Plain
    <3> QED
      BY <1>1, <3>1, <3>2 DEF WholeDatagramsAreSafe
  <2> QED
    BY <1>4, <2>1, ReceiveAsks DEF Receive
<1>5. CASE Walk
  BY <1>2, <1>5, WalkAsks DEF Walk
<1>6. CASE EqualsWithoutCommand
  BY <1>2, <1>6, NoLostEquals
<1>7. CASE CallEmpty
  BY <1>2, <1>7, EmptyAsks DEF CallEmpty
<1>8. CASE Unterminated
  BY <1>8 DEF Unterminated
<1>9. CASE CallMove
  <2>1. Moves \in SUBSET Names /\ WithArgs(Moves)
    BY <1>9 DEF CallMove, Moves, Names, NameOf
  <2> QED
    BY <1>2, <2>1, ArgsAsk DEF WithArgs
<1>10. CASE CallCtrl
  <2>1. {"CTRL"} \in SUBSET Names /\ WithArgs({"CTRL"})
    BY <1>10 DEF CallCtrl, Names, NameOf
  <2> QED
    BY <1>2, <2>1, ArgsAsk DEF WithArgs
<1>11. CASE UNCHANGED vars
  BY <1>2, <1>11 DEF vars, BehindCtrl, Read, Fits
<1>12. ~BindFails
  BY DEF BindFails
<1> QED
  BY <1>3, <1>4, <1>5, <1>6, <1>7, <1>8, <1>9, <1>10, <1>11, <1>12 DEF Next, ParseStep

\* A command called by name
LEMMA CalledByName ==
    ASSUME NEW C \in SUBSET Names, AtCommand(C)
    PROVE  CommandAt(node) \in C
<1>1. PICK c \in C : node = NameOf[c]
  BY DEF AtCommand
<1>2. CommandAt(node) = c
  BY <1>1, HandlerFacts
<1> QED
  BY <1>1, <1>2

\* What each step of the parser does to what is waiting: only the handler of
\* AT*CTRL takes something out, one at a time, and then it asks.
LEMMA StepAsks ==
    ASSUME ParseInv, AskInv, AllPlain, status = "running"
    PROVE  /\ Walk \/ EqualsWithoutCommand \/ CallEmpty \/ CallMove => Waiting' = Waiting
           /\ CallCtrl => IF configs' > configs
                          THEN \E i : i \notin Waiting' /\ Waiting = Waiting' \cup {i}
                          ELSE Waiting' = Waiting
           /\ buf = <<>> => Waiting = {}
<1>1. current.fromRoot /\ ~BehindCtrl
  BY DEF AskInv
<1>2. Walk \/ EqualsWithoutCommand \/ CallEmpty => Waiting' = Waiting
  BY <1>1, WalkAsks, NoLostEquals, EmptyAsks
<1>3. ASSUME CallMove PROVE Waiting' = Waiting
  <2>1. Moves \in SUBSET Names /\ WithArgs(Moves) /\ "CTRL" \notin Moves
    BY <1>3 DEF CallMove, Moves, Names, NameOf
  <2>2. CommandAt(node) \in Moves
    BY <2>1, CalledByName DEF WithArgs
  <2> QED
    BY <2>1, <2>2, ArgsAsk
<1>4. current.datagram \in net \cup {NoDatagram}
  BY DEF ParseInv, TypeOK
<1>5. ASSUME CallCtrl
      PROVE  IF configs' > configs
             THEN \E i : i \notin Waiting' /\ Waiting = Waiting' \cup {i}
             ELSE Waiting' = Waiting
  <2>1. {"CTRL"} \in SUBSET Names /\ WithArgs({"CTRL"})
    BY <1>5 DEF CallCtrl, Names, NameOf
  <2>2. CommandAt(node) = "CTRL"
    BY <2>1, CalledByName DEF WithArgs
  <2>3. Plain(current.datagram)
    <3>1. current.datagram \in net
      BY <2>1, Here DEF WithArgs, AtCommand
    <3> QED
      BY <3>1 DEF AllPlain
  <2>4. /\ IF Args[1] = "args4"
           THEN \E i : i \notin Waiting' /\ Waiting = Waiting' \cup {i}
           ELSE Waiting' = Waiting
        /\ Args[1] # "text"
    BY <2>1, <2>2, <2>3, ArgsAsk
  <2>5. configs' = IF Args[1] = "args4" THEN configs + 1 ELSE configs
    BY <1>5, <2>4 DEF CallCtrl
  <2>6. configs \in Nat
    BY DEF ParseInv, TypeOK
  <2>7. configs' > configs <=> Args[1] = "args4"
    BY <2>5, <2>6
  <2> QED
    BY <2>4, <2>7
<1>6. ASSUME buf = <<>> PROVE Waiting = {}
  <2>1. CASE current.datagram = NoDatagram
    <3>1. Len(NoDatagram.symbols) = 0
      BY DEF NoDatagram, Datagram
    <3> QED
      BY <2>1, <3>1 DEF Waiting, Wanted
  <2>2. CASE current.datagram \in net
    <3>1. PICK d : d = current.datagram
      OBVIOUS
    <3>2. Plain(d) /\ IsDatagram(d)
      BY <2>2, <3>1 DEF AllPlain, ParseInv, NetInv
    <3>3. Fits(d) = Len(d.symbols) /\ Len(d.symbols) \in Nat /\ Len(buf) = 0
      BY <1>6, <3>2, ControlAssumption DEF Plain, Fits, IsDatagram
    <3>4. Read = Len(d.symbols)
      BY <3>1, <3>3 DEF Read
    <3>5. \A i \in Wanted(d) : ~(i > Len(d.symbols))
      BY <3>3 DEF Wanted
    <3> QED
      BY <3>1, <3>4, <3>5 DEF Waiting
  <2> QED
    BY <1>4, <2>1, <2>2
<1> QED
  BY <1>2, <1>3, <1>5, <1>6
=============================================================================

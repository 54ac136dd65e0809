----------------------------- MODULE ServerProofs -----------------------------
(***************************************************************************)
(* ConfigRelay, for any number of sessions and of requests: its state is   *)
(* well typed, every queued element has its token, no session ever         *)
(* dereferences the NULL of an empty list, and the writes to a client are  *)
(* for configurations in the order they were asked for.                    *)
(*                                                                         *)
(* The parser and the sessions together: every step of Server is a step of *)
(* ConfigRelay or leaves it alone, so that what is proved of ConfigRelay   *)
(* holds whatever the control thread parses meanwhile, for any datagrams.  *)
(* It is also a step of ControlServer or leaves that alone: what is proved *)
(* of the parser relates the requests handled to those in the datagrams.   *)
(***************************************************************************)
EXTENDS Server, TLAPS, FiniteSetTheorems, SequenceTheorems

\* A session holds an element exactly between list_pop and free.
HeldInv == \A s \in Sessions : elem[s] # None <=> session[s] \in {"write", "free"}

\* What list_add is about to queue is a configuration.
AddInv == ctl = "add" => requests > 0

TypeInv == TypeOK /\ HeldInv /\ AddInv

IndInv == TypeInv /\ TokenConservation

-----------------------------------------------------------------------------
(* Counting the sessions that have taken a token.                           *)

\* Sessions is finite, so any part of it can be counted.
LEMMA PoppingCount ==
    /\ IsFiniteSet(Popping)
    /\ Cardinality(Popping) \in Nat
<1>1. IsFiniteSet(Popping)
  BY RelayAssumption, FS_Subset DEF Popping
<1> QED
  BY <1>1, FS_CardinalityType

\* A session that passes sem_wait joins Popping.
LEMMA PoppingGrows ==
    ASSUME session \in [Sessions -> {"none", "wait", "pop", "write", "free"}],
           NEW s \in Sessions, session[s] # "pop",
           session' = [session EXCEPT ![s] = "pop"]
    PROVE  Cardinality(Popping') = Cardinality(Popping) + 1
<1>1. Popping' = Popping \cup {s}
  BY DEF Popping
<1>2. s \notin Popping
  BY DEF Popping
<1> QED
  BY <1>1, <1>2, PoppingCount, FS_AddElement

\* A session that has popped leaves it.
LEMMA PoppingShrinks ==
    ASSUME session \in [Sessions -> {"none", "wait", "pop", "write", "free"}],
           NEW s \in Sessions, session[s] = "pop",
           session' = [session EXCEPT ![s] = "write"]
    PROVE  Cardinality(Popping') = Cardinality(Popping) - 1
<1>1. Popping' = Popping \ {s}
  BY DEF Popping
<1>2. s \in Popping
  BY DEF Popping
<1> QED
  BY <1>1, <1>2, PoppingCount, FS_RemoveElement

\* Other moves of one session leave it alone.
LEMMA PoppingStays ==
    ASSUME session \in [Sessions -> {"none", "wait", "pop", "write", "free"}],
           NEW s \in Sessions, session[s] # "pop",
           NEW p, p # "pop",
           session' = [session EXCEPT ![s] = p]
    PROVE  Popping' = Popping
BY DEF Popping

\* A list that has elements loses one to FifoPop.
LEMMA TailLength ==
    ASSUME NEW S, NEW q \in Seq(S), q # <<>>
    PROVE  /\ Head(q) \in S
           /\ Tail(q) \in Seq(S)
           /\ Len(Tail(q)) = Len(q) - 1
           /\ Len(q) \in Nat \ {0}
OBVIOUS

-----------------------------------------------------------------------------
LEMMA InitInd == Init => IndInv
<1> SUFFICES ASSUME Init PROVE IndInv
  OBVIOUS
<1>1. TypeOK
  BY RelayAssumption DEF Init, TypeOK, DataList!FifoInit
<1>2. HeldInv /\ AddInv
  BY DEF Init, HeldInv, AddInv, DataList!FifoInit
<1>3. Popping = {}
  BY DEF Init, Popping
<1>4. TokenConservation
  BY <1>3, FS_EmptySet DEF Init, TokenConservation, DataList!FifoInit
<1> QED
  BY <1>1, <1>2, <1>4 DEF IndInv, TypeInv

\* The empty list of SessionPop is out of the question: the popping session
\* itself is counted by TokenConservation.
LEMMA PopFindsElement ==
    ASSUME IndInv, NEW s \in Sessions, session[s] = "pop"
    PROVE  list # <<>>
<1>1. s \in Popping
  BY DEF Popping
<1>2. Cardinality(Popping) # 0
  BY <1>1, PoppingCount, FS_EmptySet
<1>3. Len(list) # 0
  BY <1>2, PoppingCount DEF IndInv, TypeInv, TypeOK, TokenConservation
<1> QED
  BY <1>3

LEMMA NextInd == IndInv /\ [Next]_vars => IndInv'
<1> SUFFICES ASSUME IndInv, [Next]_vars PROVE IndInv'
  OBVIOUS
<1> USE DEF IndInv, TypeInv, ControlGoes, ListenerGoes, SessionGoes, ClientGoes, Starts
<1>t. TypeOK /\ HeldInv /\ AddInv /\ TokenConservation
  OBVIOUS
<1>c. Cardinality(Popping) \in Nat
  BY PoppingCount
<1>1. CASE CtrlRequest
  <2>1. TypeOK' /\ HeldInv' /\ AddInv'
    BY <1>1, <1>t, RelayAssumption DEF CtrlRequest, TypeOK, HeldInv, AddInv
  <2>2. Popping' = Popping
    BY <1>1 DEF CtrlRequest, Popping
  <2>3. TokenConservation'
    BY <1>1, <1>t, <2>2 DEF CtrlRequest, TokenConservation
  <2> QED
    BY <2>1, <2>3
<1>2. CASE CtrlNoFile \/ CommBindFails \/ CommAcceptFails
  <2>1. TypeOK' /\ HeldInv' /\ AddInv'
    BY <1>2, <1>t DEF CtrlNoFile, CommBindFails, CommAcceptFails, TypeOK, HeldInv, AddInv
  <2>2. Popping' = Popping
    BY <1>2 DEF CtrlNoFile, CommBindFails, CommAcceptFails, Popping
  <2>3. TokenConservation'
    BY <1>2, <1>t, <2>2 DEF CtrlNoFile, CommBindFails, CommAcceptFails, TokenConservation
  <2> QED
    BY <2>1, <2>3
<1>14. ASSUME NEW s \in Sessions, SessionWriteFails(s) PROVE IndInv'
  <2>1. session' = session
    BY <1>14, <1>t DEF SessionWriteFails, TypeOK
  <2>2. TypeOK' /\ HeldInv' /\ AddInv'
    BY <1>14, <1>t, <2>1 DEF SessionWriteFails, TypeOK, HeldInv, AddInv
  <2>3. Popping' = Popping
    BY <2>1 DEF Popping
  <2>4. TokenConservation'
    BY <1>14, <1>t, <2>3 DEF SessionWriteFails, TokenConservation
  <2> QED
    BY <2>2, <2>4
<1>3. CASE CtrlAdd
  <2>1. requests \in Configs
    BY <1>3, <1>t, RelayAssumption DEF CtrlAdd, AddInv, TypeOK, Configs
  <2>2. list' = Append(list, requests) /\ elem' = elem
    BY <1>3 DEF CtrlAdd, DataList!FifoAdd
  <2>3. list' \in Seq(Configs) /\ Len(list') = Len(list) + 1
    BY <1>t, <2>1, <2>2 DEF TypeOK
  <2>4. TypeOK' /\ HeldInv' /\ AddInv'
    BY <1>3, <1>t, <2>2, <2>3 DEF CtrlAdd, TypeOK, HeldInv, AddInv
  <2>5. Popping' = Popping
    BY <1>3 DEF CtrlAdd, Popping
  <2>6. TokenConservation'
    BY <1>3, <1>t, <1>c, <2>3, <2>5 DEF CtrlAdd, TokenConservation, TypeOK
  <2> QED
    BY <2>4, <2>6
<1>4. CASE CtrlPost
  <2>1. TypeOK' /\ HeldInv' /\ AddInv'
    BY <1>4, <1>t DEF CtrlPost, TypeOK, HeldInv, AddInv
  <2>2. Popping' = Popping
    BY <1>4 DEF CtrlPost, Popping
  <2>3. TokenConservation'
    BY <1>4, <1>t, <1>c, <2>2 DEF CtrlPost, TokenConservation, TypeOK
  <2> QED
    BY <2>1, <2>3
<1>5. CASE CommSemInit
  <2>1. TypeOK' /\ HeldInv' /\ AddInv'
    BY <1>5, <1>t DEF CommSemInit, TypeOK, HeldInv, AddInv
  <2>2. Popping' = Popping
    BY <1>5 DEF CommSemInit, Popping
  <2>3. TokenConservation'
    BY <1>5, <1>t, <1>c, <2>2 DEF CommSemInit, TokenConservation, TypeOK
  <2> QED
    BY <2>1, <2>3
<1>6. CASE CommBind
  <2>1. TypeOK' /\ HeldInv' /\ AddInv'
    BY <1>6, <1>t DEF CommBind, TypeOK, HeldInv, AddInv
  <2>2. Popping' = Popping
    BY <1>6 DEF CommBind, Popping
  <2>3. TokenConservation'
    BY <1>6, <1>t, <2>2 DEF CommBind, TokenConservation
  <2> QED
    BY <2>1, <2>3
<1>7. ASSUME NEW s \in Sessions, CommAccept(s) PROVE IndInv'
  <2>1. TypeOK' /\ HeldInv' /\ AddInv'
    BY <1>7, <1>t DEF CommAccept, TypeOK, HeldInv, AddInv
  <2>2. Popping' = Popping
    BY <1>7, <1>t, PoppingStays DEF CommAccept, TypeOK
  <2>3. TokenConservation'
    BY <1>7, <1>t, <2>2 DEF CommAccept, TokenConservation
  <2> QED
    BY <2>1, <2>3
<1>8. ASSUME NEW s \in Sessions, SessionSemWait(s) PROVE IndInv'
  <2>1. TypeOK' /\ HeldInv' /\ AddInv'
    BY <1>8, <1>t DEF SessionSemWait, TypeOK, HeldInv, AddInv
  <2>2. Cardinality(Popping') = Cardinality(Popping) + 1
    BY <1>8, <1>t, PoppingGrows DEF SessionSemWait, TypeOK
  <2>3. TokenConservation'
    BY <1>8, <1>t, <1>c, <2>2 DEF SessionSemWait, TokenConservation, TypeOK
  <2> QED
    BY <2>1, <2>3
<1>9. ASSUME NEW s \in Sessions, SessionPop(s) PROVE IndInv'
  <2>1. list # <<>>
    BY <1>9, PopFindsElement DEF SessionPop
  <2>2. /\ list' = Tail(list)
        /\ elem' = [elem EXCEPT ![s] = Head(list)]
    BY <1>9, <2>1 DEF SessionPop, DataList!FifoPop
  <2>3. /\ Head(list) \in Configs
        /\ list' \in Seq(Configs)
        /\ Len(list') = Len(list) - 1
        /\ Len(list) \in Nat
    BY <1>t, <2>1, <2>2, TailLength DEF TypeOK
  <2>4. Head(list) # None
    BY <2>3, RelayAssumption DEF Configs
  <2>5. TypeOK' /\ HeldInv' /\ AddInv'
    BY <1>9, <1>t, <2>1, <2>2, <2>3, <2>4 DEF SessionPop, TypeOK, HeldInv, AddInv
  <2>6. Cardinality(Popping') = Cardinality(Popping) - 1
    BY <1>9, <1>t, PoppingShrinks DEF SessionPop, TypeOK
  <2>7. TokenConservation'
    BY <1>9, <1>t, <1>c, <2>3, <2>6 DEF SessionPop, TokenConservation, TypeOK
  <2> QED
    BY <2>5, <2>7
<1>10. ASSUME NEW s \in Sessions, SessionWrite(s) PROVE IndInv'
  <2>1. elem[s] \in Configs
    BY <1>10, <1>t DEF SessionWrite, TypeOK, HeldInv
  <2>2. Append(written[s], elem[s]) \in Seq(Configs)
    BY <1>t, <2>1 DEF TypeOK
  <2>3. TypeOK' /\ HeldInv' /\ AddInv'
    BY <1>10, <1>t, <2>1, <2>2 DEF SessionWrite, TypeOK, HeldInv, AddInv
  <2>4. Popping' = Popping
    BY <1>10, <1>t, PoppingStays DEF SessionWrite, TypeOK
  <2>5. TokenConservation'
    BY <1>10, <1>t, <2>4 DEF SessionWrite, TokenConservation
  <2> QED
    BY <2>3, <2>5
<1>11. ASSUME NEW s \in Sessions, SessionFree(s) PROVE IndInv'
  <2>1. list' = list /\ elem' = [elem EXCEPT ![s] = None]
    BY <1>11 DEF SessionFree, DataList!FifoRelease
  <2>2. TypeOK' /\ HeldInv' /\ AddInv'
    BY <1>11, <1>t, <2>1 DEF SessionFree, TypeOK, HeldInv, AddInv
  <2>3. Popping' = Popping
    BY <1>11, <1>t, PoppingStays DEF SessionFree, TypeOK
  <2>4. TokenConservation'
    BY <1>11, <1>t, <2>1, <2>3 DEF SessionFree, TokenConservation
  <2> QED
    BY <2>2, <2>4
<1>12. ASSUME NEW s \in Sessions, ClientConnect(s) \/ ClientLeave(s) PROVE IndInv'
  <2>1. TypeOK' /\ HeldInv' /\ AddInv'
    BY <1>12, <1>t DEF ClientConnect, ClientLeave, TypeOK, HeldInv, AddInv
  <2>2. Popping' = Popping
    BY <1>12 DEF ClientConnect, ClientLeave, Popping
  <2>3. TokenConservation'
    BY <1>12, <1>t, <2>2 DEF ClientConnect, ClientLeave, TokenConservation
  <2> QED
    BY <2>1, <2>3
<1>13. CASE UNCHANGED vars
  <2>1. TypeOK' /\ HeldInv' /\ AddInv'
    BY <1>13, <1>t DEF vars, TypeOK, HeldInv, AddInv
  <2>2. Popping' = Popping
    BY <1>13 DEF vars, Popping
  <2>3. TokenConservation'
    BY <1>13, <1>t, <2>2 DEF vars, TokenConservation
  <2> QED
    BY <2>1, <2>3
<1> QED
  BY <1>1, <1>2, <1>3, <1>4, <1>5, <1>6, <1>7, <1>8, <1>9, <1>10, <1>11, <1>12, <1>13, <1>14
  DEF Next, CtrlStep, CommStep, SessionStep

\* IndInv is an invariant of the specification.
THEOREM IndInvariance == Spec => []IndInv
BY InitInd, NextInd, PTL DEF Spec

-----------------------------------------------------------------------------
\* Every variable keeps its type.
THEOREM TypeCorrect == Spec => []TypeOK
<1>1. IndInv => TypeOK
  BY DEF IndInv, TypeInv
<1> QED
  BY <1>1, IndInvariance, PTL

\* Every queued element has exactly one token, whatever the number of
\* sessions and whenever sem_init runs.
THEOREM TokensConserved == Spec => []TokenConservation
<1>1. IndInv => TokenConservation
  BY DEF IndInv
<1> QED
  BY <1>1, IndInvariance, PTL

\* No session finds the list empty after sem_wait.
THEOREM PopsAreSafe == Spec => []NoNullPop
<1>1. IndInv => NoNullPop
  BY PoppingCount DEF IndInv, TypeInv, TypeOK, TokenConservation, NoNullPop
<1> QED
  BY <1>1, IndInvariance, PTL

-----------------------------------------------------------------------------
(* The order of the writes: what a session wrote, what it holds and what   *)
(* is queued are compared position by position; the concatenation of       *)
(* InRequestOrder comes last.                                              *)

\* All of p is below all of q.
Below(p, q) == \A i \in DOMAIN p, j \in DOMAIN q : p[i] < q[j]
AllBelow(p, n) == \A i \in DOMAIN p : p[i] < n
AllAbove(n, q) == \A j \in DOMAIN q : n < q[j]

\* What list_add will queue next is above everything that was queued.
NextConfig == IF ctl = "add" THEN requests ELSE requests + 1

OrderInv ==
    /\ Increasing(list)
    /\ AllBelow(list, NextConfig)
    /\ \A s \in Sessions :
        /\ Increasing(written[s])
        /\ Below(written[s], list)
        /\ AllBelow(written[s], NextConfig)
    /\ \A s \in Sessions : session[s] = "write" =>
        /\ AllBelow(written[s], elem[s])
        /\ AllAbove(elem[s], list)
        /\ elem[s] < NextConfig

-----------------------------------------------------------------------------
(* Sequences of numbers                                                     *)

\* What appending n to q does to the comparisons.
LEMMA AppendOrder ==
    ASSUME NEW q \in Seq(Nat), NEW n \in Nat
    PROVE  /\ Increasing(q) /\ AllBelow(q, n) => Increasing(Append(q, n))
           /\ \A m \in Nat : AllBelow(q, m) /\ n < m => AllBelow(Append(q, n), m)
           /\ \A m \in Nat : AllAbove(m, q) /\ m < n => AllAbove(m, Append(q, n))
           /\ \A p \in Seq(Nat) : Below(p, q) /\ AllBelow(p, n) => Below(p, Append(q, n))
           /\ \A p \in Seq(Nat) : Below(q, p) /\ AllAbove(n, p) => Below(Append(q, n), p)
<1> DEFINE a == Append(q, n)
<1>1. /\ a \in Seq(Nat)
      /\ DOMAIN a = 1..(Len(q) + 1)
      /\ DOMAIN q = 1..Len(q)
      /\ Len(q) \in Nat
      /\ a[Len(q) + 1] = n
      /\ \A i \in 1..Len(q) : a[i] = q[i] /\ q[i] \in Nat
  OBVIOUS
<1>2. Increasing(q) /\ AllBelow(q, n) => Increasing(a)
  <2> SUFFICES ASSUME Increasing(q), AllBelow(q, n),
                      NEW i \in DOMAIN a, NEW j \in DOMAIN a, i < j
               PROVE  a[i] < a[j]
    BY DEF Increasing
  <2>1. i \in DOMAIN q
    BY <1>1
  <2>2. CASE j \in DOMAIN q
    BY <1>1, <2>1, <2>2 DEF Increasing
  <2>3. CASE j = Len(q) + 1
    BY <1>1, <2>1, <2>3 DEF AllBelow
  <2> QED
    BY <1>1, <2>2, <2>3
<1>3. \A i \in DOMAIN a : (i \in DOMAIN q /\ a[i] = q[i]) \/ a[i] = n
  BY <1>1
<1> HIDE DEF a
<1>4. \A m \in Nat : AllBelow(q, m) /\ n < m => AllBelow(a, m)
  BY <1>3 DEF AllBelow
<1>5. \A m \in Nat : AllAbove(m, q) /\ m < n => AllAbove(m, a)
  BY <1>3 DEF AllAbove
<1>6. \A p \in Seq(Nat) : Below(p, q) /\ AllBelow(p, n) => Below(p, a)
  BY <1>3 DEF Below, AllBelow
<1>7. \A p \in Seq(Nat) : Below(q, p) /\ AllAbove(n, p) => Below(a, p)
  BY <1>3 DEF Below, AllAbove
<1> QED
  BY <1>2, <1>4, <1>5, <1>6, <1>7 DEF a

\* What taking the first element off q leaves.
LEMMA TailOrder ==
    ASSUME NEW q \in Seq(Nat), q # <<>>
    PROVE  /\ Increasing(q) => Increasing(Tail(q)) /\ AllAbove(Head(q), Tail(q))
           /\ \A m \in Nat : AllBelow(q, m) => AllBelow(Tail(q), m) /\ Head(q) < m
           /\ \A m \in Nat : AllAbove(m, q) => AllAbove(m, Tail(q))
           /\ \A p \in Seq(Nat) : Below(p, q) => Below(p, Tail(q)) /\ AllBelow(p, Head(q))
<1> DEFINE r == Tail(q)
<1>1. /\ DOMAIN r = 1..(Len(q) - 1)
      /\ DOMAIN q = 1..Len(q)
      /\ Len(q) \in Nat \ {0}
      /\ Head(q) = q[1] /\ 1 \in DOMAIN q
      /\ \A i \in 1..(Len(q) - 1) : r[i] = q[i + 1] /\ i + 1 \in DOMAIN q
      /\ \A i \in 1..Len(q) : q[i] \in Nat
  OBVIOUS
<1> HIDE DEF r
<1>2. Increasing(q) => Increasing(r) /\ AllAbove(Head(q), r)
  <2> SUFFICES ASSUME Increasing(q) PROVE Increasing(r) /\ AllAbove(Head(q), r)
    OBVIOUS
  <2>1. \A i, j \in DOMAIN q : i < j => q[i] < q[j]
    BY DEF Increasing
  <2>2. ASSUME NEW i \in DOMAIN r, NEW j \in DOMAIN r, i < j
        PROVE  r[i] < r[j]
    <3>1. i + 1 \in DOMAIN q /\ j + 1 \in DOMAIN q /\ i + 1 < j + 1
      BY <1>1, <2>2
    <3>2. q[i + 1] < q[j + 1]
      BY <2>1, <3>1
    <3> QED
      BY <1>1, <3>2
  <2>3. ASSUME NEW j \in DOMAIN r PROVE q[1] < r[j]
    <3>1. j + 1 \in DOMAIN q /\ 1 < j + 1
      BY <1>1
    <3>2. q[1] < q[j + 1]
      BY <1>1, <2>1, <3>1
    <3> QED
      BY <1>1, <3>2
  <2> QED
    BY <1>1, <2>2, <2>3 DEF Increasing, AllAbove
<1>3. \A m \in Nat : AllBelow(q, m) => AllBelow(r, m) /\ Head(q) < m
  BY <1>1 DEF AllBelow
<1>4. \A m \in Nat : AllAbove(m, q) => AllAbove(m, r)
  BY <1>1 DEF AllAbove
<1>5. \A p \in Seq(Nat) : Below(p, q) => Below(p, r) /\ AllBelow(p, Head(q))
  BY <1>1 DEF Below, AllBelow
<1> QED
  BY <1>2, <1>3, <1>4, <1>5 DEF r

\* Two increasing sequences, one below the other, one after the other.
LEMMA ConcatOrder ==
    ASSUME NEW p \in Seq(Nat), NEW q \in Seq(Nat),
           Increasing(p), Increasing(q), Below(p, q)
    PROVE  Increasing(p \o q)
<1> DEFINE c == p \o q
<1>1. /\ DOMAIN c = 1..(Len(p) + Len(q))
      /\ DOMAIN p = 1..Len(p) /\ DOMAIN q = 1..Len(q)
      /\ Len(p) \in Nat /\ Len(q) \in Nat
      /\ \A i \in DOMAIN c : i <= Len(p) => i \in DOMAIN p /\ c[i] = p[i]
      /\ \A i \in DOMAIN c : i > Len(p) => i - Len(p) \in DOMAIN q /\ c[i] = q[i - Len(p)]
  OBVIOUS
<1> SUFFICES ASSUME NEW i \in DOMAIN c, NEW j \in DOMAIN c, i < j
             PROVE  c[i] < c[j]
  BY DEF Increasing
<1> HIDE DEF c
<1>2. CASE j <= Len(p)
  <2>1. i <= Len(p)
    BY <1>1, <1>2
  <2>2. i \in DOMAIN p /\ c[i] = p[i] /\ j \in DOMAIN p /\ c[j] = p[j]
    BY <1>1, <1>2, <2>1
  <2> QED
    BY <2>2 DEF Increasing
<1>3. CASE i > Len(p)
  <2>1. i - Len(p) < j - Len(p)
    BY <1>1, <1>3
  <2> QED
    BY <1>1, <1>3, <2>1 DEF Increasing
<1>4. CASE i <= Len(p) /\ j > Len(p)
  BY <1>1, <1>4 DEF Below
<1>5. i \in Nat /\ j \in Nat /\ Len(p) \in Nat
  BY <1>1
<1> QED
  BY <1>2, <1>3, <1>4, <1>5

-----------------------------------------------------------------------------
(* OrderInv is inductive, given the types.                                  *)

LEMMA OrderTypes ==
    ASSUME TypeInv
    PROVE  /\ list \in Seq(Nat)
           /\ \A s \in Sessions : written[s] \in Seq(Nat)
           /\ \A s \in Sessions : session[s] = "write" => elem[s] \in Nat
           /\ requests \in Nat
           /\ NextConfig \in Nat
           /\ Configs \subseteq Nat
<1>1. requests \in Nat /\ Configs \subseteq Nat
  BY RelayAssumption DEF TypeInv, TypeOK, Configs
<1>2. list \in Seq(Nat) /\ \A s \in Sessions : written[s] \in Seq(Nat)
  BY <1>1, SeqMonotonic DEF TypeInv, TypeOK
<1>3. \A s \in Sessions : session[s] = "write" => elem[s] \in Nat
  BY <1>1 DEF TypeInv, TypeOK, HeldInv
<1> QED
  BY <1>1, <1>2, <1>3 DEF NextConfig

LEMMA OrderInit == Init => OrderInv
BY DEF Init, DataList!FifoInit, OrderInv, Increasing, Below, AllBelow

LEMMA OrderNext == IndInv /\ OrderInv /\ [Next]_vars => OrderInv'
<1> SUFFICES ASSUME IndInv, OrderInv, [Next]_vars PROVE OrderInv'
  OBVIOUS
<1> USE DEF ControlGoes, ListenerGoes, SessionGoes, ClientGoes, Starts
<1>t. /\ list \in Seq(Nat)
      /\ \A s \in Sessions : written[s] \in Seq(Nat)
      /\ \A s \in Sessions : session[s] = "write" => elem[s] \in Nat
      /\ requests \in Nat
      /\ NextConfig \in Nat
  BY OrderTypes DEF IndInv
<1>f. session \in [Sessions -> {"none", "wait", "pop", "write", "free"}]
  BY DEF IndInv, TypeInv, TypeOK
\* A step that leaves the sequences and NextConfig alone and lets no session
\* begin to hold.
<1>s. ASSUME UNCHANGED <<list, written, elem, NextConfig>>,
             \A s \in Sessions : session'[s] = "write" => session[s] = "write"
      PROVE  OrderInv'
  BY <1>s DEF OrderInv
<1>1. CASE CtrlRequest
  <2>1. NextConfig' = NextConfig /\ UNCHANGED <<list, written, elem, session>>
    BY <1>1 DEF CtrlRequest, NextConfig
  <2> QED
    BY <2>1, <1>s
<1>2. CASE CtrlAdd
  <2>1. /\ list' = Append(list, requests)
        /\ NextConfig = requests /\ NextConfig' = requests + 1
        /\ UNCHANGED <<written, elem, session>>
    BY <1>2 DEF CtrlAdd, DataList!FifoAdd, NextConfig
  <2>2. Increasing(list') /\ AllBelow(list', NextConfig')
    <3>1. AllBelow(list, requests + 1)
      BY <1>t, <2>1 DEF OrderInv, AllBelow
    <3> QED
      BY <1>t, <2>1, <3>1, AppendOrder DEF OrderInv
  <2>3. ASSUME NEW s \in Sessions
        PROVE  Increasing(written[s]) /\ Below(written[s], list') /\ AllBelow(written[s], NextConfig')
    <3>1. AllBelow(written[s], requests + 1)
      BY <1>t, <2>1 DEF OrderInv, AllBelow
    <3> QED
      BY <1>t, <2>1, <3>1, AppendOrder DEF OrderInv
  <2>4. ASSUME NEW s \in Sessions, session[s] = "write"
        PROVE  /\ AllBelow(written[s], elem[s])
               /\ AllAbove(elem[s], list')
               /\ elem[s] < NextConfig'
    BY <1>t, <2>1, <2>4, AppendOrder DEF OrderInv
  <2> QED
    BY <2>1, <2>2, <2>3, <2>4 DEF OrderInv
<1>3. ASSUME NEW s \in Sessions, SessionPop(s) PROVE OrderInv'
  <2>1. list # <<>>
    BY <1>3, PopFindsElement DEF SessionPop
  <2>2. /\ list' = Tail(list)
        /\ elem' = [elem EXCEPT ![s] = Head(list)]
        /\ session' = [session EXCEPT ![s] = "write"]
        /\ UNCHANGED <<written, NextConfig>>
    BY <1>3, <2>1 DEF SessionPop, DataList!FifoPop, NextConfig
  <2>3. elem'[s] = Head(list) /\ \A u \in Sessions \ {s} : elem'[u] = elem[u] /\ session'[u] = session[u]
    BY <1>f, <2>2 DEF IndInv, TypeInv, TypeOK
  <2>4. Increasing(list') /\ AllBelow(list', NextConfig')
    BY <1>t, <2>1, <2>2, TailOrder DEF OrderInv
  <2>5. ASSUME NEW u \in Sessions
        PROVE  Increasing(written[u]) /\ Below(written[u], list') /\ AllBelow(written[u], NextConfig')
    BY <1>t, <2>1, <2>2, TailOrder DEF OrderInv
  <2>6. ASSUME NEW u \in Sessions, session'[u] = "write"
        PROVE  /\ AllBelow(written[u], elem'[u])
               /\ AllAbove(elem'[u], list')
               /\ elem'[u] < NextConfig'
    <3>1. CASE u = s
      BY <1>t, <2>1, <2>2, <2>3, <3>1, TailOrder DEF OrderInv
    <3>2. CASE u # s
      BY <1>t, <2>1, <2>2, <2>3, <2>6, <3>2, TailOrder DEF OrderInv
    <3> QED
      BY <3>1, <3>2
  <2> QED
    BY <2>2, <2>4, <2>5, <2>6 DEF OrderInv
<1>4. ASSUME NEW s \in Sessions, SessionWrite(s) PROVE OrderInv'
  <2>1. /\ UNCHANGED <<list, elem, NextConfig>>
        /\ session'[s] = "free"
        /\ \A u \in Sessions \ {s} : session'[u] = session[u]
    BY <1>4, <1>f DEF SessionWrite, NextConfig
  <2>2. CASE written' = written
    BY <1>s, <2>1, <2>2
  <2>3. CASE written' = [written EXCEPT ![s] = Append(@, elem[s])]
    <3>1. written'[s] = Append(written[s], elem[s]) /\ \A u \in Sessions \ {s} : written'[u] = written[u]
      BY <2>3 DEF IndInv, TypeInv, TypeOK
    <3>2. elem[s] \in Nat /\ session[s] = "write"
      BY <1>4, <1>t DEF SessionWrite
    <3>3. /\ Increasing(written'[s])
          /\ Below(written'[s], list)
          /\ AllBelow(written'[s], NextConfig)
      BY <1>t, <3>1, <3>2, AppendOrder DEF OrderInv
    <3>4. \A u \in Sessions : /\ Increasing(written'[u])
                              /\ Below(written'[u], list)
                              /\ AllBelow(written'[u], NextConfig)
      BY <3>1, <3>3 DEF OrderInv
    <3>5. \A u \in Sessions : session'[u] = "write" =>
                 /\ AllBelow(written'[u], elem[u])
                 /\ AllAbove(elem[u], list)
                 /\ elem[u] < NextConfig
      BY <2>1, <3>1 DEF OrderInv
    <3> QED
      BY <2>1, <3>4, <3>5 DEF OrderInv
  <2> QED
    BY <1>4, <2>2, <2>3 DEF SessionWrite
<1>5. ASSUME NEW s \in Sessions, SessionFree(s) PROVE OrderInv'
  <2>1. /\ UNCHANGED <<list, written, NextConfig>>
        /\ elem' = [elem EXCEPT ![s] = None]
        /\ session' = [session EXCEPT ![s] = "wait"]
    BY <1>5 DEF SessionFree, DataList!FifoRelease, NextConfig
  <2>2. \A u \in Sessions : session'[u] = "write" => session[u] = "write" /\ elem'[u] = elem[u]
    BY <1>f, <2>1 DEF IndInv, TypeInv, TypeOK
  <2> QED
    BY <2>1, <2>2 DEF OrderInv
<1>6. CASE \/ CtrlNoFile \/ CtrlPost \/ CommStep \/ CommAcceptFails \/ UNCHANGED vars
           \/ \E s \in Sessions : \/ SessionSemWait(s) \/ SessionWriteFails(s)
                                  \/ ClientConnect(s) \/ ClientLeave(s)
  <2>1. UNCHANGED <<list, written, elem>>
    BY <1>6 DEF CtrlNoFile, CtrlPost, CommStep, CommSemInit, CommBind, CommBindFails, CommAccept,
                CommAcceptFails, SessionSemWait, SessionWriteFails, ClientConnect, ClientLeave, vars
  <2>2. NextConfig' = NextConfig
    BY <1>6 DEF CtrlNoFile, CtrlPost, CommStep, CommSemInit, CommBind, CommBindFails, CommAccept,
                CommAcceptFails, SessionSemWait, SessionWriteFails, ClientConnect, ClientLeave, vars, NextConfig
  <2>3. \A s \in Sessions : session'[s] = "write" => session[s] = "write"
    BY <1>6, <1>f DEF CtrlNoFile, CtrlPost, CommStep, CommSemInit, CommBind, CommBindFails, CommAccept,
                CommAcceptFails, SessionSemWait, SessionWriteFails, ClientConnect, ClientLeave, vars
  <2> QED
    BY <1>s, <2>1, <2>2, <2>3
<1> QED
  BY <1>1, <1>2, <1>3, <1>4, <1>5, <1>6 DEF Next, CtrlStep, SessionStep

\* Position by position is as good as the concatenation.
LEMMA OrderIsHistory ==
    ASSUME TypeInv, OrderInv
    PROVE  InRequestOrder
<1> SUFFICES ASSUME NEW s \in Sessions PROVE Increasing(History(s))
  BY DEF InRequestOrder
<1> DEFINE w == written[s]  h == IF session[s] = "write" THEN <<elem[s]>> ELSE <<>>
<1>1. w \in Seq(Nat) /\ list \in Seq(Nat) /\ (session[s] = "write" => elem[s] \in Nat)
  BY OrderTypes
<1>2. Increasing(w) /\ Increasing(list) /\ Below(w, list)
  BY DEF OrderInv
<1>3. CASE session[s] # "write"
  <2>1. w \o h = w
    BY <1>1, <1>3
  <2> QED
    BY <1>1, <1>2, <2>1, ConcatOrder DEF History
<1>4. CASE session[s] = "write"
  <2>1. w \o h = Append(w, elem[s])
    BY <1>1, <1>4
  <2>2. Append(w, elem[s]) \in Seq(Nat)
    BY <1>1, <1>4
  <2>3. Increasing(Append(w, elem[s])) /\ Below(Append(w, elem[s]), list)
    BY <1>1, <1>2, <1>4, AppendOrder DEF OrderInv
  <2> QED
    BY <1>1, <1>2, <2>1, <2>2, <2>3, ConcatOrder DEF History
<1> QED
  BY <1>3, <1>4

\* The writes to a client are for configurations in the order they were asked
\* for, whatever the number of sessions that share the list.
THEOREM WritesInOrder == Spec => []InRequestOrder
<1>1. IndInv /\ OrderInv => InRequestOrder
  BY OrderIsHistory DEF IndInv
<1>2. Spec => []IndInv
  BY IndInvariance
<1>3. Init => OrderInv
  BY OrderInit
<1>4. IndInv /\ OrderInv /\ [Next]_vars => OrderInv'
  BY OrderNext
<1> QED
  BY <1>1, <1>2, <1>3, <1>4, PTL DEF Spec

-----------------------------------------------------------------------------
(* Every configuration is in one place.                                     *)

Delivered(s) == WrittenFor(s) \cup HeldBy(s)
Taken == UNION {Delivered(s) : s \in Sessions}
Adding == IF ctl = "add" THEN {requests} ELSE {}

\* The places cover the requests and do not overlap.  ExactlyOnce counts what
\* is in them, which follows.
PlaceInv ==
    /\ 1..requests = Queued \cup lost \cup Taken \cup Adding
    /\ Queued \cap lost = {}
    /\ Queued \cap Taken = {}
    /\ lost \cap Taken = {}
    /\ Adding \cap (Queued \cup lost \cup Taken) = {}
    /\ \A s, t \in Sessions : s # t => Delivered(s) \cap Delivered(t) = {}

LEMMA PlaceInit == Init => PlaceInv
<1> SUFFICES ASSUME Init PROVE PlaceInv
  OBVIOUS
<1>1. Queued = {} /\ lost = {} /\ Adding = {}
  BY DEF Init, DataList!FifoInit, Queued, Adding
<1>2. \A s \in Sessions : Delivered(s) = {}
  BY DEF Init, Delivered, WrittenFor, HeldBy
<1>3. Taken = {}
  BY <1>2 DEF Taken
<1>4. 1..requests = {}
  BY DEF Init
<1> QED
  BY <1>1, <1>2, <1>3, <1>4 DEF PlaceInv

\* What appending an element and taking the first one do to the elements of a
\* sequence.
LEMMA AppendElements ==
    ASSUME NEW q \in Seq(Nat), NEW n \in Nat
    PROVE  {Append(q, n)[i] : i \in DOMAIN Append(q, n)} = {q[i] : i \in DOMAIN q} \cup {n}
<1> DEFINE a == Append(q, n)
<1>1. /\ DOMAIN a = 1..(Len(q) + 1) /\ DOMAIN q = 1..Len(q) /\ Len(q) \in Nat
      /\ a[Len(q) + 1] = n /\ \A i \in 1..Len(q) : a[i] = q[i]
  OBVIOUS
<1>2. 1..(Len(q) + 1) = (1..Len(q)) \cup {Len(q) + 1}
  BY <1>1
<1> HIDE DEF a
<1>3. {a[i] : i \in DOMAIN a} = {q[i] : i \in DOMAIN q} \cup {n}
  BY <1>1, <1>2
<1> QED
  BY <1>3 DEF a

LEMMA TailElements ==
    ASSUME NEW q \in Seq(Nat), q # <<>>, Increasing(q)
    PROVE  /\ {Tail(q)[i] : i \in DOMAIN Tail(q)} = {q[i] : i \in DOMAIN q} \ {Head(q)}
           /\ Head(q) \in {q[i] : i \in DOMAIN q}
<1> DEFINE r == Tail(q)
<1>1. /\ DOMAIN r = 1..(Len(q) - 1)
      /\ DOMAIN q = 1..Len(q)
      /\ Len(q) \in Nat \ {0}
      /\ Head(q) = q[1] /\ 1 \in DOMAIN q
      /\ \A i \in 1..(Len(q) - 1) : r[i] = q[i + 1] /\ i + 1 \in DOMAIN q /\ 1 < i + 1
      /\ \A i \in 1..Len(q) : q[i] \in Nat
  OBVIOUS
<1> HIDE DEF r
<1>2. ASSUME NEW i \in DOMAIN r PROVE r[i] \in {q[j] : j \in DOMAIN q} /\ r[i] # q[1]
  <2>1. q[1] < q[i + 1]
    BY <1>1 DEF Increasing
  <2> QED
    BY <1>1, <2>1
<1>3. ASSUME NEW j \in DOMAIN q, q[j] # q[1] PROVE q[j] \in {r[i] : i \in DOMAIN r}
  <2>1. j - 1 \in 1..(Len(q) - 1) /\ (j - 1) + 1 = j
    BY <1>1, <1>3
  <2>2. r[j - 1] = q[j]
    BY <1>1, <2>1
  <2> QED
    BY <1>1, <2>1, <2>2
<1>4. {r[i] : i \in DOMAIN r} = {q[i] : i \in DOMAIN q} \ {q[1]}
  BY <1>2, <1>3
<1> QED
  BY <1>1, <1>4 DEF r

LEMMA PlaceNext == IndInv /\ OrderInv /\ PlaceInv /\ [Next]_vars => PlaceInv'
<1> SUFFICES ASSUME IndInv, OrderInv, PlaceInv, [Next]_vars PROVE PlaceInv'
  OBVIOUS
<1> USE DEF ControlGoes, ListenerGoes, SessionGoes, ClientGoes, Starts
<1>t. /\ list \in Seq(Nat)
      /\ \A s \in Sessions : written[s] \in Seq(Nat)
      /\ \A s \in Sessions : session[s] = "write" => elem[s] \in Nat
      /\ requests \in Nat
  BY OrderTypes DEF IndInv
<1>f. /\ session \in [Sessions -> {"none", "wait", "pop", "write", "free"}]
      /\ DOMAIN elem = Sessions /\ DOMAIN written = Sessions
  BY DEF IndInv, TypeInv, TypeOK
\* A step that moves nothing from place to place.
<1>s. ASSUME UNCHANGED <<requests, Queued, lost, Adding>>,
             \A s \in Sessions : Delivered(s)' = Delivered(s)
      PROVE  PlaceInv'
  <2>1. Taken' = Taken
    BY <1>s DEF Taken
  <2> QED
    BY <1>s, <2>1 DEF PlaceInv
<1>1. CASE CtrlRequest
  <2>1. /\ requests' = requests + 1 /\ Adding = {} /\ Adding' = {requests + 1}
        /\ UNCHANGED <<list, written, elem, session, lost>>
    BY <1>1 DEF CtrlRequest, Adding
  <2>2. Queued' = Queued /\ \A s \in Sessions : Delivered(s)' = Delivered(s)
    BY <2>1 DEF Queued, Delivered, WrittenFor, HeldBy
  <2>3. Taken' = Taken
    BY <2>2 DEF Taken
  <2>4. 1..(requests + 1) = (1..requests) \cup {requests + 1} /\ requests + 1 \notin 1..requests
    BY <1>t
  <2> QED
    BY <2>1, <2>2, <2>3, <2>4 DEF PlaceInv
<1>2. CASE CtrlAdd
  <2>1. /\ list' = Append(list, requests) /\ Adding = {requests} /\ Adding' = {}
        /\ UNCHANGED <<requests, written, elem, session, lost>>
    BY <1>2 DEF CtrlAdd, DataList!FifoAdd, Adding
  <2>2. Queued' = Queued \cup {requests}
    BY <1>t, <2>1, AppendElements DEF Queued
  <2>3. \A s \in Sessions : Delivered(s)' = Delivered(s)
    BY <2>1 DEF Delivered, WrittenFor, HeldBy
  <2>4. Taken' = Taken
    BY <2>3 DEF Taken
  <2> QED
    BY <2>1, <2>2, <2>3, <2>4 DEF PlaceInv
<1>3. ASSUME NEW s \in Sessions, SessionPop(s) PROVE PlaceInv'
  <2>1. list # <<>>
    BY <1>3, PopFindsElement DEF SessionPop
  <2>2. /\ list' = Tail(list)
        /\ elem' = [elem EXCEPT ![s] = Head(list)]
        /\ session' = [session EXCEPT ![s] = "write"] /\ session[s] = "pop"
        /\ UNCHANGED <<written, lost, requests, ctl>>
    BY <1>3, <2>1 DEF SessionPop, DataList!FifoPop
  <2>3. Queued' = Queued \ {Head(list)} /\ Head(list) \in Queued
    BY <1>t, <2>1, <2>2, TailElements DEF Queued, OrderInv
  <2>4. Delivered(s)' = Delivered(s) \cup {Head(list)}
    BY <1>f, <2>2 DEF Delivered, WrittenFor, HeldBy
  <2>5. \A u \in Sessions \ {s} : Delivered(u)' = Delivered(u)
    BY <1>f, <2>2 DEF Delivered, WrittenFor, HeldBy
  <2>6. Taken' = Taken \cup {Head(list)}
    BY <2>4, <2>5 DEF Taken
  <2>7. Adding' = Adding /\ \A u \in Sessions : Head(list) \notin Delivered(u)
    BY <2>2, <2>3 DEF Adding, PlaceInv, Taken
  <2> QED
    BY <2>2, <2>3, <2>4, <2>5, <2>6, <2>7 DEF PlaceInv
<1>4. ASSUME NEW s \in Sessions, SessionWrite(s) PROVE PlaceInv'
  <2>1. /\ UNCHANGED <<list, elem, requests, ctl>>
        /\ session' = [session EXCEPT ![s] = "free"] /\ session[s] = "write"
    BY <1>4 DEF SessionWrite
  <2>2. Queued' = Queued /\ Adding' = Adding
    BY <2>1 DEF Queued, Adding
  <2>3. elem[s] \in Nat /\ HeldBy(s) = {elem[s]} /\ HeldBy(s)' = {}
    BY <1>f, <1>t, <2>1 DEF HeldBy
  <2>4. CASE written' = [written EXCEPT ![s] = Append(@, elem[s])] /\ lost' = lost
    <3>1. WrittenFor(s)' = WrittenFor(s) \cup {elem[s]}
      <4>1. written'[s] = Append(written[s], elem[s])
        BY <1>f, <2>4
      <4>2. written[s] \in Seq(Nat) /\ elem[s] \in Nat
        BY <1>t, <2>3
      <4> DEFINE q == written[s]
                 e == elem[s]
      <4>3. {Append(q, e)[i] : i \in DOMAIN Append(q, e)} = {q[i] : i \in DOMAIN q} \cup {e}
        <5> HIDE DEF q, e
        <5>1. q \in Seq(Nat) /\ e \in Nat
          BY <4>2 DEF q, e
        <5> QED
          BY <5>1, AppendElements
      <4> QED
        BY <4>1, <4>3 DEF WrittenFor
    <3>2. Delivered(s)' = Delivered(s)
      BY <2>3, <3>1 DEF Delivered
    <3>3. \A u \in Sessions \ {s} : Delivered(u)' = Delivered(u)
      BY <1>f, <2>1, <2>4 DEF Delivered, WrittenFor, HeldBy
    <3> QED
      BY <1>s, <2>1, <2>2, <2>4, <3>2, <3>3
  <2>5. CASE written' = written /\ lost' = lost \cup {elem[s]}
    <3>1. WrittenFor(s)' = WrittenFor(s) /\ elem[s] \notin WrittenFor(s)
      <4>1. \A i \in DOMAIN written[s] : written[s][i] < elem[s] /\ written[s][i] \in Nat
        BY <1>t, <2>1 DEF OrderInv, AllBelow
      <4> QED
        BY <2>3, <2>5, <4>1 DEF WrittenFor
    <3>2. Delivered(s)' = Delivered(s) \ {elem[s]} /\ elem[s] \in Delivered(s)
      BY <2>3, <3>1 DEF Delivered
    <3>3. \A u \in Sessions \ {s} : Delivered(u)' = Delivered(u)
      BY <1>f, <2>1, <2>5 DEF Delivered, WrittenFor, HeldBy
    <3>4. \A u \in Sessions \ {s} : elem[s] \notin Delivered(u)
      BY <3>2 DEF PlaceInv
    <3>5. Taken' = Taken \ {elem[s]} /\ elem[s] \in Taken
      BY <3>2, <3>3, <3>4 DEF Taken
    <3> QED
      BY <2>1, <2>2, <2>5, <3>2, <3>3, <3>5 DEF PlaceInv
  <2> QED
    BY <1>4, <2>4, <2>5 DEF SessionWrite
<1>5. ASSUME NEW s \in Sessions, SessionFree(s) PROVE PlaceInv'
  <2>1. /\ UNCHANGED <<list, written, requests, ctl, lost>>
        /\ elem' = [elem EXCEPT ![s] = None]
        /\ session' = [session EXCEPT ![s] = "wait"] /\ session[s] = "free"
    BY <1>5 DEF SessionFree, DataList!FifoRelease
  <2>2. \A u \in Sessions : Delivered(u)' = Delivered(u)
    BY <1>f, <2>1 DEF Delivered, WrittenFor, HeldBy
  <2>3. UNCHANGED <<requests, Queued, lost, Adding>>
    BY <2>1 DEF Queued, Adding
  <2> QED
    BY <1>s, <2>2, <2>3
<1>6. CASE \/ CtrlNoFile \/ CtrlPost \/ CommStep \/ CommAcceptFails \/ UNCHANGED vars
           \/ \E s \in Sessions : \/ SessionSemWait(s) \/ SessionWriteFails(s)
                                  \/ ClientConnect(s) \/ ClientLeave(s)
  <2>1. UNCHANGED <<list, written, elem, requests, lost>>
    BY <1>6 DEF CtrlNoFile, CtrlPost, CommStep, CommSemInit, CommBind, CommBindFails, CommAccept,
                CommAcceptFails, SessionSemWait, SessionWriteFails, ClientConnect, ClientLeave, vars
  <2>2. ctl' = "add" <=> ctl = "add"
    BY <1>6 DEF CtrlNoFile, CtrlPost, CommStep, CommSemInit, CommBind, CommBindFails, CommAccept,
                CommAcceptFails, SessionSemWait, SessionWriteFails, ClientConnect, ClientLeave, vars
  <2>3. \A s \in Sessions : session'[s] = "write" <=> session[s] = "write"
    BY <1>6, <1>f DEF CtrlNoFile, CtrlPost, CommStep, CommSemInit, CommBind, CommBindFails, CommAccept,
                CommAcceptFails, SessionSemWait, SessionWriteFails, ClientConnect, ClientLeave, vars
  <2>4. \A s \in Sessions : Delivered(s)' = Delivered(s)
    BY <2>1, <2>3 DEF Delivered, WrittenFor, HeldBy
  <2>5. UNCHANGED <<requests, Queued, lost, Adding>>
    BY <2>1, <2>2 DEF Queued, Adding
  <2> QED
    BY <1>s, <2>4, <2>5
<1> QED
  BY <1>1, <1>2, <1>3, <1>4, <1>5, <1>6 DEF Next, CtrlStep, SessionStep

\* The elements of an increasing sequence are as many as its places.
LEMMA IncreasingCount ==
    ASSUME NEW q \in Seq(Nat), Increasing(q)
    PROVE  /\ IsFiniteSet({q[i] : i \in DOMAIN q})
           /\ Cardinality({q[i] : i \in DOMAIN q}) = Len(q)
<1> DEFINE T == {q[i] : i \in DOMAIN q}
<1>1. DOMAIN q = 1..Len(q) /\ Len(q) \in Nat /\ \A i \in 1..Len(q) : q[i] \in Nat
  OBVIOUS
<1>2. IsFiniteSet(1..Len(q)) /\ Cardinality(1..Len(q)) = Len(q)
  <2>1. 1 \in Int /\ Len(q) \in Int
    BY <1>1
  <2>2. /\ IsFiniteSet(1..Len(q))
        /\ Cardinality(1..Len(q)) = IF 1 > Len(q) THEN 0 ELSE Len(q) - 1 + 1
    BY <2>1, FS_Interval
  <2> QED
    BY <1>1, <2>2
<1>3. ASSUME NEW i \in 1..Len(q), NEW j \in 1..Len(q), q[i] = q[j] PROVE i = j
  <2>1. CASE i < j
    BY <1>1, <1>3, <2>1 DEF Increasing
  <2>2. CASE j < i
    BY <1>1, <1>3, <2>2 DEF Increasing
  <2> QED
    BY <2>1, <2>2
<1>4. q \in Bijection(1..Len(q), T)
  <2>1. q \in [1..Len(q) -> T]
    BY <1>1
  <2>2. q \in Injection(1..Len(q), T)
    BY <1>3, <2>1 DEF Injection, IsInjective
  <2>3. q \in Surjection(1..Len(q), T)
    BY <1>1, <2>1 DEF Surjection
  <2> QED
    BY <2>2, <2>3 DEF Bijection
<1>5. ExistsBijection(1..Len(q), T)
  BY <1>4 DEF ExistsBijection
<1> QED
  BY <1>2, <1>5, FS_Bijection

LEMMA DisjointCount ==
    ASSUME NEW S, NEW T, IsFiniteSet(S), IsFiniteSet(T), S \cap T = {}
    PROVE  /\ IsFiniteSet(S \cup T)
           /\ Cardinality(S \cup T) = Cardinality(S) + Cardinality(T)
           /\ Cardinality(S) \in Nat /\ Cardinality(T) \in Nat
<1>1. Cardinality(S \cap T) = 0
  BY FS_EmptySet
<1>2. Cardinality(S) \in Nat /\ Cardinality(T) \in Nat
  BY FS_CardinalityType
<1>3. /\ IsFiniteSet(S \cup T)
      /\ Cardinality(S \cup T) = Cardinality(S) + Cardinality(T) - Cardinality(S \cap T)
  BY FS_Union
<1> QED
  BY <1>1, <1>2, <1>3

LEMMA PlacesCount ==
    ASSUME TypeInv, OrderInv, PlaceInv
    PROVE  ExactlyOnce
<1>1. list \in Seq(Nat) /\ requests \in Nat
  BY OrderTypes
<1>2. IsFiniteSet(Queued) /\ Cardinality(Queued) = Len(list)
  BY <1>1, IncreasingCount DEF Queued, OrderInv
<1>3. IsFiniteSet(1..requests) /\ Cardinality(1..requests) = requests
  <2>1. 1 \in Int /\ requests \in Int
    BY <1>1
  <2>2. /\ IsFiniteSet(1..requests)
        /\ Cardinality(1..requests) = IF 1 > requests THEN 0 ELSE requests - 1 + 1
    BY <2>1, FS_Interval
  <2> QED
    BY <1>1, <2>2
<1>4. IsFiniteSet(lost) /\ IsFiniteSet(Taken)
  BY <1>3, FS_Subset DEF PlaceInv
<1>5. IsFiniteSet(Adding) /\ Cardinality(Adding) = IF ctl = "add" THEN 1 ELSE 0
  BY FS_Singleton, FS_EmptySet DEF Adding
<1> DEFINE A == Queued \cup lost
           B == Queued \cup lost \cup Taken
<1>6. IsFiniteSet(A) /\ Cardinality(A) = Len(list) + Cardinality(lost)
  BY <1>2, <1>4, DisjointCount DEF PlaceInv
<1>7. IsFiniteSet(B) /\ Cardinality(B) = Cardinality(A) + Cardinality(Taken)
  <2>1. A \cap Taken = {}
    BY DEF PlaceInv
  <2> HIDE DEF A
  <2>2. IsFiniteSet(A \cup Taken) /\ Cardinality(A \cup Taken) = Cardinality(A) + Cardinality(Taken)
    BY <1>4, <1>6, <2>1, DisjointCount
  <2> QED
    BY <2>2 DEF A
<1>8. requests = Cardinality(B) + Cardinality(Adding)
  <2>1. 1..requests = B \cup Adding /\ B \cap Adding = {}
    BY DEF PlaceInv
  <2> HIDE DEF B
  <2> QED
    BY <1>3, <1>5, <1>7, <2>1, DisjointCount
<1>9. /\ Cardinality(lost) \in Nat /\ Cardinality(Taken) \in Nat /\ Len(list) \in Nat
  BY <1>1, <1>4, FS_CardinalityType
<1>10. Taken = UNION {WrittenFor(s) \cup HeldBy(s) : s \in Sessions}
  BY DEF Taken, Delivered
<1>11. requests = Len(list) + Cardinality(lost) + (IF ctl = "add" THEN 1 ELSE 0)
                  + Cardinality(Taken)
  <2> HIDE DEF A, B
  <2> QED
    BY <1>5, <1>6, <1>7, <1>8, <1>9
<1> DEFINE U == UNION {WrittenFor(s) \cup HeldBy(s) : s \in Sessions}
<1>12. 1..requests = Queued \cup lost \cup U \cup (IF ctl = "add" THEN {requests} ELSE {})
  <2>1. Taken = U
    BY <1>10
  <2> HIDE DEF U, A, B
  <2> QED
    BY <2>1 DEF PlaceInv, Adding
<1>13. requests = Len(list) + Cardinality(lost) + (IF ctl = "add" THEN 1 ELSE 0) + Cardinality(U)
  <2>1. Taken = U
    BY <1>10
  <2> HIDE DEF U, A, B
  <2> QED
    BY <1>11, <2>1
<1>14. \A s, t \in Sessions : s # t =>
          (WrittenFor(s) \cup HeldBy(s)) \cap (WrittenFor(t) \cup HeldBy(t)) = {}
  BY DEF PlaceInv, Delivered
<1> QED
  BY <1>12, <1>13, <1>14 DEF ExactlyOnce

\* Every configuration asked for is on the list, with one session, written to
\* one client or lost to one that had gone, for any number of sessions and
\* requests: none is dropped and none goes out twice.
THEOREM ExactlyOnceAlways == Spec => []ExactlyOnce
<1>1. IndInv /\ OrderInv /\ PlaceInv => ExactlyOnce
  BY PlacesCount DEF IndInv
<1>2. Spec => []IndInv
  BY IndInvariance
<1>3. Init => OrderInv /\ PlaceInv
  BY OrderInit, PlaceInit
<1>4. IndInv /\ OrderInv /\ [Next]_vars => OrderInv'
  BY OrderNext
<1>5. IndInv /\ OrderInv /\ PlaceInv /\ [Next]_vars => PlaceInv'
  BY PlaceNext
<1> QED
  BY <1>1, <1>2, <1>3, <1>4, <1>5, PTL DEF Spec

-----------------------------------------------------------------------------
(* The parser and the sessions together                                     *)

\* Whatever the parser does, the relay takes one of its own steps.
LEMMA ServerStepIsRelayStep == [ServerNext]_serverVars => [Next]_vars
<1> SUFFICES ASSUME [ServerNext]_serverVars PROVE [Next]_vars
  OBVIOUS
<1>1. CASE ClientSends \/ ControlReceives \/ ControlParses
  BY <1>1 DEF ClientSends, ControlReceives, ControlParses
<1>2. CASE ControlAnswers
  BY <1>2 DEF ControlAnswers, Next
<1>3. CASE Handler \/ Listener \/ Waiting \/ Peers
  BY <1>3 DEF Handler, Listener, Waiting, Peers, Next, SessionStep
<1>4. CASE \E s \in Sessions : Session(s)
  BY <1>4 DEF Session, Next, SessionStep
<1>5. CASE UNCHANGED serverVars
  BY <1>5 DEF serverVars
<1>6. CASE PortFails
  BY <1>6 DEF PortFails, Next
<1> QED
  BY <1>1, <1>2, <1>3, <1>4, <1>5, <1>6 DEF ServerNext

\* The tokens balance and the writes are in order, with the datagrams of the
\* control port as the only source of requests.
THEOREM ServerKeepsTokensAndOrder ==
    ServerSpec => [](TypeOK /\ TokenConservation /\ InRequestOrder)
<1>1. ServerInit => IndInv /\ OrderInv
  BY InitInd, OrderInit DEF ServerInit
<1>2. IndInv /\ [ServerNext]_serverVars => IndInv'
  BY NextInd, ServerStepIsRelayStep
<1>3. IndInv /\ OrderInv /\ [ServerNext]_serverVars => OrderInv'
  BY OrderNext, ServerStepIsRelayStep
<1>4. IndInv /\ OrderInv => TypeOK /\ TokenConservation /\ InRequestOrder
  BY OrderIsHistory DEF IndInv, TypeInv
<1> QED
  BY <1>1, <1>2, <1>3, <1>4, PTL DEF ServerSpec

\* With the parser in front of it the relay still delivers every request it
\* makes exactly once.
THEOREM ServerDeliversOnce == ServerSpec => []ExactlyOnce
<1>1. ServerInit => IndInv /\ OrderInv /\ PlaceInv
  BY InitInd, OrderInit, PlaceInit DEF ServerInit
<1>2. IndInv /\ [ServerNext]_serverVars => IndInv'
  BY NextInd, ServerStepIsRelayStep
<1>3. IndInv /\ OrderInv /\ [ServerNext]_serverVars => OrderInv'
  BY OrderNext, ServerStepIsRelayStep
<1>4. IndInv /\ OrderInv /\ PlaceInv /\ [ServerNext]_serverVars => PlaceInv'
  BY PlaceNext, ServerStepIsRelayStep
<1>5. IndInv /\ OrderInv /\ PlaceInv => ExactlyOnce
  BY PlacesCount DEF IndInv
<1> QED
  BY <1>1, <1>2, <1>3, <1>4, <1>5, PTL DEF ServerSpec

-----------------------------------------------------------------------------
(* From the datagram to the queue                                           *)

\* What is proved of the parser
Parse == INSTANCE ControlServerProofs WITH status <- parser

\* The assumption on its constants
LEMMA ParserConstants ==
    /\ BufSize \in Nat \ {0}
    /\ SeqModulus \in Nat \ {0}
    /\ MaxSent \in Nat
    /\ MaxReceived \in Nat
    /\ \A shape \in Shapes : shape \in Seq(Parse!Names \X Parse!ArgKinds) /\ shape # <<>>
    /\ Clipped \in BOOLEAN
<1>1. Control!Names = Parse!Names /\ Control!ArgKinds = Parse!ArgKinds
  BY DEF Control!Names, Parse!Names, Control!ArgKinds, Parse!ArgKinds, Control!NameOf,
       Parse!NameOf, Control!AT, Parse!AT, Control!Symbol, Parse!Symbol
<1> QED
  BY <1>1, ServerAssumption

\* The steps of the parser are those that were proved about.
LEMMA SameSend ==
    ASSUME NEW shape \in Shapes, Control!Send(shape) PROVE Parse!Send(shape)
BY DEF Control!Send, Parse!Send, Control!SpellAll, Parse!SpellAll, Control!Spell,
       Parse!Spell, Control!SeqAfter, Parse!SeqAfter, Control!Datagram,
       Parse!Datagram, Control!NameOf, Parse!NameOf, Control!AT, Parse!AT,
       Control!Symbol, Parse!Symbol, Control!EQ, Parse!EQ, Control!CR, Parse!CR,
       Control!outcome, Parse!outcome

LEMMA SameReceive ==
    ASSUME NEW d \in net, Control!Receive(d) PROVE Parse!Receive(d)
BY DEF Control!Receive, Parse!Receive, Control!Root, Parse!Root, Control!outcome,
       Parse!outcome

LEMMA SameWalk == Control!Walk => Parse!Walk
BY DEF Control!Walk, Parse!Walk, Control!Parsing, Parse!Parsing, Control!EQ, Parse!EQ,
       Control!Symbol, Parse!Symbol, Control!Root, Parse!Root, Control!NameOf,
       Parse!NameOf, Control!AT, Parse!AT, Control!Names, Parse!Names,
       Control!Nodes, Parse!Nodes, Control!outcome, Parse!outcome,
       Control!network, Parse!network

LEMMA SameCommand ==
    ASSUME NEW C, Control!AtCommand(C)
    PROVE  Parse!AtCommand(C) /\ Control!CommandAt(node) = Parse!CommandAt(node)
BY DEF Control!AtCommand, Parse!AtCommand, Control!Parsing, Parse!Parsing, Control!EQ,
       Parse!EQ, Control!Symbol, Parse!Symbol, Control!Root, Parse!Root,
       Control!NameOf, Parse!NameOf, Control!AT, Parse!AT, Control!Names,
       Parse!Names, Control!CommandAt, Parse!CommandAt

LEMMA SameEquals == Control!EqualsWithoutCommand => Parse!EqualsWithoutCommand
BY DEF Control!EqualsWithoutCommand, Parse!EqualsWithoutCommand, Control!HasHandler,
       Parse!HasHandler, Control!Parsing, Parse!Parsing, Control!EQ, Parse!EQ,
       Control!Symbol, Parse!Symbol, Control!Root, Parse!Root, Control!NameOf,
       Parse!NameOf, Control!AT, Parse!AT, Control!Names, Parse!Names,
       Control!outcome, Parse!outcome, Control!network, Parse!network

LEMMA SameEmpty == Control!CallEmpty => Parse!CallEmpty
<1>1. Control!Empties = Parse!Empties
  BY DEF Control!Empties, Parse!Empties, Control!Names, Parse!Names, Control!NameOf,
       Parse!NameOf, Control!AT, Parse!AT, Control!Symbol, Parse!Symbol,
       Control!Moves, Parse!Moves
<1> QED
  BY <1>1, SameCommand DEF Control!CallEmpty, Parse!CallEmpty, Control!outcome, Parse!outcome,
       Control!network, Parse!network

LEMMA SameArgs ==
    ASSUME NEW C, Control!WithArgs(C) PROVE Parse!WithArgs(C)
<1>1. Control!CrPositions = Parse!CrPositions
  BY DEF Control!CrPositions, Parse!CrPositions, Control!CR, Parse!CR, Control!Symbol,
       Parse!Symbol
<1>2. Control!AfterArgs = Parse!AfterArgs
  BY <1>1 DEF Control!AfterArgs, Parse!AfterArgs, Control!EndOfArgs, Parse!EndOfArgs
<1> QED
  BY <1>1, <1>2, SameCommand DEF Control!WithArgs, Parse!WithArgs, Control!network, Parse!network

LEMMA SameMove == Control!CallMove => Parse!CallMove
<1>1. Control!Moves = Parse!Moves /\ Control!ReadSeq = Parse!ReadSeq
  BY DEF Control!Moves, Parse!Moves, Control!ReadSeq, Parse!ReadSeq, Control!SeqNums,
       Parse!SeqNums, Control!Args, Parse!Args
<1>2. Control!CallMove => Control!CommandAt(node) = Parse!CommandAt(node)
  BY SameCommand DEF Control!CallMove, Control!WithArgs
<1> QED
  BY <1>1, <1>2, SameArgs DEF Control!CallMove, Parse!CallMove

LEMMA SameCtrl == Control!CallCtrl => Parse!CallCtrl
BY SameArgs DEF Control!CallCtrl, Parse!CallCtrl, Control!Args, Parse!Args

LEMMA SameUnterminated == Control!Unterminated => Parse!Unterminated
<1>1. Control!CrPositions = Parse!CrPositions /\ Control!Moves = Parse!Moves
  BY DEF Control!CrPositions, Parse!CrPositions, Control!CR, Parse!CR, Control!Symbol,
       Parse!Symbol, Control!Moves, Parse!Moves
<1> QED
  BY <1>1, SameCommand DEF Control!Unterminated, Parse!Unterminated, Control!outcome, Parse!outcome,
       Control!network, Parse!network

LEMMA SameBindFails == Control!BindFails => Parse!BindFails
BY DEF Control!BindFails, Parse!BindFails, Control!outcome, Parse!outcome, Control!network,
       Parse!network

LEMMA SameInit == Control!Init => Parse!Init
BY DEF Control!Init, Parse!Init, Control!NoDatagram, Parse!NoDatagram,
       Control!Datagram, Parse!Datagram, Control!Root, Parse!Root

\* Every step of Server is a step of the parser or leaves it alone.
LEMMA ServerStepIsParserStep == [ServerNext]_serverVars => [Parse!Next]_Parse!vars
<1> SUFFICES ASSUME [ServerNext]_serverVars PROVE [Parse!Next]_Parse!vars
  OBVIOUS
<1>1. CASE ClientSends
  BY <1>1, SameSend DEF ClientSends, Parse!Next
<1>2. CASE ControlReceives
  BY <1>2, SameReceive DEF ControlReceives, Parse!Next
<1>3. CASE ControlParses
  BY <1>3, SameWalk, SameEquals, SameEmpty, SameUnterminated, SameMove
     DEF ControlParses, Parse!Next, Parse!ParseStep
<1>4. CASE ControlAnswers
  BY <1>4, SameCtrl DEF ControlAnswers, Parse!Next, Parse!ParseStep
<1>5. CASE Handler \/ Listener \/ Waiting \/ (\E s \in Sessions : Session(s)) \/ Peers
  <2>1. UNCHANGED controlVars
    BY <1>5 DEF Handler, Listener, Waiting, Session, Peers
  <2> QED
    BY <2>1 DEF controlVars, parserVars, Parse!vars, Parse!network, Parse!outcome
<1>6. CASE UNCHANGED serverVars
  BY <1>6 DEF serverVars, controlVars, parserVars, Parse!vars, Parse!network, Parse!outcome
<1>7. CASE PortFails
  BY <1>7, SameBindFails
     DEF PortFails, Parse!Next, controlVars, parserVars, Parse!vars, Parse!network, Parse!outcome
<1> QED
  BY <1>1, <1>2, <1>3, <1>4, <1>5, <1>6, <1>7 DEF ServerNext

\* Both parts are where their own invariants say.
PartsInv == IndInv /\ Parse!ParseInv /\ Parse!AskInv

LEMMA PartsInit == ServerInit => PartsInv
<1> SUFFICES ASSUME ServerInit PROVE PartsInv
  OBVIOUS
<1>1. IndInv
  BY InitInd DEF ServerInit
<1>2. Parse!Init
  BY SameInit DEF ServerInit
<1>3. Parse!ParseInv
  BY <1>2, ParserConstants, Parse!ParseInit
<1>4. Parse!AskInv
  BY <1>2, ParserConstants, Parse!AskInit
<1> QED
  BY <1>1, <1>3, <1>4 DEF PartsInv

LEMMA PartsNext == PartsInv /\ [ServerNext]_serverVars => PartsInv'
<1> SUFFICES ASSUME PartsInv, [ServerNext]_serverVars PROVE PartsInv'
  OBVIOUS
<1>1. IndInv'
  BY NextInd, ServerStepIsRelayStep DEF PartsInv
<1>2. [Parse!Next]_Parse!vars
  BY ServerStepIsParserStep
<1>3. Parse!ParseInv'
  BY <1>2, ParserConstants, Parse!ParseNext DEF PartsInv
<1>4. Parse!AskInv'
  BY <1>2, ParserConstants, Parse!AskNext DEF PartsInv
<1> QED
  BY <1>1, <1>3, <1>4 DEF PartsInv

\* What was asked for in the datagrams received was handled, or is waiting in
\* the one being parsed.
AskedInv ==
    /\ asked \in Nat
    /\ Parse!AllPlain /\ Alive => asked = requests + Cardinality(Parse!Waiting)

LEMMA RequestsAreWanted ==
    ASSUME NEW d, Parse!IsDatagram(d)
    PROVE  /\ Requests(d) = Parse!Wanted(d)
           /\ IsFiniteSet(Parse!Wanted(d)) /\ Cardinality(Parse!Wanted(d)) \in Nat
<1>1. Requests(d) = Parse!Wanted(d)
  BY DEF Requests, Control!NameOf, Parse!NameOf, Control!AT, Parse!AT, Control!Symbol, Parse!Symbol, Parse!Wanted
<1>2. Len(d.symbols) \in Nat
  BY DEF Parse!IsDatagram
<1>3. IsFiniteSet(3..Len(d.symbols))
  BY <1>2, FS_Interval
<1>4. Parse!Wanted(d) \subseteq 3..Len(d.symbols)
  BY DEF Parse!Wanted
<1>5. IsFiniteSet(Parse!Wanted(d))
  BY <1>3, <1>4, FS_Subset
<1> QED
  BY <1>1, <1>5, FS_CardinalityType

LEMMA WaitingFinite ==
    ASSUME Parse!ParseInv
    PROVE  IsFiniteSet(Parse!Waiting) /\ Cardinality(Parse!Waiting) \in Nat
<1>1. CASE current.datagram = Parse!NoDatagram
  <2>1. Len(Parse!NoDatagram.symbols) = 0
    BY DEF Parse!NoDatagram, Parse!Datagram
  <2>2. Parse!Waiting = {}
    BY <1>1, <2>1 DEF Parse!Waiting, Parse!Wanted
  <2> QED
    BY <2>2, FS_EmptySet
<1>2. CASE current.datagram \in net
  <2>1. Parse!IsDatagram(current.datagram)
    BY <1>2 DEF Parse!ParseInv, Parse!NetInv
  <2>2. Parse!Waiting \subseteq Parse!Wanted(current.datagram)
    BY DEF Parse!Waiting
  <2>3. IsFiniteSet(Parse!Waiting)
    BY <2>1, <2>2, RequestsAreWanted, FS_Subset
  <2> QED
    BY <2>3, FS_CardinalityType
<1> QED
  BY <1>1, <1>2 DEF Parse!ParseInv, Parse!TypeOK

LEMMA AskedInit == ServerInit => AskedInv
<1> SUFFICES ASSUME ServerInit PROVE AskedInv
  OBVIOUS
<1>1. asked = 0 /\ requests = 0
  BY DEF ServerInit, Init
<1>2. Parse!Waiting = {}
  BY SameInit, ParserConstants, Parse!AskInit DEF ServerInit
<1>3. Cardinality(Parse!Waiting) = 0
  BY <1>2, FS_EmptySet
<1> QED
  BY <1>1, <1>3 DEF AskedInv

LEMMA AskedNext == PartsInv /\ AskedInv /\ [ServerNext]_serverVars => AskedInv'
<1> SUFFICES ASSUME PartsInv, AskedInv, [ServerNext]_serverVars PROVE AskedInv'
  OBVIOUS
<1>1. Parse!ParseInv /\ Parse!AskInv
  BY DEF PartsInv
<1>2. asked \in Nat /\ requests \in Nat
  BY DEF AskedInv, PartsInv, IndInv, TypeInv, TypeOK
<1>3. IsFiniteSet(Parse!Waiting) /\ Cardinality(Parse!Waiting) \in Nat
  BY <1>1, WaitingFinite
<1>4. CASE UNCHANGED controlVars /\ requests' = requests /\ (Alive' => Alive)
  <2>1. asked' = asked /\ Parse!AllPlain' = Parse!AllPlain /\ Parse!Waiting' = Parse!Waiting
    BY <1>4 DEF controlVars, parserVars, Parse!AllPlain, Parse!Waiting, Parse!Read
  <2> QED
    BY <1>4, <2>1 DEF AskedInv
<1>5. CASE Handler \/ Listener \/ Waiting \/ (\E s \in Sessions : Session(s)) \/ Peers
  <2>1. requests' = requests /\ Alive
    BY <1>5 DEF Handler, CtrlStep, CtrlAdd, CtrlPost, ControlGoes, Listener, CommStep,
                CommSemInit, CommBind, CommBindFails, CommAccept, Starts, ListenerGoes,
                Waiting, SessionSemWait, SessionGoes, Session, SessionPop, SessionWrite,
                SessionWriteFails, SessionFree, Peers, ClientConnect, ClientLeave, ClientGoes
  <2>2. UNCHANGED controlVars
    BY <1>5 DEF Handler, Listener, Waiting, Session, Peers
  <2> QED
    BY <1>4, <2>1, <2>2
<1>6. CASE UNCHANGED serverVars
  BY <1>4, <1>6 DEF serverVars, vars, controlVars, parserVars, Alive
<1>7. CASE ClientSends
  <2>1. PICK shape \in Shapes : Parse!Send(shape)
    BY <1>7, SameSend DEF ClientSends
  <2>2. net \subseteq net' /\ current' = current /\ buf' = buf /\ parser' = parser
    BY <2>1 DEF Parse!Send, Parse!outcome
  <2>3. Parse!Waiting' = Parse!Waiting /\ (Parse!AllPlain' => Parse!AllPlain)
    BY <2>2 DEF Parse!Waiting, Parse!Read, Parse!AllPlain
  <2>4. asked' = asked /\ requests' = requests /\ Alive' = Alive
    BY <1>7, <2>2 DEF ClientSends, vars, Alive
  <2> QED
    BY <2>3, <2>4 DEF AskedInv
<1>8. CASE ControlReceives
  <2>1. PICK d \in net :
          /\ Control!Receive(d) /\ asked' = asked + Cardinality(Requests(d))
          /\ Looping /\ UNCHANGED vars
    BY <1>8 DEF ControlReceives
  <2>2. Parse!Receive(d)
    BY <2>1, SameReceive
  <2>3. Parse!IsDatagram(d)
    BY <1>1 DEF Parse!ParseInv, Parse!NetInv
  <2>4. /\ Requests(d) = Parse!Wanted(d) /\ IsFiniteSet(Parse!Wanted(d))
        /\ Cardinality(Parse!Wanted(d)) \in Nat
    BY <2>3, RequestsAreWanted
  <2>5. Parse!Waiting' = Parse!Wanted(d)
    BY <1>1, <2>2, ParserConstants, Parse!ReceiveAsks
  <2>6. Parse!AllPlain => Parse!Waiting = {}
    <3>1. parser = "running" /\ buf = <<>>
      BY <2>1, <2>2 DEF Looping, Alive, Parse!Receive
    <3> QED
      BY <1>1, <3>1, ParserConstants, Parse!StepAsks
  <2>7. Parse!AllPlain' = Parse!AllPlain
    BY <2>2 DEF Parse!Receive, Parse!AllPlain
  <2>8. Alive /\ requests' = requests
    BY <2>1 DEF Looping, vars
  <2>9. Parse!AllPlain => asked = requests
    BY <1>2, <2>6, <2>8, FS_EmptySet DEF AskedInv
  <2> QED
    BY <1>2, <2>1, <2>4, <2>5, <2>7, <2>8, <2>9 DEF AskedInv
<1>9. CASE ControlParses
  <2>1. /\ Looping /\ UNCHANGED vars /\ asked' = asked
        /\ \/ Parse!Walk \/ Parse!EqualsWithoutCommand
           \/ Parse!CallEmpty \/ Parse!Unterminated \/ Parse!CallMove
    BY <1>9, SameWalk, SameEquals, SameEmpty, SameUnterminated, SameMove DEF ControlParses
  <2>2. Alive /\ parser = "running" /\ requests' = requests
    BY <2>1 DEF Looping, Alive, vars
  <2>3. CASE Parse!Unterminated
    BY <2>1, <2>3 DEF Parse!Unterminated, Alive, AskedInv
  <2>4. CASE Parse!Walk \/ Parse!EqualsWithoutCommand \/ Parse!CallEmpty \/ Parse!CallMove
    <3>1. Parse!AllPlain => Parse!Waiting' = Parse!Waiting
      BY <1>1, <2>2, <2>4, ParserConstants, Parse!StepAsks
    <3>2. net' = net
      BY <2>4 DEF Parse!Walk, Parse!EqualsWithoutCommand, Parse!CallEmpty, Parse!CallMove,
                  Parse!WithArgs, Parse!network
    <3>3. Parse!AllPlain' = Parse!AllPlain
      BY <3>2 DEF Parse!AllPlain
    <3> QED
      BY <1>2, <2>1, <2>2, <3>1, <3>3 DEF AskedInv
  <2> QED
    BY <2>1, <2>3, <2>4
<1>10. CASE ControlAnswers
  <2>1. /\ Looping /\ Parse!CallCtrl /\ asked' = asked
        /\ IF configs' > configs THEN CtrlRequest \/ CtrlNoFile ELSE UNCHANGED vars
    BY <1>10, SameCtrl DEF ControlAnswers
  <2>2. Alive /\ parser = "running"
    BY <2>1 DEF Looping, Alive
  <2>3. Parse!AllPlain =>
          IF configs' > configs
          THEN \E i : i \notin Parse!Waiting' /\ Parse!Waiting = Parse!Waiting' \cup {i}
          ELSE Parse!Waiting' = Parse!Waiting
    BY <1>1, <2>1, <2>2, ParserConstants, Parse!StepAsks
  <2>4. Parse!AllPlain' = Parse!AllPlain
    BY <2>1 DEF Parse!CallCtrl, Parse!WithArgs, Parse!network, Parse!AllPlain
  <2>5. CASE configs' > configs /\ CtrlRequest
    <3>1. requests' = requests + 1
      BY <2>5 DEF CtrlRequest
    <3>2. ASSUME Parse!AllPlain
          PROVE  Cardinality(Parse!Waiting) = Cardinality(Parse!Waiting') + 1
      <4>1. PICK i : i \notin Parse!Waiting' /\ Parse!Waiting = Parse!Waiting' \cup {i}
        BY <2>3, <2>5, <3>2
      <4>2. IsFiniteSet(Parse!Waiting')
        BY <1>3, <4>1, FS_Subset
      <4> QED
        BY <4>1, <4>2, FS_AddElement
    <3>3. Parse!AllPlain => Cardinality(Parse!Waiting') \in Nat
      <4>1. Parse!AllPlain => IsFiniteSet(Parse!Waiting')
        BY <1>3, <2>3, <2>5, FS_Subset
      <4> QED
        BY <4>1, FS_CardinalityType
    <3> QED
      BY <1>2, <2>1, <2>2, <2>4, <3>1, <3>2, <3>3 DEF AskedInv
  <2>6. CASE configs' > configs /\ CtrlNoFile
    BY <2>1, <2>6 DEF CtrlNoFile, Alive, AskedInv
  <2>7. CASE ~(configs' > configs)
    <3>1. requests' = requests
      BY <2>1, <2>7 DEF vars
    <3> QED
      BY <2>1, <2>2, <2>3, <2>4, <2>7, <3>1 DEF AskedInv
  <2> QED
    BY <2>1, <2>5, <2>6, <2>7
<1>11. CASE PortFails
  <2>1. requests' = requests /\ asked' = asked /\ ~Alive'
    BY <1>11 DEF PortFails, Control!BindFails, CommAcceptFails, ListenerGoes, vars, controlVars, Alive
  <2> QED
    BY <1>2, <2>1 DEF AskedInv
<1> QED
  BY <1>5, <1>6, <1>7, <1>8, <1>9, <1>10, <1>11 DEF ServerNext

\* Every AT*CTRL=...,4 in the datagrams received is handled once, however many
\* there are and whatever came with them, when the client sends datagrams whole,
\* in the size of the buffer, and with numbers for arguments of AT*CTRL.  (Of a
\* text sscanf makes no number, and a datagram that was cut leaves the walk in
\* the middle of a name, so that the next one is misread.)
THEOREM EveryRequestIsHandled ==
    ServerSpec => []((\A d \in net : Parse!Plain(d)) => AskedIsHandled)
<1>1. ServerInit => PartsInv /\ AskedInv
  BY PartsInit, AskedInit
<1>2. PartsInv /\ AskedInv /\ [ServerNext]_serverVars => PartsInv' /\ AskedInv'
  BY PartsNext, AskedNext
<1>3. ASSUME PartsInv, AskedInv, \A d \in net : Parse!Plain(d), Looping, buf = <<>>
      PROVE  requests = asked
  <2>1. Parse!AllPlain /\ Alive /\ parser = "running"
    BY <1>3 DEF Parse!AllPlain, Looping, Alive
  <2>2. Parse!Waiting = {}
    BY <1>3, <2>1, ParserConstants, Parse!StepAsks DEF PartsInv
  <2>3. requests \in Nat
    BY <1>3 DEF PartsInv, IndInv, TypeInv, TypeOK
  <2> QED
    BY <1>3, <2>1, <2>2, <2>3, FS_EmptySet DEF AskedInv
<1>4. PartsInv /\ AskedInv => ((\A d \in net : Parse!Plain(d)) => AskedIsHandled)
  BY <1>3 DEF AskedIsHandled
<1> QED
  BY <1>1, <1>2, <1>4, PTL DEF ServerSpec
=============================================================================

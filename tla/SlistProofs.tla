---------------------------- MODULE SlistProofs ----------------------------
(***************************************************************************)
(* What inserting into and removing from a liblist list do to its length,  *)
(* its elements and their order; and induction, for the loops.  The        *)
(* registries' proofs rest on these.                                       *)
(***************************************************************************)
EXTENDS Slist, TLAPS, WellFoundedInduction

\* A function on 1..n is a sequence of length n.
LEMMA FunctionIsSeq ==
    ASSUME NEW S, NEW n \in Nat, NEW f \in [1..n -> S]
    PROVE  f \in Seq(S) /\ Len(f) = n
  OBVIOUS

\* The walk for an element that is linked finds it.
LEMMA FindPosition ==
    ASSUME NEW S, NEW s \in Seq(S), NEW e \in SlistElems(s)
    PROVE  SlistFind(s, e) \in 1..Len(s) /\ s[SlistFind(s, e)] = e
  BY DEF SlistFind, SlistElems

\* An element of a sequence over S is in S.
LEMMA ElemsIn ==
    ASSUME NEW S, NEW s \in Seq(S)
    PROVE  SlistElems(s) \subseteq S
  BY DEF SlistElems

\* SLIST_INSERT_HEAD gives a list with one element more, in front of the others.
LEMMA InsertHead ==
    ASSUME NEW S, NEW s \in Seq(S), NEW e \in S
    PROVE  /\ SlistInsertHead(s, e) \in Seq(S)
           /\ Len(SlistInsertHead(s, e)) = Len(s) + 1
           /\ SlistInsertHead(s, e)[1] = e
           /\ \A i \in 1..Len(s) : SlistInsertHead(s, e)[i + 1] = s[i]
           /\ SlistElems(SlistInsertHead(s, e)) = SlistElems(s) \cup {e}
  <1> DEFINE t == SlistInsertHead(s, e)
  <1>1. Len(s) \in Nat /\ s \in [1..Len(s) -> S]
    OBVIOUS
  <1>2. t \in [1..(Len(s) + 1) -> S]
    BY <1>1 DEF SlistInsertHead
  <1>3. t \in Seq(S) /\ Len(t) = Len(s) + 1
    BY <1>1, <1>2
  <1>4. t[1] = e /\ \A i \in 1..Len(s) : t[i + 1] = s[i]
    BY <1>1 DEF SlistInsertHead
  <1>5. SlistElems(t) = SlistElems(s) \cup {e}
    <2>1. ASSUME NEW x \in SlistElems(t) PROVE x \in SlistElems(s) \cup {e}
      <3>1. PICK i \in 1..(Len(s) + 1) : x = t[i]
        BY <2>1, <1>3 DEF SlistElems
      <3>2. CASE i = 1
        BY <3>1, <3>2, <1>4
      <3>3. CASE i # 1
        <4>1. i - 1 \in 1..Len(s) /\ x = s[i - 1]
          BY <3>1, <3>3, <1>1 DEF SlistInsertHead
        <4> QED BY <4>1 DEF SlistElems
      <3> QED BY <3>2, <3>3
    <2>2. ASSUME NEW x \in SlistElems(s) \cup {e} PROVE x \in SlistElems(t)
      <3>1. CASE x = e
        BY <3>1, <1>1, <1>3, <1>4 DEF SlistElems
      <3>2. CASE x \in SlistElems(s)
        <4>1. PICK i \in 1..Len(s) : x = s[i]
          BY <3>2 DEF SlistElems
        <4>2. i + 1 \in 1..Len(t) /\ x = t[i + 1]
          BY <4>1, <1>1, <1>3, <1>4
        <4> QED BY <4>2 DEF SlistElems
      <3> QED BY <2>2, <3>1, <3>2
    <2> QED BY <2>1, <2>2
  <1> QED BY <1>3, <1>4, <1>5

\* SLIST_REMOVE of a linked element gives a list with one element less; the
\* others keep their order.
LEMMA RemoveElem ==
    ASSUME NEW S, NEW s \in Seq(S), SlistNoDup(s), NEW e \in SlistElems(s)
    PROVE  /\ SlistRemove(s, e) \in Seq(S)
           /\ Len(SlistRemove(s, e)) = Len(s) - 1
           /\ \A i \in 1..(Len(s) - 1) :
                 SlistRemove(s, e)[i] = IF i < SlistFind(s, e) THEN s[i] ELSE s[i + 1]
           /\ SlistElems(SlistRemove(s, e)) = SlistElems(s) \ {e}
  <1> DEFINE t == SlistRemove(s, e)
             k == SlistFind(s, e)
             n == Len(s) - 1
  <1>1. Len(s) \in Nat /\ s \in [1..Len(s) -> S]
    OBVIOUS
  <1>2. k \in 1..Len(s) /\ s[k] = e
    BY FindPosition
  <1>3. n \in Nat /\ Len(s) = n + 1
    BY <1>1, <1>2
  <1>4. \A i \in 1..n : t[i] = IF i < k THEN s[i] ELSE s[i + 1]
    BY DEF SlistRemove
  <1>5. t \in [1..n -> S]
    <2>1. \A i \in 1..n : (IF i < k THEN s[i] ELSE s[i + 1]) \in S
      BY <1>1, <1>3
    <2> QED BY <2>1 DEF SlistRemove
  <1>6. t \in Seq(S) /\ Len(t) = n
    <2> HIDE DEF t, n
    <2> QED BY <1>3, <1>5, FunctionIsSeq
  <1>7. SlistElems(t) = SlistElems(s) \ {e}
    <2>1. ASSUME NEW x \in SlistElems(t) PROVE x \in SlistElems(s) \ {e}
      <3>1. PICK i \in 1..n : x = t[i]
        BY <2>1, <1>6 DEF SlistElems
      <3>2. \E j \in 1..Len(s) : j # k /\ x = s[j]
        <4>1. CASE i < k
          BY <3>1, <4>1, <1>2, <1>3, <1>4
        <4>2. CASE ~(i < k)
          <5>1. i + 1 \in 1..Len(s) /\ i + 1 # k /\ x = s[i + 1]
            BY <3>1, <4>2, <1>2, <1>3, <1>4
          <5> QED BY <5>1
        <4> QED BY <4>1, <4>2
      <3> QED BY <3>2, <1>2 DEF SlistElems, SlistNoDup
    <2>2. ASSUME NEW x \in SlistElems(s) \ {e} PROVE x \in SlistElems(t)
      <3>1. PICK j \in 1..Len(s) : x = s[j]
        BY <2>2 DEF SlistElems
      <3>2. j # k
        BY <2>2, <3>1, <1>2
      <3>3. CASE j < k
        <4>1. j \in 1..n /\ t[j] = x
          BY <3>1, <3>3, <1>2, <1>3, <1>4
        <4> QED BY <4>1, <1>6 DEF SlistElems
      <3>4. CASE j > k
        <4>1. j - 1 \in 1..n /\ t[j - 1] = x
          BY <3>1, <3>4, <1>2, <1>3, <1>4
        <4> QED BY <4>1, <1>6 DEF SlistElems
      <3> QED BY <3>1, <3>2, <3>3, <3>4, <1>2
    <2> QED BY <2>1, <2>2
  <1> QED BY <1>3, <1>4, <1>6, <1>7

\* SLIST_NEXT stays inside the list or gives the end marker.
LEMMA NextElem ==
    ASSUME NEW S, NEW s \in Seq(S), NEW e \in SlistElems(s), NEW null
    PROVE  SlistNext(s, e, null) \in SlistElems(s) \cup {null}
  <1>1. SlistFind(s, e) \in 1..Len(s) /\ Len(s) \in Nat
    BY FindPosition
  <1>2. CASE SlistFind(s, e) < Len(s)
    <2>1. SlistFind(s, e) + 1 \in 1..Len(s)
      BY <1>1, <1>2
    <2> QED BY <2>1, <1>2 DEF SlistNext, SlistElems
  <1>3. CASE ~(SlistFind(s, e) < Len(s))
    BY <1>3 DEF SlistNext
  <1> QED BY <1>2, <1>3

\* A list with an element has a first one.
LEMMA FirstElem ==
    ASSUME NEW S, NEW s \in Seq(S), SlistElems(s) # {}
    PROVE  Len(s) > 0 /\ s[1] \in SlistElems(s)
  <1>1. Len(s) \in Nat /\ Len(s) # 0
    BY DEF SlistElems
  <1> QED BY <1>1 DEF SlistElems

\* Inserting an element that is not linked and removing one keep every element
\* linked once.
LEMMA InsertNoDup ==
    ASSUME NEW S, NEW s \in Seq(S), SlistNoDup(s), NEW e \in S, e \notin SlistElems(s)
    PROVE  SlistNoDup(SlistInsertHead(s, e))
  <1> DEFINE t == SlistInsertHead(s, e)
  <1>1. /\ Len(t) = Len(s) + 1 /\ t[1] = e /\ Len(s) \in Nat
        /\ \A i \in 1..Len(s) : t[i + 1] = s[i]
    <2>1. Len(s) \in Nat
      OBVIOUS
    <2>2. Len(t) = Len(s) + 1 /\ t[1] = e
      BY InsertHead
    <2>3. \A i \in 1..Len(s) : t[i + 1] = s[i]
      BY InsertHead
    <2> QED BY <2>1, <2>2, <2>3
  <1>2. \A i \in 1..Len(t) : i = 1 \/ (i - 1 \in 1..Len(s) /\ t[i] = s[i - 1])
    <2> TAKE i \in 1..Len(t)
    <2>1. i # 1 => i - 1 \in 1..Len(s) /\ (i - 1) + 1 = i
      BY <1>1
    <2> QED BY <2>1, <1>1
  <1>3. \A i \in 1..Len(s) : s[i] # e
    BY DEF SlistElems
  <1> HIDE DEF t
  <1> SUFFICES ASSUME NEW i \in 1..Len(t), NEW j \in 1..Len(t), t[i] = t[j]
               PROVE  i = j
    BY DEF SlistNoDup, t
  <1>4. CASE i = 1 \/ j = 1
    BY <1>1, <1>2, <1>3, <1>4
  <1>5. CASE i # 1 /\ j # 1
    <2>1. i - 1 = j - 1
      BY <1>2, <1>5 DEF SlistNoDup
    <2>2. i \in Int /\ j \in Int
      BY <1>1
    <2> QED BY <2>1, <2>2
  <1> QED BY <1>4, <1>5

LEMMA RemoveNoDup ==
    ASSUME NEW S, NEW s \in Seq(S), SlistNoDup(s), NEW e \in SlistElems(s)
    PROVE  SlistNoDup(SlistRemove(s, e))
  <1> DEFINE t == SlistRemove(s, e)
             k == SlistFind(s, e)
  <1>1. /\ Len(t) = Len(s) - 1 /\ Len(s) \in Nat
        /\ \A i \in 1..(Len(s) - 1) : t[i] = IF i < k THEN s[i] ELSE s[i + 1]
    BY RemoveElem
  <1>2. k \in 1..Len(s)
    BY FindPosition
  <1> SUFFICES ASSUME NEW i \in 1..Len(t), NEW j \in 1..Len(t), t[i] = t[j]
               PROVE  i = j
    BY DEF SlistNoDup
  <1> HIDE DEF t, k
  <1>3. /\ i \in 1..(Len(s) - 1) /\ j \in 1..(Len(s) - 1)
        /\ {i, i + 1, j, j + 1} \subseteq 1..Len(s)
    BY <1>1
  <1>4. \A a, b \in 1..Len(s) : s[a] = s[b] => a = b
    BY DEF SlistNoDup
  <1> QED BY <1>1, <1>2, <1>3, <1>4
-----------------------------------------------------------------------------
(* Induction.  The library's own theorems are about an operator, which the *)
(* provers do not find; these are about a set.                             *)

\* A set of natural numbers that is not empty has a least element.
LEMMA LeastOf ==
    ASSUME NEW T, T \subseteq Nat, T # {}
    PROVE  \E x \in T : \A y \in T : x <= y
  <1> DEFINE R == OpToRel(<, Nat)
  <1>1. IsWellFoundedOn(R, Nat)
    BY NatLessThanWellFounded
  <1>2. \A x, y \in Nat : x < y => <<x, y>> \in R
    BY DEF OpToRel
  <1> HIDE DEF R
  <1>3. PICK x \in T : \A y \in T : ~(<<y, x>> \in R)
    BY <1>1, WFMin
  <1>4. \A y \in T : x \in Nat /\ y \in Nat /\ ~(y < x)
    BY <1>2, <1>3
  <1>5. \A y \in T : x <= y
    BY <1>4
  <1> QED BY <1>5

\* Induction up to n, for a property written as the set of numbers that have it.
LEMMA SetInduction ==
    ASSUME NEW n \in Nat, NEW T, 0 \in T, \A i \in 0..(n - 1) : i \in T => i + 1 \in T
    PROVE  \A i \in 0..n : i \in T
  <1> DEFINE U == (0..n) \ T
  <1> SUFFICES ASSUME U # {} PROVE FALSE
    OBVIOUS
  <1>1. PICK x \in U : \A y \in U : x <= y
    <2>1. U \subseteq Nat
      OBVIOUS
    <2> HIDE DEF U
    <2> QED BY <2>1, LeastOf
  <1>2. x # 0 /\ x - 1 \in 0..(n - 1) /\ x - 1 \in 0..n
    BY <1>1
  <1>3. x - 1 \in T
    BY <1>1, <1>2
  <1>4. (x - 1) + 1 \in T
    BY <1>2, <1>3
  <1>5. (x - 1) + 1 = x
    BY <1>2
  <1> QED BY <1>4, <1>5, <1>1

\* f is what a loop of n rounds that starts with x leaves after each round.
LoopRun(f, S, n, x, G) ==
    f \in [0..n -> S] /\ f[0] = x /\ \A i \in 1..n : f[i] = G[i][f[i - 1]]

\* A loop of n rounds, each a function of what the one before has left, has a run;
\* a recursive definition of what each round leaves is such a run.
LEMMA LoopRuns ==
    ASSUME NEW S, NEW n \in Nat, NEW x \in S, NEW G \in [1..n -> [S -> S]]
    PROVE  \E f : LoopRun(f, S, n, x, G)
  <1> DEFINE P(k) == \E f \in [0..k -> S] : f[0] = x /\ \A i \in 1..k : f[i] = G[i][f[i - 1]]
             T == {k \in 0..n : P(k)}
  <1>1. 0 \in T
    <2> DEFINE f == [i \in 0..0 |-> x]
    <2>1. f \in [0..0 -> S] /\ f[0] = x /\ \A i \in 1..0 : f[i] = G[i][f[i - 1]]
      OBVIOUS
    <2>2. 0 \in 0..n
      OBVIOUS
    <2> HIDE DEF f
    <2> QED BY <2>1, <2>2
  <1>2. ASSUME NEW k \in 0..(n - 1), k \in T
        PROVE  k + 1 \in T
    <2>1. PICK f \in [0..k -> S] : f[0] = x /\ \A i \in 1..k : f[i] = G[i][f[i - 1]]
      BY <1>2
    <2> DEFINE g == [i \in 0..(k + 1) |-> IF i <= k THEN f[i] ELSE G[k + 1][f[k]]]
    <2>2. k + 1 \in 1..n /\ k \in Nat /\ k \in 0..k
      OBVIOUS
    <2>3. G[k + 1][f[k]] \in S
      BY <2>2
    <2>4. g \in [0..(k + 1) -> S] /\ g[0] = x
      BY <2>1, <2>2, <2>3
    <2>5. ASSUME NEW i \in 1..(k + 1)
          PROVE  g[i] = G[i][g[i - 1]]
      <3>1. i - 1 \in 0..k /\ g[i - 1] = f[i - 1]
        BY <2>2
      <3>2. CASE i <= k
        BY <3>1, <3>2, <2>1, <2>2
      <3>3. CASE i = k + 1
        BY <3>1, <3>3, <2>2
      <3> QED BY <3>2, <3>3, <2>2
    <2> HIDE DEF g
    <2>6. k + 1 \in 0..n
      BY <2>2
    <2> QED BY <2>4, <2>5, <2>6
  <1> HIDE DEF T
  <1>3. \A i \in 0..n : i \in T
    BY <1>1, <1>2, SetInduction
  <1>4. P(n)
    BY <1>3 DEF T
  <1> QED BY <1>4 DEF LoopRun
=============================================================================

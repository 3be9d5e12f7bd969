----------------------------- MODULE MemProofs -----------------------------
(***************************************************************************)
(* Proofs about the memory manager, for any layout of memory, any reserved *)
(* frames and any size of a page table.                                    *)
(*                                                                         *)
(* The calls are functions from one memory state to another, so there is a *)
(* lemma per function, and a loop is an induction over its rounds.         *)
(***************************************************************************)
EXTENDS MCMem, SlistProofs, FiniteSetTheorems

Entry == Frame \cup {Absent}
State == [used : SUBSET Frame, used_mem : Frame, page : [Frame -> [Index -> Entry]]]

\* used_mem is right in a memory state.
Counted(m) == m.used_mem = (Cardinality(m.used) + Image - Cardinality(Reserved)) % Frames

IInv ==
    /\ Memory \in State /\ Counted(Memory)
    /\ dirs \subseteq Frame /\ blocks \subseteq (KrnlPage \X (Nat \ {0}))
-----------------------------------------------------------------------------
(* Numbers *)

\* What the layout says, without the products.
LEMMA Layout ==
    /\ Frames \in Nat \ {0} /\ Entries \in Nat \ {0} /\ KrnlTables \in Nat \ {0}
    /\ KrnlTables < Entries /\ Total \in Nat /\ Image \in Nat /\ PageSize \in Nat \ {0}
    /\ MaxPages \in Nat /\ 2 + KrnlTables <= Image /\ Image + 2 <= Total /\ Total < Frames
    /\ KrnlTables * Entries \in Nat /\ KrnlTables * Entries < Frames
    /\ Image + 2 <= KrnlTables * Entries /\ Frames <= Entries * Entries
    /\ Entries * Entries \in Nat /\ Reserved \subseteq Frame /\ UserPage \subseteq Page
    /\ IsFiniteSet(Frame) /\ KrnlPage \subseteq Frame /\ Enomem \in Frame /\ 0 \in KrnlPage
  <1>1. /\ Frames \in Nat /\ Entries \in Nat /\ KrnlTables \in Nat /\ Total \in Nat /\ Image \in Nat
        /\ PageSize \in Nat /\ KrnlTables \in 1..(Entries - 1) /\ PageSize >= 1 /\ MaxPages \in Nat
        /\ 2 + KrnlTables <= Image /\ Image + 2 <= Total /\ Total < Frames
        /\ KrnlTables * Entries < Frames /\ Image + 2 <= KrnlTables * Entries
        /\ Frames <= Entries * Entries /\ Reserved \subseteq Frame /\ UserPage \subseteq Page
    BY LayoutAssumption DEF krnl_pgtbl
  <1>2. KrnlTables * Entries \in Nat /\ Entries * Entries \in Nat
    BY <1>1
  <1>3. IsFiniteSet(Frame)
    BY <1>1, FS_Interval DEF Frame
  <1>4. KrnlPage \subseteq Frame /\ 0 \in KrnlPage
    BY <1>1, <1>2 DEF KrnlPage, Frame
  <1>5. Enomem \in Frame
    BY <1>1 DEF Enomem, Frame
  <1> QED BY <1>1, <1>2, <1>3, <1>4, <1>5

\* A remainder is one of the frames.
LEMMA ModFrame ==
    ASSUME NEW a \in Int
    PROVE  a % Frames \in Frame
  BY Layout DEF Frame

\* There is one quotient and one remainder.
LEMMA Division ==
    ASSUME NEW F \in Nat \ {0}, NEW a \in Int, NEW q \in Int, NEW r \in 0..(F - 1), a = F * q + r
    PROVE  a \div F = q /\ a % F = r
  <1> DEFINE p == a \div F
             s == a % F
  <1>1. p \in Int /\ s \in 0..(F - 1) /\ a = F * p + s
    OBVIOUS
  <1> HIDE DEF p, s
  <1>2. ASSUME NEW x \in Int, NEW y \in Int, x > y
        PROVE  F * x >= F * y + F
    <2>1. x - y - 1 \in Nat
      BY <1>2
    <2>2. F * (x - y - 1) >= 0
      BY <2>1
    <2>3. F * (x - y - 1) = F * x - F * y - F
      OBVIOUS
    <2> QED BY <2>2, <2>3
  <1> DEFINE fq == F * q
             fp == F * p
  <1>3. fq \in Int /\ fp \in Int /\ fq + r = fp + s
    BY <1>1
  <1>4. (q > p => fq >= fp + F) /\ (p > q => fp >= fq + F)
    BY <1>1, <1>2
  <1>5. (q = p => fq = fp)
    OBVIOUS
  <1> HIDE DEF fq, fp
  <1>6. q = p /\ r = s
    BY <1>1, <1>3, <1>4, <1>5
  <1> QED BY <1>6 DEF p, s

\* Adding before or after the remainder is taken is the same.
LEMMA ModAdd ==
    ASSUME NEW a \in Int, NEW b \in Int
    PROVE  ((a % Frames) + b) % Frames = (a + b) % Frames
  <1> DEFINE q == a \div Frames
             r == a % Frames
  <1>1. Frames \in Nat \ {0} /\ q \in Int /\ r \in 0..(Frames - 1) /\ a = Frames * q + r
    BY Layout
  <1> DEFINE q2 == (r + b) \div Frames
             r2 == (r + b) % Frames
  <1> HIDE DEF q, r
  <1>2. q2 \in Int /\ r2 \in 0..(Frames - 1) /\ r + b = Frames * q2 + r2
    BY <1>1
  <1> HIDE DEF q2, r2
  <1> DEFINE Q == q + q2
             c == a + b
  <1>3. c \in Int /\ Q \in Int /\ c = Frames * Q + r2
    BY <1>1, <1>2
  <1> HIDE DEF Q, c
  <1>4. c % Frames = r2
    BY <1>1, <1>2, <1>3, Division
  <1> QED BY <1>4 DEF r2, r, c
-----------------------------------------------------------------------------
(* The bitmap *)

\* The fields of a memory state.
LEMMA Fields ==
    ASSUME NEW m \in State
    PROVE  /\ m.used \subseteq Frame /\ m.used_mem \in Frame /\ m.used_mem \in Int
           /\ m.page \in [Frame -> [Index -> Entry]]
           /\ IsFiniteSet(m.used) /\ Cardinality(m.used) \in Nat
  <1>1. m.used \subseteq Frame /\ m.used_mem \in Frame /\ m.page \in [Frame -> [Index -> Entry]]
    BY DEF State
  <1>2. IsFiniteSet(m.used)
    BY <1>1, Layout, FS_Subset
  <1> QED BY <1>1, <1>2, FS_CardinalityType, Layout DEF Frame

\* Reserved frames are counted.
LEMMA ReservedCounted == IsFiniteSet(Reserved) /\ Cardinality(Reserved) \in Nat
  BY Layout, FS_Subset, FS_CardinalityType

\* The page tables do not count.
LEMMA CountedSame ==
    ASSUME NEW m \in State, NEW n \in State, n.used = m.used, n.used_mem = m.used_mem
    PROVE  Counted(m) <=> Counted(n)
  BY DEF Counted

\* A memory state with another bitmap, or with other tables.
LEMMA Except ==
    ASSUME NEW m \in State, NEW u, NEW k, NEW g
    PROVE  /\ [m EXCEPT !.used = u, !.used_mem = k] = [used |-> u, used_mem |-> k, page |-> m.page]
           /\ [m EXCEPT !.page = g] = [used |-> m.used, used_mem |-> m.used_mem, page |-> g]
  <1>1. m = [used |-> m.used, used_mem |-> m.used_mem, page |-> m.page]
    BY DEF State
  <1> DEFINE a == m.used
             b == m.used_mem
             c == m.page
  <1>2. m = [used |-> a, used_mem |-> b, page |-> c]
    BY <1>1
  <1> HIDE DEF a, b, c
  <1>3. [m EXCEPT !.used = u, !.used_mem = k] = [used |-> u, used_mem |-> k, page |-> c]
    <2>1. [m EXCEPT !.used = u] = [used |-> u, used_mem |-> b, page |-> c]
      BY <1>2
    <2>2. [[used |-> u, used_mem |-> b, page |-> c] EXCEPT !.used_mem = k]
            = [used |-> u, used_mem |-> k, page |-> c]
      OBVIOUS
    <2>3. [m EXCEPT !.used = u, !.used_mem = k] = [[m EXCEPT !.used = u] EXCEPT !.used_mem = k]
      OBVIOUS
    <2> QED BY <2>1, <2>2, <2>3
  <1>4. [m EXCEPT !.page = g] = [used |-> a, used_mem |-> b, page |-> g]
    BY <1>2
  <1> QED BY <1>3, <1>4 DEF a, b, c

\* Setting or freeing frames keeps a memory state one, and keeps used_mem right,
\* whatever frames were used or free already.
LEMMA SetUsed ==
    ASSUME NEW m \in State, NEW S \in SUBSET Frame
    PROVE  /\ phys_setused(m, S) \in State
           /\ phys_setused(m, S).used = m.used \cup S /\ phys_setused(m, S).page = m.page
           /\ Counted(m) => Counted(phys_setused(m, S))
  <1> DEFINE n == phys_setused(m, S)
             d == Cardinality(S \ m.used)
  <1>1. /\ m.used \subseteq Frame /\ m.used_mem \in Int /\ m.page \in [Frame -> [Index -> Entry]]
        /\ IsFiniteSet(m.used) /\ Cardinality(m.used) \in Nat
    BY Fields
  <1>2. IsFiniteSet(S \ m.used) /\ d \in Nat
    <2>1. S \ m.used \subseteq Frame
      OBVIOUS
    <2> QED BY <2>1, Layout, FS_Subset, FS_CardinalityType
  <1>3. n = [used |-> m.used \cup S, used_mem |-> (m.used_mem + d) % Frames, page |-> m.page]
    <2>1. n = [m EXCEPT !.used = m.used \cup S, !.used_mem = (m.used_mem + d) % Frames]
      BY DEF phys_setused
    <2> HIDE DEF n, d
    <2> QED BY <2>1, Except
  <1>4. Cardinality(m.used \cup S) = Cardinality(m.used) + d
    <2>1. m.used \cup S = m.used \cup (S \ m.used) /\ m.used \cap (S \ m.used) = {}
      OBVIOUS
    <2>2. Cardinality(m.used \cup (S \ m.used)) =
            Cardinality(m.used) + d - Cardinality(m.used \cap (S \ m.used))
      BY <1>1, <1>2, FS_Union
    <2>3. Cardinality(m.used \cap (S \ m.used)) = 0
      BY <2>1, FS_EmptySet
    <2>4. Cardinality(m.used \cup S) = Cardinality(m.used \cup (S \ m.used))
      BY <2>1
    <2> QED BY <1>1, <1>2, <2>2, <2>3, <2>4
  <1> HIDE DEF n, d
  <1>5. n.used_mem \in Frame
    BY <1>1, <1>2, <1>3, ModFrame
  <1>6. n \in State
    BY <1>1, <1>3, <1>5 DEF State
  <1>7. ASSUME Counted(m) PROVE Counted(n)
    <2> DEFINE c == Cardinality(m.used) + Image - Cardinality(Reserved)
    <2>1. c \in Int /\ d \in Int
      BY <1>1, <1>2, Layout, ReservedCounted
    <2>2. m.used_mem = c % Frames
      BY <1>7 DEF Counted
    <2>3. n.used_mem = (c + d) % Frames
      <3> HIDE DEF c
      <3> QED BY <1>3, <2>1, <2>2, ModAdd
    <2>4. c + d = Cardinality(n.used) + Image - Cardinality(Reserved)
      BY <1>1, <1>2, <1>3, <1>4, Layout, ReservedCounted
    <2> QED BY <2>3, <2>4 DEF Counted
  <1> QED BY <1>3, <1>6, <1>7 DEF n

\* Freeing frames, too.
LEMMA SetFree ==
    ASSUME NEW m \in State, NEW S \in SUBSET Frame
    PROVE  /\ phys_setfree(m, S) \in State
           /\ phys_setfree(m, S).used = m.used \ S /\ phys_setfree(m, S).page = m.page
           /\ Counted(m) => Counted(phys_setfree(m, S))
  <1> DEFINE n == phys_setfree(m, S)
             d == Cardinality(S \cap m.used)
  <1>1. /\ m.used \subseteq Frame /\ m.used_mem \in Int /\ m.page \in [Frame -> [Index -> Entry]]
        /\ IsFiniteSet(m.used) /\ Cardinality(m.used) \in Nat
    BY Fields
  <1>2. IsFiniteSet(S \cap m.used) /\ d \in Nat
    <2>1. S \cap m.used \subseteq Frame
      OBVIOUS
    <2> QED BY <2>1, Layout, FS_Subset, FS_CardinalityType
  <1>3. n = [used |-> m.used \ S, used_mem |-> (m.used_mem - d) % Frames, page |-> m.page]
    <2>1. n = [m EXCEPT !.used = m.used \ S, !.used_mem = (m.used_mem - d) % Frames]
      BY DEF phys_setfree
    <2> HIDE DEF n, d
    <2> QED BY <2>1, Except
  <1>4. Cardinality(m.used \ S) = Cardinality(m.used) - d
    <2>1. m.used = (m.used \ S) \cup (S \cap m.used) /\ (m.used \ S) \cap (S \cap m.used) = {}
      OBVIOUS
    <2>2. IsFiniteSet(m.used \ S) /\ Cardinality(m.used \ S) \in Nat
      <3>1. m.used \ S \subseteq m.used
        OBVIOUS
      <3> QED BY <3>1, <1>1, FS_Subset, FS_CardinalityType
    <2>3. Cardinality((m.used \ S) \cup (S \cap m.used)) =
            Cardinality(m.used \ S) + d - Cardinality((m.used \ S) \cap (S \cap m.used))
      BY <1>2, <2>2, FS_Union
    <2>4. Cardinality((m.used \ S) \cap (S \cap m.used)) = 0
      BY <2>1, FS_EmptySet
    <2>5. Cardinality((m.used \ S) \cup (S \cap m.used)) = Cardinality(m.used)
      BY <2>1
    <2> QED BY <1>1, <1>2, <2>2, <2>3, <2>4, <2>5
  <1> HIDE DEF n, d
  <1>5. n.used_mem \in Frame
    BY <1>1, <1>2, <1>3, ModFrame
  <1>6. n \in State
    BY <1>1, <1>3, <1>5 DEF State
  <1>7. ASSUME Counted(m) PROVE Counted(n)
    <2> DEFINE c == Cardinality(m.used) + Image - Cardinality(Reserved)
               e == -d
    <2>1. c \in Int /\ e \in Int
      BY <1>1, <1>2, Layout, ReservedCounted
    <2>2. m.used_mem = c % Frames /\ m.used_mem - d = m.used_mem + e
      BY <1>1, <1>2, <1>7 DEF Counted
    <2>3. n.used_mem = (c + e) % Frames
      <3> HIDE DEF c, e
      <3> QED BY <1>3, <2>1, <2>2, ModAdd
    <2>4. c + e = Cardinality(n.used) + Image - Cardinality(Reserved)
      BY <1>1, <1>2, <1>3, <1>4, Layout, ReservedCounted
    <2> QED BY <2>3, <2>4 DEF Counted
  <1> QED BY <1>3, <1>6, <1>7 DEF n

\* Addresses wrap, so a run of pages is a set of frames.
LEMMA RunFrames ==
    ASSUME NEW a \in Int, NEW count \in Nat
    PROVE  Run(a, count) \in SUBSET Frame
  <1>1. \A i \in 0..(count - 1) : a + i \in Int
    OBVIOUS
  <1> QED BY <1>1, ModFrame DEF Run

\* The first element, or what is given for none.
LEMMA FirstIs ==
    ASSUME NEW S \in SUBSET Nat, NEW none
    PROVE  /\ S = {} => First(S, none) = none
           /\ S # {} => First(S, none) \in S /\ \A y \in S : First(S, none) <= y
  <1>1. CASE S # {}
    <2>1. \E x \in S : \A y \in S : x <= y
      BY <1>1, LeastOf
    <2> QED BY <1>1, <2>1 DEF First
  <1> QED BY <1>1 DEF First

\* phys_alloc finds free frames, or the error code, which is a frame as well.
LEMMA PhysFit ==
    ASSUME NEW m \in State, NEW count \in Nat
    PROVE  /\ phys_fit(m, count) \in Frame
           /\ phys_fits(m, count) => /\ phys_fit(m, count) \in 0..(Total - 1)
                                     /\ Run(phys_fit(m, count), count) \cap m.used = {}
  <1> DEFINE S == {a \in 0..(Total - 1) : Run(a, count) \cap m.used = {}}
  <1>1. S \in SUBSET Nat /\ S \subseteq Frame
    BY Layout DEF Frame
  <1>2. phys_fits(m, count) => S # {}
    BY DEF phys_fits
  <1>3. phys_fit(m, count) = First(S, Enomem)
    BY DEF phys_fit
  <1>4. CASE S # {}
    <2>1. First(S, Enomem) \in S
      <3> HIDE DEF S
      <3> QED BY <1>1, <1>4, FirstIs
    <2> QED BY <2>1, <1>1, <1>3
  <1>5. CASE S = {}
    <2>1. First(S, Enomem) = Enomem
      BY <1>5, FirstIs
    <2> QED BY <2>1, <1>2, <1>3, <1>5, Layout
  <1> QED BY <1>4, <1>5

\* phys_alloc keeps a memory state one and leaves the tables alone.
LEMMA PhysAlloc ==
    ASSUME NEW m \in State, NEW count \in Nat
    PROVE  /\ phys_alloc(m, count) \in State /\ phys_alloc(m, count).page = m.page
           /\ Counted(m) => Counted(phys_alloc(m, count))
  <1>1. phys_fit(m, count) \in Int
    BY PhysFit, Layout DEF Frame
  <1>2. Run(phys_fit(m, count), count) \in SUBSET Frame
    BY <1>1, RunFrames
  <1> QED BY <1>2, SetUsed DEF phys_alloc
-----------------------------------------------------------------------------
(* The page tables *)

\* The indices of a page number, and the page number they are the indices of.
LEMMA IndexOf ==
    ASSUME NEW v \in Nat, NEW k \in Nat, v < k * Entries
    PROVE  /\ PD_INDEX(v) \in 0..(k - 1) /\ PT_INDEX(v) \in Index
           /\ PD_INDEX(v) * Entries + PT_INDEX(v) = v
  <1> DEFINE q == v \div Entries
             r == v % Entries
  <1>1. Entries \in Nat \ {0}
    BY Layout
  <1>2. q \in Int /\ r \in 0..(Entries - 1) /\ v = Entries * q + r
    BY <1>1
  <1> HIDE DEF q, r
  <1>3. q >= 0
    <2> SUFFICES ASSUME q <= -1 PROVE FALSE
      BY <1>2
    <2>1. Entries * (-1 - q) >= 0
      BY <1>1, <1>2
    <2>2. Entries * (-1 - q) = -Entries - Entries * q
      BY <1>1, <1>2
    <2> QED BY <1>1, <1>2, <2>1, <2>2
  <1>4. q < k
    <2> SUFFICES ASSUME q >= k PROVE FALSE
      BY <1>2
    <2>1. Entries * (q - k) >= 0
      BY <1>1, <1>2
    <2>2. Entries * (q - k) = Entries * q - k * Entries
      BY <1>1, <1>2
    <2>3. Entries * q \in Int /\ k * Entries \in Int
      BY <1>1, <1>2
    <2> QED BY <1>1, <1>2, <2>1, <2>2, <2>3
  <1>5. q * Entries = Entries * q
    BY <1>1, <1>2
  <1>6. PD_INDEX(v) = q /\ PT_INDEX(v) = r
    BY DEF PD_INDEX, PT_INDEX, q, r
  <1> QED BY <1>2, <1>3, <1>4, <1>5, <1>6 DEF Index

\* The indices of the page that entry i of table t maps.
LEMMA IndexIs ==
    ASSUME NEW t \in Nat, NEW i \in Index, NEW k \in Nat, t < k
    PROVE  /\ t * Entries + i \in Nat /\ t * Entries + i < k * Entries
           /\ PD_INDEX(t * Entries + i) = t /\ PT_INDEX(t * Entries + i) = i
  <1> DEFINE v == t * Entries + i
  <1>1. Entries \in Nat \ {0} /\ i \in 0..(Entries - 1) /\ t \in Int
    BY Layout DEF Index
  <1>2. v \in Int /\ v = Entries * t + i /\ v >= 0
    <2>1. t * Entries \in Nat /\ t * Entries = Entries * t
      BY <1>1
    <2> QED BY <1>1, <2>1
  <1>3. v < k * Entries
    <2>1. (k - 1 - t) * Entries >= 0
      BY <1>1
    <2>2. (k - 1 - t) * Entries = k * Entries - Entries - t * Entries
      BY <1>1
    <2>3. t * Entries \in Int /\ k * Entries \in Int
      BY <1>1
    <2> QED BY <1>1, <2>1, <2>2, <2>3
  <1> HIDE DEF v
  <1>4. v \div Entries = t /\ v % Entries = i
    BY <1>1, <1>2, Division
  <1> QED BY <1>2, <1>3, <1>4 DEF v, PD_INDEX, PT_INDEX

\* A page of the kernel is found in a kernel table, a frame in any directory.
LEMMA KrnlIndex ==
    ASSUME NEW v \in KrnlPage
    PROVE  /\ PD_INDEX(v) \in 0..(KrnlTables - 1) /\ PD_INDEX(v) \in Index
           /\ PT_INDEX(v) \in Index /\ krnl_pgtbl(PD_INDEX(v)) \in Frame
           /\ PD_INDEX(v) * Entries + PT_INDEX(v) = v
  <1>1. v \in Nat /\ v < KrnlTables * Entries
    BY Layout DEF KrnlPage
  <1>2. /\ PD_INDEX(v) \in 0..(KrnlTables - 1) /\ PT_INDEX(v) \in Index
        /\ PD_INDEX(v) * Entries + PT_INDEX(v) = v
    BY <1>1, IndexOf, Layout
  <1> QED BY <1>2, Layout DEF Index, krnl_pgtbl, Frame

\* The indices of a frame, as the kernel maps it to itself, lie in a directory.
LEMMA FrameIndex ==
    ASSUME NEW v \in Frame
    PROVE  PD_INDEX(v) \in Index /\ PT_INDEX(v) \in Index
  <1>1. v \in Nat /\ v < Entries * Entries
    BY Layout DEF Frame
  <1>2. PD_INDEX(v) \in 0..(Entries - 1) /\ PT_INDEX(v) \in Index
    BY <1>1, IndexOf, Layout
  <1> QED BY <1>2 DEF Index

\* Writing tables keeps a memory state one and leaves the bitmap alone.
Alike(m, n) == n \in State /\ n.used = m.used /\ n.used_mem = m.used_mem

\* Other tables in a memory state.
LEMMA PagesWritten ==
    ASSUME NEW m \in State, NEW g \in [Frame -> [Index -> Entry]]
    PROVE  Alike(m, [m EXCEPT !.page = g]) /\ [m EXCEPT !.page = g].page = g
  <1> DEFINE n == [used |-> m.used, used_mem |-> m.used_mem, page |-> g]
  <1>1. [m EXCEPT !.page = g] = n
    BY Except
  <1>2. n \in State
    BY Fields DEF State
  <1> QED BY <1>1, <1>2 DEF Alike

\* What SetKrnl writes, entry by entry.
LEMMA SetKrnlIs ==
    ASSUME NEW m \in State, NEW v \in Int, NEW fr, \A i \in DOMAIN fr : fr[i] \in Entry
    PROVE  /\ Alike(m, SetKrnl(m, v, fr))
           /\ \A f \in Frame, i \in Index :
                 LET w == (f - krnl_pgtbl(0)) * Entries + i
                 IN  SetKrnl(m, v, fr).page[f][i] =
                       IF f \in krnl_pgtbl(0)..krnl_pgtbl(KrnlTables - 1) /\ w - v \in DOMAIN fr
                       THEN fr[w - v] ELSE m.page[f][i]
  <1> DEFINE e(f, i) ==
               LET w == (f - krnl_pgtbl(0)) * Entries + i
               IN  IF f \in krnl_pgtbl(0)..krnl_pgtbl(KrnlTables - 1) /\ w - v \in DOMAIN fr
                   THEN fr[w - v] ELSE m.page[f][i]
             g == [f \in Frame |-> [i \in Index |-> e(f, i)]]
  <1>1. \A f \in Frame, i \in Index : e(f, i) \in Entry
    BY Fields
  <1>2. SetKrnl(m, v, fr) = [m EXCEPT !.page = g]
    BY DEF SetKrnl
  <1>3. \A f \in Frame, i \in Index : g[f][i] = e(f, i)
    <2> HIDE DEF e
    <2> QED OBVIOUS
  <1>4. g \in [Frame -> [Index -> Entry]]
    <2> HIDE DEF e
    <2> QED BY <1>1
  <1> HIDE DEF g
  <1>5. Alike(m, SetKrnl(m, v, fr)) /\ SetKrnl(m, v, fr).page = g
    BY <1>2, <1>4, PagesWritten
  <1> QED BY <1>3, <1>5
-----------------------------------------------------------------------------
(* Every call keeps a memory state one, and used_mem right *)

Kept(m, n) == n \in State /\ (Counted(m) => Counted(n))

\* used_mem stays right where the bitmap is left alone.
LEMMA AlikeKept ==
    ASSUME NEW m \in State, NEW n, Alike(m, n)
    PROVE  Kept(m, n)
  BY CountedSame DEF Alike, Kept

\* Mapping and unmapping pages of the kernel leaves the bitmap alone.
LEMMA MapKrnlKept ==
    ASSUME NEW m \in State, NEW v \in Int, NEW p \in Int, NEW count \in Nat
    PROVE  Alike(m, MapKrnl(m, v, p, count)) /\ Alike(m, virt_unmap(m, v, count))
  <1>1. \A i \in 0..(count - 1) : p + i \in Int
    OBVIOUS
  <1> DEFINE fr == [i \in 0..(count - 1) |-> (p + i) % Frames]
             no == [i \in 0..(count - 1) |-> Absent]
  <1>2. (\A i \in DOMAIN fr : fr[i] \in Entry) /\ (\A i \in DOMAIN no : no[i] \in Entry)
    BY <1>1, ModFrame DEF Entry
  <1>3. MapKrnl(m, v, p, count) = SetKrnl(m, v, fr) /\ virt_unmap(m, v, count) = SetKrnl(m, v, no)
    BY DEF MapKrnl, virt_unmap
  <1> HIDE DEF fr, no
  <1> QED BY <1>2, <1>3, SetKrnlIs

\* What clearing pages leaves, frame by frame.
LEMMA ZeroKept ==
    ASSUME NEW m \in State, NEW v, NEW count
    PROVE  /\ Alike(m, Zero(m, v, count))
           /\ \A f \in Frame : Zero(m, v, count).page[f] =
                 IF f \in {KrnlEntry(m, w) : w \in v..(v + count - 1)} THEN Blank ELSE m.page[f]
  <1> DEFINE hit == {KrnlEntry(m, w) : w \in v..(v + count - 1)}
             g == [f \in Frame |-> IF f \in hit THEN Blank ELSE m.page[f]]
  <1>1. Blank \in [Index -> Entry]
    BY DEF Blank, Entry
  <1>2. Zero(m, v, count) = [m EXCEPT !.page = g]
    BY DEF Zero
  <1> HIDE DEF hit
  <1>3. g \in [Frame -> [Index -> Entry]] /\ \A f \in Frame : g[f] = IF f \in hit THEN Blank ELSE m.page[f]
    BY <1>1, Fields
  <1> HIDE DEF g
  <1>4. Alike(m, Zero(m, v, count)) /\ Zero(m, v, count).page = g
    BY <1>2, <1>3, PagesWritten
  <1> QED BY <1>3, <1>4 DEF hit

\* A row of free pages is found among the free pages, or is page 0.
LEMMA RowFound ==
    ASSUME NEW count \in Nat, NEW free \in SUBSET KrnlPage
    PROVE  /\ FirstRow(count, free) \in KrnlPage
           /\ FirstRow(count, free) # 0 =>
                 /\ FirstRow(count, free) \in free
                 /\ FirstRow(count, free)..(FirstRow(count, free) + count - 1) \subseteq free
  <1> DEFINE S == {v \in free : v..(v + count - 1) \subseteq free}
  <1>1. S \in SUBSET Nat /\ S \subseteq KrnlPage /\ FirstRow(count, free) = First(S, 0)
    <2>1. KrnlPage \subseteq Nat
      BY Layout DEF KrnlPage
    <2>2. FirstRow(count, free) = First(S, 0)
      BY DEF FirstRow
    <2>3. S \subseteq free
      OBVIOUS
    <2> QED BY <2>1, <2>2, <2>3
  <1>2. CASE S = {}
    <2>1. First(S, 0) = 0
      BY <1>2, FirstIs
    <2> QED BY <2>1, <1>1, Layout
  <1>3. CASE S # {}
    <2>1. First(S, 0) \in S
      <3> HIDE DEF S
      <3> QED BY <1>1, <1>3, FirstIs
    <2> QED BY <2>1, <1>1
  <1> QED BY <1>2, <1>3

\* The pages virt_alloc and mem_allocident find are pages of the kernel.
LEMMA FitKinds ==
    ASSUME NEW m \in State, NEW count \in Nat
    PROVE  /\ virt_fit(m, count) \in KrnlPage /\ virt_fit(m, count) \in Int
           /\ ident_fit(m) \in KrnlPage /\ ident_fit(m) \in Frame /\ ident_fit(m) \in Int
  <1>1. virt_fit(m, count) \in KrnlPage
    BY RowFound DEF virt_fit
  <1>2. ident_fit(m) \in KrnlPage
    <2>1. {w \in KrnlPage \ m.used : KrnlEntry(m, w) = Absent} \in SUBSET KrnlPage /\ 1 \in Nat
      OBVIOUS
    <2> QED BY <2>1, RowFound DEF ident_fit
  <1> QED BY <1>1, <1>2, Layout DEF KrnlPage

\* mem_alloc, its errors included.
LEMMA MemAllocKept ==
    ASSUME NEW m \in State, NEW count \in Nat
    PROVE  Kept(m, mem_alloc(m, count))
  <1> DEFINE a == phys_alloc(m, count)
             p == phys_fit(m, count)
             b == virt_alloc(a, p, count)
  <1>1. a \in State /\ (Counted(m) => Counted(a)) /\ p \in Int
    <2>1. a \in State /\ (Counted(m) => Counted(a))
      BY PhysAlloc
    <2>2. phys_fit(m, count) \in Frame
      BY PhysFit
    <2>3. Frame \subseteq Int
      BY Layout DEF Frame
    <2> QED BY <2>1, <2>2, <2>3
  <1>2. b \in State /\ (Counted(a) => Counted(b))
    <2> HIDE DEF a, p
    <2>1. virt_fit(a, count) \in Int
      BY <1>1, FitKinds
    <2>2. Kept(a, MapKrnl(a, virt_fit(a, count), p, count))
      BY <1>1, <2>1, MapKrnlKept, AlikeKept
    <2> QED BY <1>1, <2>2 DEF virt_alloc, Kept
  <1>3. mem_alloc(m, count) = IF p = 0 THEN a ELSE Zero(b, virt_fit(m, count), count)
    BY DEF mem_alloc
  <1> HIDE DEF a, p, b
  <1>4. Kept(b, Zero(b, virt_fit(m, count), count))
    BY <1>2, ZeroKept, AlikeKept
  <1> QED BY <1>1, <1>2, <1>3, <1>4 DEF Kept

\* mem_allocident.
LEMMA MemAllocIdentKept ==
    ASSUME NEW m \in State
    PROVE  Kept(m, mem_allocident(m))
  <1> DEFINE v == ident_fit(m)
             a == phys_setused(m, {v})
             b == MapKrnl(a, v, v, 1)
  <1>1. v \in Int /\ {v} \in SUBSET Frame /\ 1 \in Nat
    BY FitKinds
  <1> HIDE DEF v
  <1>2. a \in State /\ (Counted(m) => Counted(a))
    BY <1>1, SetUsed
  <1> HIDE DEF a
  <1>3. b \in State /\ (Counted(a) => Counted(b))
    BY <1>1, <1>2, MapKrnlKept, AlikeKept DEF Kept
  <1> HIDE DEF b
  <1>4. Kept(b, Zero(b, v, 1))
    BY <1>3, ZeroKept, AlikeKept
  <1> QED BY <1>2, <1>3, <1>4 DEF Kept, mem_allocident, v, a, b

\* What is present is mapped to a frame.
LEMMA PresentFrame ==
    ASSUME NEW m \in State, NEW dir \in Frame, NEW v \in Frame, page_ispresent(m, dir, v)
    PROVE  /\ m.page[dir][PD_INDEX(v)] \in Frame
           /\ virt2phys(m, dir, v) \in Frame
  <1>1. PD_INDEX(v) \in Index /\ PT_INDEX(v) \in Index
    BY FrameIndex
  <1>2. m.page \in [Frame -> [Index -> Entry]]
    BY Fields
  <1>3. m.page[dir][PD_INDEX(v)] \in Frame
    BY <1>1, <1>2 DEF page_ispresent, Entry
  <1>4. m.page[m.page[dir][PD_INDEX(v)]][PT_INDEX(v)] \in Frame
    BY <1>1, <1>2, <1>3 DEF page_ispresent, Entry
  <1> QED BY <1>3, <1>4 DEF virt2phys

\* mem_free.
LEMMA MemFreeKept ==
    ASSUME NEW m \in State, NEW v \in Frame, NEW count \in Nat \ {0}
    PROVE  Kept(m, mem_free(m, v, count))
  <1>1. CASE virt_ispresent(m, krnl_pgdir, v, count)
    <2> DEFINE S == Run(virt2phys(m, krnl_pgdir, v), count)
               a == phys_setfree(m, S)
    <2>1. krnl_pgdir \in Frame
      BY Layout DEF krnl_pgdir, Frame
    <2>2. page_ispresent(m, krnl_pgdir, v)
      <3>1. 0 \in 0..(count - 1) /\ v + 0 = v
        BY Layout DEF Frame
      <3> QED BY <1>1, <3>1 DEF virt_ispresent
    <2>3. virt2phys(m, krnl_pgdir, v) \in Int
      BY <2>1, <2>2, PresentFrame, Layout DEF Frame
    <2>4. S \in SUBSET Frame
      BY <2>3, RunFrames
    <2> HIDE DEF S
    <2>5. a \in State /\ (Counted(m) => Counted(a))
      BY <2>4, SetFree
    <2>6. v \in Int
      BY Layout DEF Frame
    <2> HIDE DEF a
    <2>7. Kept(a, virt_unmap(a, v, count))
      BY <2>5, <2>6, MapKrnlKept, AlikeKept
    <2> QED BY <1>1, <2>5, <2>7 DEF mem_free, Kept, a, S
  <1>2. CASE ~virt_ispresent(m, krnl_pgdir, v, count)
    BY <1>2 DEF mem_free, Kept
  <1> QED BY <1>1, <1>2

\* An entry is written into a table, wherever that is.
LEMMA EntryWritten ==
    ASSUME NEW m \in State, NEW f, NEW i, NEW p \in Entry
    PROVE  Alike(m, [m EXCEPT !.page[f][i] = p])
  <1> DEFINE row == [m.page[f] EXCEPT ![i] = p]
             g == [m.page EXCEPT ![f] = row]
  <1>1. m.page \in [Frame -> [Index -> Entry]]
    BY Fields
  <1>2. f \in Frame => row \in [Index -> Entry]
    BY <1>1
  <1>3. g \in [Frame -> [Index -> Entry]]
    <2> HIDE DEF row
    <2> QED BY <1>1, <1>2
  <1>4. [m EXCEPT !.page[f][i] = p] = [m EXCEPT !.page = g]
    OBVIOUS
  <1> HIDE DEF g
  <1> QED BY <1>3, <1>4, PagesWritten

\* virt_map, with the table it adds.
LEMMA VirtMapKept ==
    ASSUME NEW m \in State, NEW dir \in Frame, NEW v, NEW p \in Frame
    PROVE  Kept(m, virt_map(m, dir, v, p))
  <1> DEFINE pdi == PD_INDEX(v)
             missing == m.page[dir][pdi] = Absent
             pt == IF missing THEN ident_fit(m) ELSE m.page[dir][pdi]
             ma == mem_allocident(m)
             mt == IF missing THEN [ma EXCEPT !.page[dir][pdi] = dir] ELSE m
             mp == [mt EXCEPT !.page[pt][PT_INDEX(v)] = p]
  <1>1. ma \in State /\ (Counted(m) => Counted(ma))
    BY MemAllocIdentKept DEF Kept
  <1>2. dir \in Entry /\ p \in Entry
    BY DEF Entry
  <1>3. virt_map(m, dir, v, p) = mp
    BY DEF virt_map
  <1> HIDE DEF ma, pdi, missing, pt
  <1>4. mt \in State /\ (Counted(m) => Counted(mt))
    <2>1. Kept(ma, [ma EXCEPT !.page[dir][pdi] = dir])
      BY <1>1, <1>2, EntryWritten, AlikeKept
    <2> QED BY <1>1, <2>1 DEF Kept
  <1> HIDE DEF mt
  <1>5. Kept(mt, mp)
    <2>1. Alike(mt, mp)
      BY <1>2, <1>4, EntryWritten
    <2> HIDE DEF mp
    <2> QED BY <1>4, <2>1, AlikeKept
  <1> QED BY <1>3, <1>4, <1>5 DEF Kept

\* One round of mem_map.
LEMMA MapPageKept ==
    ASSUME NEW m \in State, NEW dir \in Frame, NEW v
    PROVE  Kept(m, MapPage(m, dir, v))
  <1> DEFINE a == phys_alloc(m, 1)
             p == phys_fit(m, 1)
  <1>1. a \in State /\ (Counted(m) => Counted(a)) /\ p \in Frame
    <2>1. 1 \in Nat
      OBVIOUS
    <2> QED BY <2>1, PhysAlloc, PhysFit
  <1>2. MapPage(m, dir, v) = IF page_ispresent(m, dir, v) THEN m ELSE virt_map(a, dir, v, p)
    BY DEF MapPage
  <1> HIDE DEF a, p
  <1>3. Kept(a, virt_map(a, dir, v, p))
    BY <1>1, VirtMapKept
  <1> QED BY <1>1, <1>2, <1>3 DEF Kept

\* The loop of mem_map: what its rounds leave, one after another.
Rounds(m, dir, v, count, done) ==
    /\ done \in [0..count -> State] /\ done[0] = m
    /\ \A i \in 1..count : done[i] = MapPage(done[i - 1], dir, v + i - 1)

\* mem_map leaves what its last round leaves.
LEMMA MapLoop ==
    ASSUME NEW dir \in Frame, NEW v, NEW count \in Nat, Memory \in State,
           mem_map(dir, v, count)
    PROVE  \E done : /\ Rounds(Memory, dir, v, count, done) /\ Becomes(done[count])
                     /\ UNCHANGED <<dirs, blocks>>
  <1> DEFINE done[i \in 0..count] == IF i = 0 THEN Memory ELSE MapPage(done[i - 1], dir, v + i - 1)
             G == [i \in 1..count |-> [y \in State |-> MapPage(y, dir, v + i - 1)]]
             m0 == Memory
  <1>1. m0 \in State
    OBVIOUS
  <1>2. Becomes(done[count]) /\ UNCHANGED <<dirs, blocks>>
    BY DEF mem_map
  <1>3. G \in [1..count -> [State -> State]] /\ \A i \in 1..count, y \in State : G[i][y] = MapPage(y, dir, v + i - 1)
    BY MapPageKept DEF Kept
  <1>4. PICK f \in [0..count -> State] : f[0] = m0 /\ \A i \in 1..count : f[i] = G[i][f[i - 1]]
    <2> HIDE DEF G, m0, done
    <2>1. \E f : LoopRun(f, State, count, m0, G)
      BY <1>1, <1>3, LoopRuns
    <2> QED BY <2>1 DEF LoopRun
  <1> HIDE DEF G
  <1>5. f = [i \in 0..count |-> IF i = 0 THEN Memory ELSE MapPage(f[i - 1], dir, v + i - 1)]
    <2>1. \A i \in 0..count : i # 0 => i \in 1..count /\ f[i - 1] \in State
      OBVIOUS
    <2>2. \A i \in 0..count : f[i] = IF i = 0 THEN m0 ELSE MapPage(f[i - 1], dir, v + i - 1)
      <3> HIDE DEF m0, done
      <3> QED BY <1>3, <1>4, <2>1
    <2> QED BY <1>4, <2>2
  <1>6. done = [i \in 0..count |-> IF i = 0 THEN Memory ELSE MapPage(done[i - 1], dir, v + i - 1)]
    BY <1>5
  <1> HIDE DEF done
  <1>7. done[0] = Memory /\ \A i \in 1..count : done[i] = MapPage(done[i - 1], dir, v + i - 1)
    <2>1. 0 \in 0..count /\ \A i \in 1..count : i \in 0..count /\ i # 0
      OBVIOUS
    <2> QED BY <1>6, <2>1
  <1>8. done \in [0..count -> State]
    <2> DEFINE T == {i \in 0..count : done[i] \in State}
    <2>1. 0 \in T
      BY <1>7
    <2>2. ASSUME NEW i \in 0..(count - 1), i \in T PROVE i + 1 \in T
      <3>1. i + 1 \in 1..count /\ (i + 1) - 1 = i
        OBVIOUS
      <3>2. done[i + 1] = MapPage(done[i], dir, v + (i + 1) - 1)
        BY <1>7, <3>1
      <3>3. done[i] \in State
        BY <2>2
      <3>4. done[i + 1] \in State
        BY <3>2, <3>3, MapPageKept DEF Kept
      <3>5. i + 1 \in 0..count
        BY <3>1
      <3> QED BY <3>4, <3>5
    <2>3. \A i \in 0..count : i \in T
      <3> HIDE DEF T
      <3> QED BY <2>1, <2>2, SetInduction
    <2>4. \A i \in 0..count : done[i] \in State
      BY <2>3
    <2> QED BY <1>6, <2>4
  <1> QED BY <1>2, <1>7, <1>8 DEF Rounds

\* The rounds of mem_map keep used_mem right, by induction.
LEMMA MapLoopKept ==
    ASSUME NEW dir \in Frame, NEW v, NEW count \in Nat, NEW m \in State, NEW done,
           Rounds(m, dir, v, count, done)
    PROVE  Kept(m, done[count])
  <1> DEFINE T == {i \in 0..count : Kept(m, done[i])}
  <1>1. 0 \in T
    BY DEF Rounds, Kept
  <1>2. ASSUME NEW i \in 0..(count - 1), i \in T PROVE i + 1 \in T
    <2>1. i + 1 \in 1..count /\ (i + 1) - 1 = i /\ i + 1 \in 0..count /\ i \in 0..count
      OBVIOUS
    <2>2. done[i + 1] = MapPage(done[i], dir, v + (i + 1) - 1) /\ done[i] \in State
      BY <2>1 DEF Rounds
    <2>3. Kept(done[i], done[i + 1])
      BY <2>2, MapPageKept
    <2>4. Kept(m, done[i])
      BY <1>2
    <2> QED BY <2>1, <2>3, <2>4 DEF Kept
  <1>3. \A i \in 0..count : i \in T
    <2> HIDE DEF T
    <2> QED BY <1>1, <1>2, SetInduction
  <1> QED BY <1>3
-----------------------------------------------------------------------------
(* The steps *)

\* A step that leaves what a call leaves.
LEMMA BecomesKept ==
    ASSUME NEW n, Kept(Memory, n), Becomes(n), Memory \in State, Counted(Memory)
    PROVE  (Memory \in State /\ Counted(Memory))'
  <1>1. n \in State /\ Counted(n)
    BY DEF Kept
  <1>2. n = [used |-> n.used, used_mem |-> n.used_mem, page |-> n.page]
    BY <1>1 DEF State
  <1>3. Memory' = n
    BY <1>2 DEF Becomes, Memory
  <1> QED BY <1>1, <1>3 DEF Counted

\* The directory after mem_alloc_pgdir has entered the kernel tables.
LEMMA RowWritten ==
    ASSUME NEW m \in State, NEW f
    PROVE  Alike(m, [m EXCEPT !.page[f] = NewEntries])
  <1> DEFINE g == [m.page EXCEPT ![f] = NewEntries]
  <1>1. \A i \in Index : i < KrnlTables => krnl_pgtbl(i) \in Frame
    BY Layout DEF krnl_pgtbl, Frame, Index
  <1>2. NewEntries \in [Index -> Entry]
    BY <1>1 DEF NewEntries, Entry
  <1>3. g \in [Frame -> [Index -> Entry]]
    BY <1>2, Fields
  <1>4. [m EXCEPT !.page[f] = NewEntries] = [m EXCEPT !.page = g]
    OBVIOUS
  <1> HIDE DEF g
  <1> QED BY <1>3, <1>4, PagesWritten

\* The invariant at boot.
LEMMA InvInit == Init => IInv
  <1> SUFFICES ASSUME Init PROVE IInv
    OBVIOUS
  <1> DEFINE d == Cardinality(Mapped \ Reserved)
  <1>1. /\ used = Reserved \cup Mapped /\ used_mem = (Image + d) % Frames
        /\ dirs = {} /\ blocks = {}
    BY DEF Init
  <1>2. Mapped \subseteq Frame /\ Reserved \subseteq Frame
    BY Layout DEF Mapped, Frame
  <1>3. IsFiniteSet(Mapped \ Reserved) /\ d \in Nat
    <2>1. Mapped \ Reserved \subseteq Frame
      BY <1>2
    <2> QED BY <2>1, Layout, FS_Subset, FS_CardinalityType
  <1>4. Cardinality(used) = Cardinality(Reserved) + d
    <2>1. used = Reserved \cup (Mapped \ Reserved) /\ Reserved \cap (Mapped \ Reserved) = {}
      BY <1>1
    <2>2. Cardinality(Reserved \cup (Mapped \ Reserved)) =
            Cardinality(Reserved) + d - Cardinality(Reserved \cap (Mapped \ Reserved))
      BY <1>3, ReservedCounted, FS_Union
    <2>3. Cardinality(Reserved \cap (Mapped \ Reserved)) = 0
      BY <2>1, FS_EmptySet
    <2>4. Cardinality(used) = Cardinality(Reserved \cup (Mapped \ Reserved))
      BY <2>1
    <2> QED BY <1>3, <2>2, <2>3, <2>4, ReservedCounted
  <1>5. used_mem = (Cardinality(used) + Image - Cardinality(Reserved)) % Frames
    <2>1. Cardinality(used) + Image - Cardinality(Reserved) = Image + d
      BY <1>3, <1>4, ReservedCounted, Layout
    <2> QED BY <1>1, <2>1
  <1>6. used_mem \in Frame
    <2>1. Image + d \in Int
      BY <1>3, Layout
    <2> HIDE DEF d
    <2> QED BY <1>1, <2>1, ModFrame
  <1> DEFINE e(f, i) ==
               LET w == (f - krnl_pgtbl(0)) * Entries + i
               IN  CASE f = krnl_pgdir /\ i < KrnlTables -> krnl_pgtbl(i)
                     [] f \in krnl_pgtbl(0)..krnl_pgtbl(KrnlTables - 1) /\ w \in Mapped -> w
                     [] OTHER -> Absent
  <1>7. page = [f \in Frame |-> [i \in Index |-> e(f, i)]]
    BY DEF Init
  <1>8. ASSUME NEW f \in Frame, NEW i \in Index PROVE e(f, i) \in Entry
    <2>1. i < KrnlTables => krnl_pgtbl(i) \in Frame
      BY Layout DEF krnl_pgtbl, Frame, Index
    <2> QED BY <2>1, <1>2 DEF Entry
  <1>9. page \in [Frame -> [Index -> Entry]]
    <2> HIDE DEF e
    <2> QED BY <1>7, <1>8
  <1>10. Memory \in State /\ Counted(Memory)
    BY <1>1, <1>2, <1>5, <1>6, <1>9 DEF Memory, State, Counted
  <1> QED BY <1>1, <1>10 DEF IInv

\* The invariant across every step.
LEMMA InvNext == IInv /\ [Next]_vars => IInv'
  <1> SUFFICES ASSUME IInv, [Next]_vars PROVE IInv'
    OBVIOUS
  <1>1. /\ Memory \in State /\ Counted(Memory)
        /\ dirs \subseteq Frame /\ blocks \subseteq (KrnlPage \X (Nat \ {0}))
    BY DEF IInv
  <1>2. ASSUME NEW pages \in 1..MaxPages, liballoc_alloc(pages) PROVE IInv'
    <2> DEFINE count == pages * PageSize
               v == mem_alloc_page(Memory, count)
    <2>1. count \in Nat \ {0}
      BY Layout
    <2>2. Becomes(mem_alloc(Memory, count)) /\ dirs' = dirs
          /\ blocks' = IF v = 0 THEN blocks ELSE blocks \cup {<<v, count>>}
      BY <1>2 DEF liballoc_alloc
    <2> HIDE DEF count
    <2>3. v \in KrnlPage
      BY <1>1, <2>1, FitKinds, Layout DEF mem_alloc_page
    <2> HIDE DEF v
    <2>4. blocks' \subseteq (KrnlPage \X (Nat \ {0}))
      BY <1>1, <2>1, <2>2, <2>3
    <2>5. (Memory \in State /\ Counted(Memory))'
      BY <1>1, <2>1, <2>2, MemAllocKept, BecomesKept
    <2> QED BY <1>1, <2>2, <2>4, <2>5 DEF IInv
  <1>3. ASSUME NEW b \in blocks, liballoc_free(b) PROVE IInv'
    <2>1. b[1] \in KrnlPage /\ b[2] \in Nat \ {0} /\ b[1] \in Frame
      BY <1>1, Layout
    <2>2. Becomes(mem_free(Memory, b[1], b[2])) /\ dirs' = dirs /\ blocks' = blocks \ {b}
      BY <1>3 DEF liballoc_free
    <2>3. (Memory \in State /\ Counted(Memory))'
      BY <1>1, <2>1, <2>2, MemFreeKept, BecomesKept
    <2> QED BY <1>1, <2>2, <2>3 DEF IInv
  <1>4. ASSUME mem_alloc_pgdir PROVE IInv'
    <2> DEFINE dir == ident_fit(Memory)
               n == mem_allocident(Memory)
               n2 == [n EXCEPT !.page[dir] = NewEntries]
    <2>1. Becomes(n2) /\ dirs' = dirs \cup {dir} /\ blocks' = blocks
      BY <1>4 DEF mem_alloc_pgdir
    <2>2. dir \in Frame
      <3>1. 1 \in Nat
        OBVIOUS
      <3> QED BY <1>1, <3>1, FitKinds
    <2>3. Kept(Memory, n)
      BY <1>1, MemAllocIdentKept
    <2> HIDE DEF n, dir
    <2>4. Kept(n, n2)
      <3>1. n \in State /\ Alike(n, n2)
        BY <2>3, RowWritten DEF Kept
      <3> HIDE DEF n2
      <3> QED BY <3>1, AlikeKept
    <2> HIDE DEF n2
    <2>5. (Memory \in State /\ Counted(Memory))'
      <3>1. Kept(Memory, n2)
        BY <2>3, <2>4 DEF Kept
      <3> QED BY <3>1, <1>1, <2>1, BecomesKept
    <2> QED BY <1>1, <2>1, <2>2, <2>5 DEF IInv
  <1>5. ASSUME NEW dir \in dirs, mem_free_pgdir(dir) PROVE IInv'
    <2> DEFINE S == {i \in KrnlTables..(Entries - 1) : page[dir][i] # Absent}
               pdi == First(S, Absent)
               pt == page[dir][pdi]
               freed == IF page[pt][0] = Absent THEN Memory ELSE phys_setfree(Memory, {page[pt][0]})
               m == IF pdi = Absent THEN Memory ELSE mem_free(freed, pt, 1)
    <2>1. Becomes(mem_free(m, dir, 1)) /\ dirs' = dirs \ {dir} /\ blocks' = blocks
      BY <1>5 DEF mem_free_pgdir
    <2>2. dir \in Frame /\ 1 \in Nat \ {0} /\ page \in [Frame -> [Index -> Entry]]
      BY <1>1, Fields DEF Memory
    <2>3. ASSUME pdi # Absent PROVE pt \in Frame
      <3>1. S \in SUBSET Nat /\ S \subseteq Index
        BY Layout DEF Index
      <3>2. pdi \in S
        <4> HIDE DEF S
        <4> QED BY <2>3, <3>1, FirstIs
      <3>3. pdi \in Index /\ page[dir][pdi] # Absent
        BY <3>1, <3>2
      <3> HIDE DEF pdi
      <3> QED BY <2>2, <3>3 DEF Entry
    <2>4. ASSUME pt \in Frame PROVE Kept(Memory, freed)
      <3>1. 0 \in Index
        BY Layout DEF Index
      <3> HIDE DEF pt
      <3>2. page[pt][0] # Absent => {page[pt][0]} \in SUBSET Frame
        BY <2>2, <2>4, <3>1 DEF Entry
      <3> QED BY <1>1, <3>2, SetFree DEF Kept
    <2>5. Kept(Memory, m)
      <3> HIDE DEF freed, pt, pdi
      <3>1. CASE pdi = Absent
        BY <1>1, <3>1 DEF Kept
      <3>2. CASE pdi # Absent
        <4>1. Kept(freed, mem_free(freed, pt, 1))
          BY <2>2, <2>3, <2>4, <3>2, MemFreeKept DEF Kept
        <4> QED BY <2>3, <2>4, <3>2, <4>1 DEF Kept
      <3> QED BY <3>1, <3>2
    <2> HIDE DEF m
    <2>6. Kept(m, mem_free(m, dir, 1))
      BY <2>2, <2>5, MemFreeKept DEF Kept
    <2>7. (Memory \in State /\ Counted(Memory))'
      <3>1. Kept(Memory, mem_free(m, dir, 1))
        BY <2>5, <2>6 DEF Kept
      <3> QED BY <3>1, <1>1, <2>1, BecomesKept
    <2> QED BY <1>1, <2>1, <2>7 DEF IInv
  <1>6. ASSUME NEW dir \in dirs, NEW v \in UserPage, NEW count \in 1..MaxPages, mem_map(dir, v, count)
        PROVE  IInv'
    <2>1. dir \in Frame /\ count \in Nat
      BY <1>1
    <2>2. PICK done : /\ Rounds(Memory, dir, v, count, done) /\ Becomes(done[count])
                      /\ UNCHANGED <<dirs, blocks>>
      BY <1>1, <1>6, <2>1, MapLoop
    <2>3. Kept(Memory, done[count])
      BY <1>1, <2>1, <2>2, MapLoopKept
    <2>4. (Memory \in State /\ Counted(Memory))'
      BY <1>1, <2>2, <2>3, BecomesKept
    <2> QED BY <1>1, <2>2, <2>4 DEF IInv
  <1>7. ASSUME UNCHANGED vars PROVE IInv'
    BY <1>1, <1>7 DEF vars, IInv, Memory, Counted
  <1> QED BY <1>2, <1>3, <1>4, <1>5, <1>6, <1>7 DEF Next

\* The history adds nothing to what the memory does.
LEMMA ServedIsMem == ServedSpec => Spec
  <1>1. ServedInit => Init
    BY DEF ServedInit
  <1>2. [ServedNext]_<<vars, served>> => [Next]_vars
    BY DEF ServedNext, Next
  <1> QED BY <1>1, <1>2, PTL DEF ServedSpec, Spec

\* Every state of the memory is one, with used_mem right.
THEOREM Invariant == Spec => []IInv
  <1> QED BY InvInit, InvNext, PTL DEF Spec

(***************************************************************************)
(* The bitmap, used_mem and every entry of a table stay what they are, and *)
(* blocks and directories are pages: also where an error code is used as a *)
(* frame, NULL is cleared and mem_free_pgdir frees what it takes for a     *)
(* table.                                                                  *)
(***************************************************************************)
THEOREM TypeCorrect == Spec => []TypeOK
  <1>1. IInv => TypeOK
    <2> SUFFICES ASSUME IInv PROVE TypeOK
      OBVIOUS
    <2>1. /\ used \subseteq Frame /\ used_mem \in Frame /\ page \in [Frame -> [Index -> Entry]]
      BY DEF IInv, State, Memory
    <2>2. blocks \subseteq KrnlPage \X Nat
      BY DEF IInv
    <2> QED BY <2>1, <2>2 DEF TypeOK, IInv, Entry
  <1> QED BY <1>1, Invariant, PTL

(***************************************************************************)
(* used_mem differs from the number of used frames by a constant, whatever *)
(* phys_setused and phys_setfree are called with, for any amount of memory *)
(* and at the wrap of the 32-bit counter.                                  *)
(***************************************************************************)
THEOREM UsedStaysCounted == Spec => []UsedCounted
  <1>1. IInv => UsedCounted
    BY DEF IInv, UsedCounted, Counted, Memory
  <1> QED BY <1>1, Invariant, PTL
-----------------------------------------------------------------------------
(* Who owns a frame, as long as calls are served *)

MappedIn(m) == {v \in KrnlPage : KrnlEntry(m, v) # Absent}
PagesOf(b) == b[1]..(b[1] + b[2] - 1)

\* The pages of a block are mapped, to frames in a row, and not for another use.
BlockIn(m, D, b) ==
    /\ b[1] \in KrnlPage /\ b[2] \in Nat \ {0}
    /\ PagesOf(b) \subseteq MappedIn(m) \ (Mapped \cup D)
    /\ \A v \in PagesOf(b) : KrnlEntry(m, v) = (KrnlEntry(m, b[1]) + (v - b[1])) % Frames

\* FramesOwned and what it rests on: what frees a block or a directory frees the
\* frames it got, since nothing else has written the entries that say which.
Owned(m, D, B) ==
    /\ m \in State
    /\ m.used = Reserved \cup {KrnlEntry(m, v) : v \in MappedIn(m)}
    /\ \A v, w \in MappedIn(m) : KrnlEntry(m, v) = KrnlEntry(m, w) => v = w
    /\ D \subseteq KrnlPage \ Mapped
    /\ \A v \in Mapped \cup D : KrnlEntry(m, v) = v
    /\ \A v \in MappedIn(m) \ Mapped : KrnlEntry(m, v) \notin Reserved
    /\ \A i \in 0..(KrnlTables - 1) : m.page[krnl_pgdir][i] = krnl_pgtbl(i)
    /\ \A d \in D : m.page[d] = NewEntries
    /\ \A b \in B : BlockIn(m, D, b)
    /\ \A b, c \in B : b # c => PagesOf(b) \cap PagesOf(c) = {}

\* The kernel's own directory and tables, and where they lie.
LEMMA KernelLies ==
    /\ Mapped \subseteq KrnlPage /\ Mapped \subseteq Frame /\ krnl_pgdir \in Mapped /\ 0 \in Mapped
    /\ \A i \in 0..(KrnlTables - 1) : krnl_pgtbl(i) \in Mapped /\ krnl_pgtbl(i) # krnl_pgdir
  BY Layout DEF Mapped, KrnlPage, krnl_pgdir, krnl_pgtbl, Frame

\* The entry of a kernel page after SetKrnl.
LEMMA SetKrnlEntry ==
    ASSUME NEW m \in State, NEW a \in Int, NEW fr, \A i \in DOMAIN fr : fr[i] \in Entry,
           NEW v \in KrnlPage
    PROVE  KrnlEntry(SetKrnl(m, a, fr), v) =
             IF v - a \in DOMAIN fr THEN fr[v - a] ELSE KrnlEntry(m, v)
  <1> DEFINE f == krnl_pgtbl(PD_INDEX(v))
             i == PT_INDEX(v)
             w == (f - krnl_pgtbl(0)) * Entries + i
  <1>1. /\ PD_INDEX(v) \in 0..(KrnlTables - 1) /\ i \in Index /\ f \in Frame
        /\ PD_INDEX(v) * Entries + i = v
    BY KrnlIndex
  <1>2. f - krnl_pgtbl(0) = PD_INDEX(v)
    BY <1>1 DEF krnl_pgtbl
  <1>3. w = v
    BY <1>1, <1>2
  <1>4. f \in krnl_pgtbl(0)..krnl_pgtbl(KrnlTables - 1)
    BY <1>1, Layout DEF krnl_pgtbl
  <1>5. SetKrnl(m, a, fr).page[f][i] =
          IF f \in krnl_pgtbl(0)..krnl_pgtbl(KrnlTables - 1) /\ w - a \in DOMAIN fr
          THEN fr[w - a] ELSE m.page[f][i]
    <2>1. \A g \in Frame, j \in Index :
             LET x == (g - krnl_pgtbl(0)) * Entries + j
             IN  SetKrnl(m, a, fr).page[g][j] =
                   IF g \in krnl_pgtbl(0)..krnl_pgtbl(KrnlTables - 1) /\ x - a \in DOMAIN fr
                   THEN fr[x - a] ELSE m.page[g][j]
      BY SetKrnlIs
    <2> HIDE DEF f, i
    <2> QED BY <1>1, <2>1
  <1> QED BY <1>3, <1>4, <1>5 DEF KrnlEntry

\* A frame that is no kernel table is left alone by SetKrnl.
LEMMA SetKrnlElse ==
    ASSUME NEW m \in State, NEW a \in Int, NEW fr, \A i \in DOMAIN fr : fr[i] \in Entry,
           NEW f \in Frame, \A i \in 0..(KrnlTables - 1) : f # krnl_pgtbl(i)
    PROVE  SetKrnl(m, a, fr).page[f] = m.page[f]
  <1> DEFINE n == SetKrnl(m, a, fr)
  <1>1. f \notin krnl_pgtbl(0)..krnl_pgtbl(KrnlTables - 1)
    <2> SUFFICES ASSUME f \in krnl_pgtbl(0)..krnl_pgtbl(KrnlTables - 1) PROVE FALSE
      OBVIOUS
    <2>1. f - 2 \in 0..(KrnlTables - 1) /\ f = krnl_pgtbl(f - 2)
      BY Layout DEF krnl_pgtbl
    <2> QED BY <2>1
  <1>2. \A i \in Index : n.page[f][i] = m.page[f][i]
    BY <1>1, SetKrnlIs
  <1>3. n \in State
    BY SetKrnlIs DEF Alike
  <1>4. n.page[f] \in [Index -> Entry] /\ m.page[f] \in [Index -> Entry]
    <2> HIDE DEF n
    <2> QED BY <1>3, Fields
  <1> HIDE DEF n
  <1> QED BY <1>2, <1>4 DEF n

-----------------------------------------------------------------------------
(* Pages that are mapped to free frames, and pages that are given back *)

\* Absent pages W get frames that are free, one each.
Adds(m, n, W) ==
    /\ n \in State /\ W \subseteq KrnlPage
    /\ \A v \in KrnlPage \ W : KrnlEntry(n, v) = KrnlEntry(m, v)
    /\ \A w \in W : KrnlEntry(m, w) = Absent /\ KrnlEntry(n, w) \in Frame \ m.used
    /\ \A v, w \in W : KrnlEntry(n, v) = KrnlEntry(n, w) => v = w
    /\ n.used = m.used \cup {KrnlEntry(n, w) : w \in W}

\* Pages W outside the image lose their frames.
Removes(m, n, W) ==
    /\ n \in State /\ W \subseteq MappedIn(m) \ Mapped
    /\ \A v \in KrnlPage \ W : KrnlEntry(n, v) = KrnlEntry(m, v)
    /\ \A w \in W : KrnlEntry(n, w) = Absent
    /\ n.used = m.used \ {KrnlEntry(m, w) : w \in W}

\* The directories D and the kernel's are the same in both states.
SameDirs(m, n, D) == \A f \in D \cup {krnl_pgdir} : n.page[f] = m.page[f]

\* A kernel page is mapped to a frame or not at all.
LEMMA EntryKind ==
    ASSUME NEW m \in State, NEW v \in KrnlPage
    PROVE  KrnlEntry(m, v) \in Entry /\ (KrnlEntry(m, v) # Absent => KrnlEntry(m, v) \in Frame)
  BY KrnlIndex, Fields DEF KrnlEntry, Entry

\* A block whose pages are left alone stays a block.
LEMMA BlockKept ==
    ASSUME NEW m \in State, NEW n \in State, NEW D, NEW E, NEW b, BlockIn(m, D, b),
           \A v \in PagesOf(b) : v \in KrnlPage => KrnlEntry(n, v) = KrnlEntry(m, v),
           E \cap PagesOf(b) \subseteq D
    PROVE  BlockIn(n, E, b)
  <1>1. /\ b[1] \in KrnlPage /\ b[2] \in Nat \ {0} /\ PagesOf(b) \subseteq MappedIn(m) \ (Mapped \cup D)
        /\ \A v \in PagesOf(b) : KrnlEntry(m, v) = (KrnlEntry(m, b[1]) + (v - b[1])) % Frames
    BY DEF BlockIn
  <1>2. b[1] \in PagesOf(b)
    <2>1. b[1] \in Int
      BY <1>1, Layout DEF KrnlPage
    <2> QED BY <1>1, <2>1 DEF PagesOf
  <1>3. \A v \in PagesOf(b) : v \in KrnlPage /\ KrnlEntry(n, v) = KrnlEntry(m, v)
    BY <1>1 DEF MappedIn
  <1>4. PagesOf(b) \subseteq MappedIn(n) \ (Mapped \cup E)
    BY <1>1, <1>3 DEF MappedIn
  <1>5. \A v \in PagesOf(b) : KrnlEntry(n, v) = (KrnlEntry(n, b[1]) + (v - b[1])) % Frames
    BY <1>1, <1>2, <1>3
  <1> QED BY <1>1, <1>4, <1>5 DEF BlockIn

\* Handing out free frames keeps every frame with one owner.
LEMMA AddsKept ==
    ASSUME NEW m, NEW n, NEW D, NEW B, NEW W,
           Owned(m, D, B), Adds(m, n, W), SameDirs(m, n, D)
    PROVE  Owned(n, D, B) /\ MappedIn(n) = MappedIn(m) \cup W /\ MappedIn(m) \cap W = {}
  <1>1. m \in State /\ n \in State /\ Mapped \subseteq KrnlPage
    BY KernelLies DEF Owned, Adds
  <1>2. /\ MappedIn(n) = MappedIn(m) \cup W /\ MappedIn(m) \cap W = {}
        /\ \A v \in MappedIn(m) : KrnlEntry(n, v) = KrnlEntry(m, v)
    <2>1. Absent \notin Frame
      BY DEF Absent, Frame
    <2>2. ASSUME NEW v \in KrnlPage PROVE v \in MappedIn(n) <=> v \in MappedIn(m) \cup W
      BY <2>1 DEF MappedIn, Adds
    <2>3. \A v \in MappedIn(m) : v \in KrnlPage \ W
      BY DEF MappedIn, Adds
    <2>4. MappedIn(n) \subseteq KrnlPage /\ MappedIn(m) \cup W \subseteq KrnlPage
      BY DEF MappedIn, Adds
    <2> QED BY <2>2, <2>3, <2>4 DEF Adds
  <1>3. n.used = Reserved \cup {KrnlEntry(n, v) : v \in MappedIn(n)}
    <2>1. n.used = m.used \cup {KrnlEntry(n, w) : w \in W}
      BY DEF Adds
    <2>2. m.used = Reserved \cup {KrnlEntry(n, v) : v \in MappedIn(m)}
      BY <1>2 DEF Owned
    <2> QED BY <2>1, <2>2, <1>2
  <1>4. \A v \in MappedIn(m) : KrnlEntry(n, v) \in m.used
    BY <1>2 DEF Owned
  <1>5. \A w \in W : KrnlEntry(n, w) \notin m.used /\ KrnlEntry(n, w) \notin Reserved
    BY DEF Adds, Owned
  <1>6. \A v, w \in MappedIn(n) : KrnlEntry(n, v) = KrnlEntry(n, w) => v = w
    <2> SUFFICES ASSUME NEW v \in MappedIn(n), NEW w \in MappedIn(n), KrnlEntry(n, v) = KrnlEntry(n, w)
                 PROVE  v = w
      OBVIOUS
    <2>1. CASE v \in MappedIn(m) /\ w \in MappedIn(m)
      BY <1>2, <2>1 DEF Owned
    <2>2. CASE v \in W /\ w \in W
      BY <2>2 DEF Adds
    <2> QED BY <1>2, <1>4, <1>5, <2>1, <2>2
  <1>7. \A v \in Mapped \cup D : v \in MappedIn(m) /\ KrnlEntry(n, v) = v
    <2>1. \A v \in Mapped \cup D : v \in KrnlPage /\ KrnlEntry(m, v) = v
      BY <1>1 DEF Owned
    <2>2. \A v \in KrnlPage : v # Absent
      BY DEF KrnlPage, Absent
    <2> QED BY <1>2, <2>1, <2>2 DEF MappedIn
  <1>8. \A v \in MappedIn(n) \ Mapped : KrnlEntry(n, v) \notin Reserved
    BY <1>2, <1>5 DEF Owned
  <1>9. /\ \A i \in 0..(KrnlTables - 1) : n.page[krnl_pgdir][i] = krnl_pgtbl(i)
        /\ \A d \in D : n.page[d] = NewEntries
    BY DEF Owned, SameDirs
  <1>10. ASSUME NEW b \in B PROVE BlockIn(n, D, b)
    <2>1. BlockIn(m, D, b)
      BY DEF Owned
    <2>2. \A v \in PagesOf(b) : KrnlEntry(n, v) = KrnlEntry(m, v)
      BY <1>2, <2>1 DEF BlockIn
    <2> QED BY <1>1, <2>1, <2>2, BlockKept
  <1> QED BY <1>1, <1>2, <1>3, <1>6, <1>7, <1>8, <1>9, <1>10 DEF Owned

\* Giving frames back does too, if what owned the pages is given up with them.
LEMMA RemovesKept ==
    ASSUME NEW m, NEW n, NEW D, NEW B, NEW W, NEW E \in SUBSET D, NEW C \in SUBSET B,
           Owned(m, D, B), Removes(m, n, W), SameDirs(m, n, E),
           E \cap W = {}, \A b \in C : PagesOf(b) \cap W = {}
    PROVE  Owned(n, E, C)
  <1>1. m \in State /\ n \in State /\ Mapped \subseteq KrnlPage
    BY KernelLies DEF Owned, Removes
  <1>2. /\ MappedIn(n) = MappedIn(m) \ W /\ W \subseteq MappedIn(m) /\ W \cap Mapped = {}
        /\ \A v \in KrnlPage \ W : KrnlEntry(n, v) = KrnlEntry(m, v)
    <2>1. ASSUME NEW v \in KrnlPage PROVE v \in MappedIn(n) <=> v \in MappedIn(m) \ W
      BY DEF MappedIn, Removes
    <2>2. MappedIn(n) \subseteq KrnlPage /\ MappedIn(m) \subseteq KrnlPage
      BY DEF MappedIn
    <2> QED BY <2>1, <2>2 DEF Removes
  <1>3. n.used = Reserved \cup {KrnlEntry(n, v) : v \in MappedIn(n)}
    <2> DEFINE freed == {KrnlEntry(m, w) : w \in W}
               kept == {KrnlEntry(m, v) : v \in MappedIn(m) \ W}
    <2>1. n.used = m.used \ freed /\ m.used = Reserved \cup freed \cup kept
      BY <1>2 DEF Removes, Owned
    <2>2. freed \cap kept = {}
      BY <1>2 DEF Owned
    <2>3. freed \cap Reserved = {}
      BY <1>2 DEF Owned
    <2>4. kept = {KrnlEntry(n, v) : v \in MappedIn(n)}
      BY <1>2 DEF MappedIn
    <2> HIDE DEF freed, kept
    <2> QED BY <2>1, <2>2, <2>3, <2>4
  <1>4. \A v \in MappedIn(n) : v \in MappedIn(m) /\ KrnlEntry(n, v) = KrnlEntry(m, v)
    BY <1>2 DEF MappedIn
  <1>5. \A v, w \in MappedIn(n) : KrnlEntry(n, v) = KrnlEntry(n, w) => v = w
    BY <1>4 DEF Owned
  <1>6. \A v \in Mapped \cup E : KrnlEntry(n, v) = v
    <2>1. \A v \in Mapped \cup E : v \in KrnlPage \ W /\ KrnlEntry(m, v) = v
      BY <1>1, <1>2 DEF Owned
    <2> QED BY <1>2, <2>1
  <1>7. \A v \in MappedIn(n) \ Mapped : KrnlEntry(n, v) \notin Reserved
    BY <1>4 DEF Owned
  <1>8. /\ \A i \in 0..(KrnlTables - 1) : n.page[krnl_pgdir][i] = krnl_pgtbl(i)
        /\ \A d \in E : n.page[d] = NewEntries
    BY DEF Owned, SameDirs
  <1>9. ASSUME NEW b \in C PROVE BlockIn(n, E, b)
    <2>1. BlockIn(m, D, b)
      BY DEF Owned
    <2>2. \A v \in PagesOf(b) : v \in KrnlPage => KrnlEntry(n, v) = KrnlEntry(m, v)
      BY <1>2
    <2> QED BY <1>1, <2>1, <2>2, BlockKept
  <1>10. E \subseteq KrnlPage \ Mapped /\ \A b, c \in C : b # c => PagesOf(b) \cap PagesOf(c) = {}
    BY DEF Owned
  <1> QED BY <1>1, <1>3, <1>5, <1>6, <1>7, <1>8, <1>9, <1>10 DEF Owned

-----------------------------------------------------------------------------
(* The calls hand out free frames and take back what they handed out *)

\* Fewer frames in a row than there are do not meet again when they wrap.
LEMMA RunDistinct ==
    ASSUME NEW p \in Int, NEW x \in Nat, NEW y \in Nat, x < Frames, y < Frames,
           (p + x) % Frames = (p + y) % Frames
    PROVE  x = y
  <1> DEFINE r == (p + x) % Frames
             q == (p + x) \div Frames
             s == (p + y) \div Frames
  <1>1. /\ Frames \in Nat \ {0} /\ q \in Int /\ s \in Int /\ r \in 0..(Frames - 1)
        /\ p + x = Frames * q + r /\ p + y = Frames * s + r
    <2>1. Frames \in Nat \ {0} /\ p + x \in Int /\ p + y \in Int
      BY Layout
    <2>2. \A a \in Int : /\ a \div Frames \in Int /\ a % Frames \in 0..(Frames - 1)
                         /\ a = Frames * (a \div Frames) + (a % Frames)
      BY <2>1
    <2>3. p + x = Frames * q + r /\ q \in Int /\ r \in 0..(Frames - 1)
      BY <2>1, <2>2
    <2>4. p + y = Frames * s + ((p + y) % Frames) /\ s \in Int
      BY <2>1, <2>2
    <2> QED BY <2>1, <2>3, <2>4
  <1> HIDE DEF r, q, s
  <1> DEFINE d == q - s
             e == Frames * d
  <1>2. d \in Int /\ e \in Int /\ x - y = e
    BY <1>1
  <1>3. d >= 1 => e >= Frames
    BY <1>1, <1>2
  <1>4. d <= -1 => e <= -Frames
    <2>1. d <= -1 => Frames * (-1 - d) >= 0
      BY <1>1, <1>2
    <2>2. Frames * (-1 - d) = -Frames - e
      BY <1>1, <1>2
    <2> QED BY <1>1, <1>2, <2>1, <2>2
  <1>5. d = 0 => e = 0
    BY <1>1
  <1> HIDE DEF d, e
  <1> QED BY <1>1, <1>2, <1>3, <1>4, <1>5

\* What is mapped to itself is in use, and directories are no kernel tables.
LEMMA InUse ==
    ASSUME NEW m, NEW D, NEW B, Owned(m, D, B)
    PROVE  /\ \A f \in Mapped \cup D : f \in m.used /\ f \in MappedIn(m) /\ f \in Frame
           /\ \A f \in D \cup {krnl_pgdir} :
                 f \in Mapped \cup D /\ \A i \in 0..(KrnlTables - 1) : f # krnl_pgtbl(i)
  <1>1. \A f \in Mapped \cup D : f \in KrnlPage /\ KrnlEntry(m, f) = f
    BY KernelLies DEF Owned
  <1>2. \A f \in KrnlPage : f # Absent /\ f \in Frame
    BY Layout DEF KrnlPage, Absent
  <1>3. \A f \in Mapped \cup D : f \in MappedIn(m)
    BY <1>1, <1>2 DEF MappedIn
  <1>4. \A f \in Mapped \cup D : f \in m.used
    BY <1>1, <1>3 DEF Owned
  <1>5. D \cap Mapped = {}
    BY DEF Owned
  <1> QED BY <1>1, <1>2, <1>3, <1>4, <1>5, KernelLies

\* Clearing frames that are none of the kernel's leaves its entries alone.
LEMMA ZeroElse ==
    ASSUME NEW m \in State, NEW v, NEW count, NEW U, Mapped \subseteq U,
           \A w \in v..(v + count - 1) : KrnlEntry(m, w) \notin U
    PROVE  /\ Zero(m, v, count) \in State /\ Zero(m, v, count).used = m.used
           /\ \A f \in Frame \cap U : Zero(m, v, count).page[f] = m.page[f]
           /\ \A w \in KrnlPage : KrnlEntry(Zero(m, v, count), w) = KrnlEntry(m, w)
  <1> DEFINE n == Zero(m, v, count)
  <1>1. n \in State /\ n.used = m.used
    BY ZeroKept DEF Alike
  <1>2. \A f \in Frame \cap U : n.page[f] = m.page[f]
    BY ZeroKept
  <1>3. \A w \in KrnlPage : krnl_pgtbl(PD_INDEX(w)) \in Frame \cap U
    BY KrnlIndex, KernelLies
  <1> HIDE DEF n
  <1>4. \A w \in KrnlPage : KrnlEntry(n, w) = KrnlEntry(m, w)
    BY <1>2, <1>3 DEF KrnlEntry
  <1> QED BY <1>1, <1>2, <1>4 DEF n

\* The entries of a row of kernel pages that is mapped, and of one unmapped.
LEMMA MapKrnlIs ==
    ASSUME NEW m \in State, NEW a \in Int, NEW p \in Int, NEW count \in Nat
    PROVE  /\ \A v \in KrnlPage :
                 /\ KrnlEntry(MapKrnl(m, a, p, count), v) =
                      IF v \in a..(a + count - 1) THEN (p + (v - a)) % Frames ELSE KrnlEntry(m, v)
                 /\ KrnlEntry(virt_unmap(m, a, count), v) =
                      IF v \in a..(a + count - 1) THEN Absent ELSE KrnlEntry(m, v)
           /\ \A f \in Frame : (\A i \in 0..(KrnlTables - 1) : f # krnl_pgtbl(i))
                 => /\ MapKrnl(m, a, p, count).page[f] = m.page[f]
                    /\ virt_unmap(m, a, count).page[f] = m.page[f]
  <1>1. \A i \in 0..(count - 1) : p + i \in Int
    OBVIOUS
  <1> DEFINE fr == [i \in 0..(count - 1) |-> (p + i) % Frames]
             no == [i \in 0..(count - 1) |-> Absent]
  <1>2. (\A i \in DOMAIN fr : fr[i] \in Entry) /\ (\A i \in DOMAIN no : no[i] \in Entry)
    BY <1>1, ModFrame DEF Entry
  <1>3. MapKrnl(m, a, p, count) = SetKrnl(m, a, fr) /\ virt_unmap(m, a, count) = SetKrnl(m, a, no)
    BY DEF MapKrnl, virt_unmap
  <1>4. DOMAIN fr = 0..(count - 1) /\ DOMAIN no = 0..(count - 1)
        /\ \A i \in 0..(count - 1) : fr[i] = (p + i) % Frames /\ no[i] = Absent
    OBVIOUS
  <1> HIDE DEF fr, no
  <1>5. ASSUME NEW v \in KrnlPage
        PROVE  /\ KrnlEntry(SetKrnl(m, a, fr), v) =
                    IF v \in a..(a + count - 1) THEN (p + (v - a)) % Frames ELSE KrnlEntry(m, v)
               /\ KrnlEntry(SetKrnl(m, a, no), v) =
                    IF v \in a..(a + count - 1) THEN Absent ELSE KrnlEntry(m, v)
    <2>1. v \in Int
      BY Layout DEF KrnlPage
    <2>2. v - a \in 0..(count - 1) <=> v \in a..(a + count - 1)
      BY <2>1
    <2>3. KrnlEntry(SetKrnl(m, a, fr), v) = IF v - a \in DOMAIN fr THEN fr[v - a] ELSE KrnlEntry(m, v)
      BY <1>2, SetKrnlEntry
    <2>4. KrnlEntry(SetKrnl(m, a, no), v) = IF v - a \in DOMAIN no THEN no[v - a] ELSE KrnlEntry(m, v)
      BY <1>2, SetKrnlEntry
    <2> QED BY <1>4, <2>2, <2>3, <2>4
  <1>6. ASSUME NEW f \in Frame, \A i \in 0..(KrnlTables - 1) : f # krnl_pgtbl(i)
        PROVE  SetKrnl(m, a, fr).page[f] = m.page[f] /\ SetKrnl(m, a, no).page[f] = m.page[f]
    BY <1>2, <1>6, SetKrnlElse
  <1> QED BY <1>3, <1>5, <1>6

\* Frame 0 is the image's: phys_alloc does not give it while there is room.
LEMMA NotFrameZero ==
    ASSUME NEW m, NEW D, NEW B, Owned(m, D, B), NEW count \in Nat \ {0}, phys_fits(m, count)
    PROVE  phys_fit(m, count) # 0
  <1> SUFFICES ASSUME phys_fit(m, count) = 0 PROVE FALSE
    OBVIOUS
  <1>1. Run(0, count) \cap m.used = {}
    BY PhysFit DEF Owned
  <1>2. 0 \in m.used
    BY InUse, KernelLies
  <1>3. 0 \in Run(0, count)
    <2>1. 0 \in 0..(count - 1) /\ (0 + 0) % Frames = 0
      BY Layout
    <2> QED BY <2>1 DEF Run
  <1> QED BY <1>1, <1>2, <1>3

\* liballoc_alloc, when there is room for it.
LEMMA AllocOwned ==
    ASSUME NEW m, NEW D, NEW B, Owned(m, D, B), NEW count \in Nat \ {0},
           phys_fits(m, count), virt_fit(m, count) # 0, phys_fit(m, count) # 0
    PROVE  Owned(mem_alloc(m, count), D, B \cup {<<virt_fit(m, count), count>>})
  <1> DEFINE p == phys_fit(m, count)
             a == phys_alloc(m, count)
             v == virt_fit(m, count)
             b == MapKrnl(a, v, p, count)
             n == Zero(b, v, count)
             W == v..(v + count - 1)
             Free == {w \in KrnlPage : KrnlEntry(m, w) = Absent}
             new == <<v, count>>
  <1>1. m \in State /\ count \in Nat
    BY DEF Owned
  <1>2. p \in Frame /\ p \in Int /\ Run(p, count) \cap m.used = {} /\ Run(p, count) \in SUBSET Frame
    <2>1. p \in Frame /\ Run(p, count) \cap m.used = {}
      BY <1>1, PhysFit
    <2>2. p \in Int
      BY <2>1, Layout DEF Frame
    <2> HIDE DEF p
    <2> QED BY <1>1, <2>1, <2>2, RunFrames
  <1>3. a \in State /\ a.used = m.used \cup Run(p, count) /\ a.page = m.page
    <2>1. a = phys_setused(m, Run(p, count))
      BY DEF phys_alloc
    <2> HIDE DEF a, p
    <2> QED BY <1>1, <1>2, <2>1, SetUsed
  <1>4. v \in Free /\ W \subseteq Free /\ v \in KrnlPage /\ v \in Int
    <2>1. Free \in SUBSET KrnlPage /\ v = FirstRow(count, Free) /\ FirstRow(count, Free) # 0
      BY DEF virt_fit
    <2>2. v \in Free /\ W \subseteq Free
      <3> HIDE DEF Free, v
      <3> QED BY <1>1, <2>1, RowFound
    <2>3. KrnlPage \subseteq Int
      BY Layout DEF KrnlPage
    <2> HIDE DEF v
    <2> QED BY <2>2, <2>3
  <1>5. mem_alloc(m, count) = n
    <2>1. \A w : KrnlEntry(a, w) = KrnlEntry(m, w)
      BY <1>3 DEF KrnlEntry
    <2>2. virt_fit(a, count) = v
      <3> HIDE DEF a
      <3> QED BY <2>1 DEF virt_fit
    <2>3. virt_alloc(a, p, count) = b
      <3> HIDE DEF a, p
      <3> QED BY <2>2 DEF virt_alloc
    <2> QED BY <2>3 DEF mem_alloc
  <1> HIDE DEF p, a, v
  <1>6. /\ b \in State /\ b.used = a.used
        /\ \A w \in KrnlPage : KrnlEntry(b, w) = IF w \in W THEN (p + (w - v)) % Frames ELSE KrnlEntry(a, w)
        /\ \A f \in Frame : (\A i \in 0..(KrnlTables - 1) : f # krnl_pgtbl(i)) => b.page[f] = a.page[f]
    BY <1>1, <1>2, <1>3, <1>4, MapKrnlIs, MapKrnlKept DEF Alike
  <1>7. \A w \in W : w \in KrnlPage /\ w \in Int /\ w - v \in 0..(count - 1) /\ KrnlEntry(b, w) \in Run(p, count)
    <2> SUFFICES ASSUME NEW w \in W PROVE w \in KrnlPage /\ w \in Int /\ w - v \in 0..(count - 1) /\ KrnlEntry(b, w) \in Run(p, count)
      OBVIOUS
    <2>1. w \in KrnlPage
      BY <1>4
    <2>2. w \in Int /\ w - v \in 0..(count - 1)
      BY <1>1, <1>4
    <2>3. KrnlEntry(b, w) = (p + (w - v)) % Frames
      BY <1>6, <2>1
    <2> QED BY <2>1, <2>2, <2>3 DEF Run
  <1>8. {KrnlEntry(b, w) : w \in W} = Run(p, count)
    <2>1. ASSUME NEW i \in 0..(count - 1) PROVE \E w \in W : KrnlEntry(b, w) = (p + i) % Frames
      <3>1. v + i \in W /\ (v + i) - v = i
        BY <1>1, <1>4
      <3>2. KrnlEntry(b, v + i) = (p + ((v + i) - v)) % Frames
        BY <1>6, <1>7, <3>1
      <3> QED BY <3>1, <3>2
    <2> QED BY <1>7, <2>1 DEF Run
  <1>9. /\ \A f \in Mapped \cup D : f \in m.used /\ f \in MappedIn(m) /\ f \in Frame
        /\ \A f \in D \cup {krnl_pgdir} : f \in Mapped \cup D /\ \A i \in 0..(KrnlTables - 1) : f # krnl_pgtbl(i)
    BY InUse
  <1>10. /\ n \in State /\ n.used = b.used
         /\ \A f \in Frame \cap m.used : n.page[f] = b.page[f]
         /\ \A w \in KrnlPage : KrnlEntry(n, w) = KrnlEntry(b, w)
    <2>1. Mapped \subseteq m.used /\ \A w \in W : KrnlEntry(b, w) \notin m.used
      BY <1>2, <1>7, <1>9
    <2>2. b \in State
      BY <1>6
    <2> DEFINE U == m.used
    <2>3. Mapped \subseteq U /\ \A w \in v..(v + count - 1) : KrnlEntry(b, w) \notin U
      BY <2>1
    <2> HIDE DEF b, U
    <2>4. /\ Zero(b, v, count) \in State /\ Zero(b, v, count).used = b.used
          /\ \A f \in Frame \cap U : Zero(b, v, count).page[f] = b.page[f]
          /\ \A w \in KrnlPage : KrnlEntry(Zero(b, v, count), w) = KrnlEntry(b, w)
      BY <2>2, <2>3, ZeroElse, Zenon
    <2> QED BY <2>4 DEF U
  <1> HIDE DEF n, b
  <1>11. \A x, y \in W : KrnlEntry(n, x) = KrnlEntry(n, y) => x = y
    <2> SUFFICES ASSUME NEW x \in W, NEW y \in W, KrnlEntry(n, x) = KrnlEntry(n, y) PROVE x = y
      OBVIOUS
    <2>1. x - v \in Nat /\ y - v \in Nat /\ x - v < Frames /\ y - v < Frames
      <3>1. x \in KrnlPage /\ y \in KrnlPage /\ v \in KrnlPage
        BY <1>4, <1>7
      <3>2. x - v \in 0..(count - 1) /\ y - v \in 0..(count - 1)
        BY <1>7
      <3> QED BY <3>1, <3>2, <1>1, Layout DEF KrnlPage
    <2>2. (p + (x - v)) % Frames = (p + (y - v)) % Frames
      BY <1>6, <1>7, <1>10
    <2>3. x - v = y - v
      BY <1>2, <2>1, <2>2, RunDistinct
    <2> QED BY <1>4, <1>7, <2>3
  <1>12. Adds(m, n, W)
    <2>1. \A u \in KrnlPage \ W : KrnlEntry(n, u) = KrnlEntry(m, u)
      BY <1>3, <1>6, <1>10 DEF KrnlEntry
    <2>2. \A w \in W : KrnlEntry(m, w) = Absent /\ KrnlEntry(n, w) \in Frame \ m.used
      BY <1>2, <1>4, <1>7, <1>10
    <2>3. n.used = m.used \cup {KrnlEntry(n, w) : w \in W}
      <3>1. {KrnlEntry(n, w) : w \in W} = {KrnlEntry(b, w) : w \in W}
        BY <1>7, <1>10
      <3> QED BY <1>3, <1>6, <1>8, <1>10, <3>1
    <2>4. W \subseteq KrnlPage
      BY <1>7
    <2> HIDE DEF W
    <2> QED BY <1>10, <1>11, <2>1, <2>2, <2>3, <2>4 DEF Adds
  <1>13. SameDirs(m, n, D)
    BY <1>3, <1>6, <1>9, <1>10 DEF SameDirs
  <1>14. Owned(n, D, B) /\ MappedIn(n) = MappedIn(m) \cup W /\ MappedIn(m) \cap W = {}
    <2> HIDE DEF W
    <2> QED BY <1>12, <1>13, AddsKept
  <1>15. PagesOf(new) = W /\ new[1] = v /\ new[2] = count
    BY DEF PagesOf
  <1>16. BlockIn(n, D, new)
    <2>1. W \subseteq MappedIn(n) \ (Mapped \cup D)
      BY <1>9, <1>14
    <2>2. v \in W /\ v - v = 0 /\ p + 0 = p
      BY <1>1, <1>2, <1>4
    <2>3. KrnlEntry(n, v) = p
      <3>1. KrnlEntry(n, v) = (p + (v - v)) % Frames
        BY <1>6, <1>7, <1>10, <2>2
      <3>2. p % Frames = p
        BY <1>2, Layout DEF Frame
      <3> QED BY <3>1, <3>2, <2>2
    <2>4. \A w \in W : KrnlEntry(n, w) = (p + (w - v)) % Frames
      BY <1>6, <1>7, <1>10
    <2> HIDE DEF new, W
    <2> QED BY <1>4, <1>15, <2>1, <2>3, <2>4 DEF BlockIn
  <1>17. \A c \in B : PagesOf(c) \cap W = {}
    BY <1>14 DEF Owned, BlockIn
  <1> HIDE DEF new, W
  <1>18. Owned(n, D, B \cup {new})
    <2>1. \A c \in B \cup {new} : BlockIn(n, D, c)
      BY <1>14, <1>16 DEF Owned
    <2>2. \A c, e \in B \cup {new} : c # e => PagesOf(c) \cap PagesOf(e) = {}
      BY <1>14, <1>15, <1>17 DEF Owned
    <2> QED BY <1>14, <2>1, <2>2 DEF Owned
  <1> QED BY <1>5, <1>18 DEF new, v


\* A directory with the kernel's tables translates a kernel page as they do.
LEMMA KernelTranslated ==
    ASSUME NEW m \in State, NEW dir \in Frame, NEW v \in KrnlPage,
           \A i \in 0..(KrnlTables - 1) : m.page[dir][i] = krnl_pgtbl(i)
    PROVE  /\ page_ispresent(m, dir, v) <=> KrnlEntry(m, v) # Absent
           /\ virt2phys(m, dir, v) = KrnlEntry(m, v)
           /\ m.page[dir][PD_INDEX(v)] = krnl_pgtbl(PD_INDEX(v))
           /\ m.page[dir][PD_INDEX(v)] # Absent
  <1>1. PD_INDEX(v) \in 0..(KrnlTables - 1)
    BY KrnlIndex
  <1>2. m.page[dir][PD_INDEX(v)] = krnl_pgtbl(PD_INDEX(v))
    BY <1>1
  <1>3. krnl_pgtbl(PD_INDEX(v)) # Absent
    BY <1>1 DEF krnl_pgtbl, Absent
  <1> QED BY <1>2, <1>3 DEF page_ispresent, virt2phys, KrnlEntry

\* mem_free of pages that are mapped to frames in a row gives those back.
LEMMA FreeRemoves ==
    ASSUME NEW m, NEW D, NEW B, Owned(m, D, B), NEW v \in KrnlPage, NEW count \in Nat \ {0},
           v..(v + count - 1) \subseteq MappedIn(m) \ Mapped,
           \A w \in v..(v + count - 1) : KrnlEntry(m, w) = (KrnlEntry(m, v) + (w - v)) % Frames
    PROVE  /\ Removes(m, mem_free(m, v, count), v..(v + count - 1))
           /\ SameDirs(m, mem_free(m, v, count), D)
  <1> DEFINE W == v..(v + count - 1)
             p == KrnlEntry(m, v)
             S == Run(p, count)
             a == phys_setfree(m, S)
             n == virt_unmap(a, v, count)
  <1>1. m \in State /\ count \in Nat /\ v \in Int /\ krnl_pgdir \in Frame
    BY Layout DEF Owned, KrnlPage, krnl_pgdir, Frame
  <1>2. \A i \in 0..(KrnlTables - 1) : m.page[krnl_pgdir][i] = krnl_pgtbl(i)
    BY DEF Owned
  <1>3. \A w \in W : w \in KrnlPage /\ KrnlEntry(m, w) # Absent /\ w - v \in 0..(count - 1)
    BY <1>1 DEF MappedIn
  <1>4. v \in W /\ p \in Int
    <2>1. v \in W
      BY <1>1
    <2>2. p \in Frame
      BY <1>1, <1>3, <2>1, EntryKind
    <2> QED BY <2>1, <2>2, Layout DEF Frame
  <1>5. mem_free(m, v, count) = n
    <2>1. \A i \in 0..(count - 1) : v + i \in W
      BY <1>1
    <2>2. virt_ispresent(m, krnl_pgdir, v, count)
      <3> HIDE DEF W
      <3> QED BY <1>1, <1>2, <1>3, <2>1, KernelTranslated DEF virt_ispresent
    <2>3. virt2phys(m, krnl_pgdir, v) = p
      BY <1>1, <1>2, KernelTranslated
    <2> QED BY <2>2, <2>3 DEF mem_free
  <1> HIDE DEF p
  <1>6. S \in SUBSET Frame
    BY <1>1, <1>4, RunFrames
  <1>7. S = {KrnlEntry(m, w) : w \in W}
    <2>1. \A w \in W : KrnlEntry(m, w) = (p + (w - v)) % Frames
      BY DEF p
    <2>2. ASSUME NEW i \in 0..(count - 1) PROVE \E w \in W : KrnlEntry(m, w) = (p + i) % Frames
      <3>1. v + i \in W /\ (v + i) - v = i
        BY <1>1
      <3> QED BY <2>1, <3>1
    <2>3. ASSUME NEW w \in W PROVE \E i \in 0..(count - 1) : KrnlEntry(m, w) = (p + i) % Frames
      BY <1>3, <2>1
    <2> QED BY <2>2, <2>3 DEF Run
  <1> HIDE DEF S
  <1>8. a \in State /\ a.used = m.used \ S /\ a.page = m.page
    BY <1>1, <1>6, SetFree
  <1> HIDE DEF a
  <1>9. /\ n \in State /\ n.used = a.used
        /\ \A w \in KrnlPage : KrnlEntry(n, w) = IF w \in W THEN Absent ELSE KrnlEntry(a, w)
        /\ \A f \in Frame : (\A i \in 0..(KrnlTables - 1) : f # krnl_pgtbl(i)) => n.page[f] = a.page[f]
    <2>1. 0 \in Int
      OBVIOUS
    <2>2. n \in State /\ n.used = a.used
      BY <1>1, <1>8, <2>1, MapKrnlKept DEF Alike
    <2>3. /\ \A w \in KrnlPage :
                /\ KrnlEntry(MapKrnl(a, v, 0, count), w) =
                     IF w \in v..(v + count - 1) THEN (0 + (w - v)) % Frames ELSE KrnlEntry(a, w)
                /\ KrnlEntry(virt_unmap(a, v, count), w) =
                     IF w \in v..(v + count - 1) THEN Absent ELSE KrnlEntry(a, w)
          /\ \A f \in Frame : (\A i \in 0..(KrnlTables - 1) : f # krnl_pgtbl(i))
                => /\ MapKrnl(a, v, 0, count).page[f] = a.page[f]
                   /\ virt_unmap(a, v, count).page[f] = a.page[f]
      BY <1>1, <1>8, <2>1, MapKrnlIs
    <2> QED BY <2>2, <2>3
  <1> HIDE DEF n
  <1>10. Removes(m, n, W)
    <2>1. \A u \in KrnlPage \ W : KrnlEntry(n, u) = KrnlEntry(m, u)
      BY <1>8, <1>9 DEF KrnlEntry
    <2>2. \A w \in W : KrnlEntry(n, w) = Absent
      BY <1>3, <1>9
    <2>3. W \subseteq MappedIn(m) \ Mapped
      OBVIOUS
    <2> HIDE DEF W
    <2> QED BY <1>7, <1>8, <1>9, <2>1, <2>2, <2>3 DEF Removes
  <1>11. SameDirs(m, n, D)
    BY <1>8, <1>9, InUse DEF SameDirs
  <1> QED BY <1>5, <1>10, <1>11

\* liballoc_free.
LEMMA FreeOwned ==
    ASSUME NEW m, NEW D, NEW B, Owned(m, D, B), NEW b \in B
    PROVE  Owned(mem_free(m, b[1], b[2]), D, B \ {b})
  <1> DEFINE n == mem_free(m, b[1], b[2])
             W == b[1]..(b[1] + b[2] - 1)
  <1>1. BlockIn(m, D, b) /\ PagesOf(b) = W
    BY DEF Owned, PagesOf
  <1>2. Removes(m, n, W) /\ SameDirs(m, n, D)
    <2>1. /\ b[1] \in KrnlPage /\ b[2] \in Nat \ {0} /\ W \subseteq MappedIn(m) \ Mapped
          /\ \A w \in W : KrnlEntry(m, w) = (KrnlEntry(m, b[1]) + (w - b[1])) % Frames
      BY <1>1 DEF BlockIn
    <2> QED BY <2>1, FreeRemoves
  <1>3. D \cap W = {}
    BY <1>1 DEF BlockIn
  <1>4. \A c \in B \ {b} : PagesOf(c) \cap W = {}
    BY <1>1 DEF Owned
  <1>5. D \in SUBSET D /\ B \ {b} \in SUBSET B
    OBVIOUS
  <1> HIDE DEF n, W
  <1>6. Owned(n, D, B \ {b})
    BY <1>2, <1>3, <1>4, <1>5, RemovesKept
  <1> QED BY <1>6 DEF n

\* mem_free_pgdir: a directory with no table of its own is one page to free.
LEMMA FreeDirOwned ==
    ASSUME NEW m, NEW D, NEW B, Owned(m, D, B), NEW dir \in D
    PROVE  /\ Owned(mem_free(m, dir, 1), D \ {dir}, B)
           /\ {i \in KrnlTables..(Entries - 1) : m.page[dir][i] # Absent} = {}
  <1> DEFINE n == mem_free(m, dir, 1)
             W == dir..(dir + 1 - 1)
  <1>1. dir \in KrnlPage \ Mapped /\ KrnlEntry(m, dir) = dir /\ m.page[dir] = NewEntries
    BY DEF Owned
  <1>2. dir \in MappedIn(m) /\ dir \in Frame /\ dir \in Int /\ 1 \in Nat \ {0}
    BY InUse, Layout DEF Frame
  <1>3. W = {dir} /\ dir - dir = 0 /\ dir + 0 = dir /\ dir % Frames = dir
    BY <1>2, Layout DEF Frame
  <1>4. W \subseteq MappedIn(m) \ Mapped
    BY <1>1, <1>2, <1>3
  <1>5. \A w \in W : KrnlEntry(m, w) = (KrnlEntry(m, dir) + (w - dir)) % Frames
    BY <1>1, <1>3
  <1>6. Removes(m, n, W) /\ SameDirs(m, n, D)
    BY <1>1, <1>2, <1>4, <1>5, FreeRemoves
  <1>7. \A b \in B : PagesOf(b) \cap W = {}
    BY <1>3 DEF Owned, BlockIn
  <1>8. D \ {dir} \in SUBSET D /\ B \in SUBSET B /\ (D \ {dir}) \cap W = {} /\ SameDirs(m, n, D \ {dir})
    BY <1>3, <1>6 DEF SameDirs
  <1>9. Owned(n, D \ {dir}, B)
    <2> HIDE DEF n, W
    <2> QED BY <1>6, <1>7, <1>8, RemovesKept
  <1>10. {i \in KrnlTables..(Entries - 1) : m.page[dir][i] # Absent} = {}
    BY <1>1, Layout DEF NewEntries, Index
  <1> QED BY <1>9, <1>10


\* mem_alloc_pgdir: the directory is a free frame that is mapped to itself.
LEMMA AllocDirOwned ==
    ASSUME NEW m, NEW D, NEW B, Owned(m, D, B), ident_fit(m) # 0
    PROVE  Owned([mem_allocident(m) EXCEPT !.page[ident_fit(m)] = NewEntries], D \cup {ident_fit(m)}, B)
  <1> DEFINE v == ident_fit(m)
             Free == {w \in KrnlPage \ m.used : KrnlEntry(m, w) = Absent}
             a == phys_setused(m, {v})
             b == MapKrnl(a, v, v, 1)
             c == Zero(b, v, 1)
             n == [c EXCEPT !.page[v] = NewEntries]
  <1>1. m \in State
    BY DEF Owned
  <1>2. v \in KrnlPage \ m.used /\ KrnlEntry(m, v) = Absent /\ v \in Int /\ v \in Frame
    <2>1. Free \in SUBSET KrnlPage /\ v = FirstRow(1, Free) /\ FirstRow(1, Free) # 0 /\ 1 \in Nat
      BY DEF ident_fit
    <2>2. v \in Free
      <3> HIDE DEF Free, v
      <3> QED BY <2>1, RowFound
    <2>3. KrnlPage \subseteq Int /\ KrnlPage \subseteq Frame
      BY Layout DEF KrnlPage
    <2> HIDE DEF v
    <2> QED BY <2>2, <2>3
  <1>3. mem_allocident(m) = c
    BY DEF mem_allocident
  <1> HIDE DEF v
  <1>4. a \in State /\ a.used = m.used \cup {v} /\ a.page = m.page
    BY <1>1, <1>2, SetUsed
  <1> HIDE DEF a
  <1>5. /\ b \in State /\ b.used = a.used
        /\ \A w \in KrnlPage : KrnlEntry(b, w) = IF w = v THEN v ELSE KrnlEntry(m, w)
        /\ \A f \in Frame : (\A i \in 0..(KrnlTables - 1) : f # krnl_pgtbl(i)) => b.page[f] = m.page[f]
    <2>1. 1 \in Nat /\ v..(v + 1 - 1) = {v} /\ v - v = 0 /\ v + 0 = v /\ v % Frames = v
      BY <1>2, Layout DEF Frame
    <2>2. b \in State /\ b.used = a.used
      <3>1. v \in Int /\ a \in State /\ 1 \in Nat
        BY <1>2, <1>4
      <3>2. Alike(a, b)
        BY <3>1, MapKrnlKept
      <3> HIDE DEF b
      <3> QED BY <3>2 DEF Alike
    <2>3. \A w \in KrnlPage : KrnlEntry(b, w) = IF w \in v..(v + 1 - 1) THEN (v + (w - v)) % Frames ELSE KrnlEntry(a, w)
      BY <1>2, <1>4, <2>1, MapKrnlIs
    <2>4. \A f \in Frame : (\A i \in 0..(KrnlTables - 1) : f # krnl_pgtbl(i)) => b.page[f] = a.page[f]
      BY <1>2, <1>4, <2>1, MapKrnlIs
    <2>5. \A w \in KrnlPage : KrnlEntry(a, w) = KrnlEntry(m, w)
      BY <1>4 DEF KrnlEntry
    <2> HIDE DEF b
    <2>6. \A w \in KrnlPage : KrnlEntry(b, w) = IF w = v THEN v ELSE KrnlEntry(m, w)
      BY <2>1, <2>3, <2>5
    <2> QED BY <1>4, <2>2, <2>4, <2>6
  <1> HIDE DEF b
  <1>6. /\ \A f \in Mapped \cup D : f \in m.used /\ f \in MappedIn(m) /\ f \in Frame
        /\ \A f \in D \cup {krnl_pgdir} : f \in Mapped \cup D /\ \A i \in 0..(KrnlTables - 1) : f # krnl_pgtbl(i)
    BY InUse
  <1>7. /\ c \in State /\ c.used = b.used
        /\ \A f \in Frame \cap m.used : c.page[f] = b.page[f]
        /\ \A w \in KrnlPage : KrnlEntry(c, w) = KrnlEntry(b, w)
    <2> DEFINE U == m.used
    <2>1. v..(v + 1 - 1) = {v}
      BY <1>2
    <2>2. Mapped \subseteq U /\ \A w \in v..(v + 1 - 1) : KrnlEntry(b, w) \notin U
      BY <1>2, <1>5, <1>6, <2>1
    <2>3. b \in State
      BY <1>5
    <2> HIDE DEF U
    <2>4. /\ Zero(b, v, 1) \in State /\ Zero(b, v, 1).used = b.used
          /\ \A f \in Frame \cap U : Zero(b, v, 1).page[f] = b.page[f]
          /\ \A w \in KrnlPage : KrnlEntry(Zero(b, v, 1), w) = KrnlEntry(b, w)
      <3> DEFINE k == 1
      <3>1. \A w \in v..(v + k - 1) : KrnlEntry(b, w) \notin U
        BY <2>2
      <3> HIDE DEF k
      <3>2. /\ Zero(b, v, k) \in State /\ Zero(b, v, k).used = b.used
            /\ \A f \in Frame \cap U : Zero(b, v, k).page[f] = b.page[f]
            /\ \A w \in KrnlPage : KrnlEntry(Zero(b, v, k), w) = KrnlEntry(b, w)
        BY <2>2, <2>3, <3>1, ZeroElse, Zenon
      <3> QED BY <3>2 DEF k
    <2> QED BY <2>4 DEF U
  <1> HIDE DEF c
  <1>8. /\ n \in State /\ n.used = c.used /\ n.page[v] = NewEntries
        /\ \A f \in Frame : f # v => n.page[f] = c.page[f]
    <2>1. n \in State /\ n.used = c.used
      BY <1>7, RowWritten DEF Alike
    <2> DEFINE g == [c.page EXCEPT ![v] = NewEntries]
    <2>2. n.page = g
      <3>1. n = [c EXCEPT !.page = g]
        OBVIOUS
      <3>2. [c EXCEPT !.page = g] = [used |-> c.used, used_mem |-> c.used_mem, page |-> g]
        <4>1. c \in State
          BY <1>7
        <4> HIDE DEF g
        <4> QED BY <4>1, Except, Zenon
      <3> HIDE DEF g, n
      <3> QED BY <3>1, <3>2
    <2>3. c.page \in [Frame -> [Index -> Entry]]
      BY <1>7, Fields
    <2> HIDE DEF n
    <2> QED BY <1>2, <2>1, <2>2, <2>3
  <1> HIDE DEF n
  <1>9. \A w \in KrnlPage : KrnlEntry(n, w) = IF w = v THEN v ELSE KrnlEntry(m, w)
    <2>1. \A w \in KrnlPage : krnl_pgtbl(PD_INDEX(w)) \in Frame /\ krnl_pgtbl(PD_INDEX(w)) \in m.used
      BY <1>6, KrnlIndex, KernelLies
    <2>2. \A w \in KrnlPage : KrnlEntry(n, w) = KrnlEntry(c, w)
      BY <1>2, <1>8, <2>1 DEF KrnlEntry
    <2> QED BY <1>5, <1>7, <2>2
  <1>10. Adds(m, n, {v})
    <2>1. {KrnlEntry(n, w) : w \in {v}} = {v}
      BY <1>2, <1>9
    <2>2. n.used = m.used \cup {KrnlEntry(n, w) : w \in {v}}
      BY <1>4, <1>5, <1>7, <1>8, <2>1
    <2> QED BY <1>2, <1>8, <1>9, <2>2 DEF Adds
  <1>11. SameDirs(m, n, D)
    <2> SUFFICES ASSUME NEW f \in D \cup {krnl_pgdir} PROVE n.page[f] = m.page[f]
      BY DEF SameDirs
    <2>1. f \in m.used /\ f \in Frame /\ f # v /\ \A i \in 0..(KrnlTables - 1) : f # krnl_pgtbl(i)
      BY <1>2, <1>6
    <2>2. n.page[f] = c.page[f]
      BY <1>8, <2>1
    <2>3. c.page[f] = b.page[f]
      BY <1>7, <2>1
    <2>4. b.page[f] = m.page[f]
      BY <1>5, <2>1
    <2> QED BY <2>2, <2>3, <2>4
  <1>12. Owned(n, D, B) /\ MappedIn(n) = MappedIn(m) \cup {v} /\ MappedIn(m) \cap {v} = {}
    BY <1>10, <1>11, AddsKept
  <1>13. v \notin Mapped /\ KrnlEntry(n, v) = v
    BY <1>2, <1>6, <1>9
  <1>14. ASSUME NEW e \in B PROVE BlockIn(n, D \cup {v}, e)
    <2>1. BlockIn(n, D, e) /\ BlockIn(m, D, e)
      BY <1>12 DEF Owned
    <2>2. v \notin PagesOf(e)
      BY <1>12, <2>1 DEF BlockIn
    <2> QED BY <2>1, <2>2 DEF BlockIn
  <1>15. Owned(n, D \cup {v}, B)
    <2>1. D \cup {v} \subseteq KrnlPage \ Mapped
      BY <1>2, <1>12, <1>13 DEF Owned
    <2>2. \A w \in Mapped \cup (D \cup {v}) : KrnlEntry(n, w) = w
      BY <1>12, <1>13 DEF Owned
    <2>3. \A d \in D \cup {v} : n.page[d] = NewEntries
      BY <1>8, <1>12 DEF Owned
    <2> QED BY <1>12, <1>14, <2>1, <2>2, <2>3 DEF Owned
  <1> QED BY <1>3, <1>15 DEF n, v

\* The frames below the end of memory that a call can still get.
FreeBelow(m) == (0..(Total - 1)) \ m.used

\* One round of mem_map on a kernel page maps it to a free frame, or not at all.
LEMMA MapPageOwned ==
    ASSUME NEW m, NEW D, NEW B, Owned(m, D, B), NEW dir \in D, NEW v \in KrnlPage,
           FreeBelow(m) # {}
    PROVE  /\ Owned(MapPage(m, dir, v), D, B)
           /\ \E p : FreeBelow(m) \ {p} \subseteq FreeBelow(MapPage(m, dir, v))
  <1>1. m \in State /\ 1 \in Nat
    BY DEF Owned
  <1>2. dir \in Frame /\ \A i \in 0..(KrnlTables - 1) : m.page[dir][i] = krnl_pgtbl(i)
    <2>1. dir \in Frame
      BY InUse
    <2>2. m.page[dir] = NewEntries
      BY DEF Owned
    <2>3. \A i \in 0..(KrnlTables - 1) : i \in Index /\ i < KrnlTables
      BY Layout DEF Index
    <2> QED BY <2>1, <2>2, <2>3 DEF NewEntries
  <1>3. CASE page_ispresent(m, dir, v)
    BY <1>3 DEF MapPage
  <1>4. CASE ~page_ispresent(m, dir, v)
    <2> DEFINE p == phys_fit(m, 1)
               a == phys_alloc(m, 1)
               t == krnl_pgtbl(PD_INDEX(v))
               j == PT_INDEX(v)
               n == [a EXCEPT !.page[t][j] = p]
    <2>1. KrnlEntry(m, v) = Absent
      BY <1>1, <1>2, <1>4, KernelTranslated
    <2>2. p \in Frame \ m.used /\ phys_fits(m, 1) /\ Run(p, 1) = {p}
      <3>1. \A x \in Frame : Run(x, 1) = {x}
        <4>1. 0..(1 - 1) = {0} /\ \A x \in Frame : x + 0 = x /\ x % Frames = x
          BY Layout DEF Frame
        <4> QED BY <4>1 DEF Run
      <3>2. PICK x \in 0..(Total - 1) : x \notin m.used
        BY DEF FreeBelow
      <3>3. phys_fits(m, 1)
        <4>1. x \in Frame
          BY Layout DEF Frame
        <4> QED BY <3>1, <3>2, <4>1 DEF phys_fits
      <3>4. p \in Frame /\ Run(p, 1) \cap m.used = {}
        BY <1>1, <3>3, PhysFit
      <3> HIDE DEF p
      <3> QED BY <3>1, <3>3, <3>4
    <2>3. a \in State /\ a.used = m.used \cup {p} /\ a.page = m.page
      <3>1. a = phys_setused(m, {p})
        BY <2>2 DEF phys_alloc
      <3>2. {p} \in SUBSET Frame
        BY <2>2
      <3> HIDE DEF a, p
      <3> QED BY <1>1, <3>1, <3>2, SetUsed
    <2>4. t \in Frame /\ j \in Index /\ a.page[dir][PD_INDEX(v)] = t /\ t # Absent
      BY <1>1, <1>2, <2>3, KrnlIndex, KernelTranslated
    <2>5. MapPage(m, dir, v) = n
      <3>1. MapPage(m, dir, v) = virt_map(a, dir, v, p)
        BY <1>4 DEF MapPage
      <3> HIDE DEF a, p, t
      <3>2. virt_map(a, dir, v, p) = [a EXCEPT !.page[t][PT_INDEX(v)] = p]
        BY <2>4 DEF virt_map
      <3> QED BY <3>1, <3>2
    <2> HIDE DEF a, p
    <2>6. /\ n \in State /\ n.used = a.used
          /\ \A f \in Frame, i \in Index : n.page[f][i] = IF f = t /\ i = j THEN p ELSE a.page[f][i]
          /\ \A f \in Frame : f # t => n.page[f] = a.page[f]
      <3> HIDE DEF t, j
      <3>1. n \in State /\ n.used = a.used
        <4>1. a \in State /\ p \in Entry
          BY <2>2, <2>3 DEF Entry
        <4>2. Alike(a, n)
          BY <4>1, EntryWritten
        <4> HIDE DEF n
        <4> QED BY <4>2 DEF Alike
      <3> DEFINE row == [a.page[t] EXCEPT ![j] = p]
                 g == [a.page EXCEPT ![t] = row]
      <3>2. n.page = g
        <4>1. n = [a EXCEPT !.page = g]
          OBVIOUS
        <4>2. [a EXCEPT !.page = g] = [used |-> a.used, used_mem |-> a.used_mem, page |-> g]
          <5>1. a \in State
            BY <2>3
          <5> HIDE DEF g
          <5> QED BY <5>1, Except, Zenon
        <4> HIDE DEF g, n
        <4> QED BY <4>1, <4>2
      <3>3. a.page \in [Frame -> [Index -> Entry]]
        BY <2>3, Fields
      <3>4. \A i \in Index : row[i] = IF i = j THEN p ELSE a.page[t][i]
        BY <2>4, <3>3
      <3> HIDE DEF n, row
      <3>5. g[t] = row /\ \A f \in Frame : f # t => g[f] = a.page[f]
        BY <2>4, <3>3
      <3> HIDE DEF g
      <3> QED BY <3>1, <3>2, <3>4, <3>5
    <2> HIDE DEF n
    <2>7. \A w \in KrnlPage : KrnlEntry(n, w) = IF w = v THEN p ELSE KrnlEntry(m, w)
      <3> SUFFICES ASSUME NEW w \in KrnlPage PROVE KrnlEntry(n, w) = IF w = v THEN p ELSE KrnlEntry(m, w)
        OBVIOUS
      <3>1. /\ PD_INDEX(w) \in 0..(KrnlTables - 1) /\ PT_INDEX(w) \in Index /\ krnl_pgtbl(PD_INDEX(w)) \in Frame
            /\ PD_INDEX(w) * Entries + PT_INDEX(w) = w
            /\ PD_INDEX(v) \in 0..(KrnlTables - 1) /\ PD_INDEX(v) * Entries + PT_INDEX(v) = v
        BY KrnlIndex
      <3>2. (krnl_pgtbl(PD_INDEX(w)) = t /\ PT_INDEX(w) = j) <=> w = v
        <4>1. krnl_pgtbl(PD_INDEX(w)) = t <=> PD_INDEX(w) = PD_INDEX(v)
          BY <3>1 DEF krnl_pgtbl
        <4> QED BY <3>1, <4>1
      <3> HIDE DEF t, j
      <3> QED BY <2>3, <2>6, <3>1, <3>2 DEF KrnlEntry
    <2>8. Adds(m, n, {v})
      <3>1. {KrnlEntry(n, w) : w \in {v}} = {p}
        BY <2>7
      <3>2. n.used = m.used \cup {KrnlEntry(n, w) : w \in {v}}
        BY <2>3, <2>6, <3>1
      <3>3. /\ \A w \in KrnlPage \ {v} : KrnlEntry(n, w) = KrnlEntry(m, w)
            /\ \A w \in {v} : KrnlEntry(m, w) = Absent /\ KrnlEntry(n, w) \in Frame \ m.used
        BY <2>1, <2>2, <2>7
      <3> QED BY <2>6, <3>2, <3>3 DEF Adds
    <2>9. SameDirs(m, n, D)
      <3>1. \A f \in D \cup {krnl_pgdir} : f \in Frame /\ f # t
        BY InUse, KrnlIndex
      <3> HIDE DEF t
      <3> QED BY <2>3, <2>6, <3>1 DEF SameDirs
    <2>10. Owned(n, D, B)
      BY <2>8, <2>9, AddsKept
    <2>11. FreeBelow(m) \ {p} \subseteq FreeBelow(n)
      BY <2>3, <2>6 DEF FreeBelow
    <2> QED BY <2>5, <2>10, <2>11
  <1> QED BY <1>3, <1>4


\* mem_map on kernel pages, when there are frames for them: every round takes one
\* at most.
LEMMA MapOwned ==
    ASSUME NEW m, NEW D, NEW B, Owned(m, D, B), NEW dir \in D, NEW v \in Nat, NEW count \in Nat \ {0},
           v + count - 1 \in KrnlPage, count <= Cardinality(FreeBelow(m)),
           NEW done, Rounds(m, dir, v, count, done)
    PROVE  Owned(done[count], D, B)
  <1> DEFINE Left(i) == Cardinality(FreeBelow(done[i]))
             T == {i \in 0..count : Owned(done[i], D, B) /\ Left(i) >= count - i}
  <1>1. count \in Nat /\ done[0] = m
    BY DEF Rounds
  <1>2. \A n : IsFiniteSet(FreeBelow(n)) /\ Cardinality(FreeBelow(n)) \in Nat
    <2>1. \A n : FreeBelow(n) \subseteq 0..(Total - 1)
      BY DEF FreeBelow
    <2>2. IsFiniteSet(0..(Total - 1))
      BY Layout, FS_Interval
    <2> QED BY <2>1, <2>2, FS_Subset, FS_CardinalityType
  <1>3. 0 \in T
    BY <1>1, <1>2
  <1>4. ASSUME NEW i \in 0..(count - 1), i \in T PROVE i + 1 \in T
    <2> DEFINE x == done[i]
               y == done[i + 1]
    <2>1. Owned(x, D, B) /\ Cardinality(FreeBelow(x)) >= count - i
      BY <1>4
    <2>2. y = MapPage(x, dir, v + i)
      <3>1. i + 1 \in 1..count /\ (i + 1) - 1 = i /\ v + (i + 1) - 1 = v + i
        OBVIOUS
      <3> QED BY <3>1 DEF Rounds
    <2>3. v + i \in KrnlPage
      BY Layout DEF KrnlPage
    <2> HIDE DEF x, y
    <2>4. FreeBelow(x) # {}
      <3>1. Cardinality(FreeBelow(x)) # 0
        BY <1>1, <1>2, <2>1
      <3> QED BY <3>1, FS_EmptySet
    <2>5. Owned(y, D, B) /\ \E p : FreeBelow(x) \ {p} \subseteq FreeBelow(y)
      BY <2>1, <2>2, <2>3, <2>4, MapPageOwned
    <2>6. PICK p : FreeBelow(x) \ {p} \subseteq FreeBelow(y)
      BY <2>5
    <2>7. Cardinality(FreeBelow(x) \ {p}) >= Cardinality(FreeBelow(x)) - 1
      <3>1. CASE p \in FreeBelow(x)
        <4>1. Cardinality(FreeBelow(x) \ {p}) = Cardinality(FreeBelow(x)) - 1
          BY <1>2, <3>1, FS_RemoveElement
        <4> QED BY <1>2, <4>1
      <3>2. CASE p \notin FreeBelow(x)
        <4>1. FreeBelow(x) \ {p} = FreeBelow(x)
          BY <3>2
        <4>2. Cardinality(FreeBelow(x) \ {p}) = Cardinality(FreeBelow(x))
          BY <4>1
        <4> QED BY <1>2, <4>2
      <3> QED BY <3>1, <3>2
    <2>8. Cardinality(FreeBelow(x) \ {p}) <= Cardinality(FreeBelow(y))
          /\ Cardinality(FreeBelow(x) \ {p}) \in Nat
      BY <1>2, <2>6, FS_Subset, FS_CardinalityType
    <2>9. Cardinality(FreeBelow(y)) >= count - (i + 1)
      <3> DEFINE cx == Cardinality(FreeBelow(x))
                 cp == Cardinality(FreeBelow(x) \ {p})
                 cy == Cardinality(FreeBelow(y))
      <3>1. cx \in Nat /\ cp \in Nat /\ cy \in Nat /\ cx >= count - i /\ cp >= cx - 1 /\ cp <= cy
        BY <1>2, <2>1, <2>7, <2>8
      <3> HIDE DEF cx, cp, cy
      <3>2. cy >= count - (i + 1)
        BY <1>1, <3>1
      <3> QED BY <3>2 DEF cy
    <2>10. i + 1 \in 0..count
      OBVIOUS
    <2> QED BY <2>5, <2>9, <2>10 DEF y
  <1>5. \A i \in 0..count : i \in T
    <2> HIDE DEF T
    <2> QED BY <1>1, <1>3, <1>4, SetInduction
  <1> QED BY <1>1, <1>5
-----------------------------------------------------------------------------
(* The steps, as long as calls are served *)

OwnedInv == IInv /\ (served => Owned(Memory, dirs, blocks))

\* What a call leaves is the memory state.
LEMMA BecomesIs ==
    ASSUME NEW n \in State, Becomes(n)
    PROVE  Memory' = n
  <1>1. n = [used |-> n.used, used_mem |-> n.used_mem, page |-> n.page]
    BY DEF State
  <1> QED BY <1>1 DEF Becomes, Memory

\* At boot the image is mapped to itself and nothing else is mapped.
LEMMA OwnedInit == ServedInit => OwnedInv
  <1> SUFFICES ASSUME ServedInit PROVE OwnedInv
    OBVIOUS
  <1>1. IInv /\ Memory \in State
    BY InvInit DEF ServedInit, IInv
  <1> DEFINE e(f, i) ==
               LET w == (f - krnl_pgtbl(0)) * Entries + i
               IN  CASE f = krnl_pgdir /\ i < KrnlTables -> krnl_pgtbl(i)
                     [] f \in krnl_pgtbl(0)..krnl_pgtbl(KrnlTables - 1) /\ w \in Mapped -> w
                     [] OTHER -> Absent
  <1>2. page = [f \in Frame |-> [i \in Index |-> e(f, i)]]
    BY DEF ServedInit, Init
  <1>3. \A f \in Frame, i \in Index : page[f][i] = e(f, i)
    <2> HIDE DEF e
    <2> QED BY <1>2
  <1>4. ASSUME NEW v \in KrnlPage
        PROVE  KrnlEntry(Memory, v) = IF v \in Mapped THEN v ELSE Absent
    <2> DEFINE f == krnl_pgtbl(PD_INDEX(v))
               i == PT_INDEX(v)
               w == (f - krnl_pgtbl(0)) * Entries + i
    <2>1. /\ PD_INDEX(v) \in 0..(KrnlTables - 1) /\ i \in Index /\ f \in Frame
          /\ PD_INDEX(v) * Entries + i = v
      BY KrnlIndex
    <2>2. f - krnl_pgtbl(0) = PD_INDEX(v)
      BY <2>1 DEF krnl_pgtbl
    <2>3. w = v
      BY <2>1, <2>2
    <2>4. f \in krnl_pgtbl(0)..krnl_pgtbl(KrnlTables - 1) /\ f # krnl_pgdir
      BY <2>1, Layout DEF krnl_pgtbl, krnl_pgdir
    <2>5. page[f][i] = e(f, i)
      <3> HIDE DEF f, i, e
      <3> QED BY <1>3, <2>1
    <2>6. e(f, i) = IF v \in Mapped THEN v ELSE Absent
      BY <2>3, <2>4
    <2> QED BY <2>5, <2>6 DEF KrnlEntry, Memory
  <1>5. MappedIn(Memory) = Mapped /\ \A v \in Mapped : KrnlEntry(Memory, v) = v
    <2>1. \A v \in KrnlPage : v # Absent
      BY DEF KrnlPage, Absent
    <2> QED BY <1>4, <2>1, KernelLies DEF MappedIn
  <1>6. Memory.used = Reserved \cup {KrnlEntry(Memory, v) : v \in MappedIn(Memory)}
    <2>1. {KrnlEntry(Memory, v) : v \in MappedIn(Memory)} = Mapped
      BY <1>5
    <2> QED BY <2>1 DEF ServedInit, Init, Memory
  <1>7. \A i \in 0..(KrnlTables - 1) : Memory.page[krnl_pgdir][i] = krnl_pgtbl(i)
    <2> SUFFICES ASSUME NEW i \in 0..(KrnlTables - 1) PROVE page[krnl_pgdir][i] = krnl_pgtbl(i)
      BY DEF Memory
    <2>1. i \in Index /\ i < KrnlTables /\ krnl_pgdir \in Frame
      BY Layout, KernelLies DEF Index
    <2>2. krnl_pgdir \notin krnl_pgtbl(0)..krnl_pgtbl(KrnlTables - 1)
      BY Layout DEF krnl_pgdir, krnl_pgtbl
    <2>3. e(krnl_pgdir, i) = krnl_pgtbl(i)
      BY <2>1, <2>2
    <2> HIDE DEF e
    <2> QED BY <1>3, <2>1, <2>3
  <1>8. dirs = {} /\ blocks = {}
    BY DEF ServedInit, Init
  <1>9. Owned(Memory, {}, {})
    BY <1>1, <1>5, <1>6, <1>7 DEF Owned
  <1> QED BY <1>1, <1>8, <1>9 DEF OwnedInv

\* Every step keeps frames with their owners, or is the first that is not served.
LEMMA OwnedNext == OwnedInv /\ [ServedNext]_<<vars, served>> => OwnedInv'
  <1> SUFFICES ASSUME OwnedInv, [ServedNext]_<<vars, served>> PROVE OwnedInv'
    OBVIOUS
  <1>1. IInv /\ IInv' /\ Memory \in State
    <2>1. [Next]_vars
      BY DEF ServedNext, Next
    <2> QED BY <2>1, InvNext DEF OwnedInv, IInv
  <1> SUFFICES ASSUME served' PROVE Owned(Memory, dirs, blocks)'
    BY <1>1 DEF OwnedInv
  <1> SUFFICES \E D, B, m : Owned(m, D, B) /\ Becomes(m) /\ dirs' = D /\ blocks' = B
    <2>1. ASSUME NEW D, NEW B, NEW m, Owned(m, D, B), Becomes(m), dirs' = D, blocks' = B
          PROVE  Owned(Memory, dirs, blocks)'
      <3>1. Memory' = m
        BY <2>1, BecomesIs DEF Owned
      <3>2. Owned(Memory', dirs', blocks')
        BY <2>1, <3>1
      <3> QED BY <3>2 DEF Owned, BlockIn, MappedIn, KrnlEntry, PagesOf
    <2> QED BY <2>1
  <1>2. ASSUME NEW pages \in 1..MaxPages, liballoc_alloc(pages),
               served' = (served /\ Roomy(pages * PageSize))
        PROVE  \E D, B, m : Owned(m, D, B) /\ Becomes(m) /\ dirs' = D /\ blocks' = B
    <2> DEFINE count == pages * PageSize
               v == virt_fit(Memory, count)
    <2>1. count \in Nat \ {0}
      BY Layout
    <2>2. phys_fits(Memory, count) /\ v # 0 /\ Owned(Memory, dirs, blocks)
      BY <1>2 DEF Roomy, OwnedInv
    <2>3. phys_fit(Memory, count) # 0
      <3> HIDE DEF count
      <3> QED BY <2>1, <2>2, NotFrameZero
    <2>4. Becomes(mem_alloc(Memory, count)) /\ dirs' = dirs
          /\ blocks' = IF v = 0 THEN blocks ELSE blocks \cup {<<v, count>>}
      BY <1>2, <2>3 DEF liballoc_alloc, mem_alloc_page
    <2> HIDE DEF count
    <2>5. Owned(mem_alloc(Memory, count), dirs, blocks \cup {<<v, count>>})
      BY <2>1, <2>2, <2>3, AllocOwned
    <2> QED BY <2>2, <2>4, <2>5
  <1>3. ASSUME NEW b \in blocks, liballoc_free(b), UNCHANGED served
        PROVE  \E D, B, m : Owned(m, D, B) /\ Becomes(m) /\ dirs' = D /\ blocks' = B
    <2>1. Becomes(mem_free(Memory, b[1], b[2])) /\ dirs' = dirs /\ blocks' = blocks \ {b}
      BY <1>3 DEF liballoc_free
    <2>2. Owned(Memory, dirs, blocks)
      BY <1>3 DEF OwnedInv
    <2>3. Owned(mem_free(Memory, b[1], b[2]), dirs, blocks \ {b})
      BY <2>2, FreeOwned
    <2> QED BY <2>1, <2>3
  <1>4. ASSUME mem_alloc_pgdir, UNCHANGED served
        PROVE  \E D, B, m : Owned(m, D, B) /\ Becomes(m) /\ dirs' = D /\ blocks' = B
    <2> DEFINE dir == ident_fit(Memory)
               n == [mem_allocident(Memory) EXCEPT !.page[dir] = NewEntries]
    <2>1. Becomes(n) /\ dirs' = dirs \cup {dir} /\ blocks' = blocks /\ dir # 0
      BY <1>4 DEF mem_alloc_pgdir
    <2>2. Owned(Memory, dirs, blocks)
      BY <1>4 DEF OwnedInv
    <2>3. Owned(n, dirs \cup {dir}, blocks)
      BY <2>1, <2>2, AllocDirOwned
    <2> HIDE DEF n, dir
    <2> QED BY <2>1, <2>3
  <1>5. ASSUME NEW dir \in dirs, mem_free_pgdir(dir), UNCHANGED served
        PROVE  \E D, B, m : Owned(m, D, B) /\ Becomes(m) /\ dirs' = D /\ blocks' = B
    <2> DEFINE S == {i \in KrnlTables..(Entries - 1) : page[dir][i] # Absent}
               pdi == First(S, Absent)
               pt == page[dir][pdi]
               freed == IF page[pt][0] = Absent THEN Memory ELSE phys_setfree(Memory, {page[pt][0]})
               m == IF pdi = Absent THEN Memory ELSE mem_free(freed, pt, 1)
    <2>1. Becomes(mem_free(m, dir, 1)) /\ dirs' = dirs \ {dir} /\ blocks' = blocks
      BY <1>5 DEF mem_free_pgdir
    <2>2. Owned(Memory, dirs, blocks)
      BY <1>5 DEF OwnedInv
    <2>3. S = {} /\ Owned(mem_free(Memory, dir, 1), dirs \ {dir}, blocks)
      BY <2>2, FreeDirOwned DEF Memory
    <2>4. pdi = Absent
      BY <2>3 DEF First
    <2>5. m = Memory
      <3> HIDE DEF pdi, freed
      <3> QED BY <2>4
    <2> HIDE DEF m
    <2> QED BY <2>1, <2>3, <2>5
  <1>6. ASSUME NEW dir \in dirs, NEW v \in UserPage, NEW count \in 1..MaxPages, mem_map(dir, v, count),
               served' = (served /\ v + count - 1 \in KrnlPage
                                 /\ count <= Cardinality((0..(Total - 1)) \ used))
        PROVE  \E D, B, m : Owned(m, D, B) /\ Becomes(m) /\ dirs' = D /\ blocks' = B
    <2>1. dir \in Frame /\ count \in Nat \ {0} /\ v \in Nat
      BY <1>1, Layout DEF IInv, Page
    <2>2. PICK done : /\ Rounds(Memory, dir, v, count, done) /\ Becomes(done[count])
                      /\ UNCHANGED <<dirs, blocks>>
      <3>1. count \in Nat
        BY <2>1
      <3> QED BY <1>1, <1>6, <2>1, <3>1, MapLoop
    <2>3. Owned(Memory, dirs, blocks) /\ v + count - 1 \in KrnlPage /\ count <= Cardinality(FreeBelow(Memory))
      BY <1>6 DEF OwnedInv, FreeBelow, Memory
    <2>4. Owned(done[count], dirs, blocks)
      BY <2>1, <2>2, <2>3, MapOwned
    <2> QED BY <2>2, <2>4
  <1>7. ASSUME UNCHANGED <<vars, served>>
        PROVE  \E D, B, m : Owned(m, D, B) /\ Becomes(m) /\ dirs' = D /\ blocks' = B
    <2>1. Owned(Memory, dirs, blocks) /\ Becomes(Memory) /\ dirs' = dirs /\ blocks' = blocks
      BY <1>7 DEF OwnedInv, vars, Becomes, Memory
    <2> QED BY <2>1
  <1> QED BY <1>2, <1>3, <1>4, <1>5, <1>6, <1>7 DEF ServedNext

\* The invariant of the memory manager with its history.
THEOREM OwnedInvariant == ServedSpec => []OwnedInv
  <1> QED BY OwnedInit, OwnedNext, PTL DEF ServedSpec

(***************************************************************************)
(* The bitmap and the kernel tables agree as long as calls are served, for *)
(* any layout and any order of allocations and frees: no frame belongs to  *)
(* two of the heap, the directories and the segments, none is lost, and    *)
(* phys_setfree frees what phys_setused set.                               *)
(***************************************************************************)
THEOREM FramesStayOwned == ServedSpec => []FramesOwned
  <1>1. OwnedInv => FramesOwned
    BY DEF OwnedInv, Owned, FramesOwned, KrnlMapped, MappedIn, Memory
  <1> QED BY <1>1, OwnedInvariant, PTL

(***************************************************************************)
(* Every directory maps the kernel as krnl_pgdir does: what is mapped into *)
(* the kernel after a directory was made is seen through it too, since it  *)
(* shares the tables, and no frame that is cleared or reused is one of the *)
(* tables or another directory.                                            *)
(***************************************************************************)
THEOREM KernelStaysShared == ServedSpec => []KernelShared
  <1>1. OwnedInv => KernelShared
    <2> SUFFICES ASSUME OwnedInv, served, NEW dir \in dirs, NEW v \in KrnlPage
                 PROVE  /\ page_ispresent(Memory, dir, v) <=> page_ispresent(Memory, krnl_pgdir, v)
                        /\ page_ispresent(Memory, dir, v)
                              => virt2phys(Memory, dir, v) = virt2phys(Memory, krnl_pgdir, v)
      BY DEF KernelShared
    <2>1. Owned(Memory, dirs, blocks) /\ Memory \in State
      BY DEF OwnedInv, Owned
    <2>2. dir \in Frame /\ krnl_pgdir \in Frame
      BY <2>1, InUse, KernelLies
    <2>3. \A i \in 0..(KrnlTables - 1) : Memory.page[krnl_pgdir][i] = krnl_pgtbl(i)
      BY <2>1 DEF Owned
    <2>4. \A i \in 0..(KrnlTables - 1) : Memory.page[dir][i] = krnl_pgtbl(i)
      <3>1. Memory.page[dir] = NewEntries
        BY <2>1 DEF Owned
      <3>2. \A i \in 0..(KrnlTables - 1) : i \in Index /\ i < KrnlTables
        BY Layout DEF Index
      <3> QED BY <3>1, <3>2 DEF NewEntries
    <2> QED BY <2>1, <2>2, <2>3, <2>4, KernelTranslated
  <1> QED BY <1>1, OwnedInvariant, PTL

=============================================================================

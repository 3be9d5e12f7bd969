----------------------------- MODULE BusProofs -----------------------------
(***************************************************************************)
(* Proofs about the buses and the scan of the PCI configuration space, for *)
(* any machine, any number of buses and any drivers: what is promised of   *)
(* the device API holds in the composed system, entries keep different     *)
(* names, and a scan that comes to an end has found what there is.         *)
(***************************************************************************)
EXTENDS Pci, DevProofs

BusName == {PciBus} \cup UNION {p.buses : p \in Plan}
EntryName == {pci_name(a) : a \in Addr} \cup UNION {p.entries : p \in Plan}
Res == [type : {"io", "mem", "junk"}, value : Int \X Int, size : Int \X Int]
Entry == [name : EntryName, dname : Name \cup {NoName}, addr : Addr \cup {<<>>},
          int : Int, res : Seq(Res)]
BusT == [name : BusName, dev_list : Seq(Entry), dev_count : Int, clean : BOOLEAN]
Frame == [bus : Below(256), pos : Int]

BusTyped ==
    /\ buses \in Seq(BusT) /\ buses_count \in Int
    /\ stale \subseteq Name /\ lost \in BOOLEAN
ScanTyped ==
    /\ plan \in Plan /\ machine \in plan.machines
    /\ scan \in [st : {"idle", "scanning", "done", "failed", "overflow"},
                 todo : SUBSET Below(256), stack : Seq(Frame)]
    /\ Len(scan.stack) <= MaxDepth
    /\ scans \in Nat /\ hasisa \in BOOLEAN
    /\ plan.machines = {<<>>} => scan.st = "idle"

\* No two entries of a list have one name.
NamesDiffer(l) == \A i, j \in 1..Len(l) : l[i].name = l[j].name => i = j
Numbered ==
    /\ buses_count = Len(buses)
    /\ \A k \in 1..Len(buses) :
          buses[k].dev_count = Len(buses[k].dev_list) /\ NamesDiffer(buses[k].dev_list)
-----------------------------------------------------------------------------
\* A set of positions has a least one, and Min is it.
LEMMA MinIs ==
    ASSUME NEW S, S \subseteq Nat, S # {}
    PROVE  Min(S) \in S /\ \A y \in S : Min(S) <= y
  <1>1. \E x \in S : \A y \in S : x <= y
    BY LeastOf
  <1> QED BY <1>1 DEF Min

\* The bus bus_fromname finds is the newest of its name.
LEMMA TheBusIs ==
    ASSUME NEW n, bus_fromname(n) # {}, Len(buses) \in Nat
    PROVE  /\ TheBus(n) \in 1..Len(buses) /\ buses[TheBus(n)].name = n
           /\ \A k \in 1..Len(buses) : buses[k].name = n => TheBus(n) <= k
  <1>1. bus_fromname(n) \subseteq Nat
    BY DEF bus_fromname
  <1>2. TheBus(n) \in bus_fromname(n) /\ \A y \in bus_fromname(n) : TheBus(n) <= y
    BY <1>1, MinIs DEF TheBus
  <1> QED BY <1>2 DEF bus_fromname

\* What the list of buses holds.
LEMMA BusOf ==
    ASSUME BusTyped, NEW k \in 1..Len(buses)
    PROVE  /\ buses[k] \in BusT /\ buses[k].name \in BusName
           /\ buses[k].dev_list \in Seq(Entry) /\ Len(buses[k].dev_list) \in Nat
           /\ buses[k].dev_count \in Int /\ buses[k].clean \in BOOLEAN
  <1>1. buses \in Seq(BusT)
    BY DEF BusTyped
  <1>2. buses[k] \in BusT
    BY <1>1
  <1>3. \A b \in BusT : b.name \in BusName /\ b.dev_list \in Seq(Entry) /\ b.dev_count \in Int
                         /\ b.clean \in BOOLEAN
    BY DEF BusT
  <1>4. buses[k].dev_list \in Seq(Entry)
    BY <1>2, <1>3
  <1>5. Len(buses[k].dev_list) \in Nat
    BY <1>4
  <1> QED BY <1>2, <1>3, <1>4, <1>5

\* RemoveAt, position by position.
LEMMA RemoveAtIs ==
    ASSUME NEW S, NEW s \in Seq(S), NEW k \in 1..Len(s)
    PROVE  /\ RemoveAt(s, k) \in Seq(S) /\ Len(RemoveAt(s, k)) = Len(s) - 1
           /\ \A i \in 1..(Len(s) - 1) : RemoveAt(s, k)[i] = IF i < k THEN s[i] ELSE s[i + 1]
  <1> DEFINE u == SubSeq(s, 1, k - 1)
             v == SubSeq(s, k + 1, Len(s))
             n == Len(s)
  <1>1. n \in Nat /\ k \in Nat /\ 1 <= k /\ k <= n /\ RemoveAt(s, k) = u \o v
    BY DEF RemoveAt
  <1>2. u \in Seq(S) /\ Len(u) = k - 1 /\ \A i \in 1..(k - 1) : u[i] = s[i]
    OBVIOUS
  <1>3. v \in Seq(S) /\ Len(v) = n - k /\ \A i \in 1..(n - k) : v[i] = s[k + i]
    OBVIOUS
  <1> HIDE DEF u, v
  <1>4. /\ u \o v \in Seq(S) /\ Len(u \o v) = Len(u) + Len(v)
        /\ \A i \in 1..(Len(u) + Len(v)) :
              (u \o v)[i] = IF i <= Len(u) THEN u[i] ELSE v[i - Len(u)]
    <2>0. u \in Seq(S) /\ v \in Seq(S)
      BY <1>2, <1>3
    <2>1. u \o v \in Seq(S) /\ Len(u \o v) = Len(u) + Len(v)
      BY <2>0
    <2>2. ASSUME NEW i \in 1..(Len(u) + Len(v))
          PROVE  (u \o v)[i] = IF i <= Len(u) THEN u[i] ELSE v[i - Len(u)]
      BY <2>0
    <2> QED BY <2>1, <2>2
  <1> HIDE DEF n
  <1>5. Len(u \o v) = n - 1 /\ Len(u) + Len(v) = n - 1
    BY <1>1, <1>2, <1>3, <1>4
  <1>6. ASSUME NEW i \in 1..(n - 1)
        PROVE  (u \o v)[i] = IF i < k THEN s[i] ELSE s[i + 1]
    <2>1. CASE i < k
      <3>1. i \in 1..(k - 1) /\ i <= Len(u) /\ i \in 1..(Len(u) + Len(v))
        BY <2>1, <1>1, <1>2, <1>5
      <3> QED BY <2>1, <3>1, <1>2, <1>4
    <2>2. CASE ~(i < k)
      <3>1. /\ i - (k - 1) \in 1..(n - k) /\ k + (i - (k - 1)) = i + 1
            /\ ~(i <= Len(u)) /\ i \in 1..(Len(u) + Len(v)) /\ i - Len(u) = i - (k - 1)
        BY <2>2, <1>1, <1>2, <1>5
      <3>2. (u \o v)[i] = v[i - (k - 1)]
        BY <3>1, <1>4
      <3>3. v[i - (k - 1)] = s[k + (i - (k - 1))]
        BY <3>1, <1>3
      <3> QED BY <2>2, <3>1, <3>2, <3>3
    <2> QED BY <2>1, <2>2
  <1> QED BY <1>1, <1>4, <1>5, <1>6 DEF n

\* A list whose entries have different names has as many names as entries.
LEMMA NamesCounted ==
    ASSUME NEW l \in Seq(Entry), NamesDiffer(l)
    PROVE  Cardinality({e.name : e \in SlistElems(l)}) = Len(l)
  <1> DEFINE N == {e.name : e \in SlistElems(l)}
             f == [i \in 1..Len(l) |-> l[i].name]
  <1>1. Len(l) \in Nat
    OBVIOUS
  <1>2. f \in [1..Len(l) -> N]
    BY DEF SlistElems
  <1>3. \A x \in N : \E i \in 1..Len(l) : f[i] = x
    BY DEF SlistElems
  <1>4. f \in Surjection(1..Len(l), N)
    BY <1>2, <1>3 DEF Surjection
  <1>5. f \in Injection(1..Len(l), N)
    BY <1>2 DEF Injection, IsInjective, NamesDiffer
  <1>6. ExistsBijection(1..Len(l), N)
    BY <1>4, <1>5 DEF ExistsBijection, Bijection
  <1> HIDE DEF f, N
  <1>7. Cardinality(N) = Len(l)
    BY <1>1, <1>6, FS_CountingElements
  <1> QED BY <1>7 DEF N

\* Numbered is EntriesNamed with positions for cardinalities.
LEMMA NumberedIs ==
    ASSUME BusTyped, Numbered
    PROVE  EntriesNamed
  <1>1. ASSUME NEW k \in 1..Len(buses)
        PROVE  Cardinality(Names(k)) = Len(buses[k].dev_list)
    <2>1. buses[k].dev_list \in Seq(Entry) /\ NamesDiffer(buses[k].dev_list)
      BY BusOf DEF Numbered
    <2> QED BY <2>1, NamesCounted DEF Names, Entries
  <1> QED BY <1>1 DEF EntriesNamed, Numbered
-----------------------------------------------------------------------------
(* What an operation on the entries of bus k does: it leaves the others, the *)
(* name and the head of the list, and l is the list after it.                *)

Put(k, b) ==
    /\ b \in BusT /\ b.name = buses[k].name /\ b.clean = buses[k].clean
    /\ buses' = [buses EXCEPT ![k] = b]
Grown(k, b, e) ==
    /\ e.name \notin Names(k)
    /\ b.dev_list = SlistInsertHead(buses[k].dev_list, e)
    /\ b.dev_count = buses[k].dev_count + 1
Shrunk(k, b, i) ==
    /\ b.dev_list = RemoveAt(buses[k].dev_list, i)
    /\ b.dev_count = buses[k].dev_count - 1
Rewritten(k, b, i, e) ==
    /\ e.name = buses[k].dev_list[i].name
    /\ b.dev_list = [buses[k].dev_list EXCEPT ![i] = e]
    /\ b.dev_count = buses[k].dev_count

\* The entry bus_getdevbyname finds.
LEMMA EntryFound ==
    ASSUME BusTyped, NEW k \in 1..Len(buses), NEW name \in Names(k)
    PROVE  /\ bus_getdevbyname(k, name) \in 1..Len(buses[k].dev_list)
           /\ buses[k].dev_list[bus_getdevbyname(k, name)].name = name
  <1> DEFINE l == buses[k].dev_list
             S == {i \in 1..Len(l) : l[i].name = name}
  <1>1. S # {} /\ S \subseteq Nat
    BY DEF Names, Entries, SlistElems
  <1>2. PICK i \in S : \A j \in S : i <= j
    <2> HIDE DEF S
    <2> QED BY <1>1, LeastOf
  <1>3. Len(l) \in Nat
    BY BusOf
  <1>4. \A j \in 1..(i - 1) : j \in 1..Len(l) /\ l[j].name # name
    BY <1>2, <1>3
  <1> QED BY <1>2, <1>4 DEF bus_getdevbyname

\* What is no resource has the type of one.
LEMMA JunkIs == Junk \in Res
  <1>1. PICK z : z = <<0, 0>>
    OBVIOUS
  <1>2. z \in Int \X Int
    BY <1>1
  <1>3. Junk = [type |-> "junk", value |-> z, size |-> z]
    BY <1>1 DEF Junk
  <1> QED BY <1>2, <1>3 DEF Res

\* The list of nothing but what is no resource.
LEMMA Single ==
    ASSUME NEW rest \in {<<>>, <<Junk>>}
    PROVE  rest \in Seq(Res) /\ \A i \in 1..Len(rest) : rest[i] = Junk /\ i = Len(rest)
  <1>1. PICK x, S : x = Junk /\ S = Res
    OBVIOUS
  <1>2. x \in S
    BY <1>1, JunkIs
  <1>3. CASE rest = <<>>
    BY <1>3
  <1>4. CASE rest = <<x>>
    <2>1. rest \in Seq(S) /\ Len(rest) = 1 /\ rest[1] = x
      BY <1>2, <1>4
    <2> QED BY <1>1, <2>1
  <1> QED BY <1>1, <1>3, <1>4

\* A new entry has the name it is made for, and of its resources at most what lay
\* there.
LEMMA NewEntryIs ==
    ASSUME BusTyped, NEW name \in EntryName, NEW e \in NewEntry(name)
    PROVE  /\ e \in Entry /\ e.name = name /\ e.dname \in stale \cup {NoName} /\ e.int = -1
           /\ e.res \in Seq(Res) /\ e.res \in {<<>>, <<Junk>>}
  <1>1. PICK dname \in stale \cup {NoName}, rest \in {<<>>, <<Junk>>} :
          e = [name |-> name, dname |-> dname, addr |-> <<>>, int |-> -1, res |-> rest]
    BY DEF NewEntry
  <1>3. rest \in Seq(Res)
    BY Single
  <1>4. dname \in Name \cup {NoName} /\ <<>> \in Addr \cup {<<>>} /\ -1 \in Int
    BY DEF BusTyped
  <1> HIDE DEF Addr, EntryName
  <1>5. e \in Entry
    BY <1>1, <1>3, <1>4 DEF Entry
  <1> QED BY <1>1, <1>3, <1>5

\* bus_adddev puts an entry in front of the list.
LEMMA AdddevPuts ==
    ASSUME BusTyped, NEW k \in 1..Len(buses), NEW name \in EntryName, bus_adddev(k, name)
    PROVE  \E b \in BusT, e \in Entry :
              Put(k, b) /\ Grown(k, b, e) /\ e.dname \in stale \cup {NoName}
  <1>1. PICK e \in NewEntry(name) :
          buses' = [buses EXCEPT
              ![k].dev_list = SlistInsertHead(@, e), ![k].dev_count = @ + 1]
    BY DEF bus_adddev
  <1> DEFINE l == SlistInsertHead(buses[k].dev_list, e)
             n == buses[k].dev_count + 1
             b == [buses[k] EXCEPT !.dev_list = l, !.dev_count = n]
  <1>2. buses[k] \in BusT /\ buses[k].dev_list \in Seq(Entry)
    BY BusOf
  <1>3. e \in Entry /\ e.name = name /\ e.dname \in stale \cup {NoName}
    BY NewEntryIs
  <1>5. l \in Seq(Entry)
    BY <1>2, <1>3, InsertHead
  <1>6. buses' = [buses EXCEPT ![k] = b]
    BY <1>1, <1>2 DEF BusT
  <1>6a. n \in Int
    BY BusOf
  <1> HIDE DEF l, n
  <1>7. b \in BusT /\ b.name = buses[k].name /\ b.clean = buses[k].clean /\ b.dev_list = l
        /\ b.dev_count = n
    BY <1>2, <1>5, <1>6a DEF BusT
  <1> HIDE DEF b
  <1>8. Put(k, b)
    BY <1>6, <1>7 DEF Put
  <1>9. Grown(k, b, e)
    BY <1>3, <1>7 DEF Grown, l, n, bus_adddev
  <1> QED BY <1>3, <1>7, <1>8, <1>9

\* bus_remdev takes one entry out of the list.
LEMMA RemdevPuts ==
    ASSUME BusTyped, NEW k \in 1..Len(buses), NEW name, bus_remdev(k, name)
    PROVE  \E b \in BusT, i \in 1..Len(buses[k].dev_list) : Put(k, b) /\ Shrunk(k, b, i)
  <1> DEFINE i == bus_getdevbyname(k, name)
             l == RemoveAt(buses[k].dev_list, i)
             n == buses[k].dev_count - 1
             b == [buses[k] EXCEPT !.dev_list = l, !.dev_count = n]
  <1>1. buses[k] \in BusT /\ buses[k].dev_list \in Seq(Entry) /\ n \in Int
    BY BusOf
  <1>2. i \in 1..Len(buses[k].dev_list)
    BY EntryFound DEF bus_remdev
  <1> HIDE DEF i
  <1>3. l \in Seq(Entry)
    BY <1>1, <1>2, RemoveAtIs
  <1>4. buses' = [buses EXCEPT ![k] = b]
    BY <1>1 DEF BusT, bus_remdev, i
  <1> HIDE DEF l, n
  <1>5. b \in BusT /\ b.name = buses[k].name /\ b.clean = buses[k].clean /\ b.dev_list = l
        /\ b.dev_count = n
    BY <1>1, <1>3 DEF BusT
  <1> HIDE DEF b
  <1>6. Put(k, b) /\ Shrunk(k, b, i)
    BY <1>4, <1>5 DEF Put, Shrunk, l, n
  <1> QED BY <1>2, <1>5, <1>6

\* An entry written over by another of the same name.
LEMMA RewrittenPuts ==
    ASSUME BusTyped, NEW k \in 1..Len(buses), NEW i \in 1..Len(buses[k].dev_list), NEW e \in Entry,
           e.name = buses[k].dev_list[i].name,
           buses' = [buses EXCEPT ![k] = [buses[k] EXCEPT !.dev_list = [buses[k].dev_list EXCEPT ![i] = e]]]
    PROVE  \E b \in BusT : Put(k, b) /\ Rewritten(k, b, i, e)
  <1> DEFINE l == [buses[k].dev_list EXCEPT ![i] = e]
             b == [buses[k] EXCEPT !.dev_list = l]
  <1>1. buses[k] \in BusT /\ buses[k].dev_list \in Seq(Entry)
    BY BusOf
  <1>2. l \in Seq(Entry)
    BY <1>1
  <1>3. buses' = [buses EXCEPT ![k] = b]
    OBVIOUS
  <1> HIDE DEF l
  <1>4. b \in BusT /\ b.name = buses[k].name /\ b.clean = buses[k].clean /\ b.dev_list = l
        /\ b.dev_count = buses[k].dev_count
    BY <1>1, <1>2 DEF BusT
  <1> HIDE DEF b
  <1>5. Put(k, b) /\ Rewritten(k, b, i, e)
    BY <1>3, <1>4 DEF Put, Rewritten, l
  <1> QED BY <1>4, <1>5

\* bus_regdev and bus_unregdev write the driver name of one entry.
LEMMA DriverPuts ==
    ASSUME BusTyped, NEW k \in 1..Len(buses), NEW name \in Names(k), NEW d \in Name \cup {NoName},
           buses' = [buses EXCEPT ![k].dev_list[bus_getdevbyname(k, name)].dname = d]
    PROVE  \E b \in BusT, i \in 1..Len(buses[k].dev_list), e \in Entry :
              Put(k, b) /\ Rewritten(k, b, i, e) /\ e.dname = d
  <1> DEFINE i == bus_getdevbyname(k, name)
             e == [buses[k].dev_list[i] EXCEPT !.dname = d]
  <1>1. buses[k] \in BusT /\ buses[k].dev_list \in Seq(Entry)
    BY BusOf
  <1>2. i \in 1..Len(buses[k].dev_list)
    BY EntryFound
  <1> HIDE DEF i
  <1>3. buses[k].dev_list[i] \in Entry
    BY <1>1, <1>2
  <1>4. e \in Entry /\ e.name = buses[k].dev_list[i].name /\ e.dname = d
    BY <1>3 DEF Entry
  <1>5. buses' = [buses EXCEPT ![k] = [buses[k] EXCEPT !.dev_list = [buses[k].dev_list EXCEPT ![i] = e]]]
    BY DEF i
  <1> HIDE DEF e
  <1>6. \E b \in BusT : Put(k, b) /\ Rewritten(k, b, i, e)
    BY <1>2, <1>4, <1>5, RewrittenPuts
  <1> QED BY <1>2, <1>4, <1>6

\* The entries of a bus have the type of entries.
LEMMA EntriesTyped ==
    ASSUME BusTyped, bus_fromname(PciBus) # {}
    PROVE  Entries(TheBus(PciBus)) \in SUBSET Entry
  <1>1. PICK k : k = TheBus(PciBus)
    OBVIOUS
  <1>2. Len(buses) \in Nat
    BY DEF BusTyped
  <1>3. k \in 1..Len(buses)
    BY <1>1, <1>2, TheBusIs
  <1>4. buses[k].dev_list \in Seq(Entry)
    BY <1>3, BusOf
  <1> QED BY <1>1, <1>4 DEF Entries, SlistElems

\* An entry of the function at a is written into bus b, with resources r in front of
\* what lay in the memory, or in front of those the entry had.
Written(k, b, e, a, r) ==
    /\ Put(k, b) /\ e.addr = a /\ e.name = pci_name(a)
    /\ \/ Grown(k, b, e) /\ \E rest \in {<<>>, <<Junk>>} : e.res = r \o rest
       \/ \E i \in 1..Len(buses[k].dev_list) :
             Rewritten(k, b, i, e) /\ e.res = r \o buses[k].dev_list[i].res

\* found_dev writes one entry: the one of that name, or a new one.
LEMMA FoundPuts ==
    ASSUME BusTyped, bus_fromname(PciBus) # {}, NEW a \in Addr, NEW r \in Seq(Res),
           pci_getint(a) \subseteq Int, found_dev(a, r)
    PROVE  \E b \in BusT, e \in Entry : Written(TheBus(PciBus), b, e, a, r)
  <1> DEFINE k == TheBus(PciBus)
             name == pci_name(a)
             i == bus_getdevbyname(k, name)
  <1>1. PICK int \in pci_getint(a), new \in NewEntry(name) :
          found_put(k, found_entry(k, a, r, int, new))
    BY DEF found_dev
  <1> DEFINE e == found_entry(k, a, r, int, new)
  <1>2. Len(buses) \in Nat
    BY DEF BusTyped
  <1>3. k \in 1..Len(buses) /\ name \in EntryName
    BY <1>2, TheBusIs DEF EntryName
  <1> HIDE DEF k
  <1>4. buses[k] \in BusT /\ buses[k].dev_list \in Seq(Entry) /\ buses[k].dev_count + 1 \in Int
    BY <1>3, BusOf
  <1>5. CASE name \in Names(k)
    <2>1. i \in 1..Len(buses[k].dev_list) /\ buses[k].dev_list[i].name = name
      BY <1>3, <1>5, EntryFound
    <2> DEFINE old == buses[k].dev_list[i]
    <2>a. e = [name |-> name, dname |-> old.dname, addr |-> a, res |-> r \o old.res,
               int |-> IF int = 0 THEN old.int ELSE int]
      BY <1>5 DEF found_entry
    <2> HIDE DEF i, e
    <2>2. old \in Entry
      BY <1>4, <2>1
    <2> HIDE DEF old
    <2>3. old.res \in Seq(Res) /\ old.int \in Int /\ old.dname \in Name \cup {NoName}
      BY <2>2 DEF Entry
    <2>4. r \o old.res \in Seq(Res)
      BY <2>3
    <2>5. /\ e \in Entry /\ e.addr = a /\ e.name = name /\ e.res = r \o old.res
          /\ e.dname = old.dname
      <3>1. int \in Int
        BY <1>1
      <3> HIDE DEF name
      <3> QED BY <1>3, <2>a, <2>3, <2>4, <3>1 DEF Entry
    <2>6. buses' = [buses EXCEPT ![k].dev_list[i] = e]
      BY <1>1, <1>5, <2>5 DEF found_put, i, e
    <2> HIDE DEF name
    <2>7. buses' = [buses EXCEPT ![k] = [buses[k] EXCEPT !.dev_list = [buses[k].dev_list EXCEPT ![i] = e]]]
      BY <2>6
    <2>8. \E b \in BusT : Put(k, b) /\ Rewritten(k, b, i, e)
      BY <1>3, <2>1, <2>5, <2>7, RewrittenPuts
    <2> QED BY <2>1, <2>4, <2>5, <2>8 DEF name, k, old, Written
  <1>6. CASE name \notin Names(k)
    <2>a. e = [name |-> name, dname |-> new.dname, addr |-> a, res |-> r \o new.res,
               int |-> IF int = 0 THEN new.int ELSE int]
      BY <1>6 DEF found_entry
    <2>b. /\ new.dname \in stale \cup {NoName} /\ new.int = -1
          /\ new.res \in Seq(Res) /\ new.res \in {<<>>, <<Junk>>}
      <3> HIDE DEF name
      <3> QED BY <1>1, <1>3, NewEntryIs
    <2> HIDE DEF e
    <2>1. e.name = name /\ e.addr = a /\ e.dname = new.dname /\ e.res = r \o new.res
      BY <2>a
    <2>2. r \o new.res \in Seq(Res)
      BY <2>b
    <2>3. e \in Entry
      <3>1. int \in Int /\ new.int \in Int /\ new.dname \in Name \cup {NoName}
        BY <1>1, <2>b DEF BusTyped
      <3> HIDE DEF name
      <3> QED BY <1>3, <2>a, <2>2, <3>1 DEF Entry
    <2> DEFINE l == SlistInsertHead(buses[k].dev_list, e)
               n == buses[k].dev_count + 1
               b == [buses[k] EXCEPT !.dev_list = l, !.dev_count = n]
    <2>4. l \in Seq(Entry)
      BY <1>4, <2>3, InsertHead
    <2> HIDE DEF name, i
    <2>5. buses' = [buses EXCEPT ![k].dev_list = SlistInsertHead(@, e), ![k].dev_count = @ + 1]
      BY <1>1, <1>6, <2>1 DEF found_put, e
    <2>6. buses' = [buses EXCEPT ![k] = b]
      BY <1>4, <2>5 DEF BusT
    <2>7. n \in Int
      BY <1>4
    <2> HIDE DEF l, n
    <2>8. b \in BusT /\ b.name = buses[k].name /\ b.clean = buses[k].clean /\ b.dev_list = l
          /\ b.dev_count = n
      BY <1>4, <2>4, <2>7 DEF BusT
    <2> HIDE DEF b
    <2>9. Put(k, b) /\ Grown(k, b, e)
      BY <1>6, <2>1, <2>6, <2>8 DEF Put, Grown, l, n
    <2>10. \E rest \in {<<>>, <<Junk>>} : e.res = r \o rest
      BY <2>b, <2>1
    <2> QED BY <2>1, <2>3, <2>8, <2>9, <2>10 DEF name, k, Written
  <1> QED BY <1>5, <1>6 DEF k
-----------------------------------------------------------------------------
\* What an operation on the entries of bus k leaves.
LEMMA PutKeeps ==
    ASSUME BusTyped, NEW k \in 1..Len(buses), NEW b, Put(k, b)
    PROVE  /\ buses' \in Seq(BusT) /\ Len(buses') = Len(buses) /\ buses'[k] = b
           /\ \A j \in 1..Len(buses) : j # k => buses'[j] = buses[j]
           /\ \A j \in 1..Len(buses) : buses'[j].name = buses[j].name
           /\ \A n : bus_fromname(n)' = bus_fromname(n) /\ TheBus(n)' = TheBus(n)
  <1>1. buses \in Seq(BusT) /\ b \in BusT /\ buses' = [buses EXCEPT ![k] = b]
        /\ b.name = buses[k].name
    BY DEF BusTyped, Put
  <1>2. buses' \in Seq(BusT) /\ Len(buses') = Len(buses)
    BY <1>1
  <1>3. buses'[k] = b /\ \A j \in 1..Len(buses) : j # k => buses'[j] = buses[j]
    BY <1>1
  <1>4. \A j \in 1..Len(buses) : buses'[j].name = buses[j].name
    BY <1>1, <1>3
  <1>5. ASSUME NEW n
        PROVE  bus_fromname(n)' = bus_fromname(n) /\ TheBus(n)' = TheBus(n)
    <2>1. bus_fromname(n)' = bus_fromname(n)
      BY <1>2, <1>4 DEF bus_fromname
    <2> QED BY <2>1 DEF TheBus
  <1> QED BY <1>2, <1>3, <1>4, <1>5

\* The lists keep different names, and lose or gain what the counter does.
LEMMA GrownDiffers ==
    ASSUME BusTyped, NEW k \in 1..Len(buses), NEW b, NEW e \in Entry, Grown(k, b, e),
           NamesDiffer(buses[k].dev_list)
    PROVE  /\ NamesDiffer(b.dev_list) /\ b.dev_list \in Seq(Entry)
           /\ Len(b.dev_list) = Len(buses[k].dev_list) + 1
           /\ b.dev_list[1] = e
           /\ \A i \in 2..Len(b.dev_list) : b.dev_list[i] = buses[k].dev_list[i - 1]
           /\ SlistElems(b.dev_list) = Entries(k) \cup {e}
  <1> DEFINE l == buses[k].dev_list
             m == b.dev_list
  <1>1. l \in Seq(Entry) /\ Len(l) \in Nat
    BY BusOf
  <1>2. m = SlistInsertHead(l, e) /\ \A i \in 1..Len(l) : l[i].name # e.name
    BY DEF Grown, Names, Entries, SlistElems
  <1>2a. Entries(k) = SlistElems(l)
    BY DEF Entries
  <1> HIDE DEF l, m
  <1>3. /\ m \in Seq(Entry) /\ Len(m) = Len(l) + 1 /\ m[1] = e
        /\ \A i \in 1..Len(l) : m[i + 1] = l[i]
        /\ SlistElems(m) = SlistElems(l) \cup {e}
    <2> DEFINE n == SlistInsertHead(l, e)
    <2>1. /\ n \in Seq(Entry) /\ Len(n) = Len(l) + 1 /\ n[1] = e
          /\ \A i \in 1..Len(l) : n[i + 1] = l[i]
          /\ SlistElems(n) = SlistElems(l) \cup {e}
      <3>1. n \in Seq(Entry) /\ Len(n) = Len(l) + 1 /\ n[1] = e
        BY <1>1, InsertHead
      <3>2. \A i \in 1..Len(l) : n[i + 1] = l[i]
        BY <1>1, InsertHead
      <3>3. SlistElems(n) = SlistElems(l) \cup {e}
        BY <1>1, InsertHead
      <3> HIDE DEF n
      <3> QED BY <3>1, <3>2, <3>3
    <2> HIDE DEF n
    <2>2. m = n
      BY <1>2 DEF n
    <2> QED BY <2>1, <2>2
  <1>4. \A i \in 2..Len(m) : i - 1 \in 1..Len(l) /\ m[i] = l[i - 1]
    <2> TAKE i \in 2..Len(m)
    <2>1. i - 1 \in 1..Len(l) /\ (i - 1) + 1 = i
      BY <1>1, <1>3
    <2> QED BY <2>1, <1>3
  <1>5. NamesDiffer(m)
    <2> SUFFICES ASSUME NEW i \in 1..Len(m), NEW j \in 1..Len(m), m[i].name = m[j].name
                 PROVE  i = j
      BY DEF NamesDiffer
    <2>a. \A p \in 2..Len(m) : m[p].name # m[1].name
      <3> TAKE p \in 2..Len(m)
      <3>1. m[p] = l[p - 1] /\ p - 1 \in 1..Len(l)
        BY <1>4
      <3> QED BY <3>1, <1>2, <1>3
    <2>b. Len(m) \in Nat
      BY <1>3
    <2>1. CASE i = 1
      BY <2>1, <2>a, <2>b
    <2>2. CASE j = 1
      BY <2>2, <2>a, <2>b
    <2>3. CASE i # 1 /\ j # 1
      <3>1. i \in 2..Len(m) /\ j \in 2..Len(m)
        BY <2>3, <1>1, <1>3
      <3>2. l[i - 1].name = l[j - 1].name /\ i - 1 \in 1..Len(l) /\ j - 1 \in 1..Len(l)
        BY <3>1, <1>4
      <3>3. i - 1 = j - 1
        BY <3>2 DEF NamesDiffer, l
      <3> QED BY <3>1, <3>3
    <2> QED BY <2>1, <2>2, <2>3
  <1> QED BY <1>2a, <1>3, <1>4, <1>5 DEF l, m

\* The same when an entry is taken out.
LEMMA ShrunkDiffers ==
    ASSUME BusTyped, NEW k \in 1..Len(buses), NEW b, NEW i \in 1..Len(buses[k].dev_list),
           Shrunk(k, b, i), NamesDiffer(buses[k].dev_list)
    PROVE  /\ NamesDiffer(b.dev_list) /\ b.dev_list \in Seq(Entry)
           /\ Len(b.dev_list) = Len(buses[k].dev_list) - 1
           /\ \A j \in 1..Len(b.dev_list) :
                 b.dev_list[j] = IF j < i THEN buses[k].dev_list[j] ELSE buses[k].dev_list[j + 1]
  <1> DEFINE l == buses[k].dev_list
             m == b.dev_list
  <1>1. l \in Seq(Entry) /\ Len(l) \in Nat
    BY BusOf
  <1>2. m = RemoveAt(l, i)
    BY DEF Shrunk
  <1> HIDE DEF l, m
  <1>3. /\ m \in Seq(Entry) /\ Len(m) = Len(l) - 1
        /\ \A j \in 1..(Len(l) - 1) : m[j] = IF j < i THEN l[j] ELSE l[j + 1]
    BY <1>1, <1>2, RemoveAtIs DEF l
  <1>4. NamesDiffer(m)
    <2> SUFFICES ASSUME NEW p \in 1..Len(m), NEW q \in 1..Len(m), m[p].name = m[q].name
                 PROVE  p = q
      BY DEF NamesDiffer
    <2> DEFINE P == IF p < i THEN p ELSE p + 1
               Q == IF q < i THEN q ELSE q + 1
    <2>1. P \in 1..Len(l) /\ Q \in 1..Len(l)
      BY <1>1, <1>3
    <2>2. m[p] = l[P] /\ m[q] = l[Q]
      BY <1>3
    <2>3. P = Q
      <3> HIDE DEF P, Q
      <3> QED BY <2>1, <2>2 DEF NamesDiffer, l
    <2> QED BY <2>3, <1>1, <1>3
  <1> QED BY <1>3, <1>4 DEF l, m

\* The same when one is written over by another of its name.
LEMMA RewrittenDiffers ==
    ASSUME BusTyped, NEW k \in 1..Len(buses), NEW b, NEW i \in 1..Len(buses[k].dev_list),
           NEW e \in Entry, Rewritten(k, b, i, e), NamesDiffer(buses[k].dev_list)
    PROVE  /\ NamesDiffer(b.dev_list) /\ b.dev_list \in Seq(Entry)
           /\ Len(b.dev_list) = Len(buses[k].dev_list)
           /\ b.dev_list[i] = e
           /\ \A j \in 1..Len(b.dev_list) : j # i => b.dev_list[j] = buses[k].dev_list[j]
           /\ \A j \in 1..Len(b.dev_list) : b.dev_list[j].name = buses[k].dev_list[j].name
  <1> DEFINE l == buses[k].dev_list
             m == b.dev_list
  <1>1. l \in Seq(Entry) /\ Len(l) \in Nat
    BY BusOf
  <1>2. m = [l EXCEPT ![i] = e] /\ e.name = l[i].name
    BY DEF Rewritten
  <1>2a. i \in 1..Len(l)
    OBVIOUS
  <1> HIDE DEF l, m
  <1>3. /\ m \in Seq(Entry) /\ Len(m) = Len(l) /\ m[i] = e
        /\ \A j \in 1..Len(m) : j # i => m[j] = l[j]
    BY <1>1, <1>2, <1>2a
  <1>4. \A j \in 1..Len(m) : m[j].name = l[j].name
    BY <1>2, <1>3
  <1>5. NamesDiffer(m)
    BY <1>3, <1>4 DEF NamesDiffer, l
  <1> QED BY <1>3, <1>4, <1>5 DEF l, m

\* An operation on the entries of one bus.
Touched(k) ==
    \E b \in BusT :
        /\ Put(k, b)
        /\ \/ \E e \in Entry : Grown(k, b, e)
           \/ \E i \in 1..Len(buses[k].dev_list) : Shrunk(k, b, i)
           \/ \E i \in 1..Len(buses[k].dev_list), e \in Entry : Rewritten(k, b, i, e)

\* It keeps the names different and the counters right.
LEMMA TouchedNumbered ==
    ASSUME BusTyped, Numbered, NEW k \in 1..Len(buses), Touched(k), buses_count' = buses_count
    PROVE  Numbered'
  <1>1. PICK b \in BusT :
          /\ Put(k, b)
          /\ \/ \E e \in Entry : Grown(k, b, e)
             \/ \E i \in 1..Len(buses[k].dev_list) : Shrunk(k, b, i)
             \/ \E i \in 1..Len(buses[k].dev_list), e \in Entry : Rewritten(k, b, i, e)
    BY DEF Touched
  <1>2. /\ buses[k].dev_count = Len(buses[k].dev_list) /\ NamesDiffer(buses[k].dev_list)
        /\ Len(buses[k].dev_list) \in Nat
    BY BusOf DEF Numbered
  <1>3. b.dev_count = Len(b.dev_list) /\ NamesDiffer(b.dev_list)
    <2>1. ASSUME NEW e \in Entry, Grown(k, b, e) PROVE b.dev_count = Len(b.dev_list) /\ NamesDiffer(b.dev_list)
      <3>1. b.dev_count = buses[k].dev_count + 1
        BY <2>1 DEF Grown
      <3> QED BY <2>1, <3>1, <1>2, GrownDiffers
    <2>2. ASSUME NEW i \in 1..Len(buses[k].dev_list), Shrunk(k, b, i)
          PROVE  b.dev_count = Len(b.dev_list) /\ NamesDiffer(b.dev_list)
      <3>1. b.dev_count = buses[k].dev_count - 1
        BY <2>2 DEF Shrunk
      <3> QED BY <2>2, <3>1, <1>2, ShrunkDiffers
    <2>3. ASSUME NEW i \in 1..Len(buses[k].dev_list), NEW e \in Entry, Rewritten(k, b, i, e)
          PROVE  b.dev_count = Len(b.dev_list) /\ NamesDiffer(b.dev_list)
      <3>1. b.dev_count = buses[k].dev_count
        BY <2>3 DEF Rewritten
      <3> QED BY <2>3, <3>1, <1>2, RewrittenDiffers
    <2> QED BY <1>1, <2>1, <2>2, <2>3
  <1>4. /\ Len(buses') = Len(buses) /\ buses'[k] = b
        /\ \A j \in 1..Len(buses) : j # k => buses'[j] = buses[j]
    BY <1>1, PutKeeps
  <1> QED BY <1>3, <1>4 DEF Numbered

\* And the types of what it writes.
LEMMA TouchedTyped ==
    ASSUME BusTyped, NEW k \in 1..Len(buses), Touched(k), UNCHANGED <<buses_count, stale>>,
           lost' \in BOOLEAN
    PROVE  BusTyped'
  <1>1. PICK b \in BusT : Put(k, b)
    BY DEF Touched
  <1>2. buses' \in Seq(BusT)
    BY <1>1, PutKeeps
  <1> QED BY <1>2 DEF BusTyped

\* A bus is registered, or one is unregistered and the driver names of its entries
\* stay in the memory that is given back.
LEMMA RegisterBusStep ==
    ASSUME BusTyped, Numbered, NEW name \in BusName, register_bus(name)
    PROVE  /\ BusTyped' /\ Numbered'
           /\ buses'[1].name = name /\ buses'[1].dev_list = <<>> /\ Len(buses') = Len(buses) + 1
  <1>1. PICK clean \in BOOLEAN :
          buses' = SlistInsertHead(buses,
                      [name |-> name, dev_list |-> <<>>, dev_count |-> 0, clean |-> clean])
    BY DEF register_bus
  <1> DEFINE b == [name |-> name, dev_list |-> <<>>, dev_count |-> 0, clean |-> clean]
  <1>2. b \in BusT /\ b.name = name /\ b.dev_list = <<>> /\ b.dev_count = 0
    BY DEF BusT
  <1>3. buses \in Seq(BusT) /\ Len(buses) \in Nat /\ buses_count \in Int
    BY DEF BusTyped
  <1>4. buses' = SlistInsertHead(buses, b)
    BY <1>1
  <1> HIDE DEF b
  <1> DEFINE l == SlistInsertHead(buses, b)
  <1>5a. l \in Seq(BusT) /\ Len(l) = Len(buses) + 1 /\ l[1] = b
    BY <1>2, <1>3, InsertHead
  <1>5b. \A i \in 1..Len(buses) : l[i + 1] = buses[i]
    BY <1>2, <1>3, InsertHead
  <1> HIDE DEF l
  <1>5c. buses' = l
    BY <1>4 DEF l
  <1>5. buses' \in Seq(BusT) /\ Len(buses') = Len(buses) + 1 /\ buses'[1] = b
    BY <1>5a, <1>5c
  <1>6. \A i \in 1..Len(buses) : buses'[i + 1] = buses[i]
    BY <1>5b, <1>5c
  <1>7. BusTyped'
    BY <1>3, <1>5 DEF BusTyped, register_bus
  <1>8. \A i \in 1..Len(buses') :
          buses'[i].dev_count = Len(buses'[i].dev_list) /\ NamesDiffer(buses'[i].dev_list)
    <2> TAKE i \in 1..Len(buses')
    <2>1. CASE i = 1
      <3>1. Len(<<>>) = 0
        OBVIOUS
      <3> QED BY <2>1, <3>1, <1>2, <1>5 DEF NamesDiffer
    <2>2. CASE i # 1
      <3>1. i - 1 \in 1..Len(buses) /\ (i - 1) + 1 = i
        BY <2>2, <1>3, <1>5
      <3>2. buses'[i] = buses[i - 1]
        BY <3>1, <1>6
      <3> QED BY <3>1, <3>2 DEF Numbered
    <2> QED BY <2>1, <2>2
  <1>9. buses_count' = Len(buses')
    BY <1>5 DEF register_bus, Numbered
  <1>10. Numbered'
    BY <1>8, <1>9 DEF Numbered
  <1> QED BY <1>2, <1>5, <1>7, <1>10

\* A bus less; the others stay as they are.
LEMMA UnregisterBusStep ==
    ASSUME BusTyped, Numbered, NEW name, unregister_bus(name)
    PROVE  BusTyped' /\ Numbered' /\ Len(buses') = Len(buses) - 1
  <1> DEFINE k == TheBus(name)
  <1>1. buses \in Seq(BusT) /\ Len(buses) \in Nat /\ buses_count \in Int /\ stale \subseteq Name
    BY DEF BusTyped
  <1>2. k \in 1..Len(buses)
    BY <1>1, TheBusIs DEF unregister_bus
  <1>3. buses' = RemoveAt(buses, k)
    BY DEF unregister_bus
  <1>4. \A e \in Entries(k) : e.dname \in Name \cup {NoName}
    <2>1. \A e \in Entry : e.dname \in Name \cup {NoName}
      BY DEF Entry
    <2>2. Entries(k) \subseteq Entry
      BY <1>2, BusOf, ElemsIn DEF Entries
    <2> QED BY <2>1, <2>2
  <1>5. stale' \subseteq Name /\ lost' \in BOOLEAN
    <2>1. stale' \subseteq Name
      BY <1>1, <1>4 DEF unregister_bus
    <2>2. lost' \in {~buses[k].clean, Entries(k) # {}}
      BY DEF unregister_bus
    <2> QED BY <2>1, <2>2
  <1> HIDE DEF k
  <1>6. /\ buses' \in Seq(BusT) /\ Len(buses') = Len(buses) - 1
        /\ \A i \in 1..(Len(buses) - 1) : buses'[i] = IF i < k THEN buses[i] ELSE buses[i + 1]
    BY <1>1, <1>2, <1>3, RemoveAtIs
  <1>7. BusTyped'
    BY <1>1, <1>5, <1>6 DEF BusTyped, unregister_bus
  <1>8. \A i \in 1..Len(buses') :
          buses'[i].dev_count = Len(buses'[i].dev_list) /\ NamesDiffer(buses'[i].dev_list)
    <2> TAKE i \in 1..Len(buses')
    <2>1. PICK j \in 1..Len(buses) : buses'[i] = buses[j]
      <3>1. i \in 1..Len(buses) /\ i + 1 \in 1..Len(buses)
        BY <1>1, <1>6
      <3> QED BY <3>1, <1>6
    <2> QED BY <2>1 DEF Numbered
  <1>9. buses_count' = Len(buses')
    BY <1>1, <1>6 DEF unregister_bus, Numbered
  <1>10. Numbered'
    BY <1>8, <1>9 DEF Numbered
  <1> QED BY <1>6, <1>7, <1>10
-----------------------------------------------------------------------------
(* The configuration space of any machine. *)

Pos(a) == 8 * a[2] + a[3]

\* The numbers below n.
LEMMA BelowIs ==
    ASSUME NEW n \in Nat
    PROVE  \A x : x \in Below(n) <=> x \in Int /\ 0 <= x /\ x < n
  BY DEF Below

\* What the assumption on plans says of the one that was chosen.
LEMMA MachineOf ==
    ASSUME plan \in Plan, machine \in plan.machines
    PROVE  /\ \A a \in DOMAIN machine :
                 a \in Addr /\ machine[a].did \in Below(65536) /\ machine[a].vid \in Below(65535)
           /\ plan.drivers \subseteq Name /\ (plan.machines = {<<>>} \/ plan.buses = {})
  BY PlanAssumption

\* Two halves of 32 bits, and a function is there when it has a vendor.
LEMMA ReadIs ==
    ASSUME plan \in Plan, machine \in plan.machines, NEW a
    PROVE  /\ pci_read32(a).did \in Int /\ 0 <= pci_read32(a).did /\ pci_read32(a).did < 65536
           /\ pci_read32(a).vid \in Int /\ 0 <= pci_read32(a).vid /\ pci_read32(a).vid < 65536
           /\ There(a) <=> a \in DOMAIN machine
  <1>1. CASE a \in DOMAIN machine
    <2>1. machine[a].did \in Below(65536) /\ machine[a].vid \in Below(65535)
      BY <1>1, MachineOf
    <2>1a. /\ machine[a].did \in Int /\ 0 <= machine[a].did /\ machine[a].did < 65536
           /\ machine[a].vid \in Int /\ 0 <= machine[a].vid /\ machine[a].vid < 65535
      BY <2>1, BelowIs
    <2>2. pci_read32(a) = machine[a]
      BY <1>1 DEF pci_read32
    <2> QED BY <1>1, <2>1a, <2>2 DEF There, pcidev_getvendor
  <1>2. CASE a \notin DOMAIN machine
    BY <1>2 DEF pci_read32, There, pcidev_getvendor
  <1> QED BY <1>1, <1>2

\* What is taken from register 0.
LEMMA FieldsAre ==
    ASSUME plan \in Plan, machine \in plan.machines, NEW a
    PROVE  /\ pci_getint(a) \subseteq Int
           /\ Bridge(a) => check_func(a) = 6
  <1>1. pci_read32(a).did \in Int
    BY ReadIs
  <1>2. pcidev_getintline(a) \in Int
    BY <1>1 DEF pcidev_getintline
  <1>3. pci_getint(a) \subseteq Int
    BY <1>2 DEF pci_getint
  <1>4. Bridge(a) => check_func(a) = 6
    BY DEF Bridge, check_func, pcidev_get2ndbus, pcidev_getdevice
  <1> QED BY <1>3, <1>4

\* The base addresses are alike, so that the resources of a function are as many
\* times the one that genres makes of the first.
LEMMA ResourcesAre ==
    ASSUME plan \in Plan, machine \in plan.machines, NEW a
    PROVE  Resources(a) \in Seq(Res) /\ \A r \in SlistElems(Resources(a)) : <<r>> = genres(a)
  <1> DEFINE r == pci_read32(a)
             io == r.vid % 2 = 1 /\ (r.vid \div 4) % 2 = 0
             value == IF io THEN <<0, 4 * (r.vid \div 4)>> ELSE <<r.did, 16 * (r.vid \div 16)>>
             size == IF r.vid = 0 THEN <<65536 - r.did, 0>> ELSE <<65535 - r.did, 65536 - r.vid>>
             x == [type |-> IF io THEN "io" ELSE "mem", value |-> value, size |-> size]
  <1>1. r.did \in Int /\ r.vid \in Int
    BY ReadIs
  <1>2. value \in Int \X Int /\ size \in Int \X Int
    <2>1. 4 * (r.vid \div 4) \in Int /\ 16 * (r.vid \div 16) \in Int
      BY <1>1
    <2> QED BY <1>1, <2>1
  <1>3. genres(a) \in {<<>>, <<x>>}
    BY DEF genres
  <1>4. x \in Res
    <2> HIDE DEF value, size, io
    <2> QED BY <1>2 DEF Res
  <1> HIDE DEF x
  <1>5. CASE Resources(a) = <<>>
    BY <1>5 DEF SlistElems
  <1>6. CASE Resources(a) # <<>>
    <2>1. genres(a) = <<x>> /\ Resources(a) = [i \in 1..6 |-> x]
      BY <1>3, <1>6 DEF Resources
    <2>2. [i \in 1..6 |-> x] \in [1..6 -> Res]
      BY <1>4
    <2>3. [i \in 1..6 |-> x] \in Seq(Res) /\ Len([i \in 1..6 |-> x]) = 6
      BY <2>2, FunctionIsSeq
    <2>4. \A y \in SlistElems([i \in 1..6 |-> x]) : y = x
      BY <2>3 DEF SlistElems
    <2> QED BY <2>1, <2>3, <2>4
  <1> QED BY <1>5, <1>6

\* A function of a machine is its bus, its slot and its number, and has a position
\* of its own on the bus.
LEMMA AddrIs ==
    ASSUME NEW a \in Addr
    PROVE  /\ a = <<a[1], a[2], a[3]>> /\ a[1] \in Below(256)
           /\ a[2] \in Int /\ 0 <= a[2] /\ a[3] \in Int /\ 0 <= a[3] /\ a[3] < 8
           /\ Pos(a) \in Nat /\ Pos(a) \div 8 = a[2] /\ Pos(a) % 8 = a[3]
  <1>1. a \in Below(256) \X Below(32) \X Below(8)
    BY DEF Addr
  <1>2. a = <<a[1], a[2], a[3]>> /\ a[1] \in Below(256) /\ a[2] \in Below(32) /\ a[3] \in Below(8)
    BY <1>1
  <1>3. a[2] \in Int /\ 0 <= a[2] /\ a[3] \in Int /\ 0 <= a[3] /\ a[3] < 8
    BY <1>2, BelowIs
  <1>4. \A s, f \in Int : 0 <= s /\ 0 <= f /\ f < 8 =>
          8 * s + f \in Nat /\ (8 * s + f) \div 8 = s /\ (8 * s + f) % 8 = f
    OBVIOUS
  <1>5. Pos(a) \in Nat /\ Pos(a) \div 8 = a[2] /\ Pos(a) % 8 = a[3]
    BY <1>3, <1>4 DEF Pos
  <1> QED BY <1>2, <1>3, <1>5

\* The functions on a set of buses.
LEMMA FunctionsAre ==
    ASSUME plan \in Plan, machine \in plan.machines
    PROVE  /\ \A bs : FunctionsOn(bs) \subseteq Addr /\ FunctionsOn(bs) \subseteq DOMAIN machine
           /\ \A bs, a : a \in FunctionsOn(bs) => a[1] \in bs /\ a \in FunctionsOn({a[1]})
           /\ \A bs, cs : bs \subseteq cs => FunctionsOn(bs) \subseteq FunctionsOn(cs)
           /\ \A bs, a : a \in FunctionsOn({a[1]}) /\ a[1] \in bs => a \in FunctionsOn(bs)
  <1>1. \A a \in DOMAIN machine : a \in Addr
    BY MachineOf
  <1> QED BY <1>1 DEF FunctionsOn

\* What check_bus and check_dev have left of a bus.
LEMMA CheckDevIs ==
    ASSUME plan \in Plan, machine \in plan.machines, NEW bus, NEW pos
    PROVE  /\ check_dev(bus, pos) \subseteq Nat
           /\ \A n : n \in check_dev(bus, pos) <=> \E c \in FunctionsOn({bus}) : n = Pos(c) /\ Pos(c) > pos
  <1>1. check_dev(bus, pos) =
          {Pos(x) : x \in {y \in DOMAIN machine : y[1] = bus /\ Pos(y) > pos /\ There(<<bus, y[2], 0>>)}}
    BY DEF check_dev, Pos
  <1>2. {y \in DOMAIN machine : y[1] = bus /\ Pos(y) > pos /\ There(<<bus, y[2], 0>>)}
          = {y \in FunctionsOn({bus}) : Pos(y) > pos}
    BY ReadIs DEF FunctionsOn
  <1>3. \A y \in FunctionsOn({bus}) : Pos(y) \in Nat
    BY FunctionsAre, AddrIs
  <1> HIDE DEF Pos
  <1> QED BY <1>1, <1>2, <1>3

\* The next function check_func is called for.
LEMMA NextFuncIs ==
    ASSUME ScanTyped, AtFunc, NEW top, top = Last(scan.stack)
    PROVE  /\ NextFunc \in FunctionsOn({top.bus}) /\ NextFunc \in Addr /\ NextFunc[1] = top.bus
           /\ Pos(NextFunc) \in Nat /\ Pos(NextFunc) > top.pos
           /\ \A c \in FunctionsOn({top.bus}) :
                 /\ Pos(c) \in Nat
                 /\ Pos(c) > top.pos => Pos(NextFunc) <= Pos(c)
                 /\ Pos(c) = Pos(NextFunc) => c = NextFunc
  <1> DEFINE S == check_dev(top.bus, top.pos)
             p == Min(S)
  <1>1. plan \in Plan /\ machine \in plan.machines
    BY DEF ScanTyped
  <1>2. /\ S \subseteq Nat
        /\ \A n : n \in S <=> \E c \in FunctionsOn({top.bus}) : n = Pos(c) /\ Pos(c) > top.pos
    BY <1>1, CheckDevIs
  <1>3. S # {}
    BY DEF AtFunc
  <1> HIDE DEF S
  <1>4. p \in S /\ \A y \in S : p <= y
    BY <1>2, <1>3, MinIs
  <1>5. NextFunc = <<top.bus, p \div 8, p % 8>>
    BY DEF NextFunc, S
  <1> HIDE DEF p
  <1>6. PICK c \in FunctionsOn({top.bus}) : p = Pos(c) /\ Pos(c) > top.pos
    BY <1>2, <1>4
  <1>7. \A d \in FunctionsOn({top.bus}) :
          /\ d \in Addr /\ d[1] = top.bus /\ Pos(d) \in Nat
          /\ d = <<top.bus, Pos(d) \div 8, Pos(d) % 8>>
    <2> TAKE d \in FunctionsOn({top.bus})
    <2>1. d \in Addr /\ d[1] = top.bus
      <3> DEFINE bs == {top.bus}
      <3>1. d \in FunctionsOn(bs)
        OBVIOUS
      <3> HIDE DEF bs
      <3>2. FunctionsOn(bs) \subseteq Addr
        BY <1>1, FunctionsAre
      <3>3. d[1] \in bs
        BY <1>1, <3>1, FunctionsAre
      <3> QED BY <3>1, <3>2, <3>3 DEF bs
    <2>2. d = <<d[1], d[2], d[3]>> /\ Pos(d) \div 8 = d[2] /\ Pos(d) % 8 = d[3] /\ Pos(d) \in Nat
      BY <2>1, AddrIs
    <2> HIDE DEF Pos
    <2> QED BY <2>1, <2>2
  <1>8. NextFunc = c
    BY <1>5, <1>6, <1>7
  <1>9. \A d \in FunctionsOn({top.bus}) : Pos(d) > top.pos => Pos(d) \in S
    BY <1>2
  <1> HIDE DEF Pos
  <1> QED BY <1>4, <1>6, <1>7, <1>8, <1>9

\* The entries of bus b are those of bus k but for entry i, which e replaces.
Kept(k, b, i, e) ==
    /\ SlistElems(b.dev_list) \subseteq Entries(k) \cup {e}
    /\ {d.name : d \in SlistElems(b.dev_list)} = Names(k)
    /\ buses[k].dev_list[i] \in Entries(k) /\ buses[k].dev_list[i].name = e.name

\* Writing over an entry adds no name.
LEMMA RewrittenElems ==
    ASSUME BusTyped, NEW k \in 1..Len(buses), NEW b, NEW i \in 1..Len(buses[k].dev_list),
           NEW e \in Entry, Rewritten(k, b, i, e), NamesDiffer(buses[k].dev_list)
    PROVE  Kept(k, b, i, e)
  <1>1. /\ Len(b.dev_list) = Len(buses[k].dev_list) /\ b.dev_list[i] = e
        /\ \A j \in 1..Len(b.dev_list) : j # i => b.dev_list[j] = buses[k].dev_list[j]
        /\ \A j \in 1..Len(b.dev_list) : b.dev_list[j].name = buses[k].dev_list[j].name
    <2>1. NamesDiffer(b.dev_list)
      BY RewrittenDiffers
    <2>2. Len(b.dev_list) = Len(buses[k].dev_list)
      BY RewrittenDiffers
    <2>3. b.dev_list[i] = e
      BY RewrittenDiffers
    <2>4. \A j \in 1..Len(b.dev_list) : j # i => b.dev_list[j] = buses[k].dev_list[j]
      BY RewrittenDiffers
    <2>5. \A j \in 1..Len(b.dev_list) : b.dev_list[j].name = buses[k].dev_list[j].name
      BY RewrittenDiffers
    <2> QED BY <2>2, <2>3, <2>4, <2>5
  <1> DEFINE l == buses[k].dev_list
             m == b.dev_list
  <1>2. l[i].name = e.name
    BY DEF Rewritten
  <1>3. Entries(k) = {l[j] : j \in 1..Len(l)} /\ SlistElems(m) = {m[j] : j \in 1..Len(l)}
    BY <1>1 DEF Entries, SlistElems
  <1>4. Len(m) = Len(l) /\ m[i] = e /\ i \in 1..Len(l)
        /\ \A j \in 1..Len(l) : (j # i => m[j] = l[j]) /\ m[j].name = l[j].name
    BY <1>1
  <1> HIDE DEF l, m
  <1>5. SlistElems(m) \subseteq Entries(k) \cup {e} /\ l[i] \in Entries(k)
    BY <1>3, <1>4
  <1>6. {d.name : d \in SlistElems(m)} = {d.name : d \in Entries(k)}
    BY <1>3, <1>4
  <1> QED BY <1>2, <1>5, <1>6 DEF l, m, Names, Kept

\* The resources of an entry are new ones in front of what it held: of a new entry
\* the memory, of an old one what the entry of that name in L held.
Gathered(e, r, L) ==
    \/ \E rest \in {<<>>, <<Junk>>} : e.res = r \o rest
    \/ \E d \in L : d.name = e.name /\ e.res = r \o d.res

\* found_dev leaves an entry of the function's name with the function's address.
LEMMA FoundStep ==
    ASSUME BusTyped, Numbered, ScanTyped, bus_fromname(PciBus) # {}, NEW a \in Addr,
           NEW r \in Seq(Res), found_dev(a, r), UNCHANGED <<buses_count, stale, lost>>,
           NEW k, k = TheBus(PciBus)
    PROVE  /\ BusTyped' /\ Numbered' /\ bus_fromname(PciBus)' # {} /\ TheBus(PciBus)' = k
           /\ \E e \in Entry :
                 /\ e.addr = a /\ e.name = pci_name(a)
                 /\ Entries(k)' \subseteq Entries(k) \cup {e}
                 /\ Names(k)' = Names(k) \cup {pci_name(a)}
                 /\ Gathered(e, r, Entries(k))
  <1>1. Len(buses) \in Nat /\ plan \in Plan /\ machine \in plan.machines
    BY DEF BusTyped, ScanTyped
  <1>2. pci_getint(a) \subseteq Int
    BY <1>1, FieldsAre
  <1>3. k \in 1..Len(buses)
    BY <1>1, TheBusIs
  <1>4a. PICK b \in BusT, e \in Entry : Written(k, b, e, a, r)
    BY <1>2, FoundPuts
  <1>4. /\ Put(k, b) /\ e.addr = a /\ e.name = pci_name(a)
        /\ \/ Grown(k, b, e) /\ \E rest \in {<<>>, <<Junk>>} : e.res = r \o rest
           \/ \E i \in 1..Len(buses[k].dev_list) :
                 Rewritten(k, b, i, e) /\ e.res = r \o buses[k].dev_list[i].res
    BY <1>4a DEF Written
  <1>5. Touched(k)
    BY <1>4 DEF Touched
  <1>6. BusTyped' /\ Numbered'
    <2>1. lost' \in BOOLEAN
      BY DEF BusTyped
    <2> QED BY <1>3, <1>5, <2>1, TouchedTyped, TouchedNumbered
  <1>7. /\ bus_fromname(PciBus)' = bus_fromname(PciBus) /\ TheBus(PciBus)' = k
        /\ buses'[k] = b
    BY <1>3, <1>4, PutKeeps
  <1>8. Entries(k)' = SlistElems(b.dev_list) /\ Entries(k) = SlistElems(buses[k].dev_list)
    BY <1>7 DEF Entries
  <1>9. NamesDiffer(buses[k].dev_list)
    BY <1>3 DEF Numbered
  <1>10. Names(k)' = {d.name : d \in Entries(k)'} /\ Names(k) = {d.name : d \in Entries(k)}
    BY DEF Names
  <1>11. /\ Entries(k)' \subseteq Entries(k) \cup {e} /\ Names(k)' = Names(k) \cup {e.name}
         /\ Gathered(e, r, Entries(k))
    <2>1. CASE Grown(k, b, e) /\ \E rest \in {<<>>, <<Junk>>} : e.res = r \o rest
      <3>1. SlistElems(b.dev_list) = Entries(k) \cup {e}
        BY <1>3, <1>9, <2>1, GrownDiffers
      <3>2. Gathered(e, r, Entries(k))
        BY <2>1 DEF Gathered
      <3> QED BY <2>1, <3>1, <3>2, <1>8, <1>10
    <2>2. ASSUME NEW i \in 1..Len(buses[k].dev_list), Rewritten(k, b, i, e),
                 e.res = r \o buses[k].dev_list[i].res
          PROVE  /\ Entries(k)' \subseteq Entries(k) \cup {e} /\ Names(k)' = Names(k) \cup {e.name}
                 /\ Gathered(e, r, Entries(k))
      <3>1. /\ SlistElems(b.dev_list) \subseteq Entries(k) \cup {e}
            /\ {d.name : d \in SlistElems(b.dev_list)} = Names(k)
            /\ buses[k].dev_list[i] \in Entries(k) /\ buses[k].dev_list[i].name = e.name
        <4>1. Rewritten(k, b, i, e)
          BY <2>2
        <4>2. Kept(k, b, i, e)
          BY <1>3, <1>9, <4>1, RewrittenElems
        <4> QED BY <4>2 DEF Kept
      <3>2. e.name \in Names(k)
        BY <3>1, <1>10
      <3>3. Gathered(e, r, Entries(k))
        <4>1. PICK d : d = buses[k].dev_list[i]
          OBVIOUS
        <4>2. d \in Entries(k) /\ d.name = e.name /\ e.res = r \o d.res
          BY <2>2, <3>1, <4>1
        <4> QED BY <4>2 DEF Gathered
      <3> QED BY <3>1, <3>2, <3>3, <1>8, <1>10
    <2> QED BY <1>4, <2>1, <2>2
  <1> QED BY <1>4, <1>6, <1>7, <1>11
-----------------------------------------------------------------------------
(* The stack of check_bus. *)

\* The top of the stack and what is below it.
LEMMA StackFront ==
    ASSUME NEW s \in Seq(Frame), s # <<>>
    PROVE  /\ Len(s) \in Nat /\ Len(s) >= 1 /\ Last(s) = s[Len(s)] /\ s[Len(s)] \in Frame
           /\ Front(s) \in Seq(Frame) /\ Len(Front(s)) = Len(s) - 1
           /\ \A i \in 1..(Len(s) - 1) : Front(s)[i] = s[i]
  <1>1. Len(s) \in Nat /\ Len(s) >= 1
    OBVIOUS
  <1>2. Last(s) = s[Len(s)] /\ s[Len(s)] \in Frame
    BY <1>1 DEF Last
  <1>3. /\ Front(s) \in Seq(Frame) /\ Len(Front(s)) = Len(s) - 1
        /\ \A i \in 1..(Len(s) - 1) : Front(s)[i] = s[i]
    <2> DEFINE n == Len(s) - 1
    <2>1. n \in Nat /\ n <= Len(s)
      BY <1>1
    <2>2. Front(s) = SubSeq(s, 1, n)
      BY DEF Front
    <2> HIDE DEF n
    <2>3. SubSeq(s, 1, n) \in Seq(Frame) /\ Len(SubSeq(s, 1, n)) = n
      BY <2>1
    <2>4. \A i \in 1..n : SubSeq(s, 1, n)[i] = s[i]
      BY <2>1
    <2> QED BY <2>2, <2>3, <2>4 DEF n
  <1> QED BY <1>1, <1>2, <1>3

\* The frame on top is replaced, and another may be put above it.
Replaced(s, at, t) == t = Front(s) \o <<at>> \o <<>>
Pushed(s, at, f, t) == t = Front(s) \o <<at>> \o <<f>>
Atop(s, at, t) ==
    t \in Seq(Frame) /\ t[Len(s)] = at /\ \A i \in 1..(Len(s) - 1) : t[i] = s[i]

\* What the stack is then.
LEMMA StackPushed ==
    ASSUME NEW s \in Seq(Frame), s # <<>>, NEW at \in Frame, NEW f \in Frame, NEW t
    PROVE  /\ Replaced(s, at, t) => Atop(s, at, t) /\ Len(t) = Len(s)
           /\ Pushed(s, at, f, t) => Atop(s, at, t) /\ Len(t) = Len(s) + 1 /\ t[Len(s) + 1] = f
  <1>0. PICK n : n = Len(s)
    OBVIOUS
  <1> DEFINE u == Front(s)
  <1>1. /\ n \in Nat /\ n >= 1 /\ u \in Seq(Frame) /\ Len(u) = n - 1
        /\ \A i \in 1..(n - 1) : u[i] = s[i]
    BY <1>0, StackFront
  <1> HIDE DEF u
  <1> DEFINE v == u \o <<at>>
  <1>2. v \in Seq(Frame) /\ Len(v) = n /\ v[n] = at /\ \A i \in 1..(n - 1) : v[i] = u[i]
    BY <1>1
  <1> HIDE DEF v
  <1>3. v \o <<>> = v
    BY <1>2
  <1> DEFINE w == v \o <<f>>
  <1>4. w \in Seq(Frame) /\ Len(w) = n + 1 /\ w[n + 1] = f /\ \A i \in 1..n : w[i] = v[i]
    BY <1>1, <1>2
  <1> HIDE DEF w
  <1>5. \A i \in 1..(n - 1) : v[i] = s[i] /\ w[i] = s[i]
    BY <1>1, <1>2, <1>4
  <1>6. w[n] = at
    BY <1>1, <1>2, <1>4
  <1>7. ASSUME Replaced(s, at, t)
        PROVE  Atop(s, at, t) /\ Len(t) = Len(s)
    <2>1. t = v
      BY <1>3, <1>7 DEF Replaced, u, v
    <2> QED BY <2>1, <1>0, <1>2, <1>5 DEF Atop
  <1>8. ASSUME Pushed(s, at, f, t)
        PROVE  Atop(s, at, t) /\ Len(t) = Len(s) + 1 /\ t[Len(s) + 1] = f
    <2>1. t = w
      BY <1>8 DEF Pushed, u, v, w
    <2> QED BY <2>1, <1>0, <1>4, <1>5, <1>6 DEF Atop
  <1> QED BY <1>7, <1>8
-----------------------------------------------------------------------------
(***************************************************************************)
(* What a scan has done, for the buses td still to check, the stack st of  *)
(* check_bus and the names N of the entries.  Every bridge leads to bus 6, *)
(* so bus 6 is above whatever bus the stack starts with, and a bridge that *)
(* is behind has had bus 6 checked to its end.                             *)
(***************************************************************************)
Past(td, st) == Roots \ (td \cup IF st = <<>> THEN {} ELSE {st[1].bus})
Behind(td, st, a) ==
    \/ a[1] \in Past(td, st)
    \/ /\ st # <<>> /\ a[1] = st[1].bus
       /\ Pos(a) < st[1].pos \/ (Pos(a) = st[1].pos /\ Len(st) = 1)

Chain(td, st) ==
    /\ td \subseteq Roots /\ (st # <<>> => st[1].bus \in Roots \ td)
    /\ \A j \in 2..Len(st) : st[j].bus = 6
    /\ \A j \in 1..(Len(st) - 1) :
          \E a \in FunctionsOn({st[j].bus}) : Bridge(a) /\ Pos(a) = st[j].pos
AllNamed(bs, N) == \A a \in FunctionsOn(bs) : pci_name(a) \in N
Checked(st, N) ==
    \A j \in 1..Len(st) : \A a \in FunctionsOn({st[j].bus}) :
        Pos(a) <= st[j].pos => pci_name(a) \in N
Complete(td, st, N) ==
    /\ AllNamed(Past(td, st), N)
    /\ Checked(st, N)
    /\ \A a \in FunctionsOn(Roots) : Bridge(a) /\ Behind(td, st, a) => AllNamed({6}, N)
OfName(x, name) == \E a \in Reached : pci_name(a) = name /\ <<x>> = genres(a)
ResOf(s, name) == \A i \in 1..Len(s) : (s[i] = Junk /\ i = Len(s)) \/ OfName(s[i], name)
Sound(L) ==
    \A e \in L : e.addr \in Reached /\ pci_name(e.addr) = e.name /\ ResOf(e.res, e.name)

ScanInv ==
    scan.st \in {"scanning", "done"} =>
        /\ bus_fromname(PciBus) # {}
        /\ Chain(scan.todo, scan.stack)
        /\ Complete(scan.todo, scan.stack, Names(TheBus(PciBus)))
        /\ Sound(Entries(TheBus(PciBus)))
        /\ scan.st = "done" => scan.todo = {} /\ scan.stack = <<>>

\* A scan begins with the roots and no entry.
LEMMA ScanStarts ==
    ASSUME plan \in Plan, machine \in plan.machines
    PROVE  /\ scan_buses \subseteq Below(256)
           /\ Chain(scan_buses, <<>>) /\ Complete(scan_buses, <<>>, {})
  <1>1. scan_buses = Roots /\ scan_buses \subseteq Below(256)
    <2>1. \A x : x \in Below(8) => x \in Below(256)
      BY BelowIs
    <2>2. 0 \in Below(256)
      BY BelowIs
    <2>3. CASE ~Multi(<<0, 0, 0>>)
      BY <2>2, <2>3 DEF scan_buses, Roots
    <2>4. CASE Multi(<<0, 0, 0>>)
      <3>1. scan_buses = {f \in Below(8) : <<0, 0, f>> \in DOMAIN machine}
        BY <2>4, ReadIs DEF scan_buses
      <3>2. \A b \in DOMAIN machine :
              b = <<b[1], b[2], b[3]>> /\ b[3] \in Below(8) /\ (b[1] = 0 /\ b[2] = 0 => b = <<0, 0, b[3]>>)
        <4> TAKE b \in DOMAIN machine
        <4>1. b \in Below(256) \X Below(32) \X Below(8)
          BY MachineOf DEF Addr
        <4> QED BY <4>1
      <3>3. Roots = {b[3] : b \in {c \in DOMAIN machine : c[1] = 0 /\ c[2] = 0}}
        BY <2>4 DEF Roots
      <3>4. ASSUME NEW f \in scan_buses PROVE f \in Roots
        <4>1. <<0, 0, f>> \in DOMAIN machine
          BY <3>1, <3>4
        <4> QED BY <4>1, <3>3
      <3>5. ASSUME NEW f \in Roots PROVE f \in scan_buses
        <4>1. PICK b \in DOMAIN machine : b[1] = 0 /\ b[2] = 0 /\ f = b[3]
          BY <3>3, <3>5
        <4>2. <<0, 0, f>> \in DOMAIN machine /\ f \in Below(8)
          BY <3>2, <4>1
        <4> QED BY <3>1, <4>2
      <3> QED BY <2>1, <3>1, <3>4, <3>5
    <2> QED BY <2>3, <2>4
  <1>2. Chain(scan_buses, <<>>)
    BY <1>1 DEF Chain
  <1>3. Past(scan_buses, <<>>) = {}
    BY <1>1 DEF Past
  <1>4. Complete(scan_buses, <<>>, {})
    BY <1>3 DEF Complete, AllNamed, Checked, Behind, FunctionsOn
  <1> QED BY <1>1, <1>2, <1>4

\* It goes on with the next root.
LEMMA ScanNextBus ==
    ASSUME plan \in Plan, machine \in plan.machines, NEW td, NEW N, NEW b \in td,
           Chain(td, <<>>), Complete(td, <<>>, N), NEW st, st = <<[bus |-> b, pos |-> -1]>>
    PROVE  Chain(td \ {b}, st) /\ Complete(td \ {b}, st, N)
  <1>1. Len(st) = 1 /\ st # <<>> /\ st[1].bus = b /\ st[1].pos = -1
    OBVIOUS
  <1>2. td \subseteq Roots
    BY DEF Chain
  <1>3. Chain(td \ {b}, st)
    BY <1>1, <1>2 DEF Chain
  <1>4. Past(td \ {b}, st) = Past(td, <<>>)
    BY <1>1, <1>2 DEF Past
  <1>5. \A a : a \in FunctionsOn(Roots) \/ a \in FunctionsOn({b}) => Pos(a) \in Nat
    BY FunctionsAre, AddrIs
  <1>6. \A a \in FunctionsOn(Roots) : Behind(td \ {b}, st, a) => Behind(td, <<>>, a)
    BY <1>1, <1>4, <1>5 DEF Behind
  <1>7. Checked(st, N)
    <2> SUFFICES ASSUME NEW j \in 1..Len(st), NEW a \in FunctionsOn({st[j].bus}), Pos(a) <= st[j].pos
                 PROVE  FALSE
      BY DEF Checked
    <2>1. j = 1
      BY <1>1
    <2>2. Pos(a) \in Nat
      BY <2>1, <1>1, <1>5
    <2> QED BY <2>1, <2>2, <1>1
  <1> QED BY <1>3, <1>4, <1>6, <1>7 DEF Complete

\* A bus that has been checked to its end is behind; if it was above another, then
\* so is the bridge that led to it.
LEMMA ScanBusEnds ==
    ASSUME plan \in Plan, machine \in plan.machines, NEW td, NEW N, NEW st \in Seq(Frame),
           st # <<>>, Chain(td, st), Complete(td, st, N),
           check_dev(Last(st).bus, Last(st).pos) = {}, NEW t, t = Front(st)
    PROVE  Chain(td, t) /\ Complete(td, t, N)
  <1> DEFINE n == Len(st)
  <1>1. /\ n \in Nat /\ n >= 1 /\ Last(st) = st[n] /\ st[n].pos \in Int
        /\ t \in Seq(Frame) /\ Len(t) = n - 1 /\ \A i \in 1..(n - 1) : t[i] = st[i]
    <2>1. n \in Nat /\ n >= 1 /\ Last(st) = st[n] /\ st[n] \in Frame
      BY StackFront
    <2>2. t \in Seq(Frame) /\ Len(t) = n - 1
      BY StackFront
    <2>3. \A i \in 1..(n - 1) : t[i] = st[i]
      BY StackFront
    <2>4. st[n].pos \in Int
      BY <2>1 DEF Frame
    <2> HIDE DEF n
    <2> QED BY <2>1, <2>2, <2>3, <2>4
  <1>2. \A a \in FunctionsOn({st[n].bus}) : Pos(a) <= st[n].pos
    <2>1. \A a \in FunctionsOn({st[n].bus}) : ~(Pos(a) > st[n].pos)
      BY <1>1, CheckDevIs
    <2>2. \A a \in FunctionsOn({st[n].bus}) : Pos(a) \in Nat
      BY FunctionsAre, AddrIs
    <2>3. st[n].pos \in Int
      BY <1>1
    <2> HIDE DEF Pos, n
    <2> TAKE a \in FunctionsOn({st[n].bus})
    <2>4. ~(Pos(a) > st[n].pos) /\ Pos(a) \in Nat
      BY <2>1, <2>2
    <2> QED BY <2>3, <2>4
  <1>3. AllNamed({st[n].bus}, N)
    BY <1>1, <1>2 DEF Complete, Checked, AllNamed
  <1>4. \A j \in 2..n : st[j].bus = 6
    BY DEF Chain
  <1>5. td \subseteq Roots /\ st[1].bus \in Roots \ td
    BY DEF Chain
  <1> HIDE DEF n
  <1>6. CASE n = 1
    <2>1. t = <<>>
      BY <1>1, <1>6
    <2>2. Past(td, t) = Past(td, st) \cup {st[1].bus}
      BY <2>1, <1>5 DEF Past
    <2>3. Chain(td, t)
      BY <2>1, <1>5 DEF Chain
    <2>4. AllNamed(Past(td, t), N)
      <3> SUFFICES ASSUME NEW a \in FunctionsOn(Past(td, t)) PROVE pci_name(a) \in N
        BY DEF AllNamed
      <3>1. a[1] \in Past(td, t) /\ a \in FunctionsOn({a[1]})
        BY FunctionsAre
      <3>2. CASE a[1] \in Past(td, st)
        BY <3>1, <3>2, FunctionsAre DEF Complete, AllNamed
      <3>3. CASE a[1] = st[1].bus
        BY <3>1, <3>3, <1>3, <1>6 DEF AllNamed
      <3> QED BY <3>1, <3>2, <3>3, <2>2
    <2>5. \A a \in FunctionsOn(Roots) : Behind(td, t, a) => Behind(td, st, a)
      <3> SUFFICES ASSUME NEW a \in FunctionsOn(Roots), Behind(td, t, a) PROVE Behind(td, st, a)
        OBVIOUS
      <3>1. a[1] \in Past(td, t)
        BY <2>1 DEF Behind
      <3>2. CASE a[1] \in Past(td, st)
        BY <3>2 DEF Behind
      <3>3. CASE a[1] = st[1].bus
        <4>1. a \in FunctionsOn({st[1].bus}) /\ Pos(a) \in Nat
          BY <3>3, FunctionsAre, AddrIs
        <4>2. Pos(a) <= st[1].pos
          BY <4>1, <1>2, <1>6
        <4>3. Pos(a) < st[1].pos \/ Pos(a) = st[1].pos
          BY <4>1, <4>2, <1>1, <1>6
        <4> QED BY <3>3, <4>3, <1>6 DEF Behind, n
      <3> QED BY <3>1, <3>2, <3>3, <2>2
    <2>6. Checked(t, N)
      BY <2>1 DEF Checked
    <2> QED BY <2>3, <2>4, <2>5, <2>6 DEF Complete
  <1>7. CASE n # 1
    <2>1. t # <<>> /\ t[1] = st[1] /\ n >= 2
      BY <1>1, <1>7
    <2>2. Past(td, t) = Past(td, st)
      BY <2>1 DEF Past
    <2>3. AllNamed({6}, N)
      <3>1. n \in 2..n
        BY <1>1, <2>1
      <3>2. st[n].bus = 6
        BY <3>1, <1>4
      <3> QED BY <3>2, <1>3
    <2>4. Chain(td, t)
      <3>1. \A j \in 2..Len(t) : t[j].bus = 6
        BY <1>1, <1>4
      <3>2. \A j \in 1..(Len(t) - 1) : \E a \in FunctionsOn({t[j].bus}) : Bridge(a) /\ Pos(a) = t[j].pos
        <4> TAKE j \in 1..(Len(t) - 1)
        <4>1. j \in 1..(n - 1) /\ t[j] = st[j]
          BY <1>1
        <4> QED BY <4>1 DEF Chain, n
      <3> QED BY <3>1, <3>2, <2>1, <1>5 DEF Chain
    <2>5. Checked(t, N)
      <3> SUFFICES ASSUME NEW j \in 1..Len(t), NEW a \in FunctionsOn({t[j].bus}), Pos(a) <= t[j].pos
                   PROVE  pci_name(a) \in N
        BY DEF Checked
      <3>1. j \in 1..n /\ t[j] = st[j]
        BY <1>1
      <3> QED BY <3>1 DEF Complete, Checked, n
    <2> QED BY <2>2, <2>3, <2>4, <2>5 DEF Complete
  <1> QED BY <1>6, <1>7

\* The next function of the bus on top is found; a bridge puts bus 6 above it.
Found(st, a) ==
    /\ a \in FunctionsOn({st[Len(st)].bus}) /\ Pos(a) > st[Len(st)].pos
    /\ \A c \in FunctionsOn({st[Len(st)].bus}) :
          /\ Pos(c) \in Nat
          /\ Pos(c) > st[Len(st)].pos => Pos(a) <= Pos(c)
          /\ Pos(c) = Pos(a) => c = a
Stacked(st, a, t) ==
    /\ Atop(st, [bus |-> a[1], pos |-> Pos(a)], t)
    /\ \/ ~Bridge(a) /\ Len(t) = Len(st)
       \/ Bridge(a) /\ Len(t) = Len(st) + 1 /\ t[Len(st) + 1] = [bus |-> 6, pos |-> -1]

\* What has been done then.
LEMMA ScanFound ==
    ASSUME plan \in Plan, machine \in plan.machines, NEW td, NEW N, NEW st \in Seq(Frame),
           st # <<>>, Chain(td, st), Complete(td, st, N), NEW a, Found(st, a),
           NEW M, M = N \cup {pci_name(a)}, NEW t, Stacked(st, a, t)
    PROVE  Chain(td, t) /\ Complete(td, t, M)
  <1>0. PICK n : n = Len(st)
    OBVIOUS
  <1>a. a \in FunctionsOn({st[n].bus}) /\ Pos(a) > st[n].pos
    BY <1>0 DEF Found
  <1>b. \A c \in FunctionsOn({st[n].bus}) :
          /\ Pos(c) \in Nat
          /\ Pos(c) > st[n].pos => Pos(a) <= Pos(c)
          /\ Pos(c) = Pos(a) => c = a
    BY <1>0 DEF Found
  <1>c. /\ t \in Seq(Frame) /\ t[n] = [bus |-> a[1], pos |-> Pos(a)]
        /\ \A i \in 1..(n - 1) : t[i] = st[i]
    BY <1>0 DEF Stacked, Atop
  <1>d. \/ ~Bridge(a) /\ Len(t) = n
        \/ Bridge(a) /\ Len(t) = n + 1 /\ t[n + 1] = [bus |-> 6, pos |-> -1]
    BY <1>0 DEF Stacked
  <1> USE <1>0, <1>a, <1>b, <1>c, <1>d
  <1> HIDE DEF Pos
  <1>1. n \in Nat /\ n >= 1 /\ n \in 1..n /\ st[n].pos \in Int
    <2>1. n \in Nat /\ n >= 1 /\ st[n] \in Frame
      BY StackFront
    <2>2. st[n].pos \in Int
      BY <2>1 DEF Frame
    <2> QED BY <2>1, <2>2
  <1>2. a[1] = st[n].bus
    <2> DEFINE bs == {st[n].bus}
    <2>1. a \in FunctionsOn(bs)
      OBVIOUS
    <2> HIDE DEF bs
    <2>2. a[1] \in bs
      BY <2>1, FunctionsAre
    <2> QED BY <2>2 DEF bs
  <1>3. t[n].bus = st[n].bus /\ t[n].pos = Pos(a) /\ Pos(a) \in Nat
    <2>1. t[n].bus = a[1] /\ t[n].pos = Pos(a)
      OBVIOUS
    <2>2. Pos(a) \in Nat
      OBVIOUS
    <2> QED BY <2>1, <2>2, <1>2
  <1>4. \A i \in 1..n : t[i].bus = st[i].bus
    <2> TAKE i \in 1..n
    <2>1. i = n \/ i \in 1..(n - 1)
      BY <1>1
    <2> QED BY <2>1, <1>3
  <1>5. t # <<>> /\ t[1].bus = st[1].bus /\ Past(td, t) = Past(td, st)
    <2>1. t # <<>> /\ 1 \in 1..n
      BY <1>1
    <2> QED BY <2>1, <1>4 DEF Past
  <1>6. Chain(td, t)
    <2>1. \A j \in 2..Len(t) : t[j].bus = 6
      <3> TAKE j \in 2..Len(t)
      <3>1. CASE j \in 2..n
        <4>1. j \in 1..n /\ st[j].bus = 6
          BY <3>1, <1>1 DEF Chain
        <4> QED BY <4>1, <1>4
      <3>2. CASE j \notin 2..n
        <4>1. j = n + 1 /\ Len(t) = n + 1
          BY <3>2, <1>1
        <4>2. t[j] = [bus |-> 6, pos |-> -1]
          BY <4>1
        <4> QED BY <4>2
      <3> QED BY <3>1, <3>2
    <2>2. \A j \in 1..(Len(t) - 1) : \E c \in FunctionsOn({t[j].bus}) : Bridge(c) /\ Pos(c) = t[j].pos
      <3> TAKE j \in 1..(Len(t) - 1)
      <3>1. CASE j \in 1..(n - 1)
        <4>1. t[j] = st[j] /\ j \in 1..(Len(st) - 1)
          BY <3>1
        <4> QED BY <4>1 DEF Chain
      <3>2. CASE j \notin 1..(n - 1)
        <4>1. j = n /\ Bridge(a)
          BY <3>2, <1>1
        <4> QED BY <4>1, <1>3
      <3> QED BY <3>1, <3>2
    <2> QED BY <2>1, <2>2, <1>5 DEF Chain
  <1>7. AllNamed(Past(td, t), M)
    BY <1>5 DEF Complete, AllNamed
  <1>8. Checked(t, M)
    <2> SUFFICES ASSUME NEW j \in 1..Len(t), NEW c \in FunctionsOn({t[j].bus}), Pos(c) <= t[j].pos
                 PROVE  pci_name(c) \in M
      BY DEF Checked
    <2>1. CASE j \in 1..(n - 1)
      <3>1. t[j] = st[j] /\ j \in 1..Len(st)
        BY <2>1, <1>1
      <3>2. pci_name(c) \in N
        BY <3>1 DEF Complete, Checked
      <3> QED BY <3>2
    <2>2. CASE j = n
      <3>1. c \in FunctionsOn({st[n].bus}) /\ Pos(c) <= Pos(a) /\ Pos(c) \in Nat
        BY <2>2, <1>3
      <3>2. CASE Pos(c) > st[n].pos
        <4>1. Pos(a) <= Pos(c)
          BY <3>1, <3>2
        <4>2. Pos(c) = Pos(a)
          BY <4>1, <3>1, <1>3
        <4> QED BY <4>2, <3>1
      <3>3. CASE ~(Pos(c) > st[n].pos)
        <4>1. Pos(c) <= st[n].pos /\ n \in 1..Len(st)
          BY <3>1, <3>3, <1>1
        <4>2. pci_name(c) \in N
          BY <4>1, <3>1 DEF Complete, Checked
        <4> QED BY <4>2
      <3> QED BY <3>2, <3>3
    <2>3. CASE j = n + 1
      <3>1. t[j].pos = -1 /\ t[j].bus = 6
        BY <2>3, <1>1
      <3>2. Pos(c) \in Nat
        BY FunctionsAre, AddrIs
      <3> QED BY <3>1, <3>2
    <2> QED BY <2>1, <2>2, <2>3, <1>1
  <1>9. ASSUME NEW c \in FunctionsOn(Roots), Bridge(c), Behind(td, t, c)
        PROVE  Behind(td, st, c)
    <2>1. CASE c[1] \in Past(td, t)
      BY <2>1, <1>5 DEF Behind
    <2>2. CASE c[1] \notin Past(td, t)
      <3>1. /\ c[1] = st[1].bus
            /\ Pos(c) < t[1].pos \/ (Pos(c) = t[1].pos /\ Len(t) = 1)
        BY <2>2, <1>5, <1>9 DEF Behind
      <3>2. CASE n # 1
        <4>1. t[1] = st[1] /\ Len(t) # 1
          BY <3>2, <1>1
        <4> QED BY <4>1, <3>1 DEF Behind
      <3>3. CASE n = 1
        <4>1. t[1].pos = Pos(a) /\ c \in FunctionsOn({st[n].bus})
          BY <3>1, <3>3, <1>3, FunctionsAre
        <4>2. Pos(c) \in Nat
          BY <4>1
        <4>3. CASE Pos(c) < Pos(a)
          <5>1. ~(Pos(c) > st[n].pos)
            <6>1. Pos(c) > st[n].pos => Pos(a) <= Pos(c)
              BY <4>1
            <6>2. ~(Pos(a) <= Pos(c))
              BY <4>2, <4>3, <1>3
            <6> QED BY <6>1, <6>2
          <5>2. Pos(c) < st[1].pos \/ (Pos(c) = st[1].pos /\ Len(st) = 1)
            BY <5>1, <4>2, <1>1, <3>3
          <5> QED BY <5>2, <3>1 DEF Behind
        <4>4. CASE Pos(c) = Pos(a) /\ Len(t) = 1
          <5>1. c = a
            BY <4>1, <4>4
          <5>2. ~Bridge(a)
            BY <4>4, <3>3
          <5> QED BY <5>1, <5>2, <1>9
        <4> QED BY <3>1, <4>1, <4>3, <4>4
      <3> QED BY <3>2, <3>3
    <2> QED BY <2>1, <2>2
  <1>10. ASSUME NEW c \in FunctionsOn(Roots), Bridge(c), Behind(td, t, c)
         PROVE  AllNamed({6}, M)
    <2>1. AllNamed({6}, N)
      BY <1>9, <1>10 DEF Complete
    <2> QED BY <2>1 DEF AllNamed
  <1> QED BY <1>6, <1>7, <1>8, <1>10 DEF Complete

\* Resources of a name put in front of a list leave the end where it was.
LEMMA ResFront ==
    ASSUME NEW r \in Seq(Res), NEW s \in Seq(Res), NEW name, ResOf(s, name),
           \A x \in SlistElems(r) : OfName(x, name)
    PROVE  ResOf(r \o s, name)
  <1>1. PICK m, n, t : m = Len(r) /\ n = Len(s) /\ t = r \o s
    OBVIOUS
  <1>2. m \in Nat /\ n \in Nat /\ Len(t) = m + n
    BY <1>1
  <1>3. \A i \in 1..(m + n) : t[i] = IF i <= m THEN r[i] ELSE s[i - m]
    BY <1>1
  <1> SUFFICES ASSUME NEW i \in 1..(m + n)
               PROVE  (t[i] = Junk /\ i = m + n) \/ OfName(t[i], name)
    BY <1>1, <1>2 DEF ResOf
  <1>4. CASE i <= m
    <2>1. i \in 1..m /\ t[i] = r[i]
      BY <1>2, <1>3, <1>4
    <2>2. r[i] \in SlistElems(r)
      BY <1>1, <2>1 DEF SlistElems
    <2> QED BY <2>1, <2>2
  <1>5. CASE ~(i <= m)
    <2>1. i - m \in 1..n /\ t[i] = s[i - m] /\ (i - m = n => i = m + n)
      BY <1>2, <1>3, <1>5
    <2>2. (s[i - m] = Junk /\ i - m = n) \/ OfName(s[i - m], name)
      BY <1>1, <2>1 DEF ResOf
    <2> QED BY <2>1, <2>2
  <1> QED BY <1>4, <1>5

\* A function check_func is called for can be reached, so an entry stays one of
\* what can be reached.
LEMMA SoundStep ==
    ASSUME plan \in Plan, machine \in plan.machines, NEW td, NEW st \in Seq(Frame),
           st # <<>>, Chain(td, st), NEW n, n = Len(st), NEW a \in FunctionsOn({st[n].bus}),
           NEW L \in SUBSET Entry, NEW M, NEW e, NEW r \in Seq(Res), Sound(L), M \subseteq L \cup {e},
           e.addr = a, e.name = pci_name(a), r = Resources(a), Gathered(e, r, L)
    PROVE  Sound(M)
  <1>1. n \in Nat /\ n >= 1
    BY StackFront
  <1>2. st[1].bus \in Roots /\ \A j \in 2..n : st[j].bus = 6
    BY DEF Chain
  <1>3. a \in Reached
    <2> DEFINE bs == {st[1].bus}
               cs == IF \E b \in FunctionsOn(Roots) : Bridge(b) THEN Roots \cup {6} ELSE Roots
    <2>0. bs \subseteq Roots /\ Roots \subseteq cs /\ Reached = FunctionsOn(cs)
      BY <1>2 DEF Reached
    <2> HIDE DEF bs, cs
    <2>1. FunctionsOn(bs) \subseteq FunctionsOn(Roots) /\ FunctionsOn(Roots) \subseteq Reached
      BY <2>0, FunctionsAre
    <2>2. CASE n = 1
      BY <2>1, <2>2 DEF bs
    <2>3. CASE n # 1
      <3>1. 1 \in 1..(Len(st) - 1) /\ n \in 2..n
        BY <1>1, <2>3
      <3>2. PICK b \in FunctionsOn({st[1].bus}) : Bridge(b)
        BY <3>1 DEF Chain
      <3>3. b \in FunctionsOn(Roots)
        BY <2>1 DEF bs
      <3>4. {6} \subseteq cs
        BY <3>2, <3>3 DEF cs
      <3>5. FunctionsOn({6}) \subseteq FunctionsOn(cs)
        BY <3>4, FunctionsAre
      <3>6. st[n].bus = 6
        BY <3>1, <1>2
      <3> QED BY <3>5, <3>6, <2>0
    <2> QED BY <2>2, <2>3
  <1>4. ResOf(e.res, e.name)
    <2>1. \A x \in SlistElems(r) : OfName(x, e.name)
      BY <1>3, ResourcesAre DEF OfName
    <2>2. CASE \E rest \in {<<>>, <<Junk>>} : e.res = r \o rest
      <3>1. PICK rest \in {<<>>, <<Junk>>} : e.res = r \o rest
        BY <2>2
      <3>3. rest \in Seq(Res)
        BY Single
      <3>4. ResOf(rest, e.name)
        BY Single DEF ResOf
      <3> QED BY <2>1, <3>1, <3>3, <3>4, ResFront
    <2>3. CASE \E d \in L : d.name = e.name /\ e.res = r \o d.res
      <3>1. PICK d \in L : d.name = e.name /\ e.res = r \o d.res
        BY <2>3
      <3>2. d.res \in Seq(Res)
        BY DEF Entry
      <3>3. ResOf(d.res, e.name)
        BY <3>1 DEF Sound
      <3> QED BY <2>1, <3>1, <3>2, <3>3, ResFront
    <2> QED BY <2>2, <2>3 DEF Gathered
  <1>5. \A d \in L : d.addr \in Reached /\ pci_name(d.addr) = d.name /\ ResOf(d.res, d.name)
    BY DEF Sound
  <1> QED BY <1>3, <1>4, <1>5 DEF Sound

\* The machine stays what it is, and what is said of it with it.
LEMMA SameMachine ==
    ASSUME machine' = machine, NEW td, NEW st, NEW N, NEW L
    PROVE  /\ Chain(td, st)' <=> Chain(td, st)
           /\ Complete(td, st, N)' <=> Complete(td, st, N)
           /\ Sound(L)' <=> Sound(L)
  <1>1. \A a : pci_read32(a)' = pci_read32(a)
    BY DEF pci_read32
  <1>2. Roots' = Roots
    BY <1>1 DEF Roots, Multi, pcidev_gethdrtype
  <1>3. \A bs : FunctionsOn(bs)' = FunctionsOn(bs)
    BY DEF FunctionsOn
  <1>4. \A a : Bridge(a)' <=> Bridge(a)
    BY <1>1 DEF Bridge, pcidev_getdevice
  <1>5. \A a : genres(a)' = genres(a)
    BY <1>1 DEF genres
  <1>6. Reached' = Reached
    BY <1>2, <1>3, <1>4 DEF Reached
  <1>7. Chain(td, st)' <=> Chain(td, st)
    BY <1>2, <1>3, <1>4 DEF Chain
  <1>8. Complete(td, st, N)' <=> Complete(td, st, N)
    BY <1>2, <1>3, <1>4 DEF Complete, AllNamed, Past, Behind, Checked
  <1>9. Sound(L)' <=> Sound(L)
    BY <1>5, <1>6 DEF Sound, ResOf, OfName
  <1> QED BY <1>7, <1>8, <1>9

\* The invariant of the scan from its parts, in the state after a step.
LEMMA ScanInvHolds ==
    ASSUME machine' = machine, NEW td, NEW st, NEW k, NEW N, NEW L,
           scan'.todo = td, scan'.stack = st, bus_fromname(PciBus)' # {}, TheBus(PciBus)' = k,
           Names(k)' = N, Entries(k)' = L, Chain(td, st), Complete(td, st, N), Sound(L),
           scan'.st = "done" => td = {} /\ st = <<>>
    PROVE  ScanInv'
  <1>1. Chain(td, st)' /\ Complete(td, st, N)' /\ Sound(L)'
    BY SameMachine
  <1>2. Chain(scan.todo, scan.stack)'
    BY <1>1 DEF Chain
  <1>3. Names(TheBus(PciBus))' = N /\ Entries(TheBus(PciBus))' = L
    BY DEF Names, Entries
  <1>4. Complete(scan.todo, scan.stack, Names(TheBus(PciBus)))'
    BY <1>1, <1>3 DEF Complete, Past, Behind, Checked, AllNamed
  <1>5. Sound(Entries(TheBus(PciBus)))'
    BY <1>1, <1>3 DEF Sound
  <1> QED BY <1>2, <1>4, <1>5 DEF ScanInv

SysInv == BusTyped /\ Numbered /\ ScanTyped /\ ScanInv

\* At boot there is no bus and no scan.
LEMMA SystemBegins == SystemInit => SysInv
  <1> SUFFICES ASSUME SystemInit PROVE SysInv
    OBVIOUS
  <1>1. BusTyped
    <2>1. buses = <<>> /\ buses_count = 0 /\ stale = {} /\ lost = FALSE
      BY DEF SystemInit, BusInit
    <2>2. buses \in Seq(BusT) /\ buses_count \in Int
      BY <2>1
    <2>3. lost \in BOOLEAN /\ stale \subseteq Name
      BY <2>1
    <2> QED BY <2>2, <2>3 DEF BusTyped
  <1>2. Numbered
    <2>1. Len(buses) = 0 /\ buses_count = 0
      BY DEF SystemInit, BusInit
    <2> QED BY <2>1 DEF Numbered
  <1>3. scan = NoScan /\ scan.st = "idle"
    BY DEF SystemInit, PciInit, NoScan
  <1>4. scan \in [st : {"idle", "scanning", "done", "failed", "overflow"},
                 todo : SUBSET Below(256), stack : Seq(Frame)] /\ Len(scan.stack) = 0
    BY <1>3 DEF NoScan
  <1>5. ScanTyped
    <2>1. plan \in Plan /\ machine \in plan.machines /\ scans = 0 /\ hasisa = FALSE
      BY DEF SystemInit, PciInit
    <2>2. 0 <= MaxDepth
      BY MaxDepthAssumption
    <2> QED BY <1>3, <1>4, <2>1, <2>2 DEF ScanTyped
  <1> QED BY <1>1, <1>2, <1>3, <1>5 DEF SysInv, ScanInv

\* Nothing of the buses and the scan changes.
LEMMA StaysSame ==
    ASSUME SysInv, UNCHANGED <<bus_vars, pci_vars>>
    PROVE  SysInv'
  <1>1. UNCHANGED <<buses, buses_count, stale, lost, machine, scan, scans, hasisa, plan>>
    BY DEF bus_vars, pci_vars
  <1>2. BusTyped'
    BY <1>1 DEF SysInv, BusTyped
  <1>3. Numbered'
    BY <1>1 DEF SysInv, Numbered, NamesDiffer
  <1>4. ScanTyped'
    BY <1>1 DEF SysInv, ScanTyped
  <1>5. ScanInv'
    <2>1. CASE scan.st \in {"scanning", "done"}
      <3>1. PICK td, st, k, N, L :
              /\ td = scan.todo /\ st = scan.stack /\ k = TheBus(PciBus)
              /\ N = Names(k) /\ L = Entries(k)
        OBVIOUS
      <3>2. /\ bus_fromname(PciBus) # {} /\ Chain(td, st) /\ Complete(td, st, N) /\ Sound(L)
            /\ scan.st = "done" => td = {} /\ st = <<>>
        BY <2>1, <3>1 DEF SysInv, ScanInv
      <3>3. bus_fromname(PciBus)' # {} /\ TheBus(PciBus)' = k
        <4>1. bus_fromname(PciBus)' = bus_fromname(PciBus)
          BY <1>1 DEF bus_fromname
        <4> QED BY <4>1, <3>1, <3>2 DEF TheBus
      <3>4. Names(k)' = N /\ Entries(k)' = L
        BY <1>1, <3>1 DEF Names, Entries
      <3>5. machine' = machine /\ scan'.todo = td /\ scan'.stack = st
            /\ (scan'.st = "done" => td = {} /\ st = <<>>)
        BY <1>1, <3>1, <3>2
      <3> QED BY <3>2, <3>3, <3>4, <3>5, ScanInvHolds
    <2> QED BY <2>1, <1>1 DEF ScanInv
  <1> QED BY <1>2, <1>3, <1>4, <1>5 DEF SysInv

\* The calls of the drivers: each touches the entries of one bus, or registers or
\* unregisters one.
LEMMA BusCallSteps ==
    ASSUME BusTyped, NEW bs, bs \subseteq BusName, NEW ns, ns \subseteq EntryName,
           NEW ds, ds \subseteq Name, BusCalls(bs, ns, ds)
    PROVE  \/ \E name \in BusName : register_bus(name)
           \/ \E name \in BusName : unregister_bus(name)
           \/ UNCHANGED <<buses, buses_count, stale>> /\ lost' \in BOOLEAN
           \/ \E k \in 1..Len(buses) : Touched(k) /\ UNCHANGED <<buses_count, stale, lost>>
  <1>1. CASE \E b \in bs : register_bus(b) \/ unregister_bus(b)
    BY <1>1
  <1>2. CASE \E b \in bs : bus_fromname(b) # {} /\ bus_astray(TheBus(b))
    BY <1>2 DEF bus_astray
  <1>3. ASSUME NEW b \in bs, NEW name \in ns, bus_fromname(b) # {}, OnBus(TheBus(b)),
               UNCHANGED <<buses_count, stale, lost>>,
               \/ bus_adddev(TheBus(b), name)
               \/ bus_remdev(TheBus(b), name)
               \/ \E dname \in ds : bus_regdev(TheBus(b), name, dname)
               \/ \E dname \in ds : bus_unregdev(TheBus(b), name, dname)
        PROVE  \E k \in 1..Len(buses) : Touched(k) /\ UNCHANGED <<buses_count, stale, lost>>
    <2>1. PICK k : k = TheBus(b)
      OBVIOUS
    <2>2. k \in 1..Len(buses) /\ name \in EntryName
      BY <1>3, <2>1 DEF OnBus
    <2>3. CASE bus_adddev(k, name)
      <3>1. \E p \in BusT, e \in Entry :
              Put(k, p) /\ Grown(k, p, e) /\ e.dname \in stale \cup {NoName}
        BY <2>2, <2>3, AdddevPuts
      <3> QED BY <1>3, <2>2, <3>1 DEF Touched
    <2>4. CASE bus_remdev(k, name)
      <3>1. \E p \in BusT, i \in 1..Len(buses[k].dev_list) : Put(k, p) /\ Shrunk(k, p, i)
        BY <2>2, <2>4, RemdevPuts
      <3> QED BY <1>3, <2>2, <3>1 DEF Touched
    <2>5. ASSUME NEW dname \in ds, bus_regdev(k, name, dname)
          PROVE  Touched(k)
      <3>1. dname \in Name \cup {NoName} /\ name \in Names(k)
        BY <2>5 DEF bus_regdev
      <3>2. buses' = [buses EXCEPT ![k].dev_list[bus_getdevbyname(k, name)].dname = dname]
        BY <2>5 DEF bus_regdev
      <3>3. \E p \in BusT, i \in 1..Len(buses[k].dev_list), e \in Entry :
              Put(k, p) /\ Rewritten(k, p, i, e) /\ e.dname = dname
        BY <2>2, <3>1, <3>2, DriverPuts
      <3> QED BY <3>3 DEF Touched
    <2>6. ASSUME NEW dname \in ds, bus_unregdev(k, name, dname)
          PROVE  Touched(k)
      <3>1. NoName \in Name \cup {NoName} /\ name \in Names(k)
        BY <2>6 DEF bus_unregdev
      <3>2. buses' = [buses EXCEPT ![k].dev_list[bus_getdevbyname(k, name)].dname = NoName]
        BY <2>6 DEF bus_unregdev
      <3>3. \E p \in BusT, i \in 1..Len(buses[k].dev_list), e \in Entry :
              Put(k, p) /\ Rewritten(k, p, i, e) /\ e.dname = NoName
        BY <2>2, <3>1, <3>2, DriverPuts
      <3> QED BY <3>3 DEF Touched
    <2> QED BY <1>3, <2>1, <2>2, <2>3, <2>4, <2>5, <2>6
  <1> QED BY <1>1, <1>2, <1>3 DEF BusCalls

\* They leave the names different, and come when no scan is or was.
LEMMA DriverStep ==
    ASSUME SysInv, DriverCalls
    PROVE  SysInv'
  <1>1. BusTyped /\ Numbered /\ ScanTyped /\ plan \in Plan /\ machine \in plan.machines
    BY DEF SysInv, ScanTyped
  <1>2. BusCalls(plan.buses, plan.entries, plan.drivers)
        /\ UNCHANGED <<machine, scan, scans, hasisa, plan>>
    BY DEF DriverCalls, pci_vars
  <1>3. plan.buses # {}
    BY <1>2 DEF BusCalls
  <1>4. scan.st = "idle"
    <2>1. plan.machines = {<<>>}
      BY <1>1, <1>3, MachineOf
    <2> QED BY <1>1, <2>1 DEF ScanTyped
  <1>5. /\ plan.buses \subseteq BusName /\ plan.entries \subseteq EntryName
        /\ plan.drivers \subseteq Name
    BY <1>1, MachineOf DEF BusName, EntryName
  <1>6. BusTyped' /\ Numbered'
    <2>1. ASSUME NEW name \in BusName, register_bus(name) PROVE BusTyped' /\ Numbered'
      BY <1>1, <2>1, RegisterBusStep
    <2>2. ASSUME NEW name \in BusName, unregister_bus(name) PROVE BusTyped' /\ Numbered'
      BY <1>1, <2>2, UnregisterBusStep
    <2>3. CASE UNCHANGED <<buses, buses_count, stale>> /\ lost' \in BOOLEAN
      BY <1>1, <2>3 DEF BusTyped, Numbered, NamesDiffer
    <2>4. ASSUME NEW k \in 1..Len(buses), Touched(k), UNCHANGED <<buses_count, stale, lost>>
          PROVE  BusTyped' /\ Numbered'
      <3>1. lost' \in BOOLEAN
        BY <1>1, <2>4 DEF BusTyped
      <3> QED BY <1>1, <2>4, <3>1, TouchedTyped, TouchedNumbered
    <2>5. \/ \E name \in BusName : register_bus(name)
          \/ \E name \in BusName : unregister_bus(name)
          \/ UNCHANGED <<buses, buses_count, stale>> /\ lost' \in BOOLEAN
          \/ \E k \in 1..Len(buses) : Touched(k) /\ UNCHANGED <<buses_count, stale, lost>>
      BY <1>1, <1>2, <1>5, BusCallSteps
    <2> QED BY <2>1, <2>2, <2>3, <2>4, <2>5
  <1>7. ScanTyped'
    BY <1>1, <1>2 DEF ScanTyped
  <1>8. ScanInv'
    BY <1>2, <1>4 DEF ScanInv
  <1> QED BY <1>6, <1>7, <1>8 DEF SysInv

\* MODULE_INIT registers the bus in front of any other of its name.
LEMMA InitStep ==
    ASSUME SysInv, plan.machines # {<<>>}, pci_init
    PROVE  SysInv'
  <1>1. BusTyped /\ Numbered /\ ScanTyped /\ plan \in Plan /\ machine \in plan.machines
    BY DEF SysInv, ScanTyped
  <1>2. /\ register_bus(PciBus) /\ PciBus \in BusName
        /\ scan' = [st |-> "scanning", todo |-> scan_buses, stack |-> <<>>]
        /\ scans' = scans + 1 /\ machine' = machine /\ hasisa' = hasisa /\ plan' = plan
    BY DEF pci_init, BusName
  <1>3. /\ BusTyped' /\ Numbered'
        /\ buses'[1].name = PciBus /\ buses'[1].dev_list = <<>> /\ Len(buses') = Len(buses) + 1
    BY <1>1, <1>2, RegisterBusStep
  <1>4. bus_fromname(PciBus)' # {} /\ TheBus(PciBus)' = 1
    <2>1. Len(buses') \in Nat /\ Len(buses') >= 1
      <3>1. Len(buses) \in Nat
        BY <1>1 DEF BusTyped
      <3> QED BY <3>1, <1>3
    <2>2. PICK S : S = bus_fromname(PciBus)'
      OBVIOUS
    <2>3. S = {k \in 1..Len(buses') : buses'[k].name = PciBus}
      BY <2>2 DEF bus_fromname
    <2>4. 1 \in S /\ S \subseteq Nat /\ \A k \in S : k >= 1
      BY <2>1, <2>3, <1>3
    <2>5. Min(S) \in S /\ \A y \in S : Min(S) <= y
      BY <2>4, MinIs
    <2>6. Min(S) = 1
      <3>1. Min(S) \in Nat /\ Min(S) >= 1 /\ Min(S) <= 1
        BY <2>4, <2>5
      <3> QED BY <3>1
    <2> QED BY <2>2, <2>4, <2>6 DEF TheBus
  <1>5. Entries(1)' = {} /\ Names(1)' = {}
    BY <1>3 DEF Entries, Names, SlistElems
  <1>6. scan_buses \subseteq Below(256) /\ Chain(scan_buses, <<>>) /\ Complete(scan_buses, <<>>, {})
    BY <1>1, ScanStarts
  <1>7. Sound({})
    BY DEF Sound
  <1>8. ScanInv'
    <2>1. PICK td, st : td = scan_buses /\ st = <<>>
      OBVIOUS
    <2>2. scan'.todo = td /\ scan'.stack = st /\ (scan'.st = "done" => td = {} /\ st = <<>>)
      BY <1>2, <2>1
    <2>3. Chain(td, st) /\ Complete(td, st, {})
      BY <1>6, <2>1
    <2>4. PICK k, N : k = 1 /\ N = {}
      OBVIOUS
    <2>5. TheBus(PciBus)' = k /\ Names(k)' = N /\ Entries(k)' = N /\ Complete(td, st, N) /\ Sound(N)
      BY <1>4, <1>5, <1>7, <2>3, <2>4
    <2> QED BY <1>2, <1>4, <2>2, <2>3, <2>5, ScanInvHolds
  <1>9. ScanTyped'
    <2>1. scan' \in [st : {"idle", "scanning", "done", "failed", "overflow"},
                     todo : SUBSET Below(256), stack : Seq(Frame)]
          /\ Len(scan'.stack) = 0
      BY <1>2, <1>6
    <2>2. 0 <= MaxDepth
      BY MaxDepthAssumption
    <2>3. scans' \in Nat /\ hasisa' \in BOOLEAN /\ plan' \in Plan /\ machine' \in plan'.machines
      BY <1>1, <1>2 DEF ScanTyped
    <2> QED BY <1>2, <2>1, <2>2, <2>3 DEF ScanTyped
  <1> QED BY <1>3, <1>8, <1>9 DEF SysInv

\* MODULE_FINI takes the newest bus of the name away.
LEMMA FiniStep ==
    ASSUME SysInv, pci_fini
    PROVE  SysInv'
  <1>1. BusTyped /\ Numbered /\ ScanTyped
    BY DEF SysInv
  <1>2. /\ unregister_bus(PciBus) /\ scan' = NoScan
        /\ scans' = scans /\ machine' = machine /\ hasisa' = hasisa /\ plan' = plan
    BY DEF pci_fini
  <1>3. BusTyped' /\ Numbered'
    BY <1>1, <1>2, UnregisterBusStep
  <1>4. scan'.st = "idle"
    BY <1>2 DEF NoScan
  <1>5. ScanTyped'
    <2>1. scan' \in [st : {"idle", "scanning", "done", "failed", "overflow"},
                     todo : SUBSET Below(256), stack : Seq(Frame)]
          /\ Len(scan'.stack) = 0
      BY <1>2 DEF NoScan
    <2>2. 0 <= MaxDepth
      BY MaxDepthAssumption
    <2>3. scans' \in Nat /\ hasisa' \in BOOLEAN /\ plan' \in Plan /\ machine' \in plan'.machines
      BY <1>1, <1>2 DEF ScanTyped
    <2> QED BY <1>4, <2>1, <2>2, <2>3 DEF ScanTyped
  <1>6. ScanInv'
    BY <1>4 DEF ScanInv
  <1> QED BY <1>3, <1>5, <1>6 DEF SysInv

\* A scan that ends without success leaves nothing to do.
LEMMA ScanStopped ==
    ASSUME ScanTyped, NEW w \in {"failed", "overflow"}, scan' = [NoScan EXCEPT !.st = w],
           hasisa' \in BOOLEAN, plan.machines # {<<>>}, UNCHANGED <<machine, scans, plan>>
    PROVE  ScanTyped' /\ ScanInv'
  <1>1. scan' = [st |-> w, todo |-> {}, stack |-> <<>>]
    BY DEF NoScan
  <1>2. scan' \in [st : {"idle", "scanning", "done", "failed", "overflow"},
                   todo : SUBSET Below(256), stack : Seq(Frame)]
        /\ Len(scan'.stack) = 0 /\ scan'.st = w
    <2>1. scan'.stack = <<>> /\ scan'.todo = {} /\ scan'.st = w
      BY <1>1
    <2>2. <<>> \in Seq(Frame) /\ {} \in SUBSET Below(256)
          /\ w \in {"idle", "scanning", "done", "failed", "overflow"}
      OBVIOUS
    <2>3. [st |-> w, todo |-> {}, stack |-> <<>>] \in
            [st : {"idle", "scanning", "done", "failed", "overflow"},
             todo : SUBSET Below(256), stack : Seq(Frame)]
      BY <2>2
    <2> QED BY <1>1, <2>1, <2>3
  <1>3. 0 <= MaxDepth
    BY MaxDepthAssumption
  <1>4. scans' \in Nat /\ plan' \in Plan /\ machine' \in plan'.machines
    BY DEF ScanTyped
  <1>5. ScanTyped'
    BY <1>2, <1>3, <1>4 DEF ScanTyped
  <1>6. scan'.st \notin {"scanning", "done"}
    BY <1>2
  <1> QED BY <1>5, <1>6 DEF ScanInv

\* What a scan that goes on needs.
LEMMA Ongoing ==
    ASSUME SysInv, Scanning
    PROVE  /\ BusTyped /\ Numbered /\ ScanTyped /\ plan \in Plan /\ machine \in plan.machines
           /\ plan.machines # {<<>>} /\ scan.st = "scanning"
           /\ scan.todo \in SUBSET Below(256) /\ scan.stack \in Seq(Frame)
           /\ Len(scan.stack) <= MaxDepth /\ scans \in Nat /\ hasisa \in BOOLEAN
           /\ bus_fromname(PciBus) # {} /\ Chain(scan.todo, scan.stack)
           /\ Complete(scan.todo, scan.stack, Names(TheBus(PciBus)))
           /\ Sound(Entries(TheBus(PciBus)))
  <1>1. BusTyped /\ Numbered /\ ScanTyped /\ ScanInv /\ scan.st = "scanning"
    BY DEF SysInv, Scanning
  <1>2. /\ bus_fromname(PciBus) # {} /\ Chain(scan.todo, scan.stack)
        /\ Complete(scan.todo, scan.stack, Names(TheBus(PciBus)))
        /\ Sound(Entries(TheBus(PciBus)))
    BY <1>1 DEF ScanInv
  <1>3. plan \in Plan /\ machine \in plan.machines /\ plan.machines # {<<>>}
    BY <1>1 DEF ScanTyped
  <1>4. scan \in [st : {"idle", "scanning", "done", "failed", "overflow"},
                  todo : SUBSET Below(256), stack : Seq(Frame)]
        /\ Len(scan.stack) <= MaxDepth /\ scans \in Nat /\ hasisa \in BOOLEAN
    BY <1>1 DEF ScanTyped
  <1>5. scan.todo \in SUBSET Below(256) /\ scan.stack \in Seq(Frame)
    BY <1>4
  <1> QED BY <1>1, <1>2, <1>3, <1>4, <1>5

\* A scan that goes on keeps its type.
LEMMA ScanMoves ==
    ASSUME ScanTyped, plan.machines # {<<>>}, UNCHANGED <<machine, scans, plan>>,
           hasisa' \in BOOLEAN, NEW td \in SUBSET Below(256), NEW st \in Seq(Frame),
           Len(st) <= MaxDepth, NEW w \in {"scanning", "done"},
           scan' = [st |-> w, todo |-> td, stack |-> st]
    PROVE  ScanTyped' /\ scan'.todo = td /\ scan'.stack = st /\ scan'.st = w
  <1>1. scan'.stack = st /\ scan'.todo = td /\ scan'.st = w
    OBVIOUS
  <1>2. scan' \in [st : {"idle", "scanning", "done", "failed", "overflow"},
                   todo : SUBSET Below(256), stack : Seq(Frame)]
    <2>1. w \in {"idle", "scanning", "done", "failed", "overflow"}
      OBVIOUS
    <2>2. [st |-> w, todo |-> td, stack |-> st] \in
            [st : {"idle", "scanning", "done", "failed", "overflow"},
             todo : SUBSET Below(256), stack : Seq(Frame)]
      BY <2>1
    <2> QED BY <2>2
  <1>3. scans' \in Nat /\ plan' \in Plan /\ machine' \in plan'.machines
    BY DEF ScanTyped
  <1>4. ScanTyped'
    BY <1>1, <1>2, <1>3 DEF ScanTyped
  <1> QED BY <1>1, <1>4

\* A step of the scan that leaves the bus, from one todo and stack to another.
LEMMA ScanLeavesBus ==
    ASSUME SysInv, Scanning, UNCHANGED <<bus_vars, machine, scans, hasisa, plan>>,
           NEW k, NEW N, k = TheBus(PciBus), N = Names(k), NEW td \in SUBSET Below(256),
           NEW st \in Seq(Frame), Len(st) <= MaxDepth, NEW w \in {"scanning", "done"},
           scan' = [st |-> w, todo |-> td, stack |-> st], Chain(td, st), Complete(td, st, N),
           w = "done" => td = {} /\ st = <<>>
    PROVE  SysInv'
  <1>1. /\ BusTyped /\ Numbered /\ ScanTyped /\ plan.machines # {<<>>}
        /\ hasisa \in BOOLEAN /\ bus_fromname(PciBus) # {} /\ Sound(Entries(TheBus(PciBus)))
    BY Ongoing
  <1>2. buses' = buses /\ buses_count' = buses_count /\ stale' = stale /\ lost' = lost
    BY DEF bus_vars
  <1>3. BusTyped'
    BY <1>1, <1>2 DEF BusTyped
  <1>4. Numbered'
    BY <1>1, <1>2 DEF Numbered, NamesDiffer
  <1>5. ScanTyped' /\ scan'.todo = td /\ scan'.stack = st /\ scan'.st = w
    <2>1. hasisa' \in BOOLEAN
      BY <1>1
    <2> QED BY <1>1, <2>1, ScanMoves
  <1>6. bus_fromname(PciBus)' # {} /\ TheBus(PciBus)' = k
    <2>1. bus_fromname(PciBus)' = bus_fromname(PciBus)
      BY <1>2 DEF bus_fromname
    <2> QED BY <2>1, <1>1 DEF TheBus
  <1>7. PICK L : L = Entries(k)
    OBVIOUS
  <1>8. Names(k)' = N /\ Entries(k)' = L
    BY <1>2, <1>7 DEF Names, Entries
  <1>9. Sound(L)
    BY <1>1, <1>7
  <1>10. ScanInv'
    BY <1>5, <1>6, <1>8, <1>9, ScanInvHolds
  <1> QED BY <1>3, <1>4, <1>5, <1>10 DEF SysInv

\* The next root bus is taken up.
LEMMA NextBusStep ==
    ASSUME SysInv, check_bus_next
    PROVE  SysInv'
  <1>1. /\ Scanning /\ scan.stack = <<>> /\ scan.todo # {}
        /\ scan' = [scan EXCEPT !.todo = @ \ {Min(scan.todo)},
                                !.stack = <<[bus |-> Min(scan.todo), pos |-> -1]>>]
        /\ UNCHANGED <<bus_vars, machine, scans, hasisa, plan>>
    BY DEF check_bus_next
  <1>2. /\ plan \in Plan /\ machine \in plan.machines /\ scan.todo \in SUBSET Below(256)
        /\ Chain(scan.todo, scan.stack)
        /\ Complete(scan.todo, scan.stack, Names(TheBus(PciBus))) /\ scan.st = "scanning"
    BY <1>1, Ongoing
  <1>3. PICK td, b, k, N, st :
          /\ td = scan.todo /\ b = Min(scan.todo) /\ k = TheBus(PciBus) /\ N = Names(k)
          /\ st = <<[bus |-> b, pos |-> -1]>>
    OBVIOUS
  <1>4. b \in td /\ td \ {b} \in SUBSET Below(256)
    <2>1. td \subseteq Nat /\ td # {}
      <3>1. \A x \in Below(256) : x \in Nat
        BY BelowIs
      <3> QED BY <1>1, <1>2, <1>3, <3>1
    <2>2. Min(td) \in td
      BY <2>1, MinIs
    <2> QED BY <2>2, <1>2, <1>3
  <1>5. Chain(td, <<>>) /\ Complete(td, <<>>, N)
    BY <1>1, <1>2, <1>3
  <1>6. Chain(td \ {b}, st) /\ Complete(td \ {b}, st, N)
    BY <1>2, <1>3, <1>4, <1>5, ScanNextBus
  <1>7. st \in Seq(Frame) /\ Len(st) <= MaxDepth
    <2>1. [bus |-> b, pos |-> -1] \in Frame
      BY <1>4, <1>2, <1>3 DEF Frame
    <2>2. 1 <= MaxDepth
      BY MaxDepthAssumption
    <2> QED BY <2>1, <2>2, <1>3
  <1>8. scan' = [st |-> "scanning", todo |-> td \ {b}, stack |-> st]
    <2>1. ScanTyped
      BY DEF SysInv
    <2>2. scan \in [st : {"idle", "scanning", "done", "failed", "overflow"},
                    todo : SUBSET Below(256), stack : Seq(Frame)]
      BY <2>1 DEF ScanTyped
    <2> QED BY <2>2, <1>1, <1>2, <1>3
  <1> QED BY <1>1, <1>3, <1>4, <1>6, <1>7, <1>8, ScanLeavesBus

\* The bus on top of the stack has no function left.
LEMMA BusEndsStep ==
    ASSUME SysInv, check_bus_ends
    PROVE  SysInv'
  <1>1. /\ Scanning /\ scan.stack # <<>>
        /\ check_dev(Last(scan.stack).bus, Last(scan.stack).pos) = {}
        /\ scan' = [scan EXCEPT !.stack = Front(scan.stack)]
        /\ UNCHANGED <<bus_vars, machine, scans, hasisa, plan>>
    BY DEF check_bus_ends
  <1>2. /\ plan \in Plan /\ machine \in plan.machines /\ scan.todo \in SUBSET Below(256)
        /\ Chain(scan.todo, scan.stack) /\ scan.stack \in Seq(Frame)
        /\ Len(scan.stack) <= MaxDepth
        /\ Complete(scan.todo, scan.stack, Names(TheBus(PciBus))) /\ scan.st = "scanning"
    BY <1>1, Ongoing
  <1>3. PICK td, k, N, st, t :
          /\ td = scan.todo /\ k = TheBus(PciBus) /\ N = Names(k) /\ st = scan.stack
          /\ t = Front(st)
    OBVIOUS
  <1>4. Chain(td, t) /\ Complete(td, t, N)
    <2>1. /\ st \in Seq(Frame) /\ st # <<>> /\ Chain(td, st) /\ Complete(td, st, N)
          /\ check_dev(Last(st).bus, Last(st).pos) = {}
      BY <1>1, <1>2, <1>3
    <2> QED BY <2>1, <1>2, <1>3, ScanBusEnds
  <1>5. t \in Seq(Frame) /\ Len(t) <= MaxDepth
    <2>1. t \in Seq(Frame) /\ Len(t) = Len(st) - 1 /\ Len(st) \in Nat
      BY <1>1, <1>2, <1>3, StackFront
    <2>2. MaxDepth \in Nat /\ Len(st) <= MaxDepth
      BY <1>2, <1>3, MaxDepthAssumption
    <2> QED BY <2>1, <2>2
  <1>6. scan' = [st |-> "scanning", todo |-> td, stack |-> t]
    <2>1. ScanTyped
      BY DEF SysInv
    <2>2. scan \in [st : {"idle", "scanning", "done", "failed", "overflow"},
                    todo : SUBSET Below(256), stack : Seq(Frame)]
      BY <2>1 DEF ScanTyped
    <2> QED BY <2>2, <1>1, <1>2, <1>3
  <1> QED BY <1>1, <1>2, <1>3, <1>4, <1>5, <1>6, ScanLeavesBus

\* Every root bus has been checked.
LEMMA DoneStep ==
    ASSUME SysInv, scan_done
    PROVE  SysInv'
  <1>1. /\ Scanning /\ scan.stack = <<>> /\ scan.todo = {}
        /\ scan' = [scan EXCEPT !.st = "done"]
        /\ UNCHANGED <<bus_vars, machine, scans, hasisa, plan>>
    BY DEF scan_done
  <1>2. /\ scan.todo \in SUBSET Below(256) /\ scan.stack \in Seq(Frame)
        /\ Len(scan.stack) <= MaxDepth /\ Chain(scan.todo, scan.stack)
        /\ Complete(scan.todo, scan.stack, Names(TheBus(PciBus)))
    BY <1>1, Ongoing
  <1>3. PICK td, k, N, st, w :
          /\ td = scan.todo /\ k = TheBus(PciBus) /\ N = Names(k) /\ st = scan.stack /\ w = "done"
    OBVIOUS
  <1>4. scan' = [st |-> w, todo |-> td, stack |-> st]
    <2>1. ScanTyped
      BY DEF SysInv
    <2>2. scan \in [st : {"idle", "scanning", "done", "failed", "overflow"},
                    todo : SUBSET Below(256), stack : Seq(Frame)]
      BY <2>1 DEF ScanTyped
    <2> QED BY <2>2, <1>1, <1>3
  <1>5. w \in {"scanning", "done"} /\ (w = "done" => td = {} /\ st = <<>>)
    BY <1>1, <1>3
  <1> QED BY <1>1, <1>2, <1>3, <1>4, <1>5, ScanLeavesBus

\* A function is found, its entry written, and the bus behind it, if it is a
\* bridge, put on the stack.
LEMMA FuncFoundStep ==
    ASSUME SysInv, check_func_found
    PROVE  SysInv'
  <1>0. PICK a, r, td, st, n, k, N, L :
          /\ a = NextFunc /\ r = Resources(a) /\ td = scan.todo /\ st = scan.stack /\ n = Len(st)
          /\ k = TheBus(PciBus) /\ N = Names(k) /\ L = Entries(k)
    OBVIOUS
  <1>1. /\ AtFunc /\ Scanning /\ st # <<>> /\ found_dev(a, r)
        /\ Bridge(a) => Len(st) < MaxDepth
        /\ UNCHANGED <<buses_count, stale, lost, machine, scans, plan>>
    BY <1>0 DEF check_func_found, AtFunc
  <1>2. scan' = [scan EXCEPT !.stack =
           Front(st) \o <<[bus |-> a[1], pos |-> Pos(a)]>>
              \o IF Bridge(a) THEN <<[bus |-> check_func(a), pos |-> -1]>> ELSE <<>>]
    BY <1>0 DEF check_func_found, Pos
  <1>3. /\ BusTyped /\ Numbered /\ ScanTyped /\ plan \in Plan /\ machine \in plan.machines
        /\ plan.machines # {<<>>} /\ scan.st = "scanning" /\ hasisa \in BOOLEAN
        /\ td \in SUBSET Below(256) /\ st \in Seq(Frame) /\ Len(st) <= MaxDepth
        /\ bus_fromname(PciBus) # {} /\ Chain(td, st) /\ Complete(td, st, N) /\ Sound(L)
    BY <1>0, <1>1, Ongoing
  <1>4. /\ a \in FunctionsOn({st[n].bus}) /\ a \in Addr /\ a[1] = st[n].bus
        /\ Pos(a) \in Nat /\ Pos(a) > st[n].pos
        /\ \A c \in FunctionsOn({st[n].bus}) :
              /\ Pos(c) \in Nat
              /\ Pos(c) > st[n].pos => Pos(a) <= Pos(c)
              /\ Pos(c) = Pos(a) => c = a
    <2>1. st[n] = Last(scan.stack)
      BY <1>0 DEF Last
    <2>2. PICK top : top = st[n]
      OBVIOUS
    <2>3. top = Last(scan.stack)
      BY <2>1, <2>2
    <2> HIDE DEF Pos
    <2>4. /\ NextFunc \in FunctionsOn({top.bus}) /\ NextFunc \in Addr /\ NextFunc[1] = top.bus
          /\ Pos(NextFunc) \in Nat /\ Pos(NextFunc) > top.pos
      BY <1>1, <1>3, <2>3, NextFuncIs
    <2>5. \A c \in FunctionsOn({top.bus}) :
              /\ Pos(c) \in Nat
              /\ Pos(c) > top.pos => Pos(NextFunc) <= Pos(c)
              /\ Pos(c) = Pos(NextFunc) => c = NextFunc
      BY <1>1, <1>3, <2>3, NextFuncIs
    <2> QED BY <1>0, <2>2, <2>4, <2>5
  <1>5. r \in Seq(Res) /\ hasisa' \in BOOLEAN
    <2>1. r \in Seq(Res)
      BY <1>0, <1>3, ResourcesAre
    <2>2. hasisa' \in BOOLEAN
      BY <1>3 DEF check_func_found
    <2> QED BY <2>1, <2>2
  <1>6. /\ BusTyped' /\ Numbered' /\ bus_fromname(PciBus)' # {} /\ TheBus(PciBus)' = k
        /\ \E e \in Entry :
                 /\ e.addr = a /\ e.name = pci_name(a)
                 /\ Entries(k)' \subseteq Entries(k) \cup {e}
                 /\ Names(k)' = Names(k) \cup {pci_name(a)}
                 /\ Gathered(e, r, Entries(k))
    BY <1>0, <1>1, <1>3, <1>4, <1>5, FoundStep
  <1>7. PICK e \in Entry :
                 /\ e.addr = a /\ e.name = pci_name(a)
                 /\ Entries(k)' \subseteq L \cup {e}
                 /\ Names(k)' = N \cup {pci_name(a)}
                 /\ Gathered(e, r, L)
    BY <1>0, <1>6
  <1>8. PICK M, K : M = N \cup {pci_name(a)} /\ K = Entries(k)'
    OBVIOUS
  <1>9. Sound(K)
    <2>1. K \subseteq L \cup {e}
      BY <1>7, <1>8
    <2>2. L \in SUBSET Entry
      BY <1>0, <1>3, EntriesTyped
    <2> QED BY <1>0, <1>1, <1>3, <1>4, <1>5, <1>7, <2>1, <2>2, SoundStep
  <1>10. PICK at, f : at = [bus |-> a[1], pos |-> Pos(a)] /\ f = [bus |-> 6, pos |-> -1]
    OBVIOUS
  <1>11. at \in Frame /\ f \in Frame
    <2>1. a[1] \in Below(256) /\ 6 \in Below(256)
      BY <1>4, AddrIs, BelowIs
    <2>2. Pos(a) \in Int /\ -1 \in Int
      BY <1>4
    <2> HIDE DEF Pos
    <2> QED BY <1>10, <2>1, <2>2 DEF Frame
  <1>12. PICK t : t = Front(st) \o <<at>> \o IF Bridge(a) THEN <<f>> ELSE <<>>
    OBVIOUS
  <1>13. scan' = [st |-> "scanning", todo |-> td, stack |-> t]
    <2>1. Bridge(a) => check_func(a) = 6
      BY <1>3, FieldsAre
    <2>2. scan' = [scan EXCEPT !.stack = t]
      BY <2>1, <1>2, <1>10, <1>12
    <2>3. scan \in [st : {"idle", "scanning", "done", "failed", "overflow"},
                    todo : SUBSET Below(256), stack : Seq(Frame)]
      BY <1>3 DEF ScanTyped
    <2> QED BY <2>2, <2>3, <1>0, <1>3
  <1>14. /\ t \in Seq(Frame) /\ t[n] = at /\ \A i \in 1..(n - 1) : t[i] = st[i]
         /\ \/ ~Bridge(a) /\ Len(t) = n
            \/ Bridge(a) /\ Len(t) = n + 1 /\ t[n + 1] = f
    <2>0. st \in Seq(Frame) /\ st # <<>> /\ n = Len(st) /\ at \in Frame /\ f \in Frame
      BY <1>0, <1>1, <1>3, <1>11
    <2>1. CASE Bridge(a)
      <3>1. Pushed(st, at, f, t)
        BY <2>1, <1>12 DEF Pushed
      <3>2. Atop(st, at, t) /\ Len(t) = Len(st) + 1 /\ t[Len(st) + 1] = f
        BY <3>1, <2>0, StackPushed
      <3> QED BY <2>0, <2>1, <3>2 DEF Atop
    <2>2. CASE ~Bridge(a)
      <3>1. Replaced(st, at, t)
        BY <2>2, <1>12 DEF Replaced
      <3>2. Atop(st, at, t) /\ Len(t) = Len(st)
        BY <3>1, <2>0, StackPushed
      <3> QED BY <2>0, <2>2, <3>2 DEF Atop
    <2> QED BY <2>1, <2>2
  <1>15. Chain(td, t) /\ Complete(td, t, M)
    <2>1. Found(st, a)
      BY <1>0, <1>4 DEF Found
    <2>2. Stacked(st, a, t)
      BY <1>0, <1>10, <1>14 DEF Stacked, Atop
    <2>3. /\ plan \in Plan /\ machine \in plan.machines /\ st \in Seq(Frame) /\ st # <<>>
          /\ Chain(td, st) /\ Complete(td, st, N)
      BY <1>0, <1>1, <1>3
    <2> QED BY <1>8, <2>1, <2>2, <2>3, ScanFound
  <1>16. Len(t) <= MaxDepth
    <2>1. n \in Nat /\ MaxDepth \in Nat
      BY <1>0, <1>3, MaxDepthAssumption
    <2> QED BY <2>1, <1>0, <1>1, <1>3, <1>14
  <1>17. ScanTyped' /\ scan'.todo = td /\ scan'.stack = t /\ scan'.st = "scanning"
    <2>1. PICK w : w = "scanning"
      OBVIOUS
    <2>2. w \in {"scanning", "done"} /\ scan' = [st |-> w, todo |-> td, stack |-> t]
      BY <2>1, <1>13
    <2>3. ScanTyped' /\ scan'.todo = td /\ scan'.stack = t /\ scan'.st = w
      BY <2>2, <1>1, <1>3, <1>5, <1>14, <1>16, ScanMoves
    <2> QED BY <2>1, <2>3
  <1>18. ScanInv'
    <2>1. Names(k)' = M /\ Entries(k)' = K /\ machine' = machine
          /\ (scan'.st = "done" => td = {} /\ t = <<>>)
      BY <1>1, <1>7, <1>8, <1>17
    <2> QED BY <2>1, <1>6, <1>9, <1>15, <1>17, ScanInvHolds
  <1> QED BY <1>6, <1>17, <1>18 DEF SysInv

\* The beginning of a list is a list of the same elements.
LEMMA PrefixIs ==
    ASSUME NEW S, NEW q \in Seq(S), NEW n \in 0..Len(q)
    PROVE  SubSeq(q, 1, n) \in Seq(S)
  <1>1. n \in Nat /\ n <= Len(q)
    OBVIOUS
  <1> QED BY <1>1

\* What could be allocated of the resources.
LEMMA SomeResources ==
    ASSUME plan \in Plan, machine \in plan.machines, NEW a, Resources(a) # <<>>, NEW n \in 0..5
    PROVE  SubSeq(Resources(a), 1, n) \in Seq(Res)
  <1>1. PICK x : x = genres(a)[1]
    OBVIOUS
  <1>2. Resources(a) = [i \in 1..6 |-> x]
    BY <1>1 DEF Resources
  <1>3. PICK q : q = Resources(a)
    OBVIOUS
  <1>4. q \in Seq(Res) /\ Len(q) = 6
    <2>1. q \in Seq(Res)
      BY <1>3, ResourcesAre
    <2>2. DOMAIN q = 1..6
      BY <1>2, <1>3
    <2>3. Len(q) = 6
      BY <2>1, <2>2
    <2> QED BY <2>1, <2>3
  <1>5. n \in 0..Len(q)
    BY <1>4
  <1>6. SubSeq(q, 1, n) \in Seq(Res)
    BY <1>4, <1>5, PrefixIs
  <1> QED BY <1>3, <1>6

\* An error ends the scan after the entry of the function is written with what
\* could be allocated.
LEMMA FuncFailsStep ==
    ASSUME SysInv, check_func_fails
    PROVE  SysInv'
  <1>0. PICK a, k, top : a = NextFunc /\ k = TheBus(PciBus) /\ top = Last(scan.stack)
    OBVIOUS
  <1>1. /\ AtFunc /\ Scanning /\ hasisa' = hasisa /\ \E n \in 0..5 : found_dev(a, SubSeq(Resources(a), 1, n))
        /\ Resources(a) # <<>>
        /\ scan' = [NoScan EXCEPT !.st = "failed"]
        /\ UNCHANGED <<buses_count, stale, lost, machine, scans, plan>>
    BY <1>0 DEF check_func_fails, AtFunc
  <1>2. /\ BusTyped /\ Numbered /\ ScanTyped /\ plan \in Plan /\ machine \in plan.machines
        /\ plan.machines # {<<>>} /\ hasisa \in BOOLEAN /\ bus_fromname(PciBus) # {}
    BY <1>1, Ongoing
  <1>3. a \in Addr
    BY <1>0, <1>1, <1>2, NextFuncIs
  <1>4. PICK n \in 0..5 : found_dev(a, SubSeq(Resources(a), 1, n))
    BY <1>1
  <1>5. PICK r : r = SubSeq(Resources(a), 1, n)
    OBVIOUS
  <1>6. r \in Seq(Res)
    BY <1>1, <1>2, <1>5, SomeResources
  <1>7. BusTyped' /\ Numbered'
    <2>1. found_dev(a, r)
      BY <1>4, <1>5
    <2> QED BY <2>1, <1>0, <1>1, <1>2, <1>3, <1>6, FoundStep
  <1>8. hasisa' \in BOOLEAN
    BY <1>1, <1>2
  <1>9. ScanTyped' /\ ScanInv'
    <2>1. PICK w : w = "failed"
      OBVIOUS
    <2>2. w \in {"failed", "overflow"} /\ scan' = [NoScan EXCEPT !.st = w]
      BY <2>1, <1>1
    <2> QED BY <2>2, <1>1, <1>2, <1>8, ScanStopped
  <1> QED BY <1>7, <1>9 DEF SysInv

\* The kernel is lost on a list that starts anywhere.
LEMMA FuncLostStep ==
    ASSUME SysInv, check_func_lost
    PROVE  SysInv'
  <1>1. /\ lost' = TRUE /\ UNCHANGED <<buses, buses_count, stale, machine, scan, scans, hasisa, plan>>
        /\ Scanning
    BY DEF check_func_lost, AtFunc, pci_vars
  <1>2. /\ BusTyped /\ Numbered /\ ScanTyped /\ plan.machines # {<<>>} /\ scan.st = "scanning"
        /\ scan.todo \in SUBSET Below(256) /\ scan.stack \in Seq(Frame)
        /\ bus_fromname(PciBus) # {} /\ Chain(scan.todo, scan.stack)
        /\ Complete(scan.todo, scan.stack, Names(TheBus(PciBus)))
        /\ Sound(Entries(TheBus(PciBus)))
    BY <1>1, Ongoing
  <1>3. BusTyped'
    <2>1. lost' \in BOOLEAN
      BY <1>1
    <2> QED BY <1>1, <1>2, <2>1 DEF BusTyped
  <1>4. Numbered'
    BY <1>1, <1>2 DEF Numbered, NamesDiffer
  <1>5. ScanTyped'
    BY <1>1, <1>2 DEF ScanTyped
  <1>6. PICK td, st, k, N, L :
          /\ td = scan.todo /\ st = scan.stack /\ k = TheBus(PciBus)
          /\ N = Names(k) /\ L = Entries(k)
    OBVIOUS
  <1>7. bus_fromname(PciBus)' # {} /\ TheBus(PciBus)' = k
    <2>1. bus_fromname(PciBus)' = bus_fromname(PciBus)
      BY <1>1 DEF bus_fromname
    <2> QED BY <2>1, <1>2, <1>6 DEF TheBus
  <1>8. Names(k)' = N /\ Entries(k)' = L
    BY <1>1, <1>6 DEF Names, Entries
  <1>9. /\ Chain(td, st) /\ Complete(td, st, N) /\ Sound(L) /\ scan'.todo = td /\ scan'.stack = st
        /\ machine' = machine /\ (scan'.st = "done" => td = {} /\ st = <<>>)
    BY <1>1, <1>2, <1>6
  <1>10. ScanInv'
    BY <1>7, <1>8, <1>9, ScanInvHolds
  <1> QED BY <1>3, <1>4, <1>5, <1>10 DEF SysInv

\* The stack of the kernel is used up.
LEMMA OverflowStep ==
    ASSUME SysInv, check_func_overflow
    PROVE  SysInv'
  <1>1. /\ scan' = [NoScan EXCEPT !.st = "overflow"] /\ Scanning
        /\ UNCHANGED <<buses, buses_count, stale, lost, machine, scans, hasisa, plan>>
    BY DEF check_func_overflow, AtFunc, bus_vars
  <1>2. BusTyped /\ Numbered /\ ScanTyped /\ plan.machines # {<<>>} /\ hasisa \in BOOLEAN
    BY <1>1, Ongoing
  <1>3. BusTyped' /\ Numbered'
    BY <1>1, <1>2 DEF BusTyped, Numbered, NamesDiffer
  <1>4. ScanTyped' /\ ScanInv'
    <2>1. PICK w : w = "overflow"
      OBVIOUS
    <2>2. w \in {"failed", "overflow"} /\ scan' = [NoScan EXCEPT !.st = w]
      BY <2>1, <1>1
    <2>3. hasisa' \in BOOLEAN
      BY <1>1, <1>2
    <2> QED BY <2>2, <2>3, <1>1, <1>2, ScanStopped
  <1> QED BY <1>3, <1>4 DEF SysInv

\* The invariant holds after every step of the composed system.
LEMMA SystemSteps ==
    ASSUME SysInv, [SystemNext]_<<vars, bus_vars, pci_vars>>
    PROVE  SysInv'
  <1>1. CASE DevCalls
    BY <1>1, StaysSame DEF DevCalls
  <1>2. CASE DriverCalls
    BY <1>2, DriverStep
  <1>3. CASE ModuleCalls
    BY <1>3, InitStep, FiniStep DEF ModuleCalls
  <1>4. CASE Scan
    <2>1. CASE check_bus_next
      BY <2>1, NextBusStep
    <2>2. CASE check_bus_ends
      BY <2>2, BusEndsStep
    <2>3. CASE check_func_found
      BY <2>3, FuncFoundStep
    <2>4. CASE check_func_fails
      BY <2>4, FuncFailsStep
    <2>5. CASE check_func_lost
      BY <2>5, FuncLostStep
    <2>6. CASE check_func_overflow
      BY <2>6, OverflowStep
    <2>7. CASE scan_done
      BY <2>7, DoneStep
    <2> QED BY <1>4, <2>1, <2>2, <2>3, <2>4, <2>5, <2>6, <2>7 DEF Scan, ScanStep
  <1>5. CASE UNCHANGED <<vars, bus_vars, pci_vars>>
    BY <1>5, StaysSame
  <1> QED BY <1>1, <1>2, <1>3, <1>4, <1>5 DEF SystemNext

\* A scan that has come to an end has been everywhere.
LEMMA ScanFinished ==
    ASSUME SysInv
    PROVE  ScanFinds
  <1> SUFFICES ASSUME scan.st = "done"
               PROVE  LET list == Entries(TheBus(PciBus))
                      IN  /\ {e.name : e \in list} = {pci_name(a) : a \in Reached}
                          /\ \A e \in list :
                                e.addr \in Reached /\ pci_name(e.addr) = e.name /\ ResOf(e.res, e.name)
    BY DEF ScanFinds, ResOf, OfName
  <1>1. PICK N, L : N = Names(TheBus(PciBus)) /\ L = Entries(TheBus(PciBus))
    OBVIOUS
  <1>2. /\ scan.todo = {} /\ scan.stack = <<>> /\ Complete({}, <<>>, N) /\ Sound(L)
        /\ plan \in Plan /\ machine \in plan.machines
    BY <1>1 DEF SysInv, ScanInv, ScanTyped
  <1>3. Past({}, <<>>) = Roots
    BY DEF Past
  <1>4. AllNamed(Roots, N)
    BY <1>2, <1>3 DEF Complete
  <1>5. \A a \in FunctionsOn(Roots) : Bridge(a) => AllNamed({6}, N)
    <2> SUFFICES ASSUME NEW a \in FunctionsOn(Roots), Bridge(a) PROVE AllNamed({6}, N)
      OBVIOUS
    <2>1. a[1] \in Roots
      BY <1>2, FunctionsAre
    <2>2. Behind({}, <<>>, a)
      BY <2>1, <1>3 DEF Behind
    <2> QED BY <2>2, <1>2 DEF Complete
  <1>6. \A a \in Reached : pci_name(a) \in N
    <2> SUFFICES ASSUME NEW a \in Reached PROVE pci_name(a) \in N
      OBVIOUS
    <2>1. CASE a \in FunctionsOn(Roots)
      BY <2>1, <1>4 DEF AllNamed
    <2>2. CASE a \notin FunctionsOn(Roots)
      <3>1. \E b \in FunctionsOn(Roots) : Bridge(b)
        BY <2>2 DEF Reached
      <3>2. a \in FunctionsOn(Roots \cup {6})
        BY <3>1 DEF Reached
      <3>3. a \in FunctionsOn({6})
        BY <3>2, <2>2 DEF FunctionsOn
      <3> QED BY <3>1, <3>3, <1>5 DEF AllNamed
    <2> QED BY <2>1, <2>2
  <1>7. N = {e.name : e \in L}
    BY <1>1 DEF Names
  <1>8. \A e \in L : e.addr \in Reached /\ pci_name(e.addr) = e.name /\ ResOf(e.res, e.name)
    BY <1>2 DEF Sound
  <1>9. {e.name : e \in L} = {pci_name(a) : a \in Reached}
    <2>1. \A x \in {e.name : e \in L} : x \in {pci_name(a) : a \in Reached}
      BY <1>8
    <2>2. \A x \in {pci_name(a) : a \in Reached} : x \in {e.name : e \in L}
      BY <1>6, <1>7
    <2> QED BY <2>1, <2>2
  <1> QED BY <1>1, <1>8, <1>9

\* Entries never share a name and no counter is wrong (register_bus,
\* unregister_bus, bus_adddev, bus_remdev and found_dev), for any drivers and any
\* machine.
THEOREM EntriesAlwaysNamed == SystemSpec => []EntriesNamed
  <1>1. SysInv => EntriesNamed
    BY NumberedIs DEF SysInv
  <1>2. SysInv /\ [SystemNext]_<<vars, bus_vars, pci_vars>> => SysInv'
    BY SystemSteps
  <1> QED BY SystemBegins, <1>1, <1>2, PTL DEF SystemSpec

\* A scan that comes to an end has found what there is on the buses it can reach,
\* and nothing else (check_bus, check_dev, check_func and found_dev), whatever the
\* machine has, and however often the module is initialised.
THEOREM ScanAlwaysFinds == SystemSpec => []ScanFinds
  <1>1. SysInv => ScanFinds
    BY ScanFinished
  <1>2. SysInv /\ [SystemNext]_<<vars, bus_vars, pci_vars>> => SysInv'
    BY SystemSteps
  <1> QED BY SystemBegins, <1>1, <1>2, PTL DEF SystemSpec

\* The composed system is the device API that Dev specifies, with other things that
\* happen between its calls: pci.c makes none of them, and a driver of a bus makes
\* register_tty and unregister_tty.
THEOREM SystemImplementsDev == SystemSpec => Spec
  <1>1. SystemInit => Init
    BY DEF SystemInit
  <1>2. SysInv /\ [SystemNext]_<<vars, bus_vars, pci_vars>> => [Next]_vars
    <2> SUFFICES ASSUME SysInv, [SystemNext]_<<vars, bus_vars, pci_vars>> PROVE [Next]_vars
      OBVIOUS
    <2>1. CASE DevCalls
      <3>1. plan.drivers \subseteq Name
        BY MachineOf DEF SysInv, ScanTyped
      <3>2. CASE plan.dev /\ Next
        BY <3>2
      <3>3. CASE \E name \in plan.drivers : register_tty(name) \/ unregister_tty(name)
        BY <3>1, <3>3 DEF Next
      <3> QED BY <2>1, <3>2, <3>3 DEF DevCalls
    <2>2. CASE DriverCalls
      BY <2>2 DEF DriverCalls
    <2>3. CASE ModuleCalls
      BY <2>3 DEF ModuleCalls
    <2>4. CASE Scan
      BY <2>4 DEF Scan
    <2>5. CASE UNCHANGED <<vars, bus_vars, pci_vars>>
      BY <2>5
    <2> QED BY <2>1, <2>2, <2>3, <2>4, <2>5 DEF SystemNext
  <1>3. SysInv /\ [SystemNext]_<<vars, bus_vars, pci_vars>> => SysInv'
    BY SystemSteps
  <1> QED BY SystemBegins, <1>1, <1>2, <1>3, PTL DEF SystemSpec, Spec

\* Whatever the drivers of buses do and wherever a scan stands, the registries of
\* dev.c, tty.c and block.c agree and the initrd keeps its device.
THEOREM SystemDevices == SystemSpec => [](TypeOK /\ DevicesUnique /\ CountsAgree /\ InitrdKept)
  BY SystemImplementsDev, TypeCorrect, DevicesSafe, CountsSafe, InitrdSafe, PTL

\* The lists of buses and entries, the state of the scan and the stack of check_bus
\* keep their types: in particular no frame is ever above MaxDepth, and what is
\* in an entry is an address and resources, or what its memory held.
THEOREM SystemTyped == SystemSpec => [](BusTyped /\ ScanTyped)
  <1>1. SysInv => BusTyped /\ ScanTyped
    BY DEF SysInv
  <1>2. SysInv /\ [SystemNext]_<<vars, bus_vars, pci_vars>> => SysInv'
    BY SystemSteps
  <1> QED BY SystemBegins, <1>1, <1>2, PTL DEF SystemSpec
=============================================================================

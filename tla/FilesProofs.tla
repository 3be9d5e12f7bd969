---------------------------- MODULE FilesProofs ----------------------------
(***************************************************************************)
(* Proofs about the file calls, for any archive, any number of processes   *)
(* and descriptors, and any workload: what a call finds again after other  *)
(* processes have worked, the registries, the cache of procfs, that what   *)
(* nl_open finds bears the name it asked for, and that the steps of the    *)
(* calls implement the table of module Descriptors.                        *)
(***************************************************************************)
EXTENDS Files, SlistProofs, FiniteSetTheorems

Node == [ino : 0..MaxIno, name : Seq(Int), kind : Kind]
ProcNode == [ino : (Len(Archive) + 2)..MaxIno, name : Seq(Int), kind : {"proc", "gone"}]
Descriptor == [node : Node \cup {NoNode}, offset : 0..(OffMax - 1)]
FsName == {"initrd", "procfs", ModFs}

\* The processes, created in the order of their numbers.
Processes ==
    /\ workload \in Workload
    /\ next_pid \in 1..(MaxPid + 1)
    /\ processes \in Seq(1..(next_pid - 1)) /\ SlistNoDup(processes)

\* The cache of procfs and what it has freed are nodes.
Cache ==
    /\ next_inode \in (Len(Archive) + 2)..(MaxIno + 1)
    /\ procs \in Seq(ProcNode) /\ SlistNoDup(procs) /\ freed \subseteq Node /\ torn \in BOOLEAN

\* Everything is mounted on "" or on a given target.
MountOK(mp) ==
    /\ mp.rootnode \in Node
    /\ mp.target = <<>> \/ \E t \in workload.targets : mp.target = t.comps
Registries ==
    /\ filesystems \in Seq(FsName) /\ SlistNoDup(filesystems)
    /\ filesystem_count = Len(filesystems)
    /\ mountpoints \in Seq(SlistElems(mountpoints)) /\ mp_count = Len(mountpoints)
    /\ \A mp \in SlistElems(mountpoints) : MountOK(mp)

FdTyped == fd \in [Pid -> [Fd -> Descriptor]]

\* Descriptor i is the lowest of p that is not open, apart from i itself.
Lowest(p, i) == \A j \in Fd : j < i => fd[p][j].node # NoNode

\* The states of a call that looks for a node.
Seeking == {"walk", "clean", "compare", "remove", "free", "ask", "look", "make", "add", "get", "match"}

\* The node in hand at some places in procfs.
Suits(st, n) ==
    /\ st = "add" => n \in ProcNode
    /\ st \in {"compare", "remove", "free"} => n \in Node

\* What a call relies on when it goes on, however long ago it looked.
CallFields == {"st", "slot", "root", "path", "i", "as", "fs", "src", "target", "node", "k"}
CallOK(p) ==
    LET c == call[p]
    IN  /\ DOMAIN c = CallFields
        /\ c.st \in {"idle", "open", "clear", "mount"} \cup Seeking /\ c.slot \in Fd
        /\ c.node \in Node \cup {NoNode} /\ c.k \in Nat
        /\ Suits(c.st, c.node)
        /\ c.st \in Seeking \cup {"mount"} => c.root \in Node /\ c.i \in Nat
        /\ c.st \in Seeking /\ c.target = NoSource
              => fd[p][c.slot].node = NoNode /\ Lowest(p, c.slot)
        /\ c.st = "mount" \/ (c.st \in Seeking /\ c.target # NoSource)
              => c.target \in workload.targets /\ c.fs \in workload.fs
        /\ c.st \in {"open", "clear"} => fd[p][c.slot].node # NoNode
        /\ c.st = "open" => fd[p][c.slot].offset = 0 /\ Lowest(p, c.slot)
Calls ==
    /\ DOMAIN call = Pid
    /\ \A p \in Pid :
          /\ CallOK(p)
          /\ p \notin Live \/ p \notin workload.callers => call[p].st = "idle"

\* As long as procfs has freed nothing that another lookup holds: a node that is going
\* to be added is new, and nobody else has it; one that is going to be freed is not in
\* the cache any more; and every node is older than the next one.
NewFor(p) ==
    /\ call[p].st = "add" => /\ call[p].node \notin SlistElems(procs)
                             /\ \A q \in Pid : q # p => call[q].node # call[p].node
    /\ call[p].st = "free" => call[p].node \notin SlistElems(procs)
Older ==
    /\ \A n \in SlistElems(procs) \cup freed : n.ino < next_inode
    /\ \A p \in Pid : call[p].node.ino < next_inode
Sound == torn \/ (CacheLive /\ Older /\ \A p \in Pid : NewFor(p))

\* A lookup that finds less in the cache than its index asks below the number of
\* processes there once were.
Counts ==
    /\ most \in Nat /\ Len(processes) <= most
    /\ \A p \in Pid : call[p].st = "look" => call[p].i < most

IInv ==
    /\ Processes /\ Cache /\ Registries /\ FdTyped /\ Calls /\ opened \in Int /\ HeldOpen
    /\ Sound /\ Counts /\ CacheBounded
-----------------------------------------------------------------------------
(* Numbers, sequences and records *)

\* What the constants are.
LEMMA Constants ==
    /\ MaxPid \in Nat \ {0} /\ OPEN_MAX \in Nat \ {0} /\ OffMax \in Nat \ {0} /\ FileSize \in Nat
    /\ MaxIno \in Nat /\ Len(Archive) \in Nat \ {0} /\ Len(Archive) + 1 <= MaxIno
    /\ ModFile \in Seq(Int) /\ Archive \in Seq([name : Seq(Int), dir : BOOLEAN])
    /\ 0 \in Fd /\ NoNode \notin Node
  <1>1. /\ MaxPid \in Nat \ {0} /\ OPEN_MAX \in Nat \ {0} /\ OffMax \in Nat \ {0} /\ FileSize \in Nat
        /\ ModFile \in Seq(Int) /\ Archive \in Seq([name : Seq(Int), dir : BOOLEAN])
    BY MaxPidAssumption, OPEN_MAXAssumption, OffMaxAssumption, ModFileAssumption, ArchiveAssumption
  <1>2. MaxIno \in Nat /\ Len(Archive) \in Nat \ {0} /\ Len(Archive) + 1 <= MaxIno
    <2>1. Archive # <<>> /\ Len(Archive) \in Nat
      BY <1>1, ArchiveAssumption
    <2>2. Len(Archive) # 0
      BY <1>1, <2>1
    <2> QED BY <2>1, <2>2, MaxInoAssumption
  <1>3. 0 \in Fd
    BY <1>1 DEF Fd
  <1>4. NoNode \notin Node
    BY DEF NoNode, Node
  <1> QED BY <1>1, <1>2, <1>3, <1>4

\* The least number of a set.
LEMMA MinIs ==
    ASSUME NEW S \in SUBSET Nat, S # {}
    PROVE  Min(S) \in S /\ \A y \in S : Min(S) <= y
  <1>1. \E x \in S : \A y \in S : x <= y
    BY LeastOf
  <1> QED BY <1>1 DEF Min

\* The rest of a sequence from which one element is taken.
LEMMA RemoveAtIs ==
    ASSUME NEW S, NEW s \in Seq(S), NEW k \in 1..Len(s)
    PROVE  /\ RemoveAt(s, k) \in Seq(S) /\ Len(RemoveAt(s, k)) = Len(s) - 1
           /\ SlistElems(RemoveAt(s, k)) \subseteq SlistElems(s)
  <1> DEFINE a == SubSeq(s, 1, k - 1)
             b == SubSeq(s, k + 1, Len(s))
             r == a \o b
  <1>1. a \in Seq(S) /\ Len(a) = k - 1 /\ \A i \in 1..(k - 1) : a[i] = s[i]
    OBVIOUS
  <1>2. b \in Seq(S) /\ Len(b) = Len(s) - k /\ \A i \in 1..(Len(s) - k) : b[i] = s[k + i]
    <2>1. b \in Seq(S) /\ Len(b) = Len(s) - k
      OBVIOUS
    <2>2. \A i \in 1..(Len(s) - k) : b[i] = s[(k + 1) + i - 1]
      OBVIOUS
    <2>3. \A i \in 1..(Len(s) - k) : (k + 1) + i - 1 = k + i
      OBVIOUS
    <2> QED BY <2>1, <2>2, <2>3
  <1> HIDE DEF a, b
  <1>3. r \in Seq(S) /\ Len(r) = Len(s) - 1
    <2>1. a \in Seq(S) /\ b \in Seq(S)
      BY <1>1, <1>2
    <2>2. r \in Seq(S)
      BY <2>1
    <2>3. Len(r) = Len(a) + Len(b)
      BY <2>1
    <2> QED BY <1>1, <1>2, <2>2, <2>3
  <1>4. \A i \in 1..Len(r) : r[i] = IF i <= k - 1 THEN a[i] ELSE b[i - (k - 1)]
    BY <1>1, <1>2, <1>3
  <1>5. \A i \in 1..Len(r) : r[i] \in SlistElems(s)
    <2> SUFFICES ASSUME NEW i \in 1..Len(r) PROVE r[i] \in SlistElems(s)
      OBVIOUS
    <2>1. CASE i <= k - 1
      <3>1. r[i] = s[i] /\ i \in 1..Len(s)
        BY <1>1, <1>3, <1>4, <2>1
      <3> QED BY <3>1 DEF SlistElems
    <2>2. CASE ~(i <= k - 1)
      <3> DEFINE j == i - (k - 1)
      <3>1. j \in 1..(Len(s) - k) /\ k + j \in 1..Len(s)
        BY <1>3, <2>2
      <3>2. r[i] = b[j]
        BY <1>4, <2>2
      <3>3. b[j] = s[k + j]
        <4> HIDE DEF j
        <4> QED BY <1>2, <3>1
      <3> HIDE DEF j, r
      <3> QED BY <3>1, <3>2, <3>3 DEF SlistElems
    <2> QED BY <2>1, <2>2
  <1>6. RemoveAt(s, k) = r
    BY DEF RemoveAt, a, b
  <1> HIDE DEF r
  <1> QED BY <1>3, <1>5, <1>6 DEF SlistElems

\* The calls as they start and go on, field by field.
LEMMA IdleIs ==
    /\ DOMAIN Idle = CallFields /\ Idle.st = "idle" /\ Idle.slot = 0 /\ Idle.i = 0
    /\ Idle.target = NoSource /\ Idle.node = NoNode /\ Idle.k = 0
  BY DEF Idle, CallFields

\* The call nl_open starts.
LEMMA OpenForm ==
    ASSUME NEW s, NEW r, NEW path, NEW as
    PROVE  LET d == [[Idle EXCEPT !.st = "walk", !.slot = s] EXCEPT !.root = r, !.path = path, !.as = as]
           IN  /\ DOMAIN d = CallFields /\ d.st = "walk" /\ d.slot = s /\ d.root = r /\ d.i = 0
               /\ d.target = NoSource /\ d.path = path /\ d.as = as /\ d.node = NoNode /\ d.k = 0
  BY DEF Idle, CallFields

\* The call mountpoint_create starts.
LEMMA MountForm ==
    ASSUME NEW fs, NEW t, NEW src, NEW r, NEW path, NEW as
    PROVE  LET d == [[Idle EXCEPT !.st = "walk", !.fs = fs, !.target = t, !.src = src]
                        EXCEPT !.root = r, !.path = path, !.as = as]
           IN  /\ DOMAIN d = CallFields /\ d.st = "walk" /\ d.slot = 0 /\ d.root = r /\ d.i = 0
               /\ d.target = t /\ d.fs = fs /\ d.node = NoNode /\ d.k = 0
  BY DEF Idle, CallFields

\* The call nl_open goes on with when the node is found.
LEMMA FoundForm ==
    ASSUME NEW s, NEW as
    PROVE  LET d == [Idle EXCEPT !.st = "open", !.slot = s, !.as = as]
           IN  /\ DOMAIN d = CallFields /\ d.st = "open" /\ d.slot = s /\ d.as = as
               /\ d.node = NoNode /\ d.k = 0
  BY DEF Idle, CallFields

\* The walk of either, in another directory or at the next child.
LEMMA WalkForms ==
    ASSUME NEW c, DOMAIN c = CallFields, NEW r
    PROVE  /\ LET d == [c EXCEPT !.st = "walk", !.root = r, !.path = <<>>, !.i = 0, !.node = NoNode]
              IN  /\ DOMAIN d = CallFields /\ d.st = "walk" /\ d.slot = c.slot /\ d.root = r /\ d.i = 0
                  /\ d.target = c.target /\ d.fs = c.fs /\ d.path = <<>> /\ d.as = c.as
                  /\ d.node = NoNode /\ d.k = c.k
           /\ LET d == [c EXCEPT !.st = "walk", !.i = c.i + 1, !.node = NoNode]
              IN  /\ DOMAIN d = CallFields /\ d.st = "walk" /\ d.slot = c.slot /\ d.root = c.root
                  /\ d.i = c.i + 1 /\ d.target = c.target /\ d.fs = c.fs
                  /\ d.path = c.path /\ d.as = c.as /\ d.node = NoNode /\ d.k = c.k
  BY DEF CallFields

\* The lookup of a child in procfs, which changes three fields of the call.
LEMMA GoesForm ==
    ASSUME DOMAIN call = Pid, NEW p \in Pid, DOMAIN call[p] = CallFields, NEW st, NEW n, NEW k,
           Goes(p, st, n, k)
    PROVE  /\ DOMAIN call' = Pid /\ \A q \in Pid : q # p => call'[q] = call[q]
           /\ DOMAIN call'[p] = CallFields /\ call'[p].st = st /\ call'[p].node = n /\ call'[p].k = k
           /\ call'[p].slot = call[p].slot /\ call'[p].root = call[p].root /\ call'[p].i = call[p].i
           /\ call'[p].path = call[p].path /\ call'[p].as = call[p].as
           /\ call'[p].target = call[p].target /\ call'[p].fs = call[p].fs
  <1> DEFINE c == call[p]
             d == [c EXCEPT !.st = st, !.node = n, !.k = k]
  <1>1. call' = [call EXCEPT ![p] = d]
    BY DEF Goes
  <1>2. /\ DOMAIN d = CallFields /\ d.st = st /\ d.node = n /\ d.k = k
        /\ d.slot = c.slot /\ d.root = c.root /\ d.i = c.i /\ d.path = c.path /\ d.as = c.as
        /\ d.target = c.target /\ d.fs = c.fs
    <2> HIDE DEF c
    <2>1. DOMAIN c = CallFields
      BY DEF c
    <2> QED BY <2>1 DEF CallFields
  <1> HIDE DEF d
  <1>3. DOMAIN call' = Pid /\ call'[p] = d /\ \A q \in Pid : q # p => call'[q] = call[q]
    BY <1>1
  <1> QED BY <1>2, <1>3

\* The call of one process is written, the others are left alone.
LEMMA CallSet ==
    ASSUME DOMAIN call = Pid, NEW p \in Pid, NEW c, call' = [call EXCEPT ![p] = c]
    PROVE  DOMAIN call' = Pid /\ call'[p] = c /\ \A q \in Pid : q # p => call'[q] = call[q]
  OBVIOUS

\* nl_close writes two fields of the call of one process.
LEMMA CallPart ==
    ASSUME DOMAIN call = Pid, NEW p \in Pid, DOMAIN call[p] = CallFields, NEW x, NEW y
    PROVE  LET d == [call EXCEPT ![p].st = x, ![p].slot = y]
           IN  /\ DOMAIN d = Pid /\ \A q \in Pid : q # p => d[q] = call[q]
               /\ DOMAIN d[p] = CallFields /\ d[p].st = x /\ d[p].slot = y
               /\ d[p].node = call[p].node /\ d[p].k = call[p].k
  BY DEF CallFields

\* The source of a mount is found: three fields of the call of one process are written.
LEMMA CallRoot ==
    ASSUME DOMAIN call = Pid, NEW p \in Pid, DOMAIN call[p] = CallFields, NEW n,
           call' = [call EXCEPT ![p].st = "mount", ![p].root = n, ![p].node = NoNode]
    PROVE  /\ DOMAIN call' = Pid /\ \A q \in Pid : q # p => call'[q] = call[q]
           /\ DOMAIN call'[p] = CallFields /\ call'[p].st = "mount" /\ call'[p].root = n
           /\ call'[p].slot = call[p].slot /\ call'[p].i = call[p].i
           /\ call'[p].target = call[p].target /\ call'[p].fs = call[p].fs
           /\ call'[p].node = NoNode /\ call'[p].k = call[p].k
  <1> DEFINE c == call[p]
             d == [c EXCEPT !.st = "mount", !.root = n, !.node = NoNode]
  <1>1. call' = [call EXCEPT ![p] = d]
    OBVIOUS
  <1>2. /\ DOMAIN d = CallFields /\ d.st = "mount" /\ d.root = n /\ d.node = NoNode
        /\ d.slot = c.slot /\ d.i = c.i /\ d.target = c.target /\ d.fs = c.fs /\ d.k = c.k
    <2> HIDE DEF c
    <2>1. DOMAIN c = CallFields
      BY DEF c
    <2> QED BY <2>1 DEF CallFields
  <1> HIDE DEF d
  <1>3. DOMAIN call' = Pid /\ call'[p] = d /\ \A q \in Pid : q # p => call'[q] = call[q]
    BY <1>1
  <1> QED BY <1>2, <1>3

-----------------------------------------------------------------------------
(* What a walk finds *)

\* The nodes of the archive and the module's file.
LEMMA FixedChildren ==
    /\ InitrdNodes \in Seq(Node) /\ Len(InitrdNodes) = Len(Archive)
    /\ \A k \in 1..Len(InitrdNodes) : InitrdNodes[k].kind # "root"
    /\ mod_children \in Seq(Node) /\ Len(mod_children) = 1 /\ mod_children[1].kind = "mod"
  <1> DEFINE n == Len(Archive)
  <1>1. n \in Nat /\ n + 1 <= MaxIno /\ MaxIno \in Nat /\ ModFile \in Seq(Int)
    BY Constants
  <1>2. ASSUME NEW j \in 1..n
        PROVE  InitrdNodes[j] \in Node /\ InitrdNodes[j].kind # "root"
    <2> DEFINE k == Len(Archive) + 1 - j
    <2>1. k \in 1..n /\ k + 1 \in 0..MaxIno
      BY <1>1
    <2>2. Archive[k].name \in Seq(Int)
      <3> DEFINE E == [name : Seq(Int), dir : BOOLEAN]
      <3>1. Archive \in Seq(E)
        BY Constants
      <3>2. Archive[k] \in E
        <4> HIDE DEF E, k
        <4> QED BY <2>1, <3>1
      <3> HIDE DEF k
      <3> QED BY <3>2
    <2> DEFINE kd == IF Archive[k].dir THEN "dir" ELSE "file"
    <2>3. kd \in Kind /\ kd # "root"
      BY DEF Kind
    <2>4. InitrdNodes[j] = [ino |-> k + 1, name |-> Archive[k].name, kind |-> kd]
      BY DEF InitrdNodes
    <2> HIDE DEF k, kd
    <2> QED BY <2>1, <2>2, <2>3, <2>4 DEF Node
  <1>3. InitrdNodes \in [1..n -> Node]
    <2>1. InitrdNodes = [j \in 1..n |-> InitrdNodes[j]]
      BY DEF InitrdNodes
    <2> HIDE DEF n
    <2> QED BY <1>2, <2>1
  <1>4. InitrdNodes \in Seq(Node) /\ Len(InitrdNodes) = n
    <2> HIDE DEF n
    <2> QED BY <1>1, <1>3, FunctionIsSeq
  <1>5. [ino |-> 0, name |-> ModFile, kind |-> "mod"] \in Node
    BY <1>1 DEF Node, Kind
  <1> QED BY <1>2, <1>4, <1>5 DEF mod_children

\* A child of a list that does not change is a node, or there is none.
LEMMA ChildIs ==
    ASSUME NEW node, NEW path
    PROVE  get_child(node, path) \in Node \cup {NoNode}
  <1> DEFINE list == IF node.kind = "modroot" THEN mod_children ELSE initrd_children
             hits == {k \in 1..Len(list) : Matches(path, list[k].name)}
  <1>1. list \in Seq(Node)
    BY FixedChildren DEF initrd_children
  <1>2. get_child(node, path) = IF hits = {} THEN NoNode ELSE list[Min(hits)]
    BY DEF get_child
  <1> HIDE DEF list
  <1>3. hits # {} => Min(hits) \in 1..Len(list)
    <2>1. hits \in SUBSET Nat /\ hits \subseteq 1..Len(list)
      BY <1>1
    <2> HIDE DEF hits
    <2> QED BY <2>1, MinIs
  <1> HIDE DEF hits
  <1> QED BY <1>1, <1>2, <1>3

\* A new node of procfs.
LEMMA MadeIs ==
    ASSUME Processes, Cache, NEW i \in Nat, next_inode <= workload.inodes
    PROVE  /\ procfs_node(i) \in ProcNode /\ procfs_node(i) \in Node
           /\ procfs_node(i).ino = next_inode /\ next_inode + 1 \in (Len(Archive) + 2)..(MaxIno + 1)
  <1>1. next_inode \in (Len(Archive) + 2)..MaxIno /\ Len(Archive) \in Nat /\ MaxIno \in Nat
    <2>1. workload.inodes \in 0..MaxIno
      BY WorkloadAssumption DEF Processes
    <2> QED BY <2>1, Constants DEF Cache
  <1> DEFINE kd == IF i < Len(processes) THEN "proc" ELSE "gone"
  <1>2. kd \in {"proc", "gone"} /\ <<i>> \in Seq(Int)
    OBVIOUS
  <1>3. procfs_node(i) = [ino |-> next_inode, name |-> <<i>>, kind |-> kd]
    BY DEF procfs_node, fs_node_create
  <1> HIDE DEF kd
  <1>4. procfs_node(i) \in ProcNode /\ procfs_node(i).ino = next_inode
    BY <1>1, <1>2, <1>3 DEF ProcNode
  <1>5. ProcNode \subseteq Node
    BY Constants DEF ProcNode, Node, Kind
  <1> QED BY <1>1, <1>4, <1>5

\* A pointer to a node points at that node as long as it is not freed, and always at
\* some node.
LEMMA PointsIs ==
    ASSUME Cache, Registries, Calls, NEW n \in Node \cup {NoNode}
    PROVE  /\ PointsTo(n) \subseteq Node \cup {NoNode} /\ (n \notin freed => PointsTo(n) = {n})
           /\ n \in Node => PointsTo(n) \subseteq Node
  <1> DEFINE A == SlistElems(procs)
             B == {call[q].node : q \in Pid}
             C == {mountpoints[k].rootnode : k \in 1..Len(mountpoints)}
             nodes == A \cup B \cup C
  <1>1. A \subseteq Node
    <2>1. A \subseteq ProcNode
      BY ElemsIn DEF Cache
    <2> HIDE DEF A
    <2> QED BY <2>1, Constants DEF ProcNode, Node, Kind
  <1>2. B \subseteq Node \cup {NoNode}
    BY DEF Calls, CallOK
  <1>3. C \subseteq Node
    <2>1. \A k \in 1..Len(mountpoints) : mountpoints[k] \in SlistElems(mountpoints)
      BY DEF SlistElems
    <2> QED BY <2>1 DEF Registries, MountOK
  <1>4. PointsTo(n) = IF n \notin freed THEN {n} ELSE {n} \cup {m \in nodes \ freed : m.ino > n.ino}
    BY DEF PointsTo
  <1> HIDE DEF A, B, C
  <1>5. ASSUME n \in Node PROVE ~(NoNode.ino > n.ino)
    <2>1. n.ino \in Nat /\ NoNode.ino = -1
      BY <1>5, Constants DEF Node, NoNode
    <2> QED BY <2>1
  <1> QED BY <1>1, <1>2, <1>3, <1>4, <1>5

\* fs_resolve takes a mount point of the list, if one covers the path.
LEMMA ResolveIs ==
    ASSUME Registries, NEW path, Covering(path) # {}
    PROVE  /\ Min(Covering(path)) \in Covering(path)
           /\ fs_resolve_mp(path) \in SlistElems(mountpoints) /\ fs_resolve_mp(path).rootnode \in Node
  <1> DEFINE k == Min(Covering(path))
  <1>1. Covering(path) \subseteq 1..Len(mountpoints) /\ Covering(path) \in SUBSET Nat
    BY DEF Covering, Registries
  <1>2. k \in Covering(path)
    BY <1>1, MinIs
  <1>3. k \in 1..Len(mountpoints)
    BY <1>1, <1>2
  <1>4. fs_resolve_mp(path) = mountpoints[k]
    BY DEF fs_resolve_mp
  <1> HIDE DEF k
  <1>5. fs_resolve_mp(path) \in SlistElems(mountpoints)
    BY <1>3, <1>4 DEF SlistElems
  <1> QED BY <1>2, <1>5 DEF Registries, MountOK, k

\* The processes that make calls are finitely many.
LEMMA CallersFinite ==
    ASSUME Processes
    PROVE  IsFiniteSet(workload.callers) /\ Cardinality(workload.callers) \in Nat
  <1>1. workload.pids \in 1..MaxPid /\ workload.callers \subseteq 1..workload.pids /\ workload.pids \in Int
    BY WorkloadAssumption, Constants DEF Processes
  <1> DEFINE n == workload.pids
  <1>2. IsFiniteSet(1..n)
    <2>1. n \in Int /\ 1 \in Int
      BY <1>1
    <2> HIDE DEF n
    <2> QED BY <2>1, FS_Interval
  <1>3. workload.callers \in SUBSET (1..n)
    BY <1>1
  <1>4. IsFiniteSet(workload.callers)
    BY <1>2, <1>3, FS_Subset
  <1> QED BY <1>4, FS_CardinalityType

-----------------------------------------------------------------------------
(* The first state *)

\* Nothing is open, no call is made and the initrd is mounted.
LEMMA InvInit == Init => IInv
  <1> SUFFICES ASSUME Init PROVE IInv
    OBVIOUS
  <1>1. Processes
    <2>1. processes = <<1>> /\ next_pid = 2 /\ workload \in Workload
      BY DEF Init
    <2>2. 2 \in 1..(MaxPid + 1) /\ 2 - 1 = 1 /\ <<1>> \in Seq(1..1) /\ SlistNoDup(<<1>>)
      BY Constants DEF SlistNoDup
    <2> QED BY <2>1, <2>2 DEF Processes
  <1>2. Cache
    <2>1. next_inode = Len(Archive) + 2 /\ procs = <<>> /\ freed = {}
      BY DEF Init, VfsInit
    <2>2. procs \in Seq(ProcNode)
      BY <2>1
    <2>3. next_inode \in (Len(Archive) + 2)..(MaxIno + 1)
      BY <2>1, Constants
    <2>4. torn = FALSE
      BY DEF Init
    <2>5. SlistNoDup(procs)
      BY <2>1 DEF SlistNoDup
    <2> QED BY <2>1, <2>2, <2>3, <2>4, <2>5 DEF Cache
  <1>3. Registries
    <2> DEFINE mp == [rootnode |-> InitrdRoot, source |-> NoSource, target |-> <<>>]
    <2>1. filesystems = <<"initrd", "procfs">> /\ filesystem_count = 2
          /\ mountpoints = <<mp>> /\ mp_count = 1
      BY DEF Init, VfsInit
    <2>2. filesystems \in Seq(FsName) /\ SlistNoDup(filesystems) /\ Len(filesystems) = 2
      BY <2>1 DEF FsName, SlistNoDup
    <2>3. InitrdRoot \in Node
      <3>1. <<Slash>> \in Seq(Int)
        BY DEF Slash
      <3> QED BY <3>1, Constants DEF InitrdRoot, Node, Kind
    <2>4. MountOK(mp)
      BY <2>3 DEF MountOK
    <2> HIDE DEF mp
    <2>5. SlistElems(mountpoints) = {mp} /\ mountpoints \in Seq({mp}) /\ Len(mountpoints) = 1
      BY <2>1 DEF SlistElems
    <2> QED BY <2>1, <2>2, <2>4, <2>5 DEF Registries
  <1>4. fd = [p \in Pid |-> [i \in Fd |-> NoFd]] /\ call = [p \in Pid |-> Idle] /\ opened = 0
    BY DEF Init
  <1>5. FdTyped
    <2>1. NoFd \in Descriptor
      BY Constants DEF NoFd, Descriptor
    <2> QED BY <1>4, <2>1 DEF FdTyped
  <1>6. Calls
    <2>1. DOMAIN call = Pid /\ \A p \in Pid : call[p] = Idle
      BY <1>4
    <2>2. \A p \in Pid : CallOK(p)
      BY <2>1, IdleIs, Constants DEF CallOK, Seeking, Suits
    <2> QED BY <2>1, <2>2, IdleIs DEF Calls
  <1>7. HeldOpen
    <2>1. \A p \in Pid : Held(p) = {}
      BY <1>4 DEF Held, OfMod, NoFd, NoNode
    <2>2. {d \in Pid \X Fd : d[2] \in Held(d[1])} = {}
      BY <2>1
    <2>3. Cardinality({d \in Pid \X Fd : d[2] \in Held(d[1])}) = 0
      BY <2>2, FS_EmptySet
    <2> QED BY <1>4, <2>3 DEF HeldOpen
  <1>8. \A p \in Pid : call[p].st = "idle" /\ call[p].node = NoNode
    BY <1>4, IdleIs
  <1>9. procs = <<>> /\ freed = {} /\ SlistElems(procs) = {} /\ Len(procs) = 0
    BY DEF Init, VfsInit, SlistElems
  <1>10. Sound
    <2>1. SlistNoDup(procs)
      BY <1>2 DEF Cache
    <2>2. CacheLive
      BY <1>9, <2>1 DEF CacheLive
    <2>3. Older
      <3>1. NoNode.ino < next_inode
        <4>1. next_inode \in Nat
          BY <1>2, Constants DEF Cache
        <4>2. NoNode.ino = -1
          BY DEF NoNode
        <4> QED BY <4>1, <4>2
      <3> QED BY <1>8, <1>9, <3>1 DEF Older
    <2>4. \A p \in Pid : NewFor(p)
      BY <1>8 DEF NewFor
    <2> QED BY <2>2, <2>3, <2>4 DEF Sound
  <1>11. most = 1 /\ Len(processes) = 1
    BY DEF Init
  <1>12. Counts
    BY <1>8, <1>11 DEF Counts
  <1>13. CacheBounded
    <2>1. Adding = {}
      BY <1>8 DEF Adding
    <2>2. Cardinality(Adding) = 0
      BY <2>1, FS_EmptySet
    <2>3. Cardinality(workload.callers) \in Nat
      BY <1>1, CallersFinite
    <2> QED BY <1>9, <1>11, <2>2, <2>3 DEF CacheBounded
  <1> QED BY <1>1, <1>2, <1>3, <1>4, <1>5, <1>6, <1>7, <1>10, <1>12, <1>13 DEF IInv
-----------------------------------------------------------------------------
(* The steps *)

\* A live process has a number, and who is in no call is one.
LEMMA LiveIs ==
    ASSUME Processes
    PROVE  Live \subseteq Pid /\ next_pid \notin Live /\ workload.pids \in 1..MaxPid
           /\ next_pid \in Nat /\ next_pid - 1 \in Nat
  <1>1. Live \subseteq 1..(next_pid - 1)
    BY ElemsIn DEF Live, Processes
  <1>2. next_pid \in 1..(MaxPid + 1)
    BY DEF Processes
  <1>3. workload.pids \in 1..MaxPid
    BY WorkloadAssumption DEF Processes
  <1> QED BY <1>1, <1>2, <1>3, Constants DEF Pid

\* procfs changes nothing but its cache, the call and the next number of a node.
LEMMA ProcfsQuiet == ASSUME NEW p, procfs_get_child(p) PROVE Quietly
  BY DEF procfs_get_child, procfs_cleanup, procfs_visit, procfs_compare, procfs_remove,
         procfs_free, procfs_ask, procfs_look, procfs_make, procfs_add, procfs_get

\* A process is linked under a new number and unlinked when it is destroyed.
LEMMA ProcessesStep == IInv /\ Next => Processes'
  <1> SUFFICES ASSUME IInv, Next PROVE Processes'
    OBVIOUS
  <1>1. Processes /\ workload' = workload
    BY DEF IInv, Next
  <1>2. /\ workload \in Workload /\ next_pid \in 1..(MaxPid + 1) /\ next_pid \in Nat
        /\ processes \in Seq(1..(next_pid - 1)) /\ SlistNoDup(processes) /\ MaxPid \in Nat
    BY <1>1, Constants DEF Processes
  <1>3. ASSUME UNCHANGED <<processes, next_pid>> PROVE Processes'
    BY <1>1, <1>3 DEF Processes, SlistNoDup
  <1>4. CASE proc_create
    <2> DEFINE S == 1..next_pid
    <2>1. next_pid <= workload.pids /\ next_pid' = next_pid + 1
          /\ processes' = SlistInsertHead(processes, next_pid)
      BY <1>4 DEF proc_create
    <2>2. next_pid \notin SlistElems(processes) /\ workload.pids \in 1..MaxPid
      BY <1>1, LiveIs DEF Live
    <2>3. next_pid' \in 1..(MaxPid + 1) /\ next_pid' - 1 = next_pid
      BY <1>2, <2>1, <2>2
    <2>4. processes \in Seq(S) /\ next_pid \in S
      BY <1>2
    <2> HIDE DEF S
    <2>5. SlistInsertHead(processes, next_pid) \in Seq(S)
      BY <2>4, InsertHead
    <2>6. SlistNoDup(SlistInsertHead(processes, next_pid))
      BY <1>2, <2>2, <2>4, InsertNoDup
    <2> QED BY <1>1, <1>2, <2>1, <2>3, <2>5, <2>6 DEF Processes, S
  <1>5. ASSUME NEW p \in Pid, proc_destroy(p) PROVE Processes'
    <2>1. p \in SlistElems(processes) /\ processes' = SlistRemove(processes, p) /\ next_pid' = next_pid
      BY <1>5 DEF proc_destroy, Live
    <2> DEFINE S == 1..(next_pid - 1)
    <2>2. processes \in Seq(S)
      BY <1>2
    <2> HIDE DEF S
    <2>3. SlistRemove(processes, p) \in Seq(S)
      BY <1>2, <2>1, <2>2, RemoveElem
    <2>4. SlistNoDup(SlistRemove(processes, p))
      BY <1>2, <2>1, <2>2, RemoveNoDup
    <2> QED BY <1>1, <1>2, <2>1, <2>3, <2>4 DEF Processes, S
  <1>6. ASSUME NEW p \in Pid, FileCalls(p) PROVE UNCHANGED <<processes, next_pid>>
    BY <1>6, ProcfsQuiet DEF Quietly, FileCalls, nl_open, walk_on, walk_fails, walk_astray, Walks, nl_open_found,
                nl_open_opens, nl_close, nl_close_clears, nl_read, nl_write, nl_transfer, vfs_vars
  <1>7. ASSUME NEW p \in Pid, MountCalls(p) PROVE UNCHANGED <<processes, next_pid>>
    BY <1>7 DEF MountCalls, mountpoint_create, mountpoint_create_found, Walks,
                mountpoint_create_mounts, mountpoint_create_fails, vfs_vars
  <1>8. ASSUME RegistryCalls PROVE UNCHANGED <<processes, next_pid>>
    BY <1>8 DEF RegistryCalls, mountpoint_destroy, register_fs, unregister_fs
  <1> QED BY <1>3, <1>4, <1>5, <1>6, <1>7, <1>8 DEF Next

\* Who looks for a node has one to look from.
LEMMA WalkRoot ==
    ASSUME IInv, NEW p \in Pid, call[p].st \in Seeking
    PROVE  call[p].root \in Node /\ call[p].i \in Nat
  BY DEF IInv, Calls, CallOK

\* What a walk has before it is a node, or nothing.
LEMMA AnswerIs ==
    ASSUME IInv, NEW p \in Pid, NEW n \in Answer(p)
    PROVE  n \in Node \cup {NoNode}
  <1>1. CASE call[p].st = "match"
    <2>1. call[p].node \in Node \cup {NoNode}
      BY DEF IInv, Calls, CallOK
    <2>2. Cache /\ Registries /\ Calls
      BY DEF IInv
    <2>3. PointsTo(call[p].node) \subseteq Node \cup {NoNode}
      BY <2>1, <2>2, PointsIs
    <2> QED BY <1>1, <2>3 DEF Answer
  <1>2. CASE call[p].st # "match"
    BY <1>2, ChildIs DEF Answer
  <1> QED BY <1>1, <1>2

\* A new mount point has a root of its own, or is bound to a node that was found.
LEMMA RegistriesStep == IInv /\ Next => Registries'
  <1> SUFFICES ASSUME IInv, Next PROVE Registries'
    OBVIOUS
  <1>1. Registries /\ workload' = workload
    BY DEF IInv, Next
  <1>2. \A mp : MountOK(mp)' <=> MountOK(mp)
    BY <1>1 DEF MountOK
  <1>3. /\ filesystems \in Seq(FsName) /\ SlistNoDup(filesystems)
        /\ filesystem_count = Len(filesystems) /\ mp_count = Len(mountpoints)
        /\ mountpoints \in Seq(SlistElems(mountpoints))
        /\ \A mp \in SlistElems(mountpoints) : MountOK(mp)
    BY <1>1 DEF Registries
  <1>4. ASSUME UNCHANGED fs_list, UNCHANGED mp_list PROVE Registries'
    <2>1. UNCHANGED <<filesystems, filesystem_count, mountpoints, mp_count>>
      BY <1>4 DEF fs_list, mp_list
    <2>2. SlistElems(mountpoints') = SlistElems(mountpoints) /\ SlistNoDup(filesystems')
      BY <1>3, <2>1
    <2> QED BY <1>2, <1>3, <2>1, <2>2 DEF Registries
  <1>5. ASSUME register_fs(ModFs) PROVE Registries'
    <2>1. /\ ModFs \notin SlistElems(filesystems) /\ filesystem_count' = filesystem_count + 1
          /\ filesystems' = SlistInsertHead(filesystems, ModFs)
          /\ UNCHANGED <<mountpoints, mp_count>>
      BY <1>5 DEF register_fs, mp_list
    <2>2. ModFs \in FsName
      BY DEF FsName
    <2>3. filesystems' \in Seq(FsName) /\ Len(filesystems') = Len(filesystems) + 1
      BY <1>3, <2>1, <2>2, InsertHead
    <2>4. SlistNoDup(filesystems')
      BY <1>3, <2>1, <2>2, InsertNoDup
    <2>5. SlistElems(mountpoints') = SlistElems(mountpoints)
      BY <2>1
    <2> QED BY <1>2, <1>3, <2>1, <2>3, <2>4, <2>5 DEF Registries
  <1>6. ASSUME unregister_fs(ModFs) PROVE Registries'
    <2>1. /\ ModFs \in SlistElems(filesystems) /\ filesystem_count' = filesystem_count - 1
          /\ filesystems' = SlistRemove(filesystems, ModFs)
          /\ UNCHANGED <<mountpoints, mp_count>>
      BY <1>6 DEF unregister_fs, mp_list
    <2>2. filesystems' \in Seq(FsName) /\ Len(filesystems') = Len(filesystems) - 1
      BY <1>3, <2>1, RemoveElem
    <2>3. SlistNoDup(filesystems')
      BY <1>3, <2>1, RemoveNoDup
    <2>4. SlistElems(mountpoints') = SlistElems(mountpoints)
      BY <2>1
    <2> QED BY <1>2, <1>3, <2>1, <2>2, <2>3, <2>4 DEF Registries
  <1>7. ASSUME NEW t, mountpoint_destroy(t) PROVE Registries'
    <2> DEFINE k == Min(AtTarget(t))
               S == SlistElems(mountpoints)
    <2>1. /\ AtTarget(t) # {} /\ mountpoints' = RemoveAt(mountpoints, k)
          /\ mp_count' = mp_count - 1 /\ UNCHANGED <<filesystems, filesystem_count>>
      BY <1>7 DEF mountpoint_destroy, fs_list
    <2>2. k \in 1..Len(mountpoints)
      <3>1. AtTarget(t) \subseteq 1..Len(mountpoints) /\ AtTarget(t) \in SUBSET Nat
        BY DEF AtTarget
      <3>2. k \in AtTarget(t)
        BY <2>1, <3>1, MinIs
      <3> QED BY <3>1, <3>2
    <2>3. mountpoints \in Seq(S)
      BY <1>3
    <2> HIDE DEF k, S
    <2>4. /\ mountpoints' \in Seq(S) /\ Len(mountpoints') = Len(mountpoints) - 1
          /\ SlistElems(mountpoints') \subseteq SlistElems(mountpoints)
      BY <2>1, <2>2, <2>3, RemoveAtIs
    <2>5. mountpoints' \in Seq(SlistElems(mountpoints'))
      BY <2>4 DEF SlistElems
    <2>6. SlistNoDup(filesystems')
      BY <1>3, <2>1
    <2> QED BY <1>2, <1>3, <2>1, <2>4, <2>5, <2>6 DEF Registries
  <1>8. ASSUME NEW p \in Pid, mountpoint_create_mounts(p) PROVE Registries'
    <2> DEFINE c == call[p]
    <2>1. c.st = "mount" /\ c.root \in Node /\ c.target \in workload.targets
      BY <1>8 DEF mountpoint_create_mounts, IInv, Calls, CallOK
    <2>2. /\ UNCHANGED <<filesystems, filesystem_count>>
          /\ mountpoint_create_fromnode(c.fs, c.root, c.src, c.target)
      BY <1>8 DEF mountpoint_create_mounts, fs_list
    <2>3. \E node \in Node : mountpoint_link(node, c.src, c.target)
      <3>1. CASE c.fs = MS_BIND
        BY <2>1, <2>2, <3>1 DEF mountpoint_create_fromnode
      <3>2. CASE c.fs # MS_BIND
        <4>1. next_inode <= MaxIno /\ mountpoint_link(procfs_mount(c.fs), c.src, c.target)
          BY <2>2, <3>2 DEF mountpoint_create_fromnode
        <4>2. next_inode \in 0..MaxIno
          BY <4>1, Constants DEF IInv, Cache
        <4> DEFINE kd == IF c.fs = ModFs THEN "modroot" ELSE "procfs"
        <4>3. kd \in Kind /\ <<Slash>> \in Seq(Int)
          BY DEF Kind, Slash
        <4>4. procfs_mount(c.fs) = [ino |-> next_inode, name |-> <<Slash>>, kind |-> kd]
          BY DEF procfs_mount, fs_node_create
        <4> HIDE DEF kd
        <4>5. procfs_mount(c.fs) \in Node
          BY <4>2, <4>3, <4>4 DEF Node
        <4> QED BY <4>1, <4>5
      <3> QED BY <3>1, <3>2
    <2>4. PICK node \in Node : mountpoint_link(node, c.src, c.target)
      BY <2>3
    <2> DEFINE e == [rootnode |-> node, source |-> c.src, target |-> c.target.comps]
               S == SlistElems(mountpoints) \cup {e}
    <2>5. mountpoints' = SlistInsertHead(mountpoints, e) /\ mp_count' = mp_count + 1
      BY <2>4 DEF mountpoint_link
    <2>6. MountOK(e)
      BY <2>1, <2>4 DEF MountOK
    <2>7. mountpoints \in Seq(S) /\ e \in S
      <3>1. \A i \in 1..Len(mountpoints) : mountpoints[i] \in S
        BY DEF SlistElems
      <3> QED BY <1>3, <3>1
    <2> HIDE DEF e, c
    <2>8. /\ SlistElems(mountpoints') = S /\ mountpoints' \in Seq(S)
          /\ Len(mountpoints') = Len(mountpoints) + 1
      <3> HIDE DEF S
      <3> DEFINE l == SlistInsertHead(mountpoints, e)
      <3>1. SlistElems(l) = SlistElems(mountpoints) \cup {e} /\ l \in Seq(S) /\ Len(l) = Len(mountpoints) + 1
        BY <2>7, InsertHead
      <3>2. mountpoints' = l
        BY <2>5
      <3> HIDE DEF l
      <3> QED BY <3>1, <3>2 DEF S
    <2>9. SlistNoDup(filesystems')
      BY <1>3, <2>2
    <2> QED BY <1>2, <1>3, <2>2, <2>5, <2>6, <2>8, <2>9 DEF Registries
  <1>9. ASSUME NEW p \in Pid, FileCalls(p) PROVE UNCHANGED fs_list /\ UNCHANGED mp_list
    BY <1>9, ProcfsQuiet DEF Quietly, FileCalls, nl_open, walk_on, walk_fails, walk_astray, Walks, nl_open_found,
                nl_open_opens, nl_close, nl_close_clears, nl_read, nl_write, nl_transfer, vfs_vars
  <1>10. ASSUME NEW p \in Pid, MountCalls(p), ~mountpoint_create_mounts(p)
         PROVE  UNCHANGED fs_list /\ UNCHANGED mp_list
    BY <1>10 DEF MountCalls, mountpoint_create, mountpoint_create_found, Walks,
                 mountpoint_create_fails, vfs_vars
  <1>11. ASSUME NEW p \in Pid, proc_create \/ proc_destroy(p) PROVE UNCHANGED fs_list /\ UNCHANGED mp_list
    BY <1>11 DEF proc_create, proc_destroy
  <1>12. CASE RegistryCalls
    BY <1>5, <1>6, <1>7, <1>12 DEF RegistryCalls
  <1>13. CASE proc_create
    <2>1. 1 \in Pid
      BY Constants DEF Pid
    <2> QED BY <1>4, <1>11, <1>13, <2>1
  <1> QED BY <1>4, <1>8, <1>9, <1>10, <1>11, <1>12, <1>13 DEF Next

-----------------------------------------------------------------------------
(* The descriptors and the calls *)

\* One descriptor is written, whole or in part.
LEMMA FdSet ==
    ASSUME FdTyped, NEW p \in Pid, NEW i \in Fd, NEW d \in Descriptor, fd' = [fd EXCEPT ![p][i] = d]
    PROVE  /\ FdTyped' /\ fd'[p][i] = d /\ \A j \in Fd : j # i => fd'[p][j] = fd[p][j]
           /\ \A q \in Pid : q # p => fd'[q] = fd[q]
  BY DEF FdTyped

\* The node of one descriptor is taken back.
LEMMA FdNode ==
    ASSUME FdTyped, NEW p \in Pid, NEW i \in Fd, fd' = [fd EXCEPT ![p][i].node = NoNode]
    PROVE  /\ FdTyped' /\ fd'[p][i].node = NoNode /\ \A j \in Fd : j # i => fd'[p][j] = fd[p][j]
           /\ \A q \in Pid : q # p => fd'[q] = fd[q]
  <1> DEFINE d == [fd[p][i] EXCEPT !.node = NoNode]
  <1>1. fd[p][i] \in Descriptor
    BY DEF FdTyped
  <1>2. d \in Descriptor /\ d.node = NoNode
    BY <1>1 DEF Descriptor
  <1>3. fd' = [fd EXCEPT ![p][i] = d]
    OBVIOUS
  <1> HIDE DEF d
  <1>4. /\ FdTyped' /\ fd'[p][i] = d /\ \A j \in Fd : j # i => fd'[p][j] = fd[p][j]
        /\ \A q \in Pid : q # p => fd'[q] = fd[q]
    BY <1>2, <1>3 DEF FdTyped
  <1> QED BY <1>2, <1>4

\* The offset of one descriptor moves, modulo the width of a size_t.
LEMMA FdOffset ==
    ASSUME FdTyped, NEW p \in Pid, NEW i \in Fd, NEW r \in Int,
           fd' = [fd EXCEPT ![p][i].offset = (@ + r) % OffMax]
    PROVE  /\ FdTyped' /\ \A j \in Fd : j # i => fd'[p][j] = fd[p][j]
           /\ fd'[p][i].node = fd[p][i].node /\ fd'[p][i].offset \in 0..(OffMax - 1)
           /\ \A q \in Pid : q # p => fd'[q] = fd[q]
  <1> DEFINE o == (fd[p][i].offset + r) % OffMax
             d == [fd[p][i] EXCEPT !.offset = o]
  <1>1. fd[p][i] \in Descriptor
    BY DEF FdTyped
  <1>2. o \in 0..(OffMax - 1)
    <2>1. fd[p][i].offset \in Int
      BY <1>1 DEF Descriptor
    <2> DEFINE x == fd[p][i].offset + r
    <2>2. x \in Int /\ OffMax \in Nat /\ OffMax > 0
      BY <2>1, Constants
    <2> HIDE DEF x
    <2>3. x % OffMax \in 0..(OffMax - 1)
      BY <2>2
    <2> QED BY <2>3 DEF x
  <1>3. fd' = [fd EXCEPT ![p][i] = d]
    OBVIOUS
  <1> HIDE DEF o
  <1>4. d \in Descriptor /\ d.node = fd[p][i].node /\ d.offset = o
    BY <1>1, <1>2 DEF Descriptor
  <1> HIDE DEF d
  <1>5. /\ FdTyped' /\ fd'[p][i] = d /\ \A j \in Fd : j # i => fd'[p][j] = fd[p][j]
        /\ \A q \in Pid : q # p => fd'[q] = fd[q]
    BY <1>3, <1>4 DEF FdTyped
  <1> QED BY <1>2, <1>4, <1>5

\* The descriptors of one process are cleared.
LEMMA FdReset ==
    ASSUME FdTyped, NEW p \in Pid, fd' = [fd EXCEPT ![p] = [i \in Fd |-> NoFd]]
    PROVE  /\ FdTyped' /\ \A i \in Fd : fd'[p][i] = NoFd
           /\ \A q \in Pid : q # p => fd'[q] = fd[q]
  <1>1. NoFd \in Descriptor
    BY Constants DEF NoFd, Descriptor
  <1> QED BY <1>1 DEF FdTyped

\* A step that leaves the call and the descriptors of a process alone leaves what
\* its call relies on.
LEMMA OtherCall ==
    ASSUME NEW q \in Pid, CallOK(q), call'[q] = call[q], fd'[q] = fd[q], UNCHANGED workload
    PROVE  CallOK(q)' /\ Held(q)' = Held(q) /\ OfMod(q)' = OfMod(q)
  BY DEF CallOK, Lowest, Held, OfMod

\* Nothing is relied on between calls.
LEMMA IdleCall ==
    ASSUME NEW q \in Pid, call'[q] = Idle
    PROVE  CallOK(q)' /\ Held(q)' = OfMod(q)'
  <1>1. CallOK(q)'
    BY IdleIs, Constants DEF CallOK, Seeking, Suits
  <1>2. Held(q)' = OfMod(q)'
    BY IdleIs DEF Held, OfMod
  <1> QED BY <1>1, <1>2

\* What the table shows of a descriptor, and of all the descriptors of a process.
Entry(p, i) ==
    IF \/ fd[p][i].node = NoNode
       \/ call[p].st \in {"open", "clear"} /\ call[p].slot = i
    THEN [node |-> -1, offset |-> 0]
    ELSE [node |-> fd[p][i].node.ino, offset |-> fd[p][i].offset]
Row(p) == [i \in Fd |-> Entry(p, i)]

\* A step of process p leaves the others alone and keeps what p relies on.
Own(p) ==
    /\ DOMAIN call' = Pid /\ FdTyped' /\ CallOK(p)'
    /\ \A q \in Pid : q # p => call'[q] = call[q] /\ fd'[q] = fd[q]

\* It is no step of procfs towards freeing or adding a node.
Calmly(p) ==
    \/ call'[p] = call[p]
    \/ /\ call'[p].node = NoNode \/ call'[p].node = call[p].node
       /\ call'[p].st \notin {"free", "look", "make", "add"}

\* It is not seen in the table, nor at the driver of the module's file.
Unseen(p) == Row(p)' = Row(p) /\ Held(p)' = Held(p) /\ opened' = opened /\ unmatched' = unmatched

\* No descriptor is half open before the step and none is after it.
LEMMA NoneHidden ==
    ASSUME NEW p \in Pid, fd'[p] = fd[p], call[p].st \notin {"open", "clear"},
           call'[p].st \notin {"open", "clear"}
    PROVE  Row(p)' = Row(p) /\ Held(p)' = Held(p)
  <1>1. Row(p)' = Row(p)
    BY DEF Row, Entry
  <1>2. Held(p)' = Held(p)
    BY DEF Held, OfMod
  <1> QED BY <1>1, <1>2

\* What the invariant says of one process.
LEMMA OfProcess ==
    ASSUME IInv, NEW p \in Pid
    PROVE  CallOK(p) /\ FdTyped /\ DOMAIN call = Pid /\ DOMAIN call[p] = CallFields /\ workload \in Workload
  BY DEF IInv, Calls, CallOK, Processes

\* A call of process p ends: what holds of p whatever else the step does.
LEMMA EndsCall ==
    ASSUME IInv, Next, NEW p \in Pid, FdTyped', call' = [call EXCEPT ![p] = Idle],
           \A q \in Pid : q # p => fd'[q] = fd[q]
    PROVE  Own(p) /\ Calmly(p) /\ Held(p)' = OfMod(p)' /\ call'[p] = Idle
  <1>1. DOMAIN call' = Pid /\ call'[p] = Idle /\ \A q \in Pid : q # p => call'[q] = call[q]
    <2>1. DOMAIN call = Pid
      BY OfProcess
    <2> QED BY <2>1, CallSet
  <1>2. CallOK(p)' /\ Held(p)' = OfMod(p)'
    BY <1>1, IdleCall
  <1>3. Calmly(p)
    BY <1>1, IdleIs DEF Calmly
  <1> QED BY <1>1, <1>2, <1>3 DEF Own

\* nl_open picks the lowest descriptor without a node.
LEMMA OpenStep ==
    ASSUME IInv, Next, NEW p \in Pid, NEW path, nl_open(p, path)
    PROVE  Own(p) /\ Unseen(p) /\ Calmly(p)
  <1> DEFINE free == {i \in Fd : fd[p][i].node = NoNode}
             s == Min(free)
             c == [Idle EXCEPT !.st = "walk", !.slot = s]
             r == fs_resolve_mp(path).rootnode
             b == Below(fs_resolve_mp(path).target, path)
             d == [c EXCEPT !.root = r, !.path = b, !.as = path]
  <1>1. /\ call[p].st = "idle" /\ free # {} /\ Covering(path) # {} /\ call' = [call EXCEPT ![p] = d]
        /\ UNCHANGED <<fd, opened, unmatched>>
    BY DEF nl_open, Ready, fs_resolve
  <1>2. CallOK(p) /\ FdTyped /\ DOMAIN call = Pid
    BY OfProcess
  <1>3. s \in Fd /\ fd[p][s].node = NoNode /\ \A j \in Fd : j < s => fd[p][j].node # NoNode
    <2>1. free \in SUBSET Nat
      BY Constants DEF Fd
    <2>2. s \in free /\ \A y \in free : s <= y
      BY <1>1, <2>1, MinIs
    <2>3. \A j \in Fd : j \in Int /\ s \in Int
      BY <2>1, <2>2 DEF Fd
    <2> HIDE DEF s
    <2>4. \A j \in Fd : j < s => j \notin free
      BY <2>2, <2>3
    <2> QED BY <2>2, <2>4
  <1>4. r \in Node
    BY <1>1, ResolveIs DEF IInv
  <1>5. /\ DOMAIN d = CallFields /\ d.st = "walk" /\ d.slot = s /\ d.root = r /\ d.i = 0
        /\ d.target = NoSource /\ d.node = NoNode /\ d.k = 0
    <2> HIDE DEF s, r, b
    <2> QED BY OpenForm
  <1> HIDE DEF d, s, r
  <1>6. DOMAIN call' = Pid /\ call'[p] = d /\ \A q \in Pid : q # p => call'[q] = call[q]
    BY <1>1, <1>2, CallSet
  <1>7. CallOK(p)'
    BY <1>1, <1>3, <1>4, <1>5, <1>6, Constants DEF CallOK, Lowest, Seeking, Suits
  <1>8. Own(p)
    BY <1>1, <1>2, <1>6, <1>7 DEF Own, FdTyped
  <1>9. Calmly(p)
    BY <1>5, <1>6 DEF Calmly
  <1> QED BY <1>1, <1>5, <1>6, <1>8, <1>9, NoneHidden DEF Unseen

\* Who has a child before it is looking for a node.
LEMMA AnsweredIs ==
    ASSUME NEW p \in Pid, Walks(p)
    PROVE  p \in Live /\ call[p].st \in Seeking /\ call[p].st \notin {"open", "clear"}
  BY DEF Walks, Answered, Walking, Seeking

\* A walk goes on with a child, or at the next one; or it ends.
LEMMA WalkStep ==
    ASSUME IInv, Next, NEW p \in Pid, walk_on(p) \/ walk_fails(p) \/ walk_astray(p)
    PROVE  Own(p) /\ Unseen(p) /\ Calmly(p)
  <1> DEFINE c == call[p]
  <1>1. CallOK(p) /\ FdTyped /\ DOMAIN call = Pid /\ DOMAIN c = CallFields /\ workload' = workload
    BY OfProcess DEF Next
  <1>2. c.st \in Seeking /\ c.st \notin {"open", "clear"} /\ UNCHANGED <<fd, opened, unmatched>>
    BY AnsweredIs DEF walk_on, walk_fails, walk_astray, Walks, Seeking
  <1>3. c.root \in Node /\ c.i \in Nat /\ c.k \in Nat
    BY <1>1, <1>2, WalkRoot DEF CallOK
  <1>4. CASE walk_on(p)
    <2>1. PICK n \in Answer(p) :
            call' = [call EXCEPT ![p] =
                IF n # NoNode /\ Matches(@.path, n.name)
                THEN [@ EXCEPT !.st = "walk", !.root = n, !.path = <<>>, !.i = 0, !.node = NoNode]
                ELSE [@ EXCEPT !.st = "walk", !.i = call[p].i + 1, !.node = NoNode]]
      BY <1>4 DEF walk_on
    <2>2. n \in Node \cup {NoNode}
      BY <2>1, AnswerIs
    <2> DEFINE d1 == [c EXCEPT !.st = "walk", !.root = n, !.path = <<>>, !.i = 0, !.node = NoNode]
               d2 == [c EXCEPT !.st = "walk", !.i = c.i + 1, !.node = NoNode]
               d == IF n # NoNode /\ Matches(c.path, n.name) THEN d1 ELSE d2
    <2>3. call' = [call EXCEPT ![p] = d]
      BY <1>1, <2>1
    <2>4. /\ DOMAIN d1 = CallFields /\ d1.st = "walk" /\ d1.slot = c.slot /\ d1.root = n /\ d1.i = 0
          /\ d1.target = c.target /\ d1.fs = c.fs /\ d1.node = NoNode /\ d1.k = c.k
      <3> HIDE DEF c
      <3> QED BY <1>1, WalkForms
    <2>5. /\ DOMAIN d2 = CallFields /\ d2.st = "walk" /\ d2.slot = c.slot /\ d2.root = c.root
          /\ d2.i = c.i + 1 /\ d2.target = c.target /\ d2.fs = c.fs /\ d2.node = NoNode /\ d2.k = c.k
      <3> HIDE DEF c
      <3> QED BY <1>1, WalkForms
    <2> HIDE DEF d1, d2
    <2>6. /\ DOMAIN d = CallFields /\ d.st = "walk" /\ d.slot = c.slot /\ d.root \in Node /\ d.i \in Nat
          /\ d.target = c.target /\ d.fs = c.fs /\ d.node = NoNode /\ d.k \in Nat
      <3>1. CASE n # NoNode /\ Matches(c.path, n.name)
        <4>1. d = d1 /\ n \in Node
          BY <2>2, <3>1
        <4> HIDE DEF d, c
        <4> QED BY <1>3, <2>4, <4>1
      <3>2. CASE ~(n # NoNode /\ Matches(c.path, n.name))
        <4>1. d = d2
          BY <3>2
        <4> HIDE DEF d, c
        <4> QED BY <1>3, <2>5, <4>1
      <3> QED BY <3>1, <3>2
    <2> HIDE DEF d
    <2>7. DOMAIN call' = Pid /\ call'[p] = d /\ \A q \in Pid : q # p => call'[q] = call[q]
      BY <1>1, <2>3, CallSet
    <2>8. CallOK(p)'
      BY <1>1, <1>2, <2>6, <2>7 DEF CallOK, Lowest, Seeking, Suits
    <2>9. Own(p)
      BY <1>1, <1>2, <2>7, <2>8 DEF Own, FdTyped
    <2>10. Calmly(p)
      BY <2>6, <2>7 DEF Calmly
    <2> QED BY <1>2, <2>6, <2>7, <2>9, <2>10, NoneHidden DEF Unseen
  <1>5. CASE walk_fails(p)
    <2>1. call' = [call EXCEPT ![p] = Idle]
      BY <1>5 DEF walk_fails
    <2>2. DOMAIN call' = Pid /\ call'[p] = Idle /\ \A q \in Pid : q # p => call'[q] = call[q]
      BY <1>1, <2>1, CallSet
    <2>3. CallOK(p)'
      BY <2>2, IdleCall
    <2>4. Own(p)
      BY <1>1, <1>2, <2>2, <2>3 DEF Own, FdTyped
    <2>5. Calmly(p)
      BY <2>2, IdleIs DEF Calmly
    <2> QED BY <1>2, <2>2, <2>4, <2>5, IdleIs, NoneHidden DEF Unseen
  <1>6. CASE walk_astray(p)
    <2>1. UNCHANGED call
      BY <1>6 DEF walk_astray
    <2>2. CallOK(p)'
      BY <1>1, <1>2, <2>1, OtherCall
    <2>3. Own(p)
      BY <1>1, <1>2, <2>1, <2>2 DEF Own, FdTyped
    <2>4. Calmly(p)
      BY <2>1 DEF Calmly
    <2> QED BY <1>2, <2>1, <2>3, <2>4, NoneHidden DEF Unseen
  <1> QED BY <1>4, <1>5, <1>6

\* A step of procfs_get_child moves the call of one process, or ends it, and is not
\* seen in its descriptors.
LEMMA ProcfsMoves ==
    ASSUME IInv, Next, NEW p \in Pid, procfs_get_child(p)
    PROVE  /\ call[p].st \in Seeking /\ p \in Live
           /\ \/ Returns(p)
              \/ \E st \in Seeking, n \in Node \cup {NoNode}, k \in Nat :
                    Goes(p, st, n, k) /\ Suits(st, n)
  <1> DEFINE c == call[p]
             Moves == \/ Returns(p)
                      \/ \E st \in Seeking, n \in Node \cup {NoNode}, k \in Nat :
                            Goes(p, st, n, k) /\ Suits(st, n)
  <1>1. CallOK(p) /\ Cache /\ Registries /\ Calls /\ Processes
    BY DEF IInv, Calls
  <1>2. c.node \in Node \cup {NoNode} /\ c.k \in Nat /\ c.k + 1 \in Nat /\ Suits(c.st, c.node)
    BY <1>1 DEF CallOK
  <1>3. c.node \in Node => \A n \in PointsTo(c.node) : n \in Node
    BY <1>1, <1>2, PointsIs
  <1>4. procs \in Seq(Node) /\ Len(procs) \in Nat
    <2>1. ProcNode \subseteq Node
      BY Constants DEF ProcNode, Node, Kind
    <2> QED BY <1>1, <2>1 DEF Cache
  <1>5. CASE procfs_cleanup(p)
    <2>1. c.st = "walk" /\ p \in Live
      BY <1>5 DEF procfs_cleanup, Walking
    <2>2. PICK st \in {"ask", "clean"} : Goes(p, st, NoNode, 0)
      BY <1>5 DEF procfs_cleanup
    <2> QED BY <2>1, <2>2 DEF Seeking, Suits
  <1>6. CASE procfs_visit(p)
    <2>1. c.st = "clean" /\ p \in Live
      BY <1>6 DEF procfs_visit, At
    <2>2. c.k < Len(procs) => procs[c.k + 1] \in Node
      BY <1>2, <1>4
    <2>3. \/ Goes(p, "compare", procs[c.k + 1], c.k) /\ c.k < Len(procs)
          \/ Goes(p, "ask", NoNode, 0)
      BY <1>6 DEF procfs_visit
    <2> QED BY <1>2, <2>1, <2>2, <2>3 DEF Seeking, Suits
  <1>7. CASE procfs_compare(p)
    <2>1. c.st = "compare" /\ p \in Live
      BY <1>7 DEF procfs_compare, At
    <2>2. PICK n \in PointsTo(c.node) : Goes(p, "clean", NoNode, c.k + 1) \/ Goes(p, "remove", n, c.k)
      BY <1>7 DEF procfs_compare
    <2> QED BY <1>2, <1>3, <2>1, <2>2 DEF Seeking, Suits
  <1>8. CASE procfs_remove(p)
    <2>1. c.st = "remove" /\ p \in Live
      BY <1>8 DEF procfs_remove, At
    <2>2. PICK n \in PointsTo(c.node) : Goes(p, "free", n, c.k)
      BY <1>8 DEF procfs_remove
    <2> QED BY <1>2, <1>3, <2>1, <2>2 DEF Seeking, Suits
  <1>9. CASE procfs_free(p)
    <2>1. c.st = "free" /\ p \in Live /\ Goes(p, "clean", NoNode, c.k + 1)
      BY <1>9 DEF procfs_free, At
    <2> QED BY <1>2, <2>1 DEF Seeking, Suits
  <1>10. CASE procfs_ask(p)
    <2>1. c.st = "ask" /\ p \in Live /\ (Goes(p, "look", NoNode, 0) \/ Returns(p))
      BY <1>10 DEF procfs_ask, At
    <2> QED BY <2>1 DEF Seeking, Suits
  <1>11. CASE procfs_look(p)
    <2>1. c.st = "look" /\ p \in Live
      BY <1>11 DEF procfs_look, At
    <2>2. PICK st \in {"get", "make"} : Goes(p, st, NoNode, 0)
      BY <1>11 DEF procfs_look
    <2> QED BY <2>1, <2>2 DEF Seeking, Suits
  <1>12. CASE procfs_make(p)
    <2>1. c.st = "make" /\ p \in Live
      BY <1>12 DEF procfs_make, At
    <2>2. ASSUME Goes(p, "add", procfs_node(c.i), 0), next_inode <= workload.inodes
          PROVE  Moves
      <3>1. procfs_node(c.i) \in ProcNode /\ procfs_node(c.i) \in Node
        BY <2>1, <2>2, MadeIs, WalkRoot DEF Seeking, IInv
      <3> QED BY <2>2, <3>1 DEF Seeking, Suits
    <2> QED BY <1>12, <2>1, <2>2 DEF procfs_make, Seeking
  <1>13. CASE procfs_add(p)
    <2>1. c.st = "add" /\ p \in Live /\ (Goes(p, "match", c.node, 0) \/ Returns(p))
      BY <1>13 DEF procfs_add, At
    <2> QED BY <1>2, <2>1 DEF Seeking, Suits
  <1>14. CASE procfs_get(p)
    <2>1. c.st = "get" /\ p \in Live
      BY <1>14 DEF procfs_get, At
    <2>2. liblist_get(procs, c.i, NoNode) \in Node \cup {NoNode}
      <3>1. c.i \in Nat
        BY <2>1, WalkRoot DEF Seeking
      <3> QED BY <1>4, <3>1 DEF liblist_get, SlistGet
    <2>3. Goes(p, "match", liblist_get(procs, c.i, NoNode), 0)
      BY <1>14 DEF procfs_get
    <2> QED BY <2>1, <2>2, <2>3 DEF Seeking, Suits
  <1> QED BY <1>5, <1>6, <1>7, <1>8, <1>9, <1>10, <1>11, <1>12, <1>13, <1>14 DEF procfs_get_child

\* What such a step does to the call, and to the descriptors.
LEMMA ProcfsStep ==
    ASSUME IInv, Next, NEW p \in Pid, procfs_get_child(p)
    PROVE  Own(p) /\ Unseen(p)
  <1>1. CallOK(p) /\ FdTyped /\ DOMAIN call = Pid /\ DOMAIN call[p] = CallFields /\ workload' = workload
    BY OfProcess DEF Next
  <1>2. fd' = fd /\ UNCHANGED <<opened, unmatched>>
    BY ProcfsQuiet DEF Quietly
  <1>3. FdTyped'
    BY <1>1, <1>2 DEF FdTyped
  <1>4. call[p].st \in Seeking /\ call[p].st \notin {"open", "clear"}
    BY ProcfsMoves DEF Seeking
  <1>5. CASE Returns(p)
    <2>1. Own(p) /\ call'[p].st = "idle"
      BY <1>2, <1>3, <1>5, EndsCall, IdleIs DEF Returns
    <2> QED BY <1>2, <1>4, <2>1, NoneHidden DEF Unseen
  <1>6. ASSUME NEW st \in Seeking, NEW n \in Node \cup {NoNode}, NEW k \in Nat, Goes(p, st, n, k),
               Suits(st, n)
        PROVE  Own(p) /\ Unseen(p)
    <2>1. /\ DOMAIN call' = Pid /\ \A q \in Pid : q # p => call'[q] = call[q]
          /\ DOMAIN call'[p] = CallFields /\ call'[p].st = st /\ call'[p].node = n /\ call'[p].k = k
          /\ call'[p].slot = call[p].slot /\ call'[p].root = call[p].root /\ call'[p].i = call[p].i
          /\ call'[p].target = call[p].target /\ call'[p].fs = call[p].fs
      BY <1>1, <1>6, GoesForm
    <2>2. st \notin {"open", "clear", "mount", "idle"}
      BY DEF Seeking
    <2>3. CallOK(p)'
      BY <1>1, <1>2, <1>4, <1>6, <2>1, <2>2 DEF CallOK, Lowest
    <2>4. Own(p)
      BY <1>1, <1>2, <1>3, <2>1, <2>3 DEF Own
    <2> QED BY <1>2, <1>4, <2>1, <2>2, <2>4, NoneHidden DEF Unseen
  <1> QED BY <1>5, <1>6, ProcfsMoves

\* The node is stored in the descriptor that was picked, which nobody else uses.
LEMMA FoundStep ==
    ASSUME IInv, Next, NEW p \in Pid, nl_open_found(p)
    PROVE  Own(p) /\ Unseen(p) /\ Calmly(p)
  <1> DEFINE c == call[p]
             s == c.slot
             d == [Idle EXCEPT !.st = "open", !.slot = s, !.as = c.as]
  <1>0. PICK m \in Answer(p) : Found(p, m) /\ fd' = [fd EXCEPT ![p][s] = [node |-> m, offset |-> 0]]
    BY DEF nl_open_found
  <1> DEFINE n == [node |-> m, offset |-> 0]
  <1>1. /\ c.st \in Seeking /\ c.st \notin {"open", "clear"} /\ m # NoNode /\ c.target = NoSource
        /\ fd' = [fd EXCEPT ![p][s] = n] /\ call' = [call EXCEPT ![p] = d]
        /\ UNCHANGED <<opened, unmatched>>
    BY <1>0, AnsweredIs DEF nl_open_found, Walks, Found
  <1>2. CallOK(p) /\ FdTyped /\ DOMAIN call = Pid
    BY OfProcess
  <1>3. s \in Fd /\ fd[p][s].node = NoNode /\ \A j \in Fd : j < s => fd[p][j].node # NoNode
    BY <1>1, <1>2 DEF CallOK, Lowest
  <1>4. n \in Descriptor /\ n.node # NoNode /\ n.offset = 0
    <2>1. m \in Node \cup {NoNode}
      BY <1>0, AnswerIs
    <2>2. 0 \in 0..(OffMax - 1)
      BY Constants
    <2> QED BY <1>1, <2>1, <2>2 DEF Descriptor
  <1>5. DOMAIN d = CallFields /\ d.st = "open" /\ d.slot = s /\ d.node = NoNode /\ d.k = 0
    <2> HIDE DEF c, s
    <2> QED BY FoundForm
  <1> HIDE DEF s, n, d
  <1>6. DOMAIN call' = Pid /\ call'[p] = d /\ \A q \in Pid : q # p => call'[q] = call[q]
    BY <1>1, <1>2, CallSet
  <1>7. /\ FdTyped' /\ fd'[p][s] = n /\ \A j \in Fd : j # s => fd'[p][j] = fd[p][j]
        /\ \A q \in Pid : q # p => fd'[q] = fd[q]
    BY <1>1, <1>2, <1>3, <1>4 DEF FdTyped
  <1>8. CallOK(p)'
    <2>1. \A j \in Fd : j < s => fd'[p][j].node # NoNode
      <3> SUFFICES ASSUME NEW j \in Fd, j < s PROVE fd'[p][j].node # NoNode
        OBVIOUS
      <3>1. j # s
        BY <1>3 DEF Fd
      <3> QED BY <1>3, <1>7, <3>1
    <2> QED BY <1>3, <1>4, <1>5, <1>6, <1>7, <2>1 DEF CallOK, Lowest, Seeking, Suits
  <1>9. Own(p)
    BY <1>6, <1>7, <1>8 DEF Own
  <1>10. Row(p)' = Row(p)
    <2>1. \A j \in Fd : Entry(p, j)' = Entry(p, j)
      <3> SUFFICES ASSUME NEW j \in Fd PROVE Entry(p, j)' = Entry(p, j)
        OBVIOUS
      <3>1. CASE j = s
        BY <1>1, <1>3, <1>5, <1>6, <3>1 DEF Entry
      <3>2. CASE j # s
        BY <1>1, <1>5, <1>6, <1>7, <3>2 DEF Entry
      <3> QED BY <3>1, <3>2
    <2> QED BY <2>1 DEF Row
  <1>11. Held(p)' = Held(p)
    <2>1. fd[p][s].node.kind # "mod"
      BY <1>3 DEF NoNode
    <2>2. \A j \in Fd : j \in Held(p)' <=> j \in Held(p)
      <3> SUFFICES ASSUME NEW j \in Fd PROVE j \in Held(p)' <=> j \in Held(p)
        OBVIOUS
      <3>1. CASE j = s
        BY <1>1, <1>5, <1>6, <2>1, <3>1 DEF Held, OfMod
      <3>2. CASE j # s
        BY <1>1, <1>5, <1>6, <1>7, <3>2 DEF Held, OfMod
      <3> QED BY <3>1, <3>2
    <2> QED BY <2>2 DEF Held, OfMod
  <1>12. Calmly(p)
    BY <1>5, <1>6 DEF Calmly
  <1> QED BY <1>1, <1>9, <1>10, <1>11, <1>12 DEF Unseen

\* The descriptors that are held when one is half open.
LEMMA HeldBut ==
    ASSUME NEW p \in Pid, call[p].st \in {"open", "clear"}
    PROVE  Held(p) = OfMod(p) \ {call[p].slot}
  BY DEF Held

\* Outside of calls on a descriptor all of them are held.
LEMMA HeldAll ==
    ASSUME NEW p \in Pid, call[p].st \notin {"open", "clear"}
    PROVE  Held(p) = OfMod(p)
  BY DEF Held

\* What a call of p may do to the driver of the module's file, and to the table.
Counted(p) ==
    /\ unmatched' = unmatched
    /\ \/ Held(p)' = Held(p) /\ opened' = opened
       \/ \E i \in Fd : Held(p)' = Held(p) \cup {i} /\ opened' = opened + 1
       \/ \E i \in Held(p) : Held(p)' = Held(p) \ {i} /\ opened' = opened - 1
ClosedEntry == [node |-> -1, offset |-> 0]
RowOpen(p) ==
    \E i \in Fd, n \in 0..MaxIno :
        /\ Row(p)[i].node = -1 /\ \A j \in Fd : j < i => Row(p)[j].node # -1
        /\ Row(p)' = [Row(p) EXCEPT ![i] = [node |-> n, offset |-> 0]]
RowClose(p) ==
    \E i \in Fd : Row(p)[i].node # -1 /\ Row(p)' = [Row(p) EXCEPT ![i] = ClosedEntry]
RowTransfer(p) ==
    \E i \in Fd, o \in 0..(OffMax - 1) :
        Row(p)[i].node # -1 /\ Row(p)' = [Row(p) EXCEPT ![i].offset = o]
RowExit(p) == Row(p)' = [i \in Fd |-> ClosedEntry]
RowStep(p) == Row(p)' = Row(p) \/ RowOpen(p) \/ RowClose(p) \/ RowTransfer(p) \/ RowExit(p)

\* A descriptor that has a node and is not half open is shown with its number.
LEMMA EntryShown ==
    ASSUME FdTyped, NEW p \in Pid, NEW i \in Fd, fd[p][i].node # NoNode,
           ~(call[p].st \in {"open", "clear"} /\ call[p].slot = i)
    PROVE  /\ Entry(p, i) = [node |-> fd[p][i].node.ino, offset |-> fd[p][i].offset]
           /\ fd[p][i].node \in Node /\ fd[p][i].node.ino \in 0..MaxIno /\ Entry(p, i).node # -1
  <1>1. fd[p][i] \in Descriptor
    BY DEF FdTyped
  <1>2. fd[p][i].node \in Node
    BY <1>1 DEF Descriptor
  <1>3. fd[p][i].node.ino \in 0..MaxIno /\ MaxIno \in Nat
    BY <1>2, Constants DEF Node
  <1>4. Entry(p, i) = [node |-> fd[p][i].node.ino, offset |-> fd[p][i].offset]
    BY DEF Entry
  <1> DEFINE x == fd[p][i].node.ino
  <1>5. Entry(p, i).node = x /\ x # -1
    BY <1>3, <1>4
  <1> QED BY <1>2, <1>3, <1>4, <1>5

\* The rows of the table are functions on the descriptors.
LEMMA RowIs ==
    ASSUME NEW p
    PROVE  /\ DOMAIN Row(p) = Fd /\ \A i \in Fd : Row(p)[i] = Entry(p, i)
           /\ DOMAIN Row(p)' = Fd /\ \A i \in Fd : Row(p)'[i] = Entry(p, i)'
           /\ Row(p) = [i \in Fd |-> Row(p)[i]] /\ Row(p)' = [i \in Fd |-> Row(p)'[i]]
  BY DEF Row

\* A node that agrees to open, or has no open of its own, is in the table; one
\* that refuses leaves nothing.
LEMMA OpensStep ==
    ASSUME IInv, Next, NEW p \in Pid, nl_open_opens(p)
    PROVE  Own(p) /\ Counted(p) /\ RowStep(p) /\ Calmly(p)
  <1>s. call[p].slot \in Fd
    BY OfProcess DEF CallOK
  <1>0. PICK s \in Fd : s = call[p].slot
    BY <1>s
  <1> DEFINE n == fd[p][s].node
  <1>1. call[p].st = "open" /\ call' = [call EXCEPT ![p] = Idle] /\ unmatched' = unmatched
    BY DEF nl_open_opens
  <1>2. CallOK(p) /\ FdTyped
    BY OfProcess
  <1>3. /\ s \in Fd /\ n # NoNode /\ fd[p][s].offset = 0 /\ \A j \in Fd : j < s => fd[p][j].node # NoNode
    BY <1>0, <1>1, <1>2 DEF CallOK, Lowest
  <1>4. Held(p) = OfMod(p) \ {s}
    BY <1>0, <1>1, HeldBut
  <1>5. CASE fd' = fd /\ opened' = IF n.kind = "mod" THEN opened + 1 ELSE opened
    <2>1. FdTyped' /\ fd' = fd
      BY <1>2, <1>5 DEF FdTyped
    <2>2. Own(p) /\ Calmly(p) /\ Held(p)' = OfMod(p)' /\ call'[p] = Idle
      BY <1>1, <2>1, EndsCall
    <2>3. OfMod(p)' = OfMod(p)
      BY <2>1 DEF OfMod
    <2>4. s \in OfMod(p) <=> n.kind = "mod"
      BY <1>3 DEF OfMod
    <2>5. Counted(p)
      <3>1. CASE n.kind = "mod"
        <4>1. Held(p)' = Held(p) \cup {s} /\ opened' = opened + 1
          BY <1>4, <1>5, <2>2, <2>3, <2>4, <3>1
        <4> QED BY <1>1, <1>3, <4>1 DEF Counted
      <3>2. CASE n.kind # "mod"
        <4>1. Held(p)' = Held(p) /\ opened' = opened
          BY <1>4, <1>5, <2>2, <2>3, <2>4, <3>2
        <4> QED BY <1>1, <4>1 DEF Counted
      <3> QED BY <3>1, <3>2
    <2>6. RowOpen(p)
      <3>1. call'[p].st = "idle"
        BY <2>2, IdleIs
      <3>2. Entry(p, s) = ClosedEntry
        BY <1>0, <1>1 DEF Entry, ClosedEntry
      <3>3. \A j \in Fd : j < s => Entry(p, j).node # -1
        <4> SUFFICES ASSUME NEW j \in Fd, j < s PROVE Entry(p, j).node # -1
          OBVIOUS
        <4>1. j # s
          BY <1>3 DEF Fd
        <4> QED BY <1>0, <1>2, <1>3, <4>1, EntryShown
      <3>4. \A j \in Fd : j # s => Entry(p, j)' = Entry(p, j)
        BY <1>0, <2>1, <3>1 DEF Entry
      <3>5. Entry(p, s)' = [node |-> n.ino, offset |-> 0]
        BY <1>3, <2>1, <3>1 DEF Entry
      <3>6. n.ino \in 0..MaxIno
        <4>1. fd[p][s] \in Descriptor
          BY <1>2, <1>3 DEF FdTyped
        <4>2. n \in Node
          BY <1>3, <4>1 DEF Descriptor
        <4> QED BY <4>2 DEF Node
      <3> DEFINE m == n.ino
      <3>7. Row(p)' = [Row(p) EXCEPT ![s] = [node |-> m, offset |-> 0]]
        <4> HIDE DEF m
        <4>1. \A j \in Fd : Row(p)'[j] = [Row(p) EXCEPT ![s] = [node |-> m, offset |-> 0]][j]
          BY <1>3, <3>4, <3>5, RowIs DEF m
        <4> QED BY <4>1, RowIs
      <3>8. Row(p)[s].node = -1 /\ \A j \in Fd : j < s => Row(p)[j].node # -1
        BY <1>3, <3>2, <3>3, RowIs DEF ClosedEntry
      <3>9. m \in 0..MaxIno
        BY <3>6
      <3> HIDE DEF m
      <3> QED BY <1>3, <3>7, <3>8, <3>9 DEF RowOpen
    <2> QED BY <2>2, <2>5, <2>6 DEF RowStep
  <1>6. CASE fd' = [fd EXCEPT ![p][s].node = NoNode] /\ opened' = opened
    <2>1. /\ FdTyped' /\ fd'[p][s].node = NoNode /\ \A j \in Fd : j # s => fd'[p][j] = fd[p][j]
          /\ \A q \in Pid : q # p => fd'[q] = fd[q]
      BY <1>2, <1>3, <1>6, FdNode
    <2>2. Own(p) /\ Calmly(p) /\ Held(p)' = OfMod(p)' /\ call'[p] = Idle
      BY <1>1, <2>1, EndsCall
    <2>3. OfMod(p)' = OfMod(p) \ {s}
      <3>1. \A j \in Fd : j \in OfMod(p)' <=> j \in OfMod(p) \ {s}
        BY <1>3, <2>1 DEF OfMod, NoNode
      <3> QED BY <3>1 DEF OfMod
    <2>4. Row(p)' = Row(p)
      <3>1. \A j \in Fd : Entry(p, j)' = Entry(p, j)
        <4> SUFFICES ASSUME NEW j \in Fd PROVE Entry(p, j)' = Entry(p, j)
          OBVIOUS
        <4>1. call'[p].st = "idle"
          BY <2>2, IdleIs
        <4>2. CASE j = s
          BY <1>1, <2>1, <4>1, <4>2, <1>0 DEF Entry
        <4>3. CASE j # s
          BY <1>1, <2>1, <4>1, <4>3, <1>0 DEF Entry
        <4> QED BY <4>2, <4>3
      <3> QED BY <3>1, RowIs
    <2> QED BY <1>1, <1>4, <1>6, <2>2, <2>3, <2>4 DEF Counted, RowStep
  <1>7. CASE Wild(n, "open") /\ fd' = fd /\ opened' = opened
    <2>1. n.kind # "mod"
      BY <1>7 DEF Wild
    <2> QED BY <1>5, <1>7, <2>1
  <1> QED BY <1>0, <1>5, <1>6, <1>7 DEF nl_open_opens

\* The node is asked to close, the descriptor is half closed after it.
LEMMA CloseStep ==
    ASSUME IInv, Next, NEW p \in Pid, NEW i \in Fd, nl_close(p, i)
    PROVE  Own(p) /\ Counted(p) /\ RowStep(p) /\ Calmly(p)
  <1> DEFINE n == fd[p][i].node
  <1>1. call[p].st = "idle" /\ unmatched' = unmatched /\ fd' = fd
    BY DEF nl_close, Ready
  <1>2. CallOK(p) /\ FdTyped /\ DOMAIN call = Pid /\ DOMAIN call[p] = CallFields /\ workload' = workload
    BY OfProcess DEF Next
  <1>3. FdTyped'
    BY <1>1, <1>2 DEF FdTyped
  <1>4. Held(p) = OfMod(p)
    BY <1>1, HeldAll
  <1>5. CASE n # NoNode /\ call' = [call EXCEPT ![p].st = "clear", ![p].slot = i]
             /\ opened' = IF n.kind = "mod" THEN opened - 1 ELSE opened
    <2>1. /\ DOMAIN call' = Pid /\ \A q \in Pid : q # p => call'[q] = call[q]
          /\ DOMAIN call'[p] = CallFields /\ call'[p].st = "clear" /\ call'[p].slot = i
          /\ call'[p].node = call[p].node /\ call'[p].k = call[p].k
      BY <1>2, <1>5, CallPart
    <2>2. CallOK(p)'
      BY <1>1, <1>2, <1>5, <2>1 DEF CallOK, Seeking, Suits
    <2>3. Own(p)
      BY <1>1, <1>3, <2>1, <2>2 DEF Own
    <2>4. Held(p)' = OfMod(p) \ {i}
      BY <1>1, <2>1 DEF Held, OfMod
    <2>5. Counted(p)
      <3>1. i \in OfMod(p) <=> n.kind = "mod"
        BY DEF OfMod
      <3> HIDE DEF n
      <3>2. CASE n.kind = "mod"
        BY <1>1, <1>4, <1>5, <2>4, <3>1, <3>2 DEF Counted
      <3>3. CASE n.kind # "mod"
        BY <1>1, <1>4, <1>5, <2>4, <3>1, <3>3 DEF Counted
      <3> QED BY <3>2, <3>3
    <2>6. RowClose(p)
      <3>1. Entry(p, i).node # -1
        BY <1>1, <1>2, <1>5, EntryShown
      <3>2. Entry(p, i)' = ClosedEntry
        BY <2>1 DEF Entry, ClosedEntry
      <3>3. \A j \in Fd : j # i => Entry(p, j)' = Entry(p, j)
        BY <1>1, <2>1 DEF Entry
      <3>4. \A j \in Fd : Row(p)'[j] = [Row(p) EXCEPT ![i] = ClosedEntry][j]
        BY <3>2, <3>3, RowIs
      <3>5. Row(p)' = [Row(p) EXCEPT ![i] = ClosedEntry]
        BY <3>4, RowIs
      <3> QED BY <3>1, <3>5, RowIs DEF RowClose
    <2>7. Calmly(p)
      BY <2>1 DEF Calmly
    <2> QED BY <2>3, <2>5, <2>6, <2>7 DEF RowStep
  <1>6. CASE call' = call /\ opened' = opened
    <2>1. CallOK(p)'
      BY <1>1, <1>2, <1>6, OtherCall
    <2>2. Row(p)' = Row(p) /\ Held(p)' = Held(p)
      BY <1>1, <1>6, NoneHidden
    <2> QED BY <1>1, <1>2, <1>3, <1>6, <2>1, <2>2 DEF Own, Counted, RowStep, Calmly
  <1> QED BY <1>5, <1>6 DEF nl_close

\* The descriptor is cleared after its node has closed.
LEMMA ClearStep ==
    ASSUME IInv, Next, NEW p \in Pid, nl_close_clears(p)
    PROVE  Own(p) /\ Unseen(p) /\ Calmly(p)
  <1>1. call[p].st = "clear" /\ call' = [call EXCEPT ![p] = Idle] /\ unmatched' = unmatched
        /\ opened' = opened
    BY DEF nl_close_clears
  <1>2. CallOK(p) /\ FdTyped
    BY OfProcess
  <1>3. call[p].slot \in Fd
    BY <1>2 DEF CallOK
  <1>4. PICK s \in Fd : s = call[p].slot
    BY <1>3
  <1>5. /\ FdTyped' /\ fd'[p][s].node = NoNode /\ \A j \in Fd : j # s => fd'[p][j] = fd[p][j]
        /\ \A q \in Pid : q # p => fd'[q] = fd[q]
    BY <1>2, <1>4, FdNode DEF nl_close_clears
  <1>6. Own(p) /\ Calmly(p) /\ Held(p)' = OfMod(p)' /\ call'[p] = Idle
    BY <1>1, <1>5, EndsCall
  <1>7. \A j \in Fd : j \in OfMod(p)' <=> j \in OfMod(p) \ {s}
    BY <1>5 DEF OfMod, NoNode
  <1>8. Held(p)' = Held(p)
    <2>1. Held(p) = OfMod(p) \ {s}
      BY <1>1, <1>4, HeldBut
    <2>2. OfMod(p)' = OfMod(p) \ {s}
      BY <1>7 DEF OfMod
    <2> QED BY <1>6, <2>1, <2>2
  <1>9. \A j \in Fd : Entry(p, j)' = Entry(p, j)
    <2> SUFFICES ASSUME NEW j \in Fd PROVE Entry(p, j)' = Entry(p, j)
      OBVIOUS
    <2>1. call'[p].st = "idle"
      BY <1>6, IdleIs
    <2>2. CASE j = s
      BY <1>1, <1>4, <1>5, <2>1, <2>2 DEF Entry
    <2>3. CASE j # s
      BY <1>1, <1>4, <1>5, <2>1, <2>3 DEF Entry
    <2> QED BY <2>2, <2>3
  <1>10. Row(p)' = Row(p)
    BY <1>9, RowIs
  <1> QED BY <1>1, <1>6, <1>8, <1>10 DEF Unseen

\* A transfer moves one offset.
LEMMA TransferStep ==
    ASSUME IInv, Next, NEW p \in Pid, NEW i \in Fd, NEW op, nl_transfer(p, i, op)
    PROVE  Own(p) /\ Counted(p) /\ RowStep(p) /\ Calmly(p)
  <1> DEFINE n == fd[p][i].node
  <1>1. call[p].st = "idle" /\ call' = call /\ opened' = opened /\ unmatched' = unmatched
    BY DEF nl_transfer, Ready
  <1>2. CallOK(p) /\ FdTyped /\ DOMAIN call = Pid /\ workload' = workload
    BY OfProcess DEF Next
  <1>3. CASE fd' = fd
    <2>1. CallOK(p)'
      BY <1>1, <1>2, <1>3, OtherCall
    <2>2. Row(p)' = Row(p) /\ Held(p)' = Held(p)
      BY <1>1, <1>3, NoneHidden
    <2> QED BY <1>1, <1>2, <1>3, <2>1, <2>2 DEF Own, Counted, RowStep, FdTyped, Calmly
  <1>4. ASSUME n # NoNode, NEW r \in Int, fd' = [fd EXCEPT ![p][i].offset = (@ + r) % OffMax]
        PROVE  Own(p) /\ Counted(p) /\ RowStep(p) /\ Calmly(p)
    <2>1. /\ FdTyped' /\ \A j \in Fd : j # i => fd'[p][j] = fd[p][j]
          /\ fd'[p][i].node = fd[p][i].node /\ fd'[p][i].offset \in 0..(OffMax - 1)
          /\ \A q \in Pid : q # p => fd'[q] = fd[q]
      BY <1>2, <1>4, FdOffset
    <2>2. CallOK(p)'
      BY <1>1, <1>2 DEF CallOK, Next, Seeking
    <2>3. Own(p)
      BY <1>1, <1>2, <2>1, <2>2 DEF Own
    <2>4. Held(p)' = Held(p)
      <3>1. \A j \in Fd : fd'[p][j].node = fd[p][j].node
        BY <2>1
      <3> QED BY <1>1, <3>1 DEF Held, OfMod
    <2>5. RowTransfer(p)
      <3>1. PICK o \in 0..(OffMax - 1) : o = fd'[p][i].offset
        BY <2>1
      <3>2. Entry(p, i) = [node |-> n.ino, offset |-> fd[p][i].offset] /\ Entry(p, i).node # -1
        BY <1>1, <1>2, <1>4, EntryShown
      <3>3. Entry(p, i)' = [Entry(p, i) EXCEPT !.offset = o]
        <4>1. Entry(p, i)' = [node |-> n.ino, offset |-> o]
          BY <1>1, <1>4, <2>1, <3>1 DEF Entry
        <4> QED BY <3>2, <4>1
      <3>4. \A j \in Fd : j # i => Entry(p, j)' = Entry(p, j)
        BY <1>1, <2>1 DEF Entry
      <3>5. \A j \in Fd : Row(p)'[j] = [Row(p) EXCEPT ![i].offset = o][j]
        BY <3>3, <3>4, RowIs
      <3>6. Row(p)' = [Row(p) EXCEPT ![i].offset = o]
        BY <3>5, RowIs
      <3>7. Row(p)[i].node # -1
        BY <3>2, RowIs
      <3> QED BY <3>6, <3>7 DEF RowTransfer
    <2> QED BY <1>1, <2>3, <2>4, <2>5 DEF Counted, RowStep, Calmly
  <1>5. \A x \in fs_node_read(n) \cup fs_node_write(n) : x \in Int
    <2>1. Errno \in Int /\ FileSize \in Int
      BY Constants DEF Errno
    <2> HIDE DEF n
    <2> QED BY <2>1 DEF fs_node_read, fs_node_write, initrd_read
  <1>6. CASE ~(fd' = fd)
    <2>1. n # NoNode /\ \E r \in IF op = "read" THEN fs_node_read(n) ELSE fs_node_write(n) :
                            fd' = [fd EXCEPT ![p][i].offset = (@ + r) % OffMax]
      BY <1>6 DEF nl_transfer
    <2> QED BY <1>4, <1>5, <2>1
  <1> QED BY <1>3, <1>6

\* Mounting changes no descriptor: the source is looked for as a path to open is.
LEMMA MountStep ==
    ASSUME IInv, Next, NEW p \in Pid, MountCalls(p)
    PROVE  Own(p) /\ Unseen(p) /\ Calmly(p)
  <1> DEFINE c == call[p]
  <1>1. /\ CallOK(p) /\ FdTyped /\ DOMAIN call = Pid /\ DOMAIN c = CallFields
        /\ workload \in Workload /\ workload' = workload
    BY OfProcess DEF Next
  <1>2. ASSUME fd' = fd, UNCHANGED <<opened, unmatched>>, c.st = "mount",
               call' = [call EXCEPT ![p] = Idle]
        PROVE  Own(p) /\ Unseen(p) /\ Calmly(p)
    <2>1. FdTyped'
      BY <1>1, <1>2 DEF FdTyped
    <2>2. Own(p) /\ Calmly(p) /\ call'[p].st = "idle"
      BY <1>2, <2>1, EndsCall, IdleIs
    <2>3. Row(p)' = Row(p) /\ Held(p)' = Held(p)
      BY <1>2, <2>2, NoneHidden
    <2> QED BY <1>2, <2>2, <2>3 DEF Unseen
  <1>3. ASSUME NEW fs \in workload.fs, NEW src \in workload.sources, NEW target \in workload.targets,
               mountpoint_create(p, fs, src, target)
        PROVE  Own(p) /\ Unseen(p) /\ Calmly(p)
    <2> DEFINE so == [src EXCEPT !.comps = fs_resolve_cuts(src.comps)]
               e == [Idle EXCEPT !.st = "walk", !.fs = fs, !.target = target, !.src = so]
               r == fs_resolve_mp(src.comps).rootnode
               b == Below(fs_resolve_mp(src.comps).target, src.comps)
               a == src.comps
               d == [e EXCEPT !.root = r, !.path = b, !.as = a]
    <2>1. /\ c.st = "idle" /\ Covering(src.comps) # {} /\ call' = [call EXCEPT ![p] = d]
          /\ UNCHANGED <<fd, opened, unmatched>>
      BY <1>3 DEF mountpoint_create, Ready, fs_resolve
    <2>2. r \in Node
      BY <2>1, ResolveIs DEF IInv
    <2>3. /\ DOMAIN d = CallFields /\ d.st = "walk" /\ d.slot = 0 /\ d.root = r /\ d.i = 0
          /\ d.target = target /\ d.fs = fs /\ d.node = NoNode /\ d.k = 0
      <3> HIDE DEF so, r, b, a
      <3> QED BY MountForm
    <2>4. target # NoSource
      BY <1>1, WorkloadAssumption
    <2> HIDE DEF d, r, c
    <2>5. DOMAIN call' = Pid /\ call'[p] = d /\ \A q \in Pid : q # p => call'[q] = call[q]
      BY <1>1, <2>1, CallSet
    <2>6. CallOK(p)'
      BY <1>1, <2>2, <2>3, <2>4, <2>5, Constants DEF CallOK, Seeking, Suits
    <2>7. Own(p)
      BY <1>1, <2>1, <2>5, <2>6 DEF Own, FdTyped
    <2>8. Row(p)' = Row(p) /\ Held(p)' = Held(p)
      BY <2>1, <2>3, <2>5, NoneHidden DEF c
    <2>9. Calmly(p)
      BY <2>3, <2>5 DEF Calmly
    <2> QED BY <2>1, <2>7, <2>8, <2>9 DEF Unseen
  <1>4. CASE mountpoint_create_found(p)
    <2>1. /\ c.st \in Seeking /\ c.st \notin {"open", "clear"} /\ c.target # NoSource
          /\ UNCHANGED <<fd, opened, unmatched>>
      BY <1>4, AnsweredIs DEF mountpoint_create_found, Walks
    <2>2. PICK n \in Answer(p) :
            /\ Found(p, n)
            /\ call' = [call EXCEPT ![p].st = "mount", ![p].root = n, ![p].node = NoNode]
      BY <1>4 DEF mountpoint_create_found
    <2>3. n \in Node
      BY <2>2, AnswerIs DEF Found
    <2>4. /\ DOMAIN call' = Pid /\ \A q \in Pid : q # p => call'[q] = call[q]
          /\ DOMAIN call'[p] = CallFields /\ call'[p].st = "mount" /\ call'[p].root = n
          /\ call'[p].slot = c.slot /\ call'[p].i = c.i
          /\ call'[p].target = c.target /\ call'[p].fs = c.fs
          /\ call'[p].node = NoNode /\ call'[p].k = c.k
      BY <1>1, <2>2, CallRoot
    <2>5. CallOK(p)'
      BY <1>1, <2>1, <2>3, <2>4 DEF CallOK, Seeking, Suits
    <2>6. Own(p)
      BY <1>1, <2>1, <2>4, <2>5 DEF Own, FdTyped
    <2>7. Row(p)' = Row(p) /\ Held(p)' = Held(p)
      BY <2>1, <2>4, NoneHidden
    <2>8. Calmly(p)
      BY <2>4 DEF Calmly
    <2> QED BY <2>1, <2>6, <2>7, <2>8 DEF Unseen
  <1>5. CASE mountpoint_create_mounts(p)
    BY <1>2, <1>5 DEF mountpoint_create_mounts
  <1>6. CASE mountpoint_create_fails(p)
    BY <1>2, <1>6 DEF mountpoint_create_fails
  <1> QED BY <1>3, <1>4, <1>5, <1>6 DEF MountCalls

\* What the end of a process, and the start of one, do.
Ended(p) ==
    /\ Held(p)' = {} /\ opened' \in Int /\ (unmatched => unmatched')
    /\ unmatched' \/ opened' >= opened - Cardinality(Held(p))

\* The descriptors held in the whole system: finitely many.
AllHeld == {d \in Pid \X Fd : d[2] \in Held(d[1])}

\* Cardinalities of the descriptors held, of one process and of all, are numbers.
LEMMA HeldFinite ==
    /\ IsFiniteSet(AllHeld) /\ Cardinality(AllHeld) \in Nat
    /\ \A p : IsFiniteSet(Held(p)) /\ Cardinality(Held(p)) \in Nat
  <1>1. IsFiniteSet(Pid) /\ IsFiniteSet(Fd)
    <2>1. IsFiniteSet(1..MaxPid)
      BY Constants, FS_Interval
    <2> DEFINE m == OPEN_MAX - 1
    <2>2. m \in Int /\ 0 \in Int
      BY Constants
    <2> HIDE DEF m
    <2>3. IsFiniteSet(0..m)
      BY <2>2, FS_Interval
    <2> QED BY <2>1, <2>3 DEF Pid, Fd, m
  <1>2. IsFiniteSet(Pid \X Fd)
    BY <1>1, FS_Product
  <1>3. AllHeld \in SUBSET (Pid \X Fd)
    BY DEF AllHeld
  <1>4. IsFiniteSet(AllHeld)
    BY <1>2, <1>3, FS_Subset
  <1>5. ASSUME NEW p PROVE IsFiniteSet(Held(p))
    <2>1. Held(p) \in SUBSET Fd
      BY DEF Held, OfMod
    <2> QED BY <1>1, <2>1, FS_Subset
  <1> QED BY <1>4, <1>5, FS_CardinalityType

\* Only the holdings of one process change, so the holdings are counted right.
LEMMA HeldStep ==
    ASSUME IInv, NEW p \in Pid, Counted(p) \/ Ended(p),
           \A q \in Pid : q # p => call'[q] = call[q] /\ fd'[q] = fd[q]
    PROVE  HeldOpen' /\ opened' \in Int
  <1> DEFINE H == AllHeld
             G == {d \in Pid \X Fd : d[2] \in Held(d[1])'}
             h == Cardinality(H)
             g == Cardinality(G)
  <1>1. HeldOpen' <=> unmatched' \/ opened' >= g
    BY DEF HeldOpen
  <1>2. opened \in Int /\ (unmatched \/ opened >= h)
    BY DEF IInv, HeldOpen, AllHeld
  <1>3. \A q \in Pid : q # p => Held(q)' = Held(q)
    BY DEF Held, OfMod
  <1>4. IsFiniteSet(H) /\ h \in Nat /\ IsFiniteSet(Held(p)) /\ Cardinality(Held(p)) \in Nat
    BY HeldFinite
  <1>5. Held(p) \subseteq Fd /\ Held(p)' \subseteq Fd
    BY DEF Held, OfMod
  <1>6. /\ \A q \in Pid, i \in Fd : <<q, i>> \in G <=> i \in IF q = p THEN Held(p)' ELSE Held(q)
        /\ \A q \in Pid, i \in Fd : <<q, i>> \in H <=> i \in Held(q)
        /\ G \subseteq Pid \X Fd /\ H \subseteq Pid \X Fd
    BY <1>3 DEF AllHeld
  <1> HIDE DEF H, G, h, g
  <1>7. CASE Held(p)' = Held(p) /\ opened' = opened /\ unmatched' = unmatched
    <2>1. G = H
      BY <1>6, <1>7
    <2> QED BY <1>1, <1>2, <1>7, <2>1 DEF h, g
  <1>8. ASSUME NEW i \in Fd, Held(p)' = Held(p) \cup {i}, opened' = opened + 1, unmatched' = unmatched
        PROVE  HeldOpen' /\ opened' \in Int
    <2> DEFINE x == <<p, i>>
    <2>1. G = H \cup {x}
      BY <1>6, <1>8
    <2> HIDE DEF x
    <2>2. Cardinality(H \cup {x}) = IF x \in H THEN h ELSE h + 1
      BY <1>4, FS_AddElement DEF h
    <2>3. g <= h + 1 /\ g \in Int
      BY <1>4, <2>1, <2>2 DEF g
    <2> QED BY <1>1, <1>2, <1>4, <1>8, <2>3
  <1>9. ASSUME NEW i \in Held(p), Held(p)' = Held(p) \ {i}, opened' = opened - 1, unmatched' = unmatched
        PROVE  HeldOpen' /\ opened' \in Int
    <2> DEFINE x == <<p, i>>
    <2>1. i \in Fd
      BY <1>5
    <2>2. G = H \ {x} /\ x \in H
      BY <1>6, <1>9, <2>1
    <2> HIDE DEF x
    <2>3. Cardinality(H \ {x}) = IF x \in H THEN h - 1 ELSE h
      BY <1>4, FS_RemoveElement DEF h
    <2>4. g = h - 1
      BY <2>2, <2>3 DEF g
    <2> QED BY <1>1, <1>2, <1>4, <1>9, <2>4
  <1>10. CASE Ended(p)
    <2> DEFINE T == {p} \X Held(p)
               t == Cardinality(T)
               k == Cardinality(Held(p))
    <2>1. H = G \cup T /\ G \cap T = {}
      <3>1. \A q \in Pid, i \in Fd : <<q, i>> \in H <=> <<q, i>> \in G \cup T
        BY <1>6, <1>10 DEF Ended
      <3>2. T \subseteq Pid \X Fd
        BY <1>5
      <3>3. H \subseteq G \cup T
        BY <1>6, <3>1
      <3>4. G \cup T \subseteq H
        BY <1>6, <3>1, <3>2
      <3>5. \A i \in Fd : <<p, i>> \notin G
        BY <1>6, <1>10 DEF Ended
      <3> QED BY <1>5, <3>3, <3>4, <3>5
    <2>2. IsFiniteSet(T) /\ t = k
      <3>1. IsFiniteSet({p}) /\ Cardinality({p}) = 1
        BY FS_Singleton
      <3>2. IsFiniteSet(T) /\ t = 1 * k
        <4> DEFINE A == {p}
                   B == Held(p)
        <4>1. IsFiniteSet(A) /\ IsFiniteSet(B) /\ Cardinality(A) = 1
          BY <1>4, <3>1
        <4> HIDE DEF A, B
        <4>2. IsFiniteSet(A \X B) /\ Cardinality(A \X B) = Cardinality(A) * Cardinality(B)
          BY <4>1, FS_Product
        <4> QED BY <4>1, <4>2 DEF A, B
      <3> QED BY <1>4, <3>2
    <2> HIDE DEF T
    <2>3. IsFiniteSet(G)
      <3>1. G \in SUBSET H
        BY <2>1
      <3> QED BY <1>4, <3>1, FS_Subset
    <2>4. Cardinality(G \cup T) = g + t - Cardinality(G \cap T)
      BY <2>2, <2>3, FS_Union DEF g
    <2>5. Cardinality(G \cap T) = 0
      BY <2>1, FS_EmptySet
    <2>6. g \in Nat
      BY <2>3, FS_CardinalityType DEF g
    <2>7. k \in Nat
      BY <1>4
    <2> HIDE DEF t, k
    <2>8. h = g + k
      BY <2>1, <2>2, <2>4, <2>5, <2>6, <2>7 DEF h
    <2>9. opened' \in Int /\ (unmatched => unmatched') /\ (unmatched' \/ opened' >= opened - k)
      BY <1>10 DEF Ended, k
    <2>10. CASE unmatched'
      BY <1>1, <2>9, <2>10
    <2>11. CASE ~unmatched'
      <3>1. opened >= h /\ opened' >= opened - k
        BY <1>2, <2>9, <2>11
      <3> QED BY <1>1, <1>2, <2>6, <2>7, <2>8, <2>9, <3>1
    <2> QED BY <2>10, <2>11
  <1> QED BY <1>7, <1>8, <1>9, <1>10 DEF Counted

\* The rows of the others, and the row of a process whose descriptors are reset.
LEMMA ResetRow ==
    ASSUME NEW p \in Pid, \A i \in Fd : fd'[p][i] = NoFd
    PROVE  RowExit(p) /\ Held(p)' = {}
  <1>1. \A i \in Fd : Entry(p, i)' = ClosedEntry
    BY DEF Entry, ClosedEntry, NoFd
  <1>2. RowExit(p)
    BY <1>1 DEF RowExit, Row
  <1>3. Held(p)' = {}
    BY DEF Held, OfMod, NoFd, NoNode
  <1> QED BY <1>2, <1>3

\* A new process finds its descriptors closed, and is in no call.
LEMMA CreateStep ==
    ASSUME IInv, Next, proc_create
    PROVE  \E p \in Pid : /\ Own(p) /\ Ended(p) /\ RowStep(p)
                          /\ call' = call /\ \A q \in Pid : q \notin Live' => call'[q].st = "idle"
  <1>1. /\ next_pid <= workload.pids /\ processes' = SlistInsertHead(processes, next_pid)
        /\ fd' = [fd EXCEPT ![next_pid] = [i \in Fd |-> NoFd]]
        /\ UNCHANGED <<call, opened, unmatched>>
    BY DEF proc_create
  <1>2. next_pid \in Pid /\ next_pid \notin Live
    BY <1>1, LiveIs, Constants DEF IInv, Processes, Pid
  <1>3. PICK p \in Pid : p = next_pid
    BY <1>2
  <1>4. FdTyped /\ Calls /\ CallOK(p) /\ call[p].st = "idle" /\ opened \in Int
    BY <1>2, <1>3 DEF IInv, Calls
  <1>5. FdTyped' /\ (\A i \in Fd : fd'[p][i] = NoFd) /\ \A q \in Pid : q # p => fd'[q] = fd[q]
    BY <1>1, <1>3, <1>4, FdReset
  <1>6. CallOK(p)'
    BY <1>1, <1>4 DEF CallOK, Next, Seeking
  <1>7. Own(p)
    BY <1>1, <1>4, <1>5, <1>6 DEF Own, Calls
  <1>8. RowExit(p) /\ Held(p)' = {}
    BY <1>5, ResetRow
  <1>9. Ended(p)
    <2> DEFINE k == Cardinality(Held(p))
    <2>1. k \in Nat
      BY HeldFinite
    <2> HIDE DEF k
    <2>2. opened' >= opened - k
      BY <1>1, <1>4, <2>1
    <2> QED BY <1>1, <1>4, <1>8, <2>2 DEF Ended, k
  <1>10. Live \subseteq Live'
    <2> DEFINE S == 1..next_pid
    <2>1. processes \in Seq(S) /\ next_pid \in S
      BY Constants DEF IInv, Processes
    <2> HIDE DEF S
    <2>2. SlistElems(SlistInsertHead(processes, next_pid)) = SlistElems(processes) \cup {next_pid}
      BY <2>1, InsertHead
    <2> QED BY <1>1, <2>2 DEF Live
  <1>11. \A q \in Pid : q \notin Live' => call'[q].st = "idle"
    BY <1>1, <1>4, <1>10 DEF Calls
  <1> QED BY <1>1, <1>7, <1>8, <1>9, <1>11 DEF RowStep

\* The end of a process closes its descriptors and ends its call; when the call
\* had left one half open the counts part.
LEMMA DestroyStep ==
    ASSUME IInv, Next, NEW p \in Pid, proc_destroy(p)
    PROVE  /\ Own(p) /\ Ended(p) /\ RowStep(p) /\ Calmly(p) /\ call'[p] = Idle
           /\ \A q \in Pid : q \notin Live' => call'[q].st = "idle"
  <1>1. /\ p \in Live /\ processes' = SlistRemove(processes, p)
        /\ fd' = [fd EXCEPT ![p] = [i \in Fd |-> NoFd]] /\ call' = [call EXCEPT ![p] = Idle]
    BY DEF proc_destroy
  <1>2. FdTyped /\ Calls /\ opened \in Int /\ Processes
    BY DEF IInv
  <1>3. FdTyped' /\ (\A i \in Fd : fd'[p][i] = NoFd) /\ \A q \in Pid : q # p => fd'[q] = fd[q]
    BY <1>1, <1>2, FdReset
  <1>4. Own(p) /\ Calmly(p) /\ call'[p] = Idle
    BY <1>1, <1>3, EndsCall
  <1>5. RowExit(p) /\ Held(p)' = {}
    BY <1>3, ResetRow
  <1>6. Ended(p)
    <2> DEFINE k == Cardinality(Held(p))
    <2>1. k \in Nat
      BY HeldFinite
    <2>2. CASE (\E n \in 0..Cardinality(OfMod(p)) : opened' = opened - n)
               /\ unmatched' = (unmatched \/ OfMod(p) # Held(p))
      <3>1. PICK n \in 0..Cardinality(OfMod(p)) : opened' = opened - n
        BY <2>2
      <3>2. Cardinality(OfMod(p)) \in Nat
        <4>1. IsFiniteSet(OfMod(p))
          <5>1. IsFiniteSet(0..(OPEN_MAX - 1))
            <6> DEFINE m == OPEN_MAX - 1
            <6>1. m \in Int /\ 0 \in Int
              BY Constants
            <6> HIDE DEF m
            <6>2. IsFiniteSet(0..m)
              BY <6>1, FS_Interval
            <6> QED BY <6>2 DEF m
          <5>2. OfMod(p) \in SUBSET Fd
            BY DEF OfMod
          <5> QED BY <5>1, <5>2, FS_Subset DEF Fd
        <4> QED BY <4>1, FS_CardinalityType
      <3>3. opened' \in Int
        BY <1>2, <3>1, <3>2
      <3>4. unmatched => unmatched'
        BY <2>2
      <3>5. unmatched' \/ opened' >= opened - k
        <4>1. CASE OfMod(p) # Held(p)
          BY <2>2, <4>1
        <4>2. CASE OfMod(p) = Held(p)
          <5>1. n \in 0..k
            BY <3>1, <4>2
          <5> HIDE DEF k
          <5>2. opened' >= opened - k
            BY <1>2, <2>1, <3>1, <5>1
          <5> QED BY <5>2
        <4> QED BY <4>1, <4>2
      <3> QED BY <1>5, <3>3, <3>4, <3>5 DEF Ended, k
    <2>3. CASE UNCHANGED <<opened, unmatched>>
      <3> HIDE DEF k
      <3>1. opened' >= opened - k /\ opened' \in Int
        BY <1>2, <2>1, <2>3
      <3> QED BY <1>5, <2>3, <3>1 DEF Ended, k
    <2>4. \/ (\E n \in 0..Cardinality(OfMod(p)) : opened' = opened - n)
                 /\ unmatched' = (unmatched \/ OfMod(p) # Held(p))
          \/ UNCHANGED <<opened, unmatched>>
      BY DEF proc_destroy, Next
    <2> QED BY <2>2, <2>3, <2>4
  <1>7. \A q \in Pid : q \notin Live' => call'[q].st = "idle"
    <2> DEFINE S == 1..(next_pid - 1)
    <2>1. processes \in Seq(S) /\ SlistNoDup(processes) /\ p \in SlistElems(processes)
      BY <1>1, <1>2 DEF Processes, Live
    <2> HIDE DEF S
    <2>2. SlistElems(SlistRemove(processes, p)) = SlistElems(processes) \ {p}
      BY <2>1, RemoveElem
    <2>3. Live' = Live \ {p}
      BY <1>1, <2>2 DEF Live
    <2> QED BY <1>2, <1>4, <2>3, IdleIs DEF Own, Calls
  <1> QED BY <1>4, <1>5, <1>6, <1>7 DEF RowStep

-----------------------------------------------------------------------------
(* The cache of procfs *)

\* Steps of others than procfs leave the cache alone, and no call begins to free or to
\* add a node in them.
Calm ==
    /\ \A q \in Pid : Calmly(q)
    /\ UNCHANGED <<procs, freed, torn>>
    /\ next_inode' = next_inode \/ (next_inode <= MaxIno /\ next_inode' = next_inode + 1)
    /\ most' \in Nat /\ most <= most' /\ Len(processes') <= most'

\* The greater of two numbers.
LEMMA MaxIs ==
    ASSUME NEW a \in Nat, NEW b \in Nat
    PROVE  Max({a, b}) \in Nat /\ a <= Max({a, b}) /\ b <= Max({a, b})
  <1>1. \E x \in {a, b} : \A y \in {a, b} : x >= y
    OBVIOUS
  <1>2. Max({a, b}) \in {a, b} /\ \A y \in {a, b} : Max({a, b}) >= y
    BY <1>1 DEF Max
  <1> DEFINE m == Max({a, b})
  <1> HIDE DEF m
  <1>3. m \in Nat /\ m >= a /\ m >= b
    BY <1>2 DEF m
  <1>4. a <= m /\ b <= m
    BY <1>3
  <1> QED BY <1>3, <1>4 DEF m

\* Every other step is calm.
LEMMA CalmStep ==
    ASSUME IInv, Next
    PROVE  Calm \/ \E p \in Pid : procfs_get_child(p)
  <1>1. most \in Nat /\ Len(processes) <= most /\ Len(processes) \in Nat /\ DOMAIN call = Pid
    BY DEF IInv, Counts, Calls, Processes
  <1>2. ASSUME NEW p \in Pid, Own(p), Calmly(p) PROVE \A q \in Pid : Calmly(q)
    BY <1>2 DEF Own, Calmly
  <1>3. ASSUME UNCHANGED <<vfs_vars, history>>, \A q \in Pid : Calmly(q) PROVE Calm
    BY <1>1, <1>3 DEF Calm, vfs_vars, procfs, history
  <1>4. ASSUME NEW p \in Pid, FileCalls(p), ~procfs_get_child(p) PROVE Calm
    <2>1. UNCHANGED <<vfs_vars, history>>
      BY <1>4 DEF FileCalls, nl_open, walk_on, walk_fails, walk_astray, Walks, nl_open_found,
                  nl_open_opens, nl_close, nl_close_clears, nl_read, nl_write, nl_transfer
    <2>2. Own(p) /\ Calmly(p)
      BY <1>4, OpenStep, WalkStep, FoundStep, OpensStep, CloseStep, ClearStep, TransferStep
         DEF FileCalls, nl_read, nl_write
    <2> QED BY <1>2, <1>3, <2>1, <2>2
  <1>5. ASSUME NEW p \in Pid, MountCalls(p) PROVE Calm
    <2>1. Own(p) /\ Calmly(p)
      BY <1>5, MountStep
    <2>2. \A q \in Pid : Calmly(q)
      BY <1>2, <2>1
    <2>3. CASE mountpoint_create_mounts(p)
      <3>1. UNCHANGED <<processes, procfs, history>>
        BY <2>3 DEF mountpoint_create_mounts
      <3>2. next_inode' = next_inode \/ (next_inode <= MaxIno /\ next_inode' = next_inode + 1)
        BY <2>3 DEF mountpoint_create_mounts, mountpoint_create_fromnode
      <3> QED BY <1>1, <2>2, <3>1, <3>2 DEF Calm, procfs, history
    <2>4. CASE ~mountpoint_create_mounts(p)
      <3>1. UNCHANGED <<vfs_vars, history>>
        BY <1>5, <2>4 DEF MountCalls, mountpoint_create, mountpoint_create_found, Walks,
                          mountpoint_create_fails
      <3> QED BY <1>3, <2>2, <3>1
    <2> QED BY <2>3, <2>4
  <1>6. CASE RegistryCalls
    <2>1. UNCHANGED <<next_inode, processes, procfs, history, call>>
      BY <1>6 DEF RegistryCalls, mountpoint_destroy, register_fs, unregister_fs
    <2> QED BY <1>1, <2>1 DEF Calm, Calmly, procfs, history
  <1>7. CASE proc_create
    <2>1. /\ UNCHANGED <<next_inode, procfs, call, torn>> /\ most' = Max({most, Len(processes) + 1})
          /\ processes' = SlistInsertHead(processes, next_pid)
      BY <1>7 DEF proc_create
    <2>2. Len(processes') = Len(processes) + 1
      <3> DEFINE S == 1..next_pid
      <3>1. processes \in Seq(S) /\ next_pid \in S
        BY Constants DEF IInv, Processes
      <3> HIDE DEF S
      <3> QED BY <2>1, <3>1, InsertHead
    <2> DEFINE n == Len(processes) + 1
    <2>3. n \in Nat
      BY <1>1
    <2>4. most' \in Nat /\ most <= most' /\ n <= most'
      <3> HIDE DEF n
      <3>1. Max({most, n}) \in Nat /\ most <= Max({most, n}) /\ n <= Max({most, n})
        BY <1>1, <2>3, MaxIs
      <3>2. most' = Max({most, n})
        BY <2>1 DEF n
      <3> QED BY <3>1, <3>2
    <2>5. Len(processes') <= most'
      BY <2>2, <2>4
    <2> HIDE DEF n
    <2> QED BY <2>1, <2>4, <2>5 DEF Calm, Calmly, procfs
  <1>8. ASSUME NEW p \in Pid, proc_destroy(p) PROVE Calm
    <2>1. Own(p) /\ Calmly(p)
      BY <1>8, DestroyStep
    <2>2. /\ UNCHANGED <<next_inode, procfs, history>> /\ processes' = SlistRemove(processes, p)
          /\ p \in SlistElems(processes)
      BY <1>8 DEF proc_destroy, Live
    <2>3. Len(processes') = Len(processes) - 1
      <3> DEFINE S == 1..(next_pid - 1)
      <3>1. processes \in Seq(S) /\ SlistNoDup(processes)
        BY DEF IInv, Processes
      <3> HIDE DEF S
      <3> QED BY <2>2, <3>1, RemoveElem
    <2>4. Len(processes') <= most
      BY <1>1, <2>3
    <2> QED BY <1>1, <1>2, <2>1, <2>2, <2>4 DEF Calm, procfs, history
  <1> QED BY <1>4, <1>5, <1>6, <1>7, <1>8 DEF Next

\* The nodes in the cache, freed and in hand, and their numbers.
LEMMA NodesIn ==
    ASSUME IInv
    PROVE  /\ SlistElems(procs) \subseteq Node /\ freed \subseteq Node /\ NoNode \notin Node
           /\ \A p \in Pid : call[p].node \in Node \cup {NoNode}
           /\ next_inode \in Nat /\ \A n \in Node \cup {NoNode} : n.ino \in Int
           /\ NoNode.ino = -1
  <1>1. SlistElems(procs) \subseteq Node
    <2>1. SlistElems(procs) \subseteq ProcNode
      BY ElemsIn DEF IInv, Cache
    <2> QED BY <2>1, Constants DEF ProcNode, Node, Kind
  <1>2. freed \subseteq Node /\ next_inode \in Nat
    BY Constants DEF IInv, Cache
  <1>3. \A p \in Pid : call[p].node \in Node \cup {NoNode}
    BY DEF IInv, Calls, CallOK
  <1>4. NoNode.ino = -1 /\ \A n \in Node : n.ino \in Int
    BY Constants DEF NoNode, Node
  <1>5. \A n \in Node \cup {NoNode} : n.ino \in Int
    BY <1>4
  <1> QED BY <1>1, <1>2, <1>3, <1>4, <1>5, Constants

\* A call that takes a node takes it from the cache, and does not begin to free or to
\* add one.
Gentle(q) ==
    \/ call'[q] = call[q]
    \/ /\ call'[q].node \in {NoNode, call[q].node} \cup SlistElems(procs)
       /\ call'[q].st \notin {"free", "add"}

\* Steps of this kind, of any number of calls, leave the cache sound.
LEMMA GentleSound ==
    ASSUME IInv, UNCHANGED <<procs, freed, torn>>, next_inode' \in Nat, next_inode <= next_inode',
           \A q \in Pid : Gentle(q)
    PROVE  Sound'
  <1>1. CASE torn
    BY <1>1 DEF Sound
  <1>2. CASE ~torn
    <2>1. CacheLive /\ Older /\ \A q \in Pid : NewFor(q)
      BY <1>2 DEF IInv, Sound
    <2>2. CacheLive'
      BY <1>2, <2>1, NodesIn DEF CacheLive, SlistNoDup, Gentle
    <2>3. Older'
      <3>1. \A n \in Node \cup {NoNode} : n.ino < next_inode => n.ino < next_inode'
        <4> SUFFICES ASSUME NEW x \in Int, x < next_inode PROVE x < next_inode'
          BY NodesIn
        <4> QED BY NodesIn
      <3>2. NoNode.ino < next_inode
        BY NodesIn
      <3>3. \A n \in SlistElems(procs) \cup freed : n.ino < next_inode
        BY <2>1 DEF Older
      <3>4. ASSUME NEW q \in Pid PROVE call'[q].node.ino < next_inode'
        <4>1. call[q].node.ino < next_inode /\ call[q].node \in Node \cup {NoNode}
          BY <2>1, NodesIn DEF Older
        <4>2. call'[q].node \in {NoNode, call[q].node} \cup SlistElems(procs)
          BY DEF Gentle
        <4> QED BY <3>1, <3>2, <3>3, <4>1, <4>2, NodesIn
      <3>5. \A n \in SlistElems(procs') \cup freed' : n.ino < next_inode'
        BY <3>1, <3>3, NodesIn
      <3> QED BY <3>4, <3>5 DEF Older
    <2>4. ASSUME NEW p \in Pid PROVE NewFor(p)'
      <3>1. NewFor(p)
        BY <2>1
      <3>2. CASE call'[p].st = "add"
        <4>1. call'[p] = call[p] /\ call[p].st = "add"
          BY <3>2 DEF Gentle
        <4>2. /\ call[p].node \notin SlistElems(procs) /\ call[p].node \in Node
              /\ \A q \in Pid : q # p => call[q].node # call[p].node
          <5>1. call[p].node \in ProcNode
            BY <4>1 DEF IInv, Calls, CallOK, Suits
          <5>2. ProcNode \subseteq Node
            BY Constants DEF ProcNode, Node, Kind
          <5> QED BY <3>1, <4>1, <5>1, <5>2 DEF NewFor
        <4>3. \A q \in Pid : q # p => call'[q].node # call[p].node
          BY <4>2, NodesIn DEF Gentle
        <4> QED BY <3>2, <4>1, <4>2, <4>3 DEF NewFor
      <3>3. CASE call'[p].st = "free"
        <4>1. call'[p] = call[p] /\ call[p].st = "free"
          BY <3>3 DEF Gentle
        <4> QED BY <3>1, <3>3, <4>1 DEF NewFor
      <3> QED BY <3>2, <3>3 DEF NewFor
    <2> QED BY <2>2, <2>3, <2>4 DEF Sound
  <1> QED BY <1>1, <1>2

\* The processes about to add a node are finitely many.
LEMMA AddingFinite ==
    ASSUME IInv
    PROVE  IsFiniteSet(Adding) /\ Cardinality(Adding) \in Nat /\ Adding \in SUBSET workload.callers
  <1>1. Adding \in SUBSET workload.callers
    BY DEF IInv, Calls, Adding
  <1>2. IsFiniteSet(workload.callers)
    BY CallersFinite DEF IInv
  <1>3. IsFiniteSet(Adding)
    BY <1>1, <1>2, FS_Subset
  <1> QED BY <1>1, <1>3, FS_CardinalityType

\* A sum that does not grow stays below one that does not shrink.
LEMMA SumsApart == \A s, t, x, y, c \in Nat : s <= t /\ t < x + c /\ x <= y => s < y + c
  OBVIOUS

\* The cache holds no more than before and nobody begins to add a node.
LEMMA NoMore ==
    ASSUME IInv, Adding' \subseteq Adding, Len(procs') \in Nat, Len(procs') <= Len(procs),
           most' \in Nat, most <= most', workload' = workload
    PROVE  CacheBounded'
  <1> DEFINE a == Cardinality(Adding)
             b == Cardinality(Adding')
             c == Cardinality(workload.callers)
             l == Len(procs)
             m == Len(procs')
  <1>1. IsFiniteSet(Adding) /\ a \in Nat /\ c \in Nat /\ l \in Nat /\ most \in Nat
    BY AddingFinite, CallersFinite DEF IInv, Cache, Counts
  <1>2. b \in Nat /\ b <= a
    <2>1. Adding' \in SUBSET Adding
      OBVIOUS
    <2> QED BY <1>1, <2>1, FS_Subset, FS_CardinalityType
  <1>3. l + a < most + c
    BY DEF IInv, CacheBounded
  <1>4. CacheBounded' <=> m + b < most' + c
    BY DEF CacheBounded
  <1>5. m \in Nat /\ m <= l
    OBVIOUS
  <1> HIDE DEF a, b, c, l, m
  <1>6. m + b <= l + a
    BY <1>1, <1>2, <1>5
  <1>7. PICK x \in Nat, y \in Nat : x = most /\ y = most' /\ x <= y
    <2>1. most \in Nat /\ most' \in Nat /\ most <= most'
      BY <1>1
    <2> QED BY <2>1
  <1>8. l + a < x + c
    BY <1>3, <1>7
  <1>9. m + b < y + c
    <2>1. m + b \in Nat /\ l + a \in Nat /\ c \in Nat
      BY <1>1, <1>2, <1>5
    <2> QED BY <1>6, <1>7, <1>8, <2>1, SumsApart
  <1> QED BY <1>4, <1>7, <1>9

\* A calm step keeps what is known of the cache.
LEMMA CalmKeeps == IInv /\ Next /\ Calm => Cache' /\ Sound' /\ Counts' /\ CacheBounded'
  <1> SUFFICES ASSUME IInv, Next, Calm PROVE Cache' /\ Sound' /\ Counts' /\ CacheBounded'
    OBVIOUS
  <1>1. /\ UNCHANGED <<procs, freed, torn>> /\ most' \in Nat /\ most <= most' /\ Len(processes') <= most'
        /\ next_inode' = next_inode \/ (next_inode <= MaxIno /\ next_inode' = next_inode + 1)
        /\ \A q \in Pid : Calmly(q)
    BY DEF Calm
  <1>2. next_inode' \in (Len(Archive) + 2)..(MaxIno + 1) /\ next_inode <= next_inode' /\ next_inode' \in Nat
    BY <1>1, Constants DEF IInv, Cache
  <1>3. Cache'
    BY <1>1, <1>2 DEF IInv, Cache, SlistNoDup
  <1>4. Sound'
    <2>1. \A q \in Pid : Gentle(q)
      BY <1>1 DEF Calmly, Gentle
    <2> QED BY <1>1, <1>2, <2>1, GentleSound
  <1>5. Counts'
    <2>1. ASSUME NEW q \in Pid, call'[q].st = "look" PROVE call'[q].i < most'
      <3>1. call'[q] = call[q]
        BY <1>1, <2>1 DEF Calmly
      <3>2. call[q].i < most /\ call[q].i \in Nat /\ most \in Nat
        BY <2>1, <3>1, WalkRoot DEF IInv, Counts, Seeking
      <3> DEFINE x == call[q].i
      <3>3. x < most'
        <4>1. x \in Nat /\ x < most
          BY <3>2
        <4> HIDE DEF x
        <4> QED BY <1>1, <3>2, <4>1
      <3> QED BY <3>1, <3>3
    <2> QED BY <1>1, <2>1 DEF Counts
  <1>6. CacheBounded'
    <2>1. Adding' \subseteq Adding
      BY <1>1 DEF Calmly, Adding
    <2>2. Len(procs') \in Nat /\ Len(procs') <= Len(procs) /\ workload' = workload
      BY <1>1 DEF IInv, Cache, Next
    <2> QED BY <1>1, <2>1, <2>2, NoMore
  <1> QED BY <1>3, <1>4, <1>5, <1>6

\* What a step of procfs for process p leaves alone.
LEMMA ProcfsFrame ==
    ASSUME IInv, Next, NEW p \in Pid, procfs_get_child(p)
    PROVE  /\ UNCHANGED <<processes, most, workload>> /\ DOMAIN call' = Pid
           /\ \A q \in Pid : q # p => call'[q] = call[q]
           /\ DOMAIN call = Pid /\ DOMAIN call[p] = CallFields
  <1>1. UNCHANGED <<processes, most, workload>>
    BY ProcfsQuiet DEF Quietly, Next
  <1>2. Own(p)
    BY ProcfsStep
  <1> QED BY <1>1, <1>2, OfProcess DEF Own

\* A call in procfs that ends, or goes on, as the lookup of a child writes it.
LEMMA Went ==
    ASSUME IInv, NEW p \in Pid, NEW st, NEW n, NEW k, Goes(p, st, n, k)
    PROVE  call'[p].st = st /\ call'[p].node = n /\ call'[p].i = call[p].i
  BY OfProcess, GoesForm
\* The call that ends.
LEMMA Ends ==
    ASSUME IInv, NEW p \in Pid, Returns(p)
    PROVE  call'[p].st = "idle" /\ call'[p].node = NoNode
  <1>1. call'[p] = Idle
    BY OfProcess DEF Returns
  <1> QED BY <1>1, IdleIs

\* Unless a node has been freed that another lookup held, a lookup has in hand what
\* it took.
LEMMA InHand ==
    ASSUME IInv, NEW p \in Pid, NEW n \in PointsTo(call[p].node)
    PROVE  torn \/ (n = call[p].node /\ n \notin freed)
  <1>1. CASE ~torn
    <2>1. call[p].node \notin freed
      BY <1>1 DEF IInv, Sound, CacheLive
    <2>2. Cache /\ Registries /\ Calls /\ call[p].node \in Node \cup {NoNode}
      BY NodesIn DEF IInv
    <2>3. PointsTo(call[p].node) = {call[p].node}
      BY <2>1, <2>2, PointsIs
    <2> QED BY <2>1, <2>3
  <1> QED BY <1>1

\* The counts when p does not begin to look.
LEMMA CountsKept ==
    ASSUME IInv, Next, NEW p \in Pid, procfs_get_child(p), call'[p].st = "look" => call'[p].i < most
    PROVE  Counts'
  BY ProcfsFrame DEF IInv, Counts

\* Nor to add a node, while the cache does not grow.
LEMMA AddingKept ==
    ASSUME IInv, Next, NEW p \in Pid, procfs_get_child(p),
           call'[p].st \in {"make", "add"} => call[p].st \in {"make", "add"},
           Len(procs') \in Nat, Len(procs') <= Len(procs)
    PROVE  CacheBounded'
  <1>1. UNCHANGED <<most, workload>> /\ \A q \in Pid : q # p => call'[q] = call[q]
    BY ProcfsFrame
  <1>2. Adding' \subseteq Adding
    BY <1>1 DEF Adding
  <1>3. most' \in Nat /\ most <= most'
    BY <1>1 DEF IInv, Counts
  <1> QED BY <1>1, <1>2, <1>3, NoMore

\* The steps that change neither the cache nor what is freed, but for the two below.
LEMMA ProcfsLooks ==
    ASSUME IInv, Next, NEW p \in Pid,
           \/ procfs_cleanup(p) \/ procfs_visit(p) \/ procfs_compare(p) \/ procfs_ask(p)
           \/ procfs_get(p)
    PROVE  Cache' /\ Sound' /\ Counts' /\ CacheBounded'
  <1> DEFINE c == call[p]
  <1>0. procfs_get_child(p)
    BY DEF procfs_get_child
  <1>1. UNCHANGED <<next_inode, procs, freed, torn>>
    BY DEF procfs_cleanup, procfs_visit, procfs_compare, procfs_ask, procfs_get, procfs
  <1>2. Cache'
    BY <1>1 DEF IInv, Cache, SlistNoDup
  <1>3. /\ call'[p].st \notin {"free", "make", "add"}
        /\ call'[p].st = "look" => c.i \in Nat /\ c.i < Len(processes) /\ call'[p].i = c.i
        /\ torn \/ call'[p].node \in {NoNode, c.node} \cup SlistElems(procs)
    <2>1. CASE procfs_cleanup(p)
      <3>1. PICK st \in {"ask", "clean"} : Goes(p, st, NoNode, 0)
        BY <2>1 DEF procfs_cleanup
      <3> QED BY <3>1, Went
    <2>2. CASE procfs_visit(p)
      <3>1. CASE c.k < Len(procs) /\ Goes(p, "compare", procs[c.k + 1], c.k)
        <4>1. c.k \in Nat /\ Len(procs) \in Nat
          BY OfProcess DEF CallOK, IInv, Cache
        <4>2. c.k + 1 \in 1..Len(procs)
          BY <3>1, <4>1
        <4>3. procs[c.k + 1] \in SlistElems(procs)
          BY <4>2 DEF SlistElems
        <4> QED BY <3>1, <4>3, Went
      <3>2. CASE Goes(p, "ask", NoNode, 0)
        BY <3>2, Went
      <3> QED BY <2>2, <3>1, <3>2 DEF procfs_visit
    <2>3. CASE procfs_compare(p)
      <3>1. PICK n \in PointsTo(c.node) : Goes(p, "clean", NoNode, c.k + 1) \/ Goes(p, "remove", n, c.k)
        BY <2>3 DEF procfs_compare
      <3>2. torn \/ n = c.node
        BY <3>1, InHand
      <3>3. CASE Goes(p, "clean", NoNode, c.k + 1)
        BY <3>3, Went
      <3>4. CASE Goes(p, "remove", n, c.k)
        BY <3>2, <3>4, Went
      <3> QED BY <3>1, <3>3, <3>4
    <2>4. CASE procfs_ask(p)
      <3>1. CASE c.i < Len(processes) /\ Goes(p, "look", NoNode, 0)
        <4>1. c.i \in Nat
          BY <2>4, WalkRoot DEF procfs_ask, At, Seeking
        <4> QED BY <3>1, <4>1, Went
      <3>2. CASE Returns(p)
        BY <3>2, Ends
      <3> QED BY <2>4, <3>1, <3>2 DEF procfs_ask
    <2>5. CASE procfs_get(p)
      <3>1. Goes(p, "match", liblist_get(procs, c.i, NoNode), 0) /\ c.st = "get"
        BY <2>5 DEF procfs_get, At
      <3>2. c.i \in Nat /\ Len(procs) \in Nat
        BY <3>1, WalkRoot DEF Seeking, IInv, Cache
      <3>3. liblist_get(procs, c.i, NoNode) \in {NoNode} \cup SlistElems(procs)
        <4>1. CASE c.i \in 0..(Len(procs) - 1)
          <5>1. c.i + 1 \in 1..Len(procs)
            BY <3>2, <4>1
          <5>2. procs[c.i + 1] \in SlistElems(procs)
            BY <5>1 DEF SlistElems
          <5> QED BY <4>1, <5>2 DEF liblist_get, SlistGet
        <4>2. CASE c.i \notin 0..(Len(procs) - 1)
          BY <4>2 DEF liblist_get, SlistGet
        <4> QED BY <4>1, <4>2
      <3> QED BY <3>1, <3>3, Went
    <2> QED BY <2>1, <2>2, <2>3, <2>4, <2>5
  <1>4. Sound'
    <2>1. CASE torn
      BY <1>1, <2>1 DEF Sound
    <2>2. CASE ~torn
      <3>1. \A q \in Pid : Gentle(q)
        BY <1>0, <1>3, <2>2, ProcfsFrame DEF Gentle
      <3>2. next_inode' \in Nat /\ next_inode <= next_inode'
        BY <1>1, NodesIn
      <3> QED BY <1>1, <3>1, <3>2, GentleSound
    <2> QED BY <2>1, <2>2
  <1>5. Counts'
    <2>1. call'[p].st = "look" => call'[p].i < most
      <3> SUFFICES ASSUME call'[p].st = "look" PROVE call'[p].i < most
        OBVIOUS
      <3>1. c.i \in Nat /\ c.i < Len(processes) /\ call'[p].i = c.i
        BY <1>3
      <3>2. Len(processes) \in Nat /\ most \in Nat /\ Len(processes) <= most
        BY DEF IInv, Processes, Counts
      <3> DEFINE x == c.i
                 y == Len(processes)
      <3>3. x \in Nat /\ y \in Nat /\ x < y /\ y <= most
        BY <3>1, <3>2
      <3> HIDE DEF x, y
      <3>4. x < most
        BY <3>2, <3>3
      <3> QED BY <3>1, <3>4 DEF x
    <2> QED BY <1>0, <2>1, CountsKept
  <1>6. CacheBounded'
    <2>1. Len(procs') \in Nat /\ Len(procs') <= Len(procs)
      BY <1>1 DEF IInv, Cache
    <2> QED BY <1>0, <1>3, <2>1, AddingKept
  <1> QED BY <1>2, <1>4, <1>5, <1>6

\* A node is taken out of the cache; it is still allocated and in hand.
LEMMA ProcfsRemoves ==
    ASSUME IInv, Next, NEW p \in Pid, procfs_remove(p)
    PROVE  Cache' /\ Sound' /\ Counts' /\ CacheBounded'
  <1> DEFINE c == call[p]
  <1>0. procfs_get_child(p)
    BY DEF procfs_get_child
  <1>1. PICK n \in PointsTo(c.node) : procs' = liblist_remove(procs, n) /\ Goes(p, "free", n, c.k)
    BY DEF procfs_remove
  <1>2. UNCHANGED <<next_inode, freed, torn>>
    BY DEF procfs_remove
  <1>3. procs \in Seq(ProcNode) /\ SlistNoDup(procs) /\ Len(procs) \in Nat
    BY DEF IInv, Cache
  <1>4. /\ procs' \in Seq(ProcNode) /\ SlistNoDup(procs') /\ Len(procs') \in Nat
        /\ Len(procs') <= Len(procs) /\ SlistElems(procs') = SlistElems(procs) \ {n}
    <2>1. CASE n \in SlistElems(procs)
      <3>1. procs' = SlistRemove(procs, n)
        <4>1. SlistFind(procs, n) - 1 # -1
          BY <1>3, <2>1, FindPosition
        <4> QED BY <1>1, <2>1, <4>1 DEF liblist_remove, liblist_indexof
      <3>2. /\ SlistRemove(procs, n) \in Seq(ProcNode) /\ Len(SlistRemove(procs, n)) = Len(procs) - 1
            /\ SlistElems(SlistRemove(procs, n)) = SlistElems(procs) \ {n}
        BY <1>3, <2>1, RemoveElem
      <3>3. SlistNoDup(SlistRemove(procs, n))
        BY <1>3, <2>1, RemoveNoDup
      <3>4. Len(procs') = Len(procs) - 1 /\ Len(procs') \in Nat
        BY <3>1, <3>2
      <3>5. Len(procs') <= Len(procs)
        BY <1>3, <3>4
      <3> QED BY <3>1, <3>2, <3>3, <3>4, <3>5
    <2>2. CASE n \notin SlistElems(procs)
      <3>1. procs' = procs
        BY <1>1, <2>2 DEF liblist_remove, liblist_indexof
      <3> QED BY <1>3, <2>2, <3>1
    <2> QED BY <2>1, <2>2
  <1>5. Cache'
    BY <1>2, <1>4 DEF IInv, Cache
  <1>6. /\ call'[p].st = "free" /\ call'[p].node = n
        /\ \A q \in Pid : q # p => call'[q] = call[q]
    BY <1>0, <1>1, Went, ProcfsFrame
  <1>7. Sound'
    <2>1. CASE torn
      BY <1>2, <2>1 DEF Sound
    <2>2. CASE ~torn
      <3>1. CacheLive /\ Older /\ \A q \in Pid : NewFor(q)
        BY <2>2 DEF IInv, Sound
      <3>2. n = c.node /\ n \notin freed
        BY <2>2, InHand
      <3>3. CacheLive'
        BY <1>2, <1>4, <1>6, <2>2, <3>1, <3>2 DEF CacheLive
      <3>4. Older'
        BY <1>2, <1>4, <1>6, <3>1, <3>2 DEF Older
      <3>5. \A q \in Pid : NewFor(q)'
        BY <1>4, <1>6, <3>1, <3>2 DEF NewFor
      <3> QED BY <3>3, <3>4, <3>5 DEF Sound
    <2> QED BY <2>1, <2>2
  <1>8. Counts'
    BY <1>0, <1>6, CountsKept
  <1>9. CacheBounded'
    BY <1>0, <1>4, <1>6, AddingKept
  <1> QED BY <1>5, <1>7, <1>8, <1>9

\* A node that is freed was taken out before, or was never in; who else holds it is
\* recorded.
LEMMA FreeSound ==
    ASSUME IInv, Next, NEW p \in Pid, call[p].st \in {"free", "add"}, NEW n \in PointsTo(call[p].node),
           kfree(p, n), UNCHANGED <<next_inode, procs>>, n \in Node,
           call'[p].node = NoNode, call'[p].st \notin {"free", "add"},
           \A q \in Pid : q # p => call'[q] = call[q]
    PROVE  Cache' /\ Sound'
  <1>1. /\ freed' = freed \/ freed' = freed \cup {n}
        /\ torn' \in BOOLEAN /\ (torn => torn')
    BY DEF kfree, IInv, Cache
  <1>2. Cache'
    BY <1>1 DEF IInv, Cache, SlistNoDup
  <1>3. Sound'
    <2>1. CASE torn'
      BY <2>1 DEF Sound
    <2>2. CASE ~torn'
      <3>1. ~torn /\ CacheLive /\ Older /\ \A q \in Pid : NewFor(q)
        BY <1>1, <2>2 DEF IInv, Sound
      <3>2. n = call[p].node /\ n \notin freed /\ n \notin SlistElems(procs)
        BY <3>1, InHand DEF NewFor
      <3>3. freed' = freed \cup {n} /\ \A q \in Pid \ {p} : call[q].node # n
        BY <2>2, <3>2 DEF kfree
      <3>4. NoNode \notin freed' /\ SlistNoDup(procs')
        BY <1>2, NodesIn DEF Cache
      <3>5. CacheLive'
        BY <3>1, <3>2, <3>3, <3>4 DEF CacheLive
      <3>6. Older'
        <4>1. NoNode.ino < next_inode
          BY NodesIn
        <4> QED BY <3>1, <3>2, <3>3, <4>1 DEF Older
      <3>7. \A q \in Pid : NewFor(q)'
        <4>1. ASSUME NEW q \in Pid, q # p PROVE NewFor(q)'
          <5>1. NewFor(q) /\ call'[q] = call[q]
            BY <3>1, <4>1
          <5>2. call[q].st = "add" => call[q].node # NoNode
            <6>1. call[q].st = "add" => call[q].node \in ProcNode
              BY DEF IInv, Calls, CallOK, Suits
            <6>2. ProcNode \subseteq Node
              BY Constants DEF ProcNode, Node, Kind
            <6> QED BY <6>1, <6>2, NodesIn
          <5> QED BY <5>1, <5>2 DEF NewFor
        <4>2. NewFor(p)'
          BY DEF NewFor
        <4> QED BY <4>1, <4>2
      <3> QED BY <3>5, <3>6, <3>7 DEF Sound
    <2> QED BY <2>1, <2>2
  <1> QED BY <1>2, <1>3

\* The node that was taken out is freed.
LEMMA ProcfsFrees ==
    ASSUME IInv, Next, NEW p \in Pid, procfs_free(p)
    PROVE  Cache' /\ Sound' /\ Counts' /\ CacheBounded'
  <1> DEFINE c == call[p]
  <1>0. procfs_get_child(p)
    BY DEF procfs_get_child
  <1>1. PICK n \in PointsTo(c.node) : kfree(p, n)
    BY DEF procfs_free
  <1>2. c.st = "free" /\ UNCHANGED <<next_inode, procs>> /\ Goes(p, "clean", NoNode, c.k + 1)
    BY DEF procfs_free, At
  <1>3. call'[p].st = "clean" /\ call'[p].node = NoNode /\ \A q \in Pid : q # p => call'[q] = call[q]
    BY <1>0, <1>2, Went, ProcfsFrame
  <1>4. n \in Node
    <2>1. Cache /\ Registries /\ Calls /\ c.node \in Node
      BY <1>2 DEF IInv, Calls, CallOK, Suits
    <2> QED BY <1>1, <2>1, PointsIs
  <1>5. Cache' /\ Sound'
    BY <1>1, <1>2, <1>3, <1>4, FreeSound
  <1>6. Counts'
    BY <1>0, <1>3, CountsKept
  <1>7. Len(procs') \in Nat /\ Len(procs') <= Len(procs)
    BY <1>2 DEF IInv, Cache
  <1>8. CacheBounded'
    BY <1>0, <1>3, <1>7, AddingKept
  <1> QED BY <1>5, <1>6, <1>8

\* A lookup that finds less in the cache than its index is going to add a node: there
\* is room for it below the most processes there have been, and for those of others.
LEMMA ProcfsLooksUp ==
    ASSUME IInv, Next, NEW p \in Pid, procfs_look(p)
    PROVE  Cache' /\ Sound' /\ Counts' /\ CacheBounded'
  <1> DEFINE c == call[p]
  <1>0. procfs_get_child(p)
    BY DEF procfs_get_child
  <1>1. UNCHANGED <<next_inode, procs, freed, torn>> /\ c.st = "look"
    BY DEF procfs_look, procfs, At
  <1>2. PICK st \in {"get", "make"} :
          Goes(p, st, NoNode, 0) /\ (st = "make" => ~(c.i < Len(procs)))
    BY DEF procfs_look
  <1>3. call'[p].st = st /\ call'[p].node = NoNode
    BY <1>2, Went
  <1>4. Cache'
    BY <1>1 DEF IInv, Cache, SlistNoDup
  <1>5. Sound'
    <2>1. \A q \in Pid : Gentle(q)
      BY <1>0, <1>3, ProcfsFrame DEF Gentle
    <2>2. next_inode' \in Nat /\ next_inode <= next_inode'
      BY <1>1, NodesIn
    <2> QED BY <1>1, <2>1, <2>2, GentleSound
  <1>6. Counts'
    BY <1>0, <1>3, CountsKept
  <1>7. CacheBounded'
    <2>1. CASE st = "get"
      <3>1. Len(procs') \in Nat /\ Len(procs') <= Len(procs)
        BY <1>1 DEF IInv, Cache
      <3> QED BY <1>0, <1>3, <2>1, <3>1, AddingKept
    <2>2. CASE st = "make"
      <3> DEFINE b == Cardinality(Adding')
                 d == Cardinality(workload.callers)
                 l == Len(procs)
                 x == c.i
      <3>1. x \in Nat /\ x < most /\ ~(x < l) /\ l \in Nat /\ most \in Nat
        <4>1. c.i \in Nat
          BY <1>1, WalkRoot DEF Seeking
        <4> QED BY <1>1, <1>2, <2>2, <4>1 DEF IInv, Counts, Cache
      <3>2. b \in Nat /\ b <= d /\ d \in Nat
        <4>1. Adding' \in SUBSET workload.callers
          <5>1. Adding \in SUBSET workload.callers /\ p \in workload.callers
            BY <1>1, AddingFinite DEF IInv, Calls
          <5> QED BY <1>0, <5>1, ProcfsFrame DEF Adding
        <4> QED BY <4>1, CallersFinite, FS_Subset, FS_CardinalityType DEF IInv
      <3>3. CacheBounded' <=> l + b < most + d
        BY <1>0, <1>1, ProcfsFrame DEF CacheBounded
      <3> HIDE DEF b, d, l, x
      <3>4. l + b < most + d
        BY <3>1, <3>2
      <3> QED BY <3>3, <3>4
    <2> QED BY <2>1, <2>2
  <1> QED BY <1>4, <1>5, <1>6, <1>7

\* A node is made with the next number, which nobody has seen, or the call ends.
LEMMA ProcfsMakes ==
    ASSUME IInv, Next, NEW p \in Pid, procfs_make(p)
    PROVE  Cache' /\ Sound' /\ Counts' /\ CacheBounded'
  <1> DEFINE c == call[p]
  <1>0. procfs_get_child(p)
    BY DEF procfs_get_child
  <1>1. UNCHANGED <<procs, freed, torn>> /\ c.st = "make"
    BY DEF procfs_make, procfs, At
  <1>2. \A q \in Pid : q # p => call'[q] = call[q]
    BY <1>0, ProcfsFrame
  <1>3. Len(procs') \in Nat /\ Len(procs') <= Len(procs)
    BY <1>1 DEF IInv, Cache
  <1>4. CacheBounded'
    BY <1>0, <1>1, <1>3, AddingKept
  <1>5. CASE Returns(p) /\ UNCHANGED next_inode
    <2>1. call'[p].st = "idle" /\ call'[p].node = NoNode
      BY <1>5, Ends
    <2>2. Cache'
      BY <1>1, <1>5 DEF IInv, Cache, SlistNoDup
    <2>3. Sound'
      <3>1. \A q \in Pid : Gentle(q)
        BY <1>2, <2>1 DEF Gentle
      <3>2. next_inode' \in Nat /\ next_inode <= next_inode'
        BY <1>5, NodesIn
      <3> QED BY <1>1, <3>1, <3>2, GentleSound
    <2> QED BY <1>0, <1>4, <2>1, <2>2, <2>3, CountsKept
  <1>6. ASSUME next_inode <= workload.inodes, next_inode' = next_inode + 1,
               Goes(p, "add", procfs_node(c.i), 0)
        PROVE  Cache' /\ Sound' /\ Counts' /\ CacheBounded'
    <2>1. PICK n \in Node : n = procfs_node(c.i) /\ n.ino = next_inode
      <3>1. c.i \in Nat
        BY <1>1, WalkRoot DEF Seeking
      <3> QED BY <1>6, <3>1, MadeIs DEF IInv
    <2>2. call'[p].st = "add" /\ call'[p].node = n
      BY <1>6, <2>1, Went
    <2>3. next_inode' \in (Len(Archive) + 2)..(MaxIno + 1)
      <3>1. c.i \in Nat
        BY <1>1, WalkRoot DEF Seeking
      <3> QED BY <1>6, <3>1, MadeIs DEF IInv
    <2>4. Cache'
      BY <1>1, <2>3 DEF IInv, Cache, SlistNoDup
    <2>5. Sound'
      <3>1. CASE torn
        BY <1>1, <3>1 DEF Sound
      <3>2. CASE ~torn
        <4>1. CacheLive /\ Older /\ \A q \in Pid : NewFor(q)
          BY <3>2 DEF IInv, Sound
        <4>2. /\ \A m \in SlistElems(procs) \cup freed : m # n /\ m.ino < next_inode
              /\ \A q \in Pid : call[q].node # n /\ call[q].node.ino < next_inode
          <5>1. ~(n.ino < next_inode)
            BY <2>1, NodesIn
          <5> QED BY <4>1, <5>1 DEF Older
        <4>3. CacheLive'
          <5>1. \A q \in Pid : call'[q].node \notin freed
            BY <1>2, <2>2, <3>2, <4>1, <4>2 DEF CacheLive
          <5>2. SlistNoDup(procs') /\ SlistElems(procs') \cap freed' = {}
            BY <1>1, <2>4, <3>2, <4>1 DEF CacheLive, Cache
          <5> QED BY <1>1, <5>1, <5>2 DEF CacheLive
        <4>4. Older'
          <5>1. \A m \in Node \cup {NoNode} : m.ino < next_inode \/ m = n => m.ino < next_inode'
            <6>1. \A x \in Int : x < next_inode \/ x = next_inode => x < next_inode'
              BY <1>6, NodesIn
            <6> QED BY <2>1, <6>1, NodesIn
          <5>2. \A q \in Pid : call'[q].node.ino < next_inode'
            BY <1>2, <2>2, <4>2, <5>1, NodesIn
          <5>3. \A m \in SlistElems(procs') \cup freed' : m.ino < next_inode'
            BY <1>1, <4>2, <5>1, NodesIn
          <5> QED BY <5>2, <5>3 DEF Older
        <4>5. ASSUME NEW q \in Pid, q # p PROVE NewFor(q)'
          BY <1>1, <1>2, <2>2, <4>1, <4>2, <4>5 DEF NewFor
        <4>6. NewFor(p)'
          BY <1>1, <1>2, <2>2, <4>2 DEF NewFor
        <4> QED BY <4>3, <4>4, <4>5, <4>6 DEF Sound
      <3> QED BY <3>1, <3>2
    <2> QED BY <1>0, <1>4, <2>2, <2>4, <2>5, CountsKept
  <1> QED BY <1>5, <1>6 DEF procfs_make

\* The new node is linked, or freed when there is no memory for its place.
LEMMA ProcfsAdds ==
    ASSUME IInv, Next, NEW p \in Pid, procfs_add(p)
    PROVE  Cache' /\ Sound' /\ Counts' /\ CacheBounded'
  <1> DEFINE n == call[p].node
  <1>0. procfs_get_child(p)
    BY DEF procfs_get_child
  <1>1. call[p].st = "add" /\ UNCHANGED next_inode
    BY DEF procfs_add, At
  <1>2. /\ \A q \in Pid : q # p => call'[q] = call[q]
        /\ UNCHANGED <<most, workload>>
    BY <1>0, ProcfsFrame
  <1>3. n \in ProcNode /\ n \in Node
    <2>1. n \in ProcNode
      BY <1>1 DEF IInv, Calls, CallOK, Suits
    <2> QED BY <2>1, Constants DEF ProcNode, Node, Kind
  <1>4. procs \in Seq(ProcNode) /\ SlistNoDup(procs) /\ Len(procs) \in Nat
    BY DEF IInv, Cache
  <1> HIDE DEF n
  <1>5. CASE kfree(p, n) /\ Returns(p) /\ UNCHANGED procs
    <2>1. call'[p].st = "idle" /\ call'[p].node = NoNode
      BY <1>5, Ends
    <2>2. n \in PointsTo(call[p].node)
      BY DEF PointsTo, n
    <2>3. Cache' /\ Sound'
      BY <1>1, <1>2, <1>3, <1>5, <2>1, <2>2, FreeSound
    <2>4. Len(procs') \in Nat /\ Len(procs') <= Len(procs)
      BY <1>4, <1>5
    <2> QED BY <1>0, <2>1, <2>3, <2>4, CountsKept, AddingKept
  <1>6. ASSUME procs' = liblist_add(procs, n), Goes(p, "match", n, 0), UNCHANGED <<freed, torn>>
        PROVE  Cache' /\ Sound' /\ Counts' /\ CacheBounded'
    <2>1. call'[p].st = "match" /\ call'[p].node = n
      BY <1>6, Went
    <2>2. /\ procs' \in Seq(ProcNode) /\ SlistNoDup(procs') /\ Len(procs') \in Nat
          /\ Len(procs') <= Len(procs) + 1 /\ SlistElems(procs') = SlistElems(procs) \cup {n}
      <3>1. CASE n \in SlistElems(procs)
        <4>1. SlistFind(procs, n) - 1 # -1
          BY <1>4, <3>1, FindPosition
        <4>2. procs' = procs
          BY <1>6, <3>1, <4>1 DEF liblist_add, liblist_indexof
        <4>3. Len(procs') <= Len(procs) + 1
          BY <1>4, <4>2
        <4> QED BY <1>4, <3>1, <4>2, <4>3
      <3>2. CASE n \notin SlistElems(procs)
        <4>1. procs' = SlistInsertHead(procs, n)
          BY <1>6, <3>2 DEF liblist_add, liblist_indexof
        <4>2. /\ SlistInsertHead(procs, n) \in Seq(ProcNode)
              /\ Len(SlistInsertHead(procs, n)) = Len(procs) + 1
              /\ SlistElems(SlistInsertHead(procs, n)) = SlistElems(procs) \cup {n}
          BY <1>3, <1>4, InsertHead
        <4>3. SlistNoDup(SlistInsertHead(procs, n))
          BY <1>3, <1>4, <3>2, InsertNoDup
        <4>4. Len(procs') \in Nat /\ Len(procs') <= Len(procs) + 1
          BY <1>4, <4>1, <4>2
        <4> QED BY <4>1, <4>2, <4>3, <4>4
      <3> QED BY <3>1, <3>2
    <2>3. Cache'
      BY <1>1, <1>6, <2>2 DEF IInv, Cache
    <2>4. Sound'
      <3>1. CASE torn
        BY <1>6, <3>1 DEF Sound
      <3>2. CASE ~torn
        <4>1. CacheLive /\ Older /\ \A q \in Pid : NewFor(q)
          BY <3>2 DEF IInv, Sound
        <4>2. n \notin freed /\ n.ino < next_inode /\ \A q \in Pid : q # p => call[q].node # n
          BY <1>1, <3>2, <4>1 DEF CacheLive, Older, NewFor, n
        <4>3. CacheLive'
          <5>1. SlistElems(procs') \cap freed' = {}
            BY <1>6, <2>2, <3>2, <4>1, <4>2 DEF CacheLive
          <5>2. \A q \in Pid : call'[q].node \notin freed'
            BY <1>2, <1>6, <2>1, <3>2, <4>1, <4>2 DEF CacheLive
          <5> QED BY <2>2, <5>1, <5>2 DEF CacheLive
        <4>4. Older'
          <5>1. \A q \in Pid : call'[q].node.ino < next_inode
            BY <1>2, <2>1, <4>1, <4>2 DEF Older
          <5>2. \A m \in SlistElems(procs') \cup freed' : m.ino < next_inode
            BY <1>6, <2>2, <4>1, <4>2 DEF Older
          <5> QED BY <1>1, <5>1, <5>2 DEF Older
        <4>5. ASSUME NEW q \in Pid, q # p PROVE NewFor(q)'
          BY <1>2, <2>1, <2>2, <4>1, <4>2, <4>5 DEF NewFor
        <4>6. NewFor(p)'
          BY <2>1 DEF NewFor
        <4> QED BY <4>3, <4>4, <4>5, <4>6 DEF Sound
      <3> QED BY <3>1, <3>2
    <2>5. Counts'
      BY <1>0, <2>1, CountsKept
    <2>6. CacheBounded'
      <3> DEFINE a == Cardinality(Adding)
                 b == Cardinality(Adding')
                 d == Cardinality(workload.callers)
                 l == Len(procs)
                 m == Len(procs')
      <3>1. Adding' = Adding \ {p} /\ p \in Adding
        BY <1>1, <1>2, <2>1 DEF Adding
      <3>2. IsFiniteSet(Adding) /\ a \in Nat /\ d \in Nat /\ l \in Nat /\ most \in Nat
        BY <1>4, AddingFinite, CallersFinite DEF IInv, Counts
      <3>3. b = a - 1
        BY <3>1, <3>2, FS_RemoveElement
      <3>4. l + a < most + d
        BY DEF IInv, CacheBounded
      <3>5. CacheBounded' <=> m + b < most + d
        BY <1>2 DEF CacheBounded
      <3>6. m \in Nat /\ m <= l + 1
        BY <2>2
      <3> HIDE DEF a, b, d, l, m
      <3>7. m + b < most + d
        BY <3>2, <3>3, <3>4, <3>6
      <3> QED BY <3>5, <3>7
    <2> QED BY <2>3, <2>4, <2>5, <2>6
  <1> QED BY <1>5, <1>6 DEF procfs_add, n

\* The cache through every step.
LEMMA CacheStep == IInv /\ Next => Cache' /\ Sound' /\ Counts' /\ CacheBounded'
  <1> SUFFICES ASSUME IInv, Next PROVE Cache' /\ Sound' /\ Counts' /\ CacheBounded'
    OBVIOUS
  <1>1. ASSUME NEW p \in Pid, procfs_get_child(p)
        PROVE  Cache' /\ Sound' /\ Counts' /\ CacheBounded'
    BY <1>1, ProcfsLooks, ProcfsRemoves, ProcfsFrees, ProcfsLooksUp, ProcfsMakes, ProcfsAdds
       DEF procfs_get_child
  <1> QED BY <1>1, CalmStep, CalmKeeps

-----------------------------------------------------------------------------
(* The inductive invariant *)

\* What a step does to the processes: one of them works, or none does.
Working(p) ==
    /\ Own(p) /\ (Counted(p) \/ Ended(p)) /\ RowStep(p)
    /\ \A q \in Pid : q \notin Live' \/ q \notin workload.callers => call'[q].st = "idle"

\* Every step is one of these.
LEMMA StepOf ==
    IInv /\ Next => \/ \E p \in Pid : Working(p)
                    \/ UNCHANGED <<processes, fd, call, opened, unmatched>>
  <1> SUFFICES ASSUME IInv, Next
               PROVE  \/ \E p \in Pid : Working(p)
                      \/ UNCHANGED <<processes, fd, call, opened, unmatched>>
    OBVIOUS
  <1>1. ASSUME NEW p \in Pid, Own(p), Unseen(p) PROVE Counted(p) /\ RowStep(p)
    BY <1>1 DEF Unseen, Counted, RowStep
  <1>2. ASSUME NEW p \in Pid, FileCalls(p) PROVE Own(p) /\ Counted(p) /\ RowStep(p)
    <2>1. CASE \E path \in workload.paths : nl_open(p, path)
      BY <1>1, <2>1, OpenStep
    <2>2. CASE walk_on(p) \/ walk_fails(p) \/ walk_astray(p)
      BY <1>1, <2>2, WalkStep
    <2>3. CASE nl_open_found(p)
      BY <1>1, <2>3, FoundStep
    <2>4. CASE nl_open_opens(p)
      BY <2>4, OpensStep
    <2>5. CASE \E i \in Fd : nl_close(p, i)
      BY <2>5, CloseStep
    <2>6. CASE nl_close_clears(p)
      BY <1>1, <2>6, ClearStep
    <2>7. CASE \E i \in Fd : nl_read(p, i) \/ nl_write(p, i)
      BY <2>7, TransferStep DEF nl_read, nl_write
    <2>8. CASE procfs_get_child(p)
      BY <1>1, <2>8, ProcfsStep
    <2> QED BY <1>2, <2>1, <2>2, <2>3, <2>4, <2>5, <2>6, <2>7, <2>8 DEF FileCalls
  <1>3. ASSUME NEW p \in Pid, MountCalls(p) PROVE Own(p) /\ Counted(p) /\ RowStep(p)
    BY <1>1, <1>3, MountStep
  \* Only a live process makes calls.
  <1>4. ASSUME NEW p \in Pid, FileCalls(p) \/ MountCalls(p) PROVE Working(p)
    <2>1. p \in Live
      BY <1>4, AnsweredIs, ProcfsMoves
         DEF FileCalls, nl_open, Ready, walk_on, walk_fails, walk_astray, nl_open_found,
             nl_open_opens, nl_close, nl_close_clears, nl_read, nl_write,
             nl_transfer, MountCalls, mountpoint_create, mountpoint_create_found,
             mountpoint_create_mounts, mountpoint_create_fails
    <2>2. processes' = processes
      BY <1>4, ProcfsQuiet
         DEF Quietly, FileCalls, nl_open, walk_on, walk_fails, walk_astray, Walks, nl_open_found,
             nl_open_opens, nl_close, nl_close_clears, nl_read, nl_write, nl_transfer,
             MountCalls, mountpoint_create, mountpoint_create_found,
             mountpoint_create_mounts, mountpoint_create_fails, vfs_vars
    <2>3. Own(p) /\ Counted(p) /\ RowStep(p)
      BY <1>2, <1>3, <1>4
    <2>4. Calls
      BY DEF IInv
    \* Whoever is in a call, or begins one, is a caller.
    <2>5. p \in workload.callers
      <3>1. CASE call[p].st = "idle"
        BY <1>4, <3>1, AnsweredIs, ProcfsMoves
           DEF FileCalls, nl_open, Ready, walk_on, walk_fails, walk_astray, nl_open_found,
               nl_open_opens, nl_close, nl_close_clears, nl_read, nl_write,
               nl_transfer, MountCalls, mountpoint_create, mountpoint_create_found,
               mountpoint_create_mounts, mountpoint_create_fails, Seeking
      <3> QED BY <2>4, <3>1 DEF Calls
    <2>6. \A q \in Pid : q \notin Live' \/ q \notin workload.callers => call'[q].st = "idle"
      BY <2>1, <2>2, <2>3, <2>4, <2>5 DEF Live, Own, Calls
    <2> QED BY <2>3, <2>6 DEF Working
  <1>5. CASE proc_create
    <2>1. Calls
      BY DEF IInv
    <2>2. PICK p \in Pid : /\ Own(p) /\ Ended(p) /\ RowStep(p) /\ call' = call
                           /\ \A q \in Pid : q \notin Live' => call'[q].st = "idle"
      BY <1>5, CreateStep
    <2>3. \A q \in Pid : q \notin Live' \/ q \notin workload.callers => call'[q].st = "idle"
      BY <2>1, <2>2 DEF Calls
    <2> QED BY <2>2, <2>3 DEF Working
  <1>6. ASSUME NEW p \in Pid, proc_destroy(p) PROVE Working(p)
    <2>1. Calls
      BY DEF IInv
    <2>2. /\ Own(p) /\ Ended(p) /\ RowStep(p) /\ call'[p] = Idle
          /\ \A q \in Pid : q \notin Live' => call'[q].st = "idle"
      BY <1>6, DestroyStep
    <2>3. \A q \in Pid : q \notin Live' \/ q \notin workload.callers => call'[q].st = "idle"
      BY <2>1, <2>2, IdleIs DEF Calls, Own
    <2> QED BY <2>2, <2>3 DEF Working
  <1>7. CASE RegistryCalls
    <2>1. UNCHANGED processes
      BY <1>7 DEF RegistryCalls, mountpoint_destroy, register_fs, unregister_fs
    <2> QED BY <1>7, <2>1 DEF RegistryCalls
  <1> QED BY <1>4, <1>5, <1>6, <1>7 DEF Next

\* The rest of the invariant is kept by whatever process works.
LEMMA CallsStep == IInv /\ Next => FdTyped' /\ Calls' /\ opened' \in Int /\ HeldOpen'
  <1> SUFFICES ASSUME IInv, Next PROVE FdTyped' /\ Calls' /\ opened' \in Int /\ HeldOpen'
    OBVIOUS
  <1>1. FdTyped /\ Calls /\ opened \in Int /\ HeldOpen /\ workload' = workload
    BY DEF IInv, Next
  <1>2. ASSUME NEW p \in Pid, Working(p) PROVE FdTyped' /\ Calls' /\ opened' \in Int /\ HeldOpen'
    <2>1. /\ DOMAIN call' = Pid /\ FdTyped' /\ CallOK(p)'
          /\ \A q \in Pid : q # p => call'[q] = call[q] /\ fd'[q] = fd[q]
      BY <1>2 DEF Working, Own
    <2>2. \A q \in Pid : CallOK(q)'
      <3> SUFFICES ASSUME NEW q \in Pid, q # p PROVE CallOK(q)'
        BY <2>1
      <3>1. CallOK(q)
        BY <1>1 DEF Calls
      <3> QED BY <1>1, <2>1, <3>1, OtherCall
    <2>3. \A q \in Pid : q \notin Live' \/ q \notin workload.callers => call'[q].st = "idle"
      BY <1>2 DEF Working
    <2>4. Calls'
      BY <1>1, <2>1, <2>2, <2>3 DEF Calls
    <2>5. Counted(p) \/ Ended(p)
      BY <1>2 DEF Working
    <2>6. HeldOpen' /\ opened' \in Int
      BY <2>1, <2>5, HeldStep
    <2> QED BY <2>1, <2>4, <2>6
  <1>3. CASE UNCHANGED <<processes, fd, call, opened, unmatched>>
    <2>1. FdTyped' /\ opened' \in Int
      BY <1>1, <1>3 DEF FdTyped
    <2>2. \A q \in Pid : CallOK(q)' /\ Held(q)' = Held(q)
      <3> SUFFICES ASSUME NEW q \in Pid PROVE CallOK(q)' /\ Held(q)' = Held(q)
        OBVIOUS
      <3>1. CallOK(q)
        BY <1>1 DEF Calls
      <3> QED BY <1>1, <1>3, <3>1, OtherCall
    <2>3. Calls'
      BY <1>1, <1>3, <2>2 DEF Calls, Live
    <2>4. HeldOpen'
      <3>1. {d \in Pid \X Fd : d[2] \in Held(d[1])'} = {d \in Pid \X Fd : d[2] \in Held(d[1])}
        BY <2>2
      <3> QED BY <1>1, <1>3, <3>1 DEF HeldOpen
    <2> QED BY <2>1, <2>3, <2>4
  <1> QED BY <1>2, <1>3, StepOf

\* The invariant is inductive.
LEMMA InvNext == IInv /\ [Next]_vars => IInv'
  <1>1. ASSUME IInv, Next PROVE IInv'
    BY <1>1, ProcessesStep, CacheStep, RegistriesStep, CallsStep DEF IInv
  <1>2. ASSUME IInv, UNCHANGED vars PROVE IInv'
    <2>1. UNCHANGED <<filesystems, filesystem_count, mountpoints, mp_count, next_inode, processes,
                      procs, freed, fd, call, next_pid, opened, unmatched, lost, most, torn, workload>>
      BY <1>2 DEF vars, vfs_vars, fs_list, mp_list, procfs, history
    <2>2. Processes' /\ Cache'
      BY <1>2, <2>1 DEF IInv, Processes, Cache
    <2>3. Registries'
      BY <1>2, <2>1 DEF IInv, Registries, MountOK
    <2>4. FdTyped' /\ opened' \in Int
      BY <1>2, <2>1 DEF IInv, FdTyped
    <2>5. Calls'
      BY <1>2, <2>1 DEF IInv, Calls, CallOK, Lowest, Live
    <2>6. HeldOpen'
      BY <1>2, <2>1 DEF IInv, HeldOpen, Held, OfMod
    <2>7. Sound'
      BY <1>2, <2>1 DEF IInv, Sound, CacheLive, SlistNoDup, Older, NewFor
    <2>8. Counts' /\ CacheBounded'
      BY <1>2, <2>1 DEF IInv, Counts, CacheBounded, Adding
    <2> QED BY <2>2, <2>3, <2>4, <2>5, <2>6, <2>7, <2>8 DEF IInv
  <1> QED BY <1>1, <1>2

\* The invariant holds in every reachable state.
THEOREM Invariant == Spec => []IInv
  BY InvInit, InvNext, PTL DEF Spec

-----------------------------------------------------------------------------
(* Theorems *)

\* The fields of a node.
LEMMA NodeFields == \A n \in Node : IsNode(n)
  BY DEF Node, IsNode

\* The state of fs.c, of the file systems and of the processes has its types.
THEOREM TypeCorrect == Spec => []TypeOK
  <1>1. IInv => TypeOK
    <2> SUFFICES ASSUME IInv PROVE TypeOK
      OBVIOUS
    <2>1. filesystem_count \in Nat /\ mp_count \in Nat
      BY DEF IInv, Registries
    <2>2. next_inode \in 0..(MaxIno + 1)
      BY Constants DEF IInv, Cache
    <2>3. \A n \in freed \cup SlistElems(procs) : IsNode(n)
      BY NodesIn, NodeFields
    <2>4. \A k \in 1..Len(mountpoints) : IsNode(mountpoints[k].rootnode)
      <3> SUFFICES ASSUME NEW k \in 1..Len(mountpoints) PROVE IsNode(mountpoints[k].rootnode)
        OBVIOUS
      <3>1. mountpoints[k] \in SlistElems(mountpoints)
        BY DEF SlistElems
      <3>2. mountpoints[k].rootnode \in Node
        BY <3>1 DEF IInv, Registries, MountOK
      <3> QED BY <3>2, NodeFields
    <2>5. Live \subseteq Pid /\ next_pid \in 1..(MaxPid + 1)
      BY LiveIs DEF IInv, Processes
    <2>6. ASSUME NEW p \in Pid, NEW i \in Fd
          PROVE  /\ fd[p][i].node = NoNode \/ IsNode(fd[p][i].node)
                 /\ fd[p][i].offset \in 0..(OffMax - 1)
      <3>1. fd[p][i] \in Descriptor
        BY DEF IInv, FdTyped
      <3>2. fd[p][i].node \in Node \cup {NoNode} /\ fd[p][i].offset \in 0..(OffMax - 1)
        BY <3>1 DEF Descriptor
      <3> QED BY <3>2, NodeFields
    <2>7. \A p \in Pid :
            /\ call[p].st \in {"idle", "walk", "open", "clear", "mount", "clean", "compare",
                              "remove", "free", "ask", "look", "make", "add", "get", "match"}
            /\ call[p].node = NoNode \/ IsNode(call[p].node)
      <3>1. \A p \in Pid : call[p].st \in {"idle", "open", "clear", "mount"} \cup Seeking
        BY DEF IInv, Calls, CallOK
      <3>2. \A p \in Pid : call[p].node = NoNode \/ IsNode(call[p].node)
        BY NodesIn, NodeFields
      <3> QED BY <3>1, <3>2 DEF Seeking
    <2> QED BY <2>1, <2>2, <2>3, <2>4, <2>5, <2>6, <2>7 DEF TypeOK
  <1> QED BY <1>1, Invariant, PTL

\* What is referred to is open at its driver, whichever openings and closings
\* fail, as long as no process ends with a descriptor half open.
THEOREM FilesStayOpen == Spec => []HeldOpen
  <1>1. IInv => HeldOpen
    BY DEF IInv
  <1> QED BY <1>1, Invariant, PTL

\* What procfs caches is allocated and linked once, and what a lookup has in hand is
\* allocated, until procfs frees a node that another lookup holds.
THEOREM CacheStaysLive == Spec => []CacheLive
  <1>1. IInv => CacheLive
    BY DEF IInv, Sound, CacheLive
  <1> QED BY <1>1, Invariant, PTL

\* The cache of procfs holds no more nodes than there have been processes at a time,
\* and one for each further process that looks up.
THEOREM CacheStaysBounded == Spec => []CacheBounded
  <1>1. IInv => CacheBounded
    BY DEF IInv
  <1> QED BY <1>1, Invariant, PTL

-----------------------------------------------------------------------------
(* What nl_open finds *)

PathName == Seq(Int) \ {<<>>}

\* Of the path a walk goes along, when one or two names are left, the first ends
\* the name at that place in the path nl_open was given.
EndOf(path, as) ==
    path # <<>> /\ Len(path) <= 2 =>
        Len(path) <= Len(as) /\ IsSuffix(path[1], as[Len(as) + 1 - Len(path)])

\* What the name of the node found has to do with the path.
Bears(name, as) ==
    \/ IsSuffix(name, Last(as))
    \/ Len(as) > 1 /\ IsSuffix(name, as[Len(as) - 1]) /\ Len(name) = 1

\* What nl_open relies on during its walk, and what it has found.
Named(p) ==
    /\ call[p].st \in Seeking /\ call[p].target = NoSource
          => /\ call[p].path \in Seq(PathName) /\ call[p].as \in Seq(PathName)
             /\ EndOf(call[p].path, call[p].as)
    /\ call[p].st = "open" => Bears(fd[p][call[p].slot].node.name, call[p].as)

\* The end of a name is a suffix of it.
LEMMA SuffixIs ==
    ASSUME NEW s \in Seq(Int), NEW k \in 0..Len(s)
    PROVE  IsSuffix(SubSeq(s, k + 1, Len(s)), s)
  <1> DEFINE n == Len(s)
             t == SubSeq(s, k + 1, n)
             m == n - k
  <1>1. n \in Nat /\ k \in Nat /\ m \in Nat /\ m <= n
    OBVIOUS
  <1>2. t \in Seq(Int) /\ Len(t) = m /\ \A i \in 1..m : t[i] = s[k + i]
    <2>1. t \in Seq(Int) /\ Len(t) = m
      OBVIOUS
    <2>2. \A i \in 1..m : t[i] = s[(k + 1) + i - 1]
      OBVIOUS
    <2>3. \A i \in 1..m : (k + 1) + i - 1 = k + i
      OBVIOUS
    <2> QED BY <2>1, <2>2, <2>3
  <1> HIDE DEF t
  <1>3. /\ Reverse(t) \in Seq(Int) /\ Len(Reverse(t)) = m
        /\ \A i \in 1..m : Reverse(t)[i] = t[m - i + 1]
    <2> HIDE DEF m
    <2>1. Reverse(t) = [i \in 1..m |-> t[m - i + 1]]
      BY <1>2 DEF Reverse
    <2>2. \A i \in 1..m : t[m - i + 1] \in Int
      <3>1. \A i \in 1..m : m - i + 1 \in 1..m
        BY <1>1
      <3> QED BY <1>2, <3>1
    <2>3. Reverse(t) \in [1..m -> Int]
      BY <2>1, <2>2
    <2> QED BY <1>1, <2>1, <2>3, FunctionIsSeq
  <1>4. /\ Reverse(s) \in Seq(Int) /\ Len(Reverse(s)) = n
        /\ \A i \in 1..n : Reverse(s)[i] = s[n - i + 1]
    <2>0. n = Len(s)
      OBVIOUS
    <2> HIDE DEF n
    <2>1. Reverse(s) = [i \in 1..n |-> s[n - i + 1]]
      BY <2>0 DEF Reverse
    <2>2. \A i \in 1..n : s[n - i + 1] \in Int
      <3>1. \A i \in 1..n : n - i + 1 \in 1..n
        BY <1>1
      <3> QED BY <2>0, <3>1
    <2>3. Reverse(s) \in [1..n -> Int]
      BY <2>1, <2>2
    <2> QED BY <1>1, <2>1, <2>3, FunctionIsSeq
  <1>5. ASSUME NEW i \in 1..m PROVE Reverse(t)[i] = Reverse(s)[i]
    <2>1. m - i + 1 \in 1..m /\ k + (m - i + 1) = n - i + 1 /\ i \in 1..n
      BY <1>1
    <2> HIDE DEF m, n
    <2>2. t[m - i + 1] = s[k + (m - i + 1)]
      BY <1>2, <2>1
    <2> QED BY <1>3, <1>4, <2>1, <2>2
  <1> HIDE DEF m, n
  <1>6. SubSeq(Reverse(t), 1, m) = SubSeq(Reverse(s), 1, m)
    <2> DEFINE a == Reverse(t)
               b == Reverse(s)
    <2>1. a \in Seq(Int) /\ b \in Seq(Int) /\ Len(a) = m /\ Len(b) = n /\ \A i \in 1..m : a[i] = b[i]
      BY <1>3, <1>4, <1>5
    <2> HIDE DEF a, b
    <2>2. SubSeq(a, 1, m) = SubSeq(b, 1, m)
      BY <1>1, <2>1
    <2> QED BY <2>2 DEF a, b
  <1>7. IsPrefix(Reverse(t), Reverse(s))
    BY <1>1, <1>3, <1>4, <1>6 DEF IsPrefix
  <1> QED BY <1>7 DEF IsSuffix, t, n

\* The length of a sequence, and a sequence after one element.
LEMMA LenIs ==
    ASSUME NEW S, NEW s \in Seq(S)
    PROVE  Len(s) \in Nat
  OBVIOUS
LEMMA AfterOne ==
    ASSUME NEW S, NEW x \in S, NEW b \in Seq(S)
    PROVE  <<x>> \o b \in Seq(S) /\ Len(<<x>> \o b) = 1 + Len(b) /\ (<<x>> \o b)[1] = x
  <1>1. <<x>> \in Seq(S) /\ Len(<<x>>) = 1 /\ <<x>>[1] = x
    OBVIOUS
  <1>2. PICK a \in Seq(S) : a = <<x>>
    BY <1>1
  <1>3. Len(a) = 1 /\ a[1] = x
    BY <1>1, <1>2
  <1>4. a \o b \in Seq(S)
    OBVIOUS
  <1>5. Len(a \o b) = Len(a) + Len(b)
    OBVIOUS
  <1>6. (a \o b)[1] = a[1]
    <2>1. \A i \in 1..(Len(a) + Len(b)) : (a \o b)[i] = IF i <= Len(a) THEN a[i] ELSE b[i - Len(a)]
      OBVIOUS
    <2>2. 1 \in 1..(Len(a) + Len(b)) /\ 1 <= Len(a)
      BY <1>3, LenIs
    <2> QED BY <2>1, <2>2
  <1> QED BY <1>2, <1>3, <1>4, <1>5, <1>6

\* What is left of a path below a target that covers it.
LEMMA BelowEnds ==
    ASSUME NEW target \in Seq(Seq(Int)), NEW path \in Seq(PathName), Covers(target, path)
    PROVE  Below(target, path) \in Seq(PathName) /\ EndOf(Below(target, path), path)
  <1> DEFINE n == Len(target)
             l == Len(path)
             b == Below(target, path)
  <1> SUFFICES b \in Seq(PathName) /\ EndOf(b, path)
    OBVIOUS
  <1>1. l \in Nat /\ n \in Nat /\ \A i \in 1..l : path[i] \in PathName
    OBVIOUS
  <1>2. \A s \in PathName : s \in Seq(Int) /\ s # <<>> /\ IsSuffix(s, s)
    <2> SUFFICES ASSUME NEW s \in Seq(Int) PROVE IsSuffix(s, s)
      BY DEF PathName
    <2>1. PICK k \in 0..Len(s) : k = 0
      OBVIOUS
    <2>2. IsSuffix(SubSeq(s, k + 1, Len(s)), s)
      BY SuffixIs
    <2>3. SubSeq(s, k + 1, Len(s)) = s
      BY <2>1
    <2> QED BY <2>2, <2>3
  <1>3. CASE target = <<>>
    <2>1. b = path
      BY <1>3 DEF Below
    <2>2. ASSUME path # <<>> PROVE l <= l /\ IsSuffix(path[1], path[l + 1 - l])
      <3>1. l + 1 - l = 1 /\ 1 \in 1..l
        BY <2>2
      <3> QED BY <1>1, <1>2, <3>1
    <2>3. ASSUME path # <<>>, l <= 2 PROVE IsSuffix(path[1], path[l + 1 - l])
      BY <2>2, <2>3
    <2> QED BY <2>1, <2>2 DEF EndOf
  <1>4. CASE target # <<>>
    <2>1. n \in 1..l /\ IsPrefix(Last(target), path[n]) /\ n \in 1..n
      BY <1>4 DEF Covers
    <2> DEFINE k == Len(Last(target))
               x == path[n]
               tail == SubSeq(x, k + 1, Len(x))
               rest == SubSeq(path, n + 1, l)
    <2>2. x \in PathName /\ x \in Seq(Int) /\ k \in 0..Len(x)
      <3>1. x \in PathName /\ x \in Seq(Int)
        BY <1>1, <1>2, <2>1
      <3>2. Last(target) \in Seq(Int)
        BY <2>1 DEF Last
      <3>3. k \in Nat /\ k <= Len(x) /\ Len(x) \in Nat
        BY <2>1, <3>1, <3>2 DEF IsPrefix
      <3> QED BY <3>1, <3>3
    <2>3. tail \in Seq(Int) /\ IsSuffix(tail, x)
      <3> HIDE DEF k, x
      <3> QED BY <2>2, SuffixIs
    <2>4. rest \in Seq(PathName) /\ Len(rest) = l - n /\ (l - n > 0 => rest[1] = path[n + 1])
      <3> HIDE DEF n, x, k
      <3>1. rest \in Seq(PathName) /\ Len(rest) = l - n
        BY <2>1
      <3>2. l - n > 0 => rest[1] = path[(n + 1) + 1 - 1]
        BY <2>1
      <3>3. (n + 1) + 1 - 1 = n + 1
        BY <2>1
      <3> QED BY <3>1, <3>2, <3>3
    <2> DEFINE head == IF tail = <<>> THEN <<>> ELSE <<tail>>
    <2>5. b = head \o rest
      BY <1>4 DEF Below
    <2> HIDE DEF rest, tail, x, k, b
    <2>6. CASE tail = <<>>
      <3>1. b = rest
        BY <2>4, <2>5, <2>6
      <3>2. ASSUME rest # <<>>, Len(rest) <= 2
            PROVE  Len(rest) <= l /\ IsSuffix(rest[1], path[l + 1 - Len(rest)])
        <4>1. Len(rest) # 0 /\ Len(rest) \in Nat
          BY <2>4, <3>2
        <4>2. l - n > 0 /\ l + 1 - Len(rest) = n + 1 /\ n + 1 \in 1..l /\ Len(rest) <= l
          <5> HIDE DEF n, l
          <5> QED BY <1>1, <2>1, <2>4, <4>1
        <4>3. rest[1] = path[n + 1] /\ path[n + 1] \in PathName
          BY <1>1, <2>4, <4>2
        <4> QED BY <1>2, <4>2, <4>3
      <3> QED BY <2>4, <3>1, <3>2 DEF EndOf
    <2>7. CASE tail # <<>>
      <3>1. tail \in PathName /\ head = <<tail>>
        BY <2>3, <2>7 DEF PathName
      <3> HIDE DEF head
      <3>2. b \in Seq(PathName) /\ Len(b) = 1 + Len(rest) /\ b[1] = tail
        <4>1. rest \in Seq(PathName)
          BY <2>4
        <4> QED BY <2>5, <3>1, <4>1, AfterOne
      <3>3. l + 1 - Len(b) = n /\ Len(b) <= l
        <4> DEFINE m == Len(b)
        <4>1. n \in Nat /\ l \in Nat /\ n \in 1..l
          BY <1>1, <2>1
        <4>2. m = 1 + (l - n)
          BY <2>4, <3>2
        <4> HIDE DEF n, l, m
        <4>3. l + 1 - m = n /\ m <= l
          BY <4>1, <4>2
        <4> QED BY <4>3 DEF m
      <3>4. IsSuffix(b[1], path[l + 1 - Len(b)])
        BY <2>3, <3>2, <3>3 DEF x
      <3> QED BY <3>2, <3>3, <3>4 DEF EndOf
    <2> QED BY <2>6, <2>7
  <1> QED BY <1>3, <1>4

\* A child the walk stops at, at the last name or at a directory of one character.
LEMMA FoundBears ==
    ASSUME NEW path \in Seq(PathName), NEW as \in Seq(PathName), NEW name, EndOf(path, as),
           Matches(path, name), ~LongDir(path)
    PROVE  Bears(name, as)
  <1>0. Len(path) \in Nat /\ Len(as) \in Nat
    BY LenIs
  <1>1. PICK l \in Nat, n \in Nat : l = Len(path) /\ n = Len(as)
    BY <1>0
  <1>2. Len(dirname(path)) = 1 /\ path[1] = name
    BY DEF Matches
  <1>3. l = 1 \/ l = 2
    <2>1. CASE l > 1
      <3>1. Len(Front(path)) = l - 1
        BY <1>1, <2>1 DEF Front
      <3>2. Len(Front(path)) = 1
        BY <1>1, <1>2, <2>1 DEF dirname
      <3>3. l - 1 = 1
        BY <3>1, <3>2
      <3> QED BY <3>3
    <2>2. CASE ~(l > 1)
      BY <1>1, <1>2, <2>2 DEF dirname
    <2> QED BY <2>1, <2>2
  <1>4. path # <<>> /\ l <= 2
    <2>1. Len(<<>>) = 0
      OBVIOUS
    <2>2. l # 0 /\ l <= 2
      BY <1>3
    <2> QED BY <1>1, <2>1, <2>2
  <1>5. l <= n /\ IsSuffix(name, as[n + 1 - l])
    BY <1>1, <1>2, <1>4 DEF EndOf
  <1>6. CASE l = 1
    <2>1. n + 1 - l = n
      BY <1>6
    <2> QED BY <1>1, <1>5, <2>1 DEF Bears, Last
  <1>7. CASE l = 2
    <2>1. n + 1 - l = n - 1 /\ n > 1
      BY <1>5, <1>7
    <2>2. name \in Seq(Int) /\ name # <<>>
      <3>1. 1 \in 1..Len(path)
        BY <1>1, <1>7
      <3>2. path[1] \in PathName
        BY <3>1
      <3> QED BY <1>2, <3>2 DEF PathName
    <2>3. PICK k \in Nat : k = Len(name)
      BY <2>2
    <2>4. k # 0 /\ ~(k > 1)
      BY <1>1, <1>2, <1>7, <2>2, <2>3 DEF LongDir
    <2>5. k = 1
      BY <2>4
    <2> QED BY <1>1, <1>5, <2>1, <2>3, <2>5 DEF Bears
  <1> QED BY <1>3, <1>6, <1>7

\* nl_open starts its walk below the target of a mount point that covers the path.
LEMMA OpenNamed ==
    ASSUME IInv, Next, NEW p \in Pid, NEW path \in workload.paths, nl_open(p, path)
    PROVE  Named(p)'
  <1> DEFINE s == Min({i \in Fd : fd[p][i].node = NoNode})
             mp == fs_resolve_mp(path)
             r == mp.rootnode
             b == Below(mp.target, path)
             d == [[Idle EXCEPT !.st = "walk", !.slot = s] EXCEPT !.root = r, !.path = b, !.as = path]
  <1>1. Covering(path) # {} /\ call' = [call EXCEPT ![p] = d]
    BY DEF nl_open, fs_resolve
  <1>2. d.st = "walk" /\ d.path = b /\ d.as = path
    <2> HIDE DEF s, r, b
    <2> QED BY OpenForm
  <1>3. path \in Seq(PathName) /\ \A t \in workload.targets : t.comps \in Seq(Seq(Int))
    <2>1. workload \in Workload
      BY OfProcess
    <2> QED BY <2>1, WorkloadAssumption DEF PathName
  <1>4. mp.target \in Seq(Seq(Int)) /\ Covers(mp.target, path)
    <2>1. Registries
      BY DEF IInv
    <2>2. Min(Covering(path)) \in Covering(path) /\ mp \in SlistElems(mountpoints)
      BY <1>1, <2>1, ResolveIs
    <2>3. Covers(mp.target, path)
      BY <2>2 DEF fs_resolve_mp, Covering
    <2>4. MountOK(mp)
      BY <2>1, <2>2 DEF Registries
    <2> HIDE DEF mp
    <2>5. <<>> \in Seq(Seq(Int))
      OBVIOUS
    <2> QED BY <1>3, <2>3, <2>4, <2>5 DEF MountOK
  <1> HIDE DEF mp
  <1>5. b \in Seq(PathName) /\ EndOf(b, path)
    BY <1>3, <1>4, BelowEnds
  <1> HIDE DEF d, b
  <1>6. call'[p] = d
    BY <1>1, OfProcess
  <1> QED BY <1>2, <1>3, <1>5, <1>6 DEF Named, Seeking

\* The walk goes on with the same names, or with none, which no child has.
LEMMA WalkNamed ==
    ASSUME IInv, Next, NEW p \in Pid, Named(p), walk_on(p)
    PROVE  Named(p)'
  <1> DEFINE c == call[p]
  <1>0. PICK r \in Answer(p) :
          call' = [call EXCEPT ![p] =
              IF r # NoNode /\ Matches(@.path, r.name)
              THEN [@ EXCEPT !.st = "walk", !.root = r, !.path = <<>>, !.i = 0, !.node = NoNode]
              ELSE [@ EXCEPT !.st = "walk", !.i = call[p].i + 1, !.node = NoNode]]
    BY DEF walk_on
  <1> DEFINE d1 == [c EXCEPT !.st = "walk", !.root = r, !.path = <<>>, !.i = 0, !.node = NoNode]
             d2 == [c EXCEPT !.st = "walk", !.i = c.i + 1, !.node = NoNode]
  <1>1. c.st \in Seeking /\ DOMAIN c = CallFields /\ DOMAIN call = Pid
    BY OfProcess, AnsweredIs DEF walk_on
  <1>2. /\ d1.st = "walk" /\ d1.target = c.target /\ d1.path = <<>> /\ d1.as = c.as
        /\ d2.st = "walk" /\ d2.target = c.target /\ d2.path = c.path /\ d2.as = c.as
    <2> HIDE DEF c
    <2> QED BY <1>1, WalkForms
  <1>3. call'[p] = d1 \/ call'[p] = d2
    BY <1>0, <1>1
  <1> HIDE DEF d1, d2
  <1>4. CASE call'[p] = d1
    <2>1. <<>> \in Seq(PathName) /\ EndOf(<<>>, c.as)
      BY DEF EndOf
    <2> QED BY <1>1, <1>2, <1>4, <2>1 DEF Named
  <1>5. CASE call'[p] = d2
    BY <1>1, <1>2, <1>5 DEF Named
  <1> QED BY <1>3, <1>4, <1>5

\* The node stored is the child the walk stopped at.
LEMMA FoundNamed ==
    ASSUME IInv, Next, NEW p \in Pid, Named(p), nl_open_found(p)
    PROVE  Named(p)'
  <1> DEFINE c == call[p]
             s == c.slot
             d == [Idle EXCEPT !.st = "open", !.slot = s, !.as = c.as]
  <1>0. PICK m \in Answer(p) : Found(p, m) /\ fd' = [fd EXCEPT ![p][s] = [node |-> m, offset |-> 0]]
    BY DEF nl_open_found
  <1> DEFINE n == [node |-> m, offset |-> 0]
  <1>1. /\ c.st \in Seeking /\ c.target = NoSource /\ Found(p, m)
        /\ fd' = [fd EXCEPT ![p][s] = n] /\ call' = [call EXCEPT ![p] = d]
    BY <1>0, AnsweredIs DEF nl_open_found
  <1>2. CallOK(p) /\ FdTyped /\ DOMAIN call = Pid
    BY OfProcess
  <1>3. s \in Fd /\ fd \in [Pid -> [Fd -> Descriptor]]
    BY <1>2 DEF CallOK, FdTyped
  <1>4. d.st = "open" /\ d.slot = s /\ d.as = c.as
    <2> HIDE DEF c, s
    <2> QED BY FoundForm
  <1>5. Bears(m.name, c.as)
    <2>1. c.path \in Seq(PathName) /\ c.as \in Seq(PathName) /\ EndOf(c.path, c.as)
      BY <1>1 DEF Named
    <2>2. Matches(c.path, m.name) /\ ~LongDir(c.path)
      BY <1>1 DEF Found
    <2> HIDE DEF c
    <2> QED BY <2>1, <2>2, FoundBears
  <1>6. n.node = m
    OBVIOUS
  <1> HIDE DEF s, n, d
  <1>7. call'[p] = d /\ fd'[p][s] = n
    BY <1>1, <1>2, <1>3
  <1> QED BY <1>4, <1>5, <1>6, <1>7 DEF Named, Seeking

\* The lookup of a child in procfs keeps the rest of the path.
LEMMA ProcfsNamed ==
    ASSUME IInv, Next, NEW p \in Pid, Named(p), procfs_get_child(p)
    PROVE  Named(p)'
  <1>1. call[p].st \in Seeking /\ DOMAIN call = Pid /\ DOMAIN call[p] = CallFields
    BY OfProcess, ProcfsMoves
  <1>2. CASE Returns(p)
    <2>1. call'[p].st = "idle"
      BY <1>2, Ends
    <2> QED BY <2>1 DEF Named, Seeking
  <1>3. ASSUME NEW st \in Seeking, NEW n, NEW k, Goes(p, st, n, k) PROVE Named(p)'
    <2>1. /\ call'[p].st = st /\ call'[p].path = call[p].path /\ call'[p].as = call[p].as
          /\ call'[p].target = call[p].target
      BY <1>1, <1>3, GoesForm
    <2> QED BY <1>1, <2>1 DEF Named, Seeking
  <1> QED BY <1>2, <1>3, ProcfsMoves

\* What is found is kept, through all the steps of other processes, until the call
\* of nl_open goes on.
LEMMA NamedStep ==
    ASSUME IInv, Next, NEW q \in Pid, Named(q)
    PROVE  Named(q)'
  <1>1. ASSUME call'[q] = call[q], fd'[q] = fd[q] \/ call[q].st # "open"
        PROVE  Named(q)'
    BY <1>1 DEF Named
  <1>2. ASSUME call'[q].st \notin Seeking \cup {"open"} PROVE Named(q)'
    BY <1>2 DEF Named
  <1>3. ASSUME NEW p \in Pid, Own(p), p # q PROVE Named(q)'
    BY <1>1, <1>3 DEF Own
  <1>4. ASSUME call' = [call EXCEPT ![q] = Idle] PROVE Named(q)'
    <2>1. call'[q] = Idle
      BY <1>4, OfProcess
    <2> QED BY <1>2, <2>1, IdleIs DEF Seeking
  <1>5. ASSUME NEW p \in Pid, FileCalls(p) PROVE Named(q)'
    <2>1. CASE \E path \in workload.paths : nl_open(p, path)
      BY <1>3, <2>1, OpenStep, OpenNamed
    <2>2. CASE walk_on(p)
      BY <1>3, <2>2, WalkStep, WalkNamed
    <2>3. CASE walk_fails(p)
      <3>1. CASE p = q
        BY <1>4, <2>3, <3>1 DEF walk_fails
      <3> QED BY <1>3, <2>3, <3>1, WalkStep
    <2>4. CASE walk_astray(p)
      BY <1>1, <2>4 DEF walk_astray
    <2>5. CASE nl_open_found(p)
      BY <1>3, <2>5, FoundStep, FoundNamed
    <2>6. CASE nl_open_opens(p)
      <3>1. CASE p = q
        BY <1>4, <2>6, <3>1 DEF nl_open_opens
      <3> QED BY <1>3, <2>6, <3>1, OpensStep
    <2>7. CASE \E i \in Fd : nl_close(p, i)
      <3>1. PICK i \in Fd : nl_close(p, i)
        BY <2>7
      <3>2. CASE UNCHANGED call
        BY <1>1, <3>1, <3>2 DEF nl_close
      <3>3. CASE call' = [call EXCEPT ![p].st = "clear", ![p].slot = i]
        <4>1. CASE p = q
          <5>1. DOMAIN call = Pid /\ DOMAIN call[p] = CallFields
            BY OfProcess
          <5>2. call'[p].st = "clear"
            BY <3>3, <5>1, CallPart
          <5> QED BY <1>2, <4>1, <5>2 DEF Seeking
        <4> QED BY <1>3, <2>7, <4>1, CloseStep
      <3> QED BY <3>1, <3>2, <3>3 DEF nl_close
    <2>8. CASE nl_close_clears(p)
      <3>1. CASE p = q
        BY <1>4, <2>8, <3>1 DEF nl_close_clears
      <3> QED BY <1>3, <2>8, <3>1, ClearStep
    <2>9. CASE \E i \in Fd : nl_read(p, i) \/ nl_write(p, i)
      <3>1. call' = call
        BY <2>9 DEF nl_read, nl_write, nl_transfer
      <3>2. call[p].st # "open"
        BY <2>9 DEF nl_read, nl_write, nl_transfer, Ready
      <3>3. CASE p = q
        BY <1>1, <3>1, <3>2, <3>3
      <3> QED BY <1>3, <2>9, <3>3, TransferStep DEF nl_read, nl_write
    <2>10. CASE procfs_get_child(p)
      <3>1. CASE p = q
        BY <2>10, <3>1, ProcfsNamed
      <3> QED BY <1>3, <2>10, <3>1, ProcfsStep
    <2> QED BY <1>5, <2>1, <2>2, <2>3, <2>4, <2>5, <2>6, <2>7, <2>8, <2>9, <2>10 DEF FileCalls
  <1>6. ASSUME NEW p \in Pid, MountCalls(p) PROVE Named(q)'
    <2>1. CASE p # q
      BY <1>3, <1>6, <2>1, MountStep
    <2>2. CASE p = q
      <3>1. DOMAIN call = Pid /\ DOMAIN call[p] = CallFields /\ workload \in Workload
        BY OfProcess
      <3>2. ASSUME NEW fs \in workload.fs, NEW src \in workload.sources,
                   NEW target \in workload.targets, mountpoint_create(p, fs, src, target)
            PROVE  Named(q)'
        <4> DEFINE so == [src EXCEPT !.comps = fs_resolve_cuts(src.comps)]
                   r == fs_resolve_mp(src.comps).rootnode
                   b == Below(fs_resolve_mp(src.comps).target, src.comps)
                   a == src.comps
                   d == [[Idle EXCEPT !.st = "walk", !.fs = fs, !.target = target, !.src = so]
                            EXCEPT !.root = r, !.path = b, !.as = a]
        <4>1. call' = [call EXCEPT ![p] = d]
          BY <3>2 DEF mountpoint_create, fs_resolve
        <4>2. d.st = "walk" /\ d.target = target
          <5> HIDE DEF so, r, b, a
          <5> QED BY MountForm
        <4>3. target # NoSource
          BY <3>1, WorkloadAssumption
        <4> HIDE DEF d
        <4>4. call'[q] = d
          BY <2>2, <3>1, <4>1
        <4> QED BY <4>2, <4>3, <4>4 DEF Named, Seeking
      <3>3. CASE mountpoint_create_found(p)
        <4>1. PICK n \in Answer(p) :
                call' = [call EXCEPT ![p].st = "mount", ![p].root = n, ![p].node = NoNode]
          BY <3>3 DEF mountpoint_create_found
        <4>2. call'[p].st = "mount"
          BY <3>1, <4>1, CallRoot
        <4> QED BY <1>2, <2>2, <4>2 DEF Seeking
      <3>4. CASE mountpoint_create_mounts(p) \/ mountpoint_create_fails(p)
        BY <1>4, <2>2, <3>4 DEF mountpoint_create_mounts, mountpoint_create_fails
      <3> QED BY <1>6, <3>2, <3>3, <3>4 DEF MountCalls
    <2> QED BY <2>1, <2>2
  <1>7. CASE RegistryCalls
    BY <1>1, <1>7 DEF RegistryCalls
  <1>8. CASE proc_create
    <2>1. call' = call /\ fd' = [fd EXCEPT ![next_pid] = [i \in Fd |-> NoFd]]
      BY <1>8 DEF proc_create
    <2>2. CASE q = next_pid
      <3>1. q \notin Live
        BY <2>2, LiveIs DEF IInv
      <3>2. call[q].st = "idle"
        BY <3>1 DEF IInv, Calls
      <3> QED BY <1>1, <2>1, <3>2
    <2>3. CASE q # next_pid
      <3>1. fd'[q] = fd[q]
        BY <2>1, <2>3, OfProcess DEF FdTyped
      <3> QED BY <1>1, <2>1, <3>1
    <2> QED BY <2>2, <2>3
  <1>9. ASSUME NEW p \in Pid, proc_destroy(p) PROVE Named(q)'
    <2>1. CASE p = q
      BY <1>4, <1>9, <2>1 DEF proc_destroy
    <2> QED BY <1>3, <1>9, <2>1, DestroyStep
  <1> QED BY <1>5, <1>6, <1>7, <1>8, <1>9 DEF Next

\* What nl_open finds bears the last name of its path, or the end of it below the
\* target of a mount point, but for a directory of one character before the last
\* name; whatever is mounted, created and destroyed during the walk.
THEOREM FoundAsAsked == Spec => []NamedAsAsked
  <1> DEFINE NInv == \A p \in Pid : Named(p)
  <1>1. Init => NInv
    <2> SUFFICES ASSUME Init, NEW p \in Pid PROVE Named(p)
      OBVIOUS
    <2>1. call[p] = Idle
      BY DEF Init
    <2> QED BY <2>1, IdleIs DEF Named, Seeking
  <1>2. IInv /\ NInv /\ [Next]_vars => NInv'
    <2>1. ASSUME IInv, NInv, Next PROVE NInv'
      BY <2>1, NamedStep
    <2>2. ASSUME NInv, UNCHANGED vars PROVE NInv'
      BY <2>2 DEF vars, Named
    <2> QED BY <2>1, <2>2
  <1>3. NInv => NamedAsAsked
    BY DEF Named, Bears, NamedAsAsked
  <1> HIDE DEF NInv
  <1> QED BY <1>1, <1>2, <1>3, Invariant, PTL DEF Spec

-----------------------------------------------------------------------------
(* The descriptor table *)

\* The table of Descriptors, row by row.
Rows == [p \in Pid |-> Row(p)]

\* It is the table the refinement mapping gives.
LEMMA RowsIs ==
    /\ Table!Init <=> Rows = [p \in Pid |-> [i \in Fd |-> ClosedEntry]]
    /\ \A p \in Pid : Table!Free(p) = {i \in Fd : Row(p)[i].node = -1}
  <1>1. Table!Init <=> Rows = [p \in Pid |-> [i \in Fd |-> ClosedEntry]]
    BY DEF Table!Init, Table!Closed, Rows, Row, Entry, ClosedEntry
  <1>2. \A p \in Pid : Table!Free(p) = {i \in Fd : Row(p)[i].node = -1}
    BY DEF Table!Free, Row, Entry
  <1> QED BY <1>1, <1>2

\* What one process does to its row is a step of the table.
LEMMA RowTable ==
    ASSUME NEW p \in Pid, RowStep(p), \A q \in Pid : q # p => Row(q)' = Row(q)
    PROVE  Table!Next \/ Rows' = Rows
  <1>1. \A r : (Row(p)' = r) => Rows' = [Rows EXCEPT ![p] = r]
    BY DEF Rows
  <1>2. Table!Free(p) = {i \in Fd : Row(p)[i].node = -1}
    BY RowsIs
  <1>3. Rows[p] = Row(p)
    BY DEF Rows
  <1>4. CASE Row(p)' = Row(p)
    BY <1>1, <1>3, <1>4 DEF Rows
  <1>5. CASE RowOpen(p)
    <2>1. PICK i \in Fd, n \in 0..MaxIno :
            /\ Row(p)[i].node = -1 /\ \A j \in Fd : j < i => Row(p)[j].node # -1
            /\ Row(p)' = [Row(p) EXCEPT ![i] = [node |-> n, offset |-> 0]]
      BY <1>5 DEF RowOpen
    <2>2. i \in Table!Free(p) /\ \A j \in Table!Free(p) : i <= j
      <3>1. \A j \in Table!Free(p) : j \in Fd /\ ~(j < i)
        BY <1>2, <2>1
      <3>2. \A j \in Fd : ~(j < i) => i <= j
        BY DEF Fd
      <3> QED BY <1>2, <2>1, <3>1, <3>2
    <2>3. Table!Min(Table!Free(p)) = i
      <3> DEFINE F == Table!Free(p)
      <3>1. \A x \in F : (\A j \in F : x <= j) => x = i
        <4>1. F \subseteq Int
          BY <1>2 DEF Fd
        <4> HIDE DEF F
        <4> SUFFICES ASSUME NEW x \in F, \A j \in F : x <= j PROVE x = i
          OBVIOUS
        <4>2. x <= i /\ i <= x /\ x \in Int /\ i \in Int
          BY <2>2, <4>1 DEF F
        <4> QED BY <4>2
      <3> HIDE DEF F
      <3>2. i \in F /\ \A j \in F : i <= j
        BY <2>2 DEF F
      <3>3. Table!Min(F) = i
        BY <3>1, <3>2 DEF Table!Min
      <3> QED BY <3>3 DEF F
    <2>4. Rows' = [Rows EXCEPT ![p][i] = [node |-> n, offset |-> 0]]
      BY <1>1, <1>3, <2>1
    <2>5. Table!open(p)
      BY <2>2, <2>3, <2>4 DEF Table!open, Rows, Row, Entry
    <2> QED BY <2>5 DEF Table!Next
  <1>6. CASE RowClose(p)
    <2>1. PICK i \in Fd : Row(p)[i].node # -1 /\ Row(p)' = [Row(p) EXCEPT ![i] = ClosedEntry]
      BY <1>6 DEF RowClose
    <2>2. i \in Fd \ Table!Free(p)
      BY <1>2, <2>1
    <2>3. Rows' = [Rows EXCEPT ![p][i] = Table!Closed]
      BY <1>1, <1>3, <2>1 DEF ClosedEntry, Table!Closed
    <2>4. Table!close(p)
      BY <2>2, <2>3 DEF Table!close, Rows, Row, Entry
    <2> QED BY <2>4 DEF Table!Next
  <1>7. CASE RowTransfer(p)
    <2>1. PICK i \in Fd, o \in 0..(OffMax - 1) :
            Row(p)[i].node # -1 /\ Row(p)' = [Row(p) EXCEPT ![i].offset = o]
      BY <1>7 DEF RowTransfer
    <2>2. i \in Fd \ Table!Free(p)
      BY <1>2, <2>1
    <2>3. Rows' = [Rows EXCEPT ![p][i].offset = o]
      BY <1>1, <1>3, <2>1
    <2>4. Table!transfer(p)
      BY <2>1, <2>2, <2>3 DEF Table!transfer, Rows, Row, Entry
    <2> QED BY <2>4 DEF Table!Next
  <1>8. CASE RowExit(p)
    <2>1. Rows' = [Rows EXCEPT ![p] = [i \in Fd |-> Table!Closed]]
      BY <1>1, <1>8 DEF RowExit, ClosedEntry, Table!Closed
    <2>2. Table!exit(p)
      BY <2>1 DEF Table!exit, Rows, Row, Entry
    <2> QED BY <2>2 DEF Table!Next
  <1> QED BY <1>4, <1>5, <1>6, <1>7, <1>8 DEF RowStep

\* The file calls, step by step, implement the descriptor table.
THEOREM ImplementsTable == Spec => DescriptorTable
  <1>1. Init => Table!Init
    <2> SUFFICES ASSUME Init PROVE Rows = [p \in Pid |-> [i \in Fd |-> ClosedEntry]]
      BY RowsIs
    <2> QED BY DEF Init, Rows, Row, Entry, ClosedEntry, NoFd
  <1>2. IInv /\ [Next]_vars => Table!Next \/ Rows' = Rows
    <2> SUFFICES ASSUME IInv, [Next]_vars PROVE Table!Next \/ Rows' = Rows
      OBVIOUS
    <2>1. ASSUME UNCHANGED <<fd, call>> PROVE Rows' = Rows
      BY <2>1 DEF Rows, Row, Entry
    <2>2. ASSUME NEW p \in Pid, Working(p) PROVE Table!Next \/ Rows' = Rows
      <3>1. \A q \in Pid : q # p => Row(q)' = Row(q)
        BY <2>2 DEF Working, Own, Row, Entry
      <3> QED BY <2>2, <3>1, RowTable DEF Working
    <2>3. CASE Next
      BY <2>1, <2>2, <2>3, StepOf
    <2>4. CASE UNCHANGED vars
      BY <2>1, <2>4 DEF vars
    <2> QED BY <2>3, <2>4
  <1>3. IInv /\ [Next]_vars => [Table!Next]_(Rows)
    BY <1>2
  <1> QED BY <1>1, <1>3, Invariant, PTL DEF Spec, DescriptorTable, Table!Spec, Rows, Row, Entry

=============================================================================

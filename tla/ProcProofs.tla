----------------------------- MODULE ProcProofs -----------------------------
(***************************************************************************)
(* Proc: type correctness and the safety invariants, for every number of   *)
(* processes, every size of the child array and of the usage record, every *)
(* workload, and whatever irq_disable returns.                             *)
(*                                                                         *)
(* The invariants of the table are proved together.  They are inductive    *)
(* once it is added that pids from next_pid on occur nowhere (so a new     *)
(* process can collide with nothing) and that no child array holds a pid   *)
(* twice.  Three others rest on them: who runs while proc_exec loads, how  *)
(* the record of ticks is shared out once the list stands still, and whose *)
(* turn it is while processes come and go.                                 *)
(***************************************************************************)
EXTENDS MCProcShare, SlistProofs, FiniteSetTheorems

----------------------------------------------------------------------------
(* The inductive invariant *)

\* No thread and no child entry names a pid that was not handed out yet.
Unused ==
    /\ thread < next_pid
    /\ \A p \in Live : regs[p].thread < next_pid
    /\ \A p \in Pid : \A i \in Slot : child[p][i] < next_pid

\* A child array names a process once, at whatever index.
ChildOnce ==
    \A p \in Pid : \A i, j \in Slot :
        (child[p][i] = child[p][j] /\ child[p][i] # NoProc) => i = j

\* Types of the variables that the process table consists of, and of the others.
CoreType ==
    /\ processes \in Seq(Pid)
    /\ proc_count \in Nat
    /\ next_pid \in 1..(MaxPid + 1)
    /\ curr_pid \in Pid \cup {NoProc}
    /\ status \in [Pid -> Status]
    /\ parent \in [Pid -> Pid \cup {NoProc}]
    /\ child \in [Pid -> [Slot -> Pid \cup {NoProc}]]
    /\ child_count \in [Pid -> 0..CHILD_MAX]
    /\ signal_handler \in [Pid -> BOOLEAN]
    /\ signum \in [Pid -> Signals \cup {NoSignal}]
    /\ regs \in [Pid -> Context]
    /\ thread \in Thread
    /\ dirs \subseteq Pid
RestType ==
    /\ ticks \in 0..(SCHED_RECCOUNT - 1)
    /\ sched_rec \in [0..(SCHED_RECCOUNT - 1) -> Pid \cup {NoProc}]
    /\ iflag \in BOOLEAN
    /\ cr3 \in Dir
    /\ call \in [Thread -> CallState]
    /\ nullref \subseteq Site

Core == /\ CoreType /\ ListConsistent /\ ThreadsUnique /\ OneRunning
        /\ WindowChildren /\ Unused /\ ChildOnce
IInv == Core /\ RestType

core == <<table, status, family, signals, regs, thread, dirs>>

LEMMA TypeSplit == TypeOK <=> CoreType /\ RestType
  BY DEF TypeOK, CoreType, RestType

----------------------------------------------------------------------------
(* Facts about the list *)

LEMMA PidNumbers == /\ MaxPid \in Nat \ {0} /\ CHILD_MAX \in Nat \ {0}
                    /\ SCHED_RECCOUNT \in Nat \ {0}
                    /\ Pid \subseteq Nat /\ NoProc \notin Pid /\ 0 \notin Pid
  BY ProcAssumption DEF Pid, NoProc

LEMMA ListNumbers ==
    ASSUME CoreType
    PROVE  Len(processes) \in Nat /\ \A i \in 1..Len(processes) : processes[i] \in Nat
  <1>1. processes \in Seq(Pid)
    BY DEF CoreType
  <1>2. Len(processes) \in Nat /\ \A i \in 1..Len(processes) : processes[i] \in Pid
    BY <1>1
  <1> QED BY <1>2, PidNumbers

\* Descending pids are distinct, and the live ones are below next_pid.
LEMMA LiveFacts ==
    ASSUME CoreType, ListConsistent
    PROVE  /\ SlistNoDup(processes)
           /\ Live \subseteq Pid
           /\ \A p \in Live : p < next_pid
           /\ next_pid \notin Live
  <1>1. \A i, j \in 1..Len(processes) : processes[i] = processes[j] => i = j
    BY ListNumbers DEF ListConsistent
  <1>2. Live \subseteq Pid
    BY ElemsIn DEF CoreType, Live
  <1>3. \A p \in Live : p < next_pid
    BY DEF Live, SlistElems, ListConsistent
  <1>4. next_pid \notin Live
    BY <1>3, PidNumbers DEF CoreType
  <1> QED BY <1>1, <1>2, <1>3, <1>4 DEF SlistNoDup

\* The process schedule switches to is live.
LEMMA NextLive ==
    ASSUME CoreType, ListConsistent, curr_pid \in Live
    PROVE  process_next \in Live
  <1>1. processes \in Seq(Pid) /\ processes[1] \in Live
    BY FirstElem DEF CoreType, Live
  <1>2. SlistNext(processes, curr_pid, processes[1]) \in Live \cup {processes[1]}
    BY <1>1, NextElem DEF Live
  <1> QED BY <1>1, <1>2 DEF process_next

----------------------------------------------------------------------------
(* A process is created *)

LEMMA InsertOrder ==
    ASSUME processes \in Seq(Pid), next_pid \in Pid
    PROVE  LET t == SlistInsertHead(processes, next_pid)
           IN  /\ t \in Seq(Pid) /\ Len(t) = Len(processes) + 1 /\ t[1] = next_pid
               /\ \A i \in 1..Len(processes) : t[i + 1] = processes[i]
  BY InsertHead

LEMMA InsertElems ==
    ASSUME processes \in Seq(Pid), next_pid \in Pid
    PROVE  SlistElems(SlistInsertHead(processes, next_pid))
              = SlistElems(processes) \cup {next_pid}
  BY InsertHead

LEMMA LinkStep ==
    ASSUME CoreType, ListConsistent, next_pid \in Pid, Link(next_pid)
    PROVE  /\ processes' \in Seq(Pid)
           /\ proc_count' \in Nat
           /\ next_pid' \in 1..(MaxPid + 1) /\ next_pid' = next_pid + 1
           /\ curr_pid' \in Pid \cup {NoProc}
           /\ curr_pid' = curr_pid \/ (curr_pid = NoProc /\ curr_pid' = next_pid
                                       /\ Live = {})
           /\ Live' = Live \cup {next_pid}
           /\ ListConsistent'
  <1>1. /\ processes' \in Seq(Pid)
        /\ Len(processes') = Len(processes) + 1
        /\ processes'[1] = next_pid
        /\ \A i \in 1..Len(processes) : processes'[i + 1] = processes[i]
        /\ Live' = Live \cup {next_pid}
    <2>1. processes \in Seq(Pid) /\ processes' = SlistInsertHead(processes, next_pid)
      BY DEF CoreType, Link
    <2>2. Live' = SlistElems(processes') /\ Live = SlistElems(processes)
      BY DEF Live
    <2> QED BY <2>1, <2>2, InsertOrder, InsertElems
  <1>2. Len(processes) \in Nat /\ \A i \in 1..Len(processes) : processes[i] \in Nat
    BY ListNumbers
  <1>3. \A i \in 1..Len(processes') :
            \/ i = 1 /\ processes'[i] = next_pid
            \/ i - 1 \in 1..Len(processes) /\ processes'[i] = processes[i - 1]
    <2> TAKE i \in 1..Len(processes')
    <2>1. i # 1 => i - 1 \in 1..Len(processes) /\ (i - 1) + 1 = i
      BY <1>1, <1>2
    <2> QED BY <2>1, <1>1
  <1>4. next_pid \in Nat /\ next_pid \in Pid /\ next_pid' = next_pid + 1
    BY PidNumbers DEF CoreType, Link
  <1>5. \A i, j \in 1..Len(processes') : i < j => processes'[i] > processes'[j]
    <2> TAKE i, j \in 1..Len(processes')
    <2> HAVE i < j
    <2>1. j - 1 \in 1..Len(processes) /\ processes'[j] = processes[j - 1]
      BY <1>1, <1>2, <1>3
    <2>2. CASE i = 1
      BY <2>1, <2>2, <1>1, <1>2, <1>4 DEF ListConsistent
    <2>3. CASE i # 1
      <3>1. i - 1 \in 1..Len(processes) /\ processes'[i] = processes[i - 1] /\ i - 1 < j - 1
        BY <2>3, <1>1, <1>2, <1>3
      <3> QED BY <2>1, <3>1 DEF ListConsistent
    <2> QED BY <2>2, <2>3
  <1>6. \A i \in 1..Len(processes') : processes'[i] < next_pid'
    <2> TAKE i \in 1..Len(processes')
    <2>1. CASE processes'[i] = next_pid
      BY <2>1, <1>4
    <2>2. CASE i - 1 \in 1..Len(processes) /\ processes'[i] = processes[i - 1]
      BY <2>2, <1>2, <1>4 DEF ListConsistent
    <2> QED BY <1>3, <2>1, <2>2
  <1>7. proc_count' = Len(processes') /\ proc_count' \in Nat
    BY <1>1, <1>2 DEF Link, ListConsistent
  <1>8. \/ curr_pid' = curr_pid /\ curr_pid # NoProc
        \/ curr_pid = NoProc /\ curr_pid' = next_pid /\ Live = {}
    <2>1. curr_pid = NoProc => processes = <<>> /\ proc_count = 0 /\ Live = {}
      BY DEF ListConsistent, Live, SlistElems
    <2> QED BY <2>1 DEF Link
  <1>9. curr_pid' < next_pid' /\ curr_pid' # NoProc /\ curr_pid' \in Pid \cup {NoProc}
    BY <1>4, <1>8, PidNumbers DEF CoreType, ListConsistent
  <1>10. next_pid' \in 1..(MaxPid + 1)
    BY <1>4, PidNumbers DEF Pid
  <1> QED BY <1>1, <1>4, <1>5, <1>6, <1>7, <1>8, <1>9, <1>10 DEF ListConsistent

\* What proc_create does to the child arrays: the new process's is empty, at
\* most one slot of one other array changes, it gets the new pid and is below
\* the count.
LEMMA FamilyStep ==
    ASSUME Core, NEW par \in Live \cup {NoProc}, NEW d, Enter(par, d)
    PROVE  /\ child' \in [Pid -> [Slot -> Pid \cup {NoProc}]]
           /\ child_count' \in [Pid -> 0..CHILD_MAX]
           /\ child_count'[next_pid] = 0
           /\ \A i \in Slot : child'[next_pid][i] = NoProc
           /\ \A q \in Pid \ {next_pid} : \A i \in Slot :
                 /\ \/ child'[q][i] = child[q][i]
                    \/ child'[q][i] = next_pid /\ q = par
                 /\ i < child_count'[q] => i < child_count[q] \/ child'[q][i] = next_pid
           /\ \A q \in Pid : \A i, j \in Slot :
                 child'[q][i] = next_pid /\ child'[q][j] = next_pid => i = j
  <1> DEFINE p == next_pid
             fresh == [child EXCEPT ![p] = [i \in Slot |-> NoProc]]
             zeroed == [child_count EXCEPT ![p] = 0]
  <1>1. p \in Pid /\ Live \subseteq Pid /\ p \notin Live /\ p \in Nat /\ p # NoProc
    BY LiveFacts, PidNumbers DEF Core, Enter
  <1>2. /\ child \in [Pid -> [Slot -> Pid \cup {NoProc}]]
        /\ child_count \in [Pid -> 0..CHILD_MAX]
        /\ \A q \in Pid : \A i \in Slot : child[q][i] # p
    <2>1. \A q \in Pid : \A i \in Slot : child[q][i] < p /\ child[q][i] \in Pid \cup {NoProc}
      BY DEF Core, CoreType, Unused
    <2> QED BY <2>1, <1>1, PidNumbers DEF Core, CoreType, NoProc
  <1>3. /\ fresh \in [Pid -> [Slot -> Pid \cup {NoProc}]]
        /\ zeroed \in [Pid -> 0..CHILD_MAX]
        /\ zeroed[p] = 0 /\ \A i \in Slot : fresh[p][i] = NoProc
        /\ \A q \in Pid \ {p} : fresh[q] = child[q] /\ zeroed[q] = child_count[q]
    BY <1>1, <1>2, PidNumbers
  <1>4. CASE par = NoProc
    <2>1. child' = fresh /\ child_count' = zeroed
      BY <1>4 DEF Enter
    <2> QED BY <2>1, <1>1, <1>2, <1>3
  <1>5. CASE par # NoProc
    <2>1. PICK k \in Slot :
             /\ FreeSlot(par, k)
             /\ child' = [fresh EXCEPT ![par][k] = p]
             /\ child_count' = [zeroed EXCEPT ![par] =
                                  IF k = child_count[par] THEN @ + 1 ELSE @]
      BY <1>5 DEF Enter
    <2>2. par \in Pid /\ par # p /\ k \in Nat /\ k < CHILD_MAX
      BY <1>1, <1>5, PidNumbers DEF Slot
    <2>3. /\ child_count'[par] = IF k = child_count[par] THEN child_count[par] + 1
                                 ELSE child_count[par]
          /\ \A q \in Pid \ {par} : child_count'[q] = zeroed[q]
          /\ child_count'[par] \in 0..CHILD_MAX
      BY <2>1, <2>2, <1>2, <1>3, PidNumbers
    <2>4. child_count' \in [Pid -> 0..CHILD_MAX]
      BY <2>1, <2>2, <2>3, <1>3
    <2>5. /\ child' \in [Pid -> [Slot -> Pid \cup {NoProc}]]
          /\ \A q \in Pid \ {par} : child'[q] = fresh[q]
          /\ child'[par][k] = p
          /\ \A i \in Slot \ {k} : child'[par][i] = child[par][i]
      BY <2>1, <2>2, <1>1, <1>3
    <2>6. \A i \in Slot : i < child_count'[par] => i < child_count[par] \/ i = k
      BY <2>2, <2>3, <1>2, PidNumbers DEF Slot
    <2>7. child_count'[p] = 0 /\ \A i \in Slot : child'[p][i] = NoProc
      BY <2>2, <2>3, <2>5, <1>1, <1>3
    <2>8. \A q \in Pid \ {p} : \A i \in Slot :
             /\ \/ child'[q][i] = child[q][i]
                \/ child'[q][i] = p /\ q = par
             /\ i < child_count'[q] => i < child_count[q] \/ child'[q][i] = p
      <3> TAKE q \in Pid \ {p}
      <3>1. CASE q = par
        BY <3>1, <2>5, <2>6
      <3>2. CASE q # par
        BY <3>2, <2>3, <2>5, <1>3
      <3> QED BY <3>1, <3>2
    <2>9. \A q \in Pid : \A i, j \in Slot : child'[q][i] = p /\ child'[q][j] = p => i = j
      <3> TAKE q \in Pid
      <3>1. CASE q = par
        BY <3>1, <2>2, <2>5, <1>2
      <3>2. CASE q # par
        BY <3>2, <2>5, <1>1, <1>2, <1>3
      <3> QED BY <3>1, <3>2
    <2> QED BY <2>4, <2>5, <2>7, <2>8, <2>9
  <1> QED BY <1>4, <1>5

LEMMA EnterStep ==
    ASSUME Core, NEW par \in Live \cup {NoProc}, NEW d \in Dir, Enter(par, d),
           UNCHANGED thread
    PROVE  Core'
  <1> DEFINE p == next_pid
  <1>1. p \in Pid /\ Live \subseteq Pid /\ p \notin Live /\ \A q \in Live : q < p
    BY LiveFacts DEF Core, Enter
  <1>2. /\ processes' \in Seq(Pid) /\ proc_count' \in Nat
        /\ next_pid' \in 1..(MaxPid + 1) /\ next_pid' = p + 1
        /\ curr_pid' \in Pid \cup {NoProc}
        /\ curr_pid' = curr_pid \/ (curr_pid = NoProc /\ curr_pid' = p /\ Live = {})
        /\ Live' = Live \cup {p}
        /\ ListConsistent'
    BY <1>1, LinkStep DEF Core, Enter
  <1>3. /\ status' = [status EXCEPT ![p] = "READY"]
        /\ parent' = [parent EXCEPT ![p] = par]
        /\ signal_handler' = [signal_handler EXCEPT ![p] = FALSE]
        /\ signum' = [signum EXCEPT ![p] = NoSignal]
        /\ regs' = [regs EXCEPT ![p] = [thread |-> p, iflag |-> FALSE, cr3 |-> d]]
        /\ dirs' = dirs \cup ({d} \cap Pid)
        /\ thread' = thread
    BY DEF Enter
  <1>4. /\ status' \in [Pid -> Status] /\ parent' \in [Pid -> Pid \cup {NoProc}]
        /\ signal_handler' \in [Pid -> BOOLEAN]
        /\ signum' \in [Pid -> Signals \cup {NoSignal}]
        /\ dirs' \subseteq Pid /\ thread' \in Thread
    BY <1>1, <1>3 DEF Core, CoreType, Status
  <1>5. regs' \in [Pid -> Context] /\ regs'[p].thread = p
        /\ \A q \in Pid \ {p} : regs'[q] = regs[q]
    <2>1. [thread |-> p, iflag |-> FALSE, cr3 |-> d] \in Context
      BY <1>1, PidNumbers DEF Context, Thread, Pid
    <2> QED BY <2>1, <1>1, <1>3 DEF Core, CoreType
  <1>6. CoreType'
    BY <1>2, <1>4, <1>5, FamilyStep DEF CoreType
  <1>7. Unused'
    <2>1. p \in Nat /\ thread \in Nat /\ \A q \in Live : regs[q].thread \in Nat
      BY <1>1, PidNumbers DEF Core, CoreType, Context, Thread
    <2>2. thread' < next_pid' /\ \A q \in Live' : regs'[q].thread < next_pid'
      BY <2>1, <1>1, <1>2, <1>3, <1>5 DEF Core, Unused
    <2>3. \A q \in Pid : \A i \in Slot : child'[q][i] < next_pid'
      <3>1. \A q \in Pid : \A i \in Slot : child[q][i] < p /\ child[q][i] \in Nat
        <4>1. \A q \in Pid : \A i \in Slot : child[q][i] \in Pid \cup {NoProc}
          BY DEF Core, CoreType
        <4>2. Pid \cup {NoProc} \subseteq Nat
          BY PidNumbers DEF NoProc
        <4> QED BY <4>1, <4>2 DEF Core, Unused
      <3>2. \A q \in Pid : \A i \in Slot : child'[q][i] \in {child[q][i], p, NoProc}
        BY FamilyStep
      <3> QED BY <3>1, <3>2, <2>1, <1>2 DEF NoProc
    <2> QED BY <2>2, <2>3 DEF Unused
  <1>8. ThreadsUnique'
    <2>1. \A q \in Live : regs[q].thread # p /\ thread # p
      <3>1. p \in Nat /\ thread \in Nat /\ \A q \in Live : regs[q].thread \in Nat
        BY <1>1, PidNumbers DEF Core, CoreType, Context, Thread
      <3> QED BY <3>1 DEF Core, Unused
    <2>2. thread # p
      BY <1>1, PidNumbers DEF Core, CoreType, Unused, Thread
    <2>3. \A q \in Live' \ {curr_pid'} :
             \/ q = p /\ regs'[q].thread = p
             \/ q \in Live \ {curr_pid} /\ q # p /\ regs'[q].thread = regs[q].thread
      BY <1>1, <1>2, <1>5
    <2> QED BY <2>1, <2>2, <2>3, <1>3 DEF Core, ThreadsUnique
  <1>9. OneRunning'
    BY <1>1, <1>2, <1>3 DEF Core, CoreType, OneRunning
  <1>10. ChildOnce'
    BY <1>1, FamilyStep DEF Core, ChildOnce
  <1>11. WindowChildren'
    <2> SUFFICES ASSUME NEW q \in Live', NEW i \in Slot,
                        i < child_count'[q], child'[q][i] # NoProc
                 PROVE  /\ child'[q][i] \in Live'
                        /\ parent'[child'[q][i]] = q
                        /\ \A j \in Slot : child'[q][j] = child'[q][i] => i = j
      BY DEF WindowChildren
    <2>1. q \in Live /\ q # p /\ q \in Pid
      BY <1>1, <1>2, FamilyStep
    <2>2. \A j \in Slot : child'[q][j] = child'[q][i] => i = j
      BY <1>10, <2>1 DEF ChildOnce
    <2>3. CASE child'[q][i] = p
      <3>1. child[q][i] # p
        BY <2>1, <1>1, PidNumbers DEF Core, CoreType, Unused
      <3>2. q = par
        BY <3>1, <2>1, <2>3, FamilyStep
      <3>3. parent'[p] = par
        BY <1>1, <1>3 DEF Core, CoreType
      <3> QED BY <2>2, <2>3, <3>2, <3>3, <1>2
    <2>4. CASE child'[q][i] # p
      <3>1. child'[q][i] = child[q][i] /\ i < child_count[q]
        BY <2>1, <2>4, FamilyStep
      <3>2. child[q][i] \in Live /\ parent[child[q][i]] = q
        BY <3>1, <2>1 DEF Core, WindowChildren
      <3>3. parent'[child[q][i]] = q
        BY <3>2, <1>1, <1>3 DEF Core, CoreType
      <3> QED BY <2>2, <3>1, <3>2, <3>3, <1>2
    <2> QED BY <2>3, <2>4
  <1> QED BY <1>2, <1>6, <1>7, <1>8, <1>9, <1>10, <1>11 DEF Core

----------------------------------------------------------------------------
(* A process is destroyed *)

LEMMA RemoveOrder ==
    ASSUME processes \in Seq(Pid), SlistNoDup(processes), NEW p \in Live
    PROVE  LET t == SlistRemove(processes, p)
           IN  /\ t \in Seq(Pid) /\ Len(t) = Len(processes) - 1
               /\ \A i \in 1..(Len(processes) - 1) :
                     t[i] = IF i < SlistFind(processes, p) THEN processes[i]
                            ELSE processes[i + 1]
  BY RemoveElem DEF Live

LEMMA RemoveElems ==
    ASSUME processes \in Seq(Pid), SlistNoDup(processes), NEW p \in Live
    PROVE  SlistElems(SlistRemove(processes, p)) = Live \ {p}
  BY RemoveElem DEF Live

LEMMA UnlinkStep ==
    ASSUME CoreType, ListConsistent, NEW p \in Live, Unlink(p),
           UNCHANGED <<next_pid, curr_pid>>
    PROVE  /\ processes' \in Seq(Pid)
           /\ proc_count' \in Nat
           /\ Live' = Live \ {p}
           /\ ListConsistent'
  <1> DEFINE k == SlistFind(processes, p)
  <1>1. SlistNoDup(processes) /\ processes \in Seq(Pid)
    BY LiveFacts DEF CoreType
  <1>2. processes' = SlistRemove(processes, p)
    BY DEF Unlink
  <1>3. /\ processes' \in Seq(Pid) /\ Len(processes') = Len(processes) - 1
        /\ \A i \in 1..(Len(processes) - 1) :
              processes'[i] = IF i < k THEN processes[i] ELSE processes[i + 1]
    BY <1>1, <1>2, RemoveOrder
  <1>4. Live' = Live \ {p}
    <2>1. Live' = SlistElems(processes')
      BY DEF Live
    <2> QED BY <1>1, <1>2, <2>1, RemoveElems
  <1>5. /\ Len(processes) \in Nat /\ Len(processes) > 0
        /\ \A i \in 1..Len(processes) : processes[i] \in Nat
        /\ k \in 1..Len(processes)
    <2>1. k \in 1..Len(processes)
      BY <1>1, FindPosition DEF Live
    <2> QED BY <2>1, ListNumbers
  <1>6. proc_count' = Len(processes') /\ proc_count' \in Nat
    BY <1>3, <1>5 DEF Unlink, ListConsistent
  <1>7. \A i, j \in 1..Len(processes') : i < j => processes'[i] > processes'[j]
    <2> TAKE i, j \in 1..Len(processes')
    <2> HAVE i < j
    <2>1. /\ i \in 1..Len(processes) /\ i + 1 \in 1..Len(processes)
          /\ j \in 1..Len(processes) /\ j + 1 \in 1..Len(processes)
      BY <1>3, <1>5
    <2>2. PICK a \in {i, i + 1} : processes'[i] = processes[a] /\ (a = i + 1 => ~(i < k))
      BY <1>3, <1>5
    <2>3. PICK b \in {j, j + 1} : processes'[j] = processes[b] /\ (b = j => j < k)
      BY <1>3, <1>5
    <2>4. a < b /\ a \in 1..Len(processes) /\ b \in 1..Len(processes)
      BY <2>1, <2>2, <2>3, <1>5
    <2> QED BY <2>2, <2>3, <2>4 DEF ListConsistent
  <1>8. \A i \in 1..Len(processes') : processes'[i] < next_pid'
    <2> TAKE i \in 1..Len(processes')
    <2>1. i \in 1..Len(processes) /\ i + 1 \in 1..Len(processes)
      BY <1>3, <1>5
    <2>2. processes'[i] = processes[i] \/ processes'[i] = processes[i + 1]
      BY <1>3
    <2> QED BY <2>1, <2>2 DEF ListConsistent
  <1>9. curr_pid' < next_pid' /\ curr_pid' # NoProc
    <2>1. curr_pid # NoProc
      BY <1>5 DEF ListConsistent
    <2> QED BY <2>1 DEF ListConsistent
  <1> QED BY <1>3, <1>4, <1>6, <1>7, <1>8, <1>9 DEF ListConsistent

\* What proc_destroy does to the child arrays: at most one slot changes; it
\* held the pid, below the count of the parent, and the count shrinks.
LEMMA OrphanStep ==
    ASSUME Core, NEW p \in Live, NEW used, Remove(p, used)
    PROVE  /\ child' \in [Pid -> [Slot -> Pid \cup {NoProc}]]
           /\ child_count' \in [Pid -> 0..CHILD_MAX]
           /\ \A q \in Pid : \A i \in Slot :
                 /\ child'[q][i] \in {child[q][i], NoProc}
                 /\ i < child_count'[q] => i < child_count[q]
           /\ \A i \in Slot : (parent[p] \in Live /\ i < child_count'[parent[p]])
                                 => child'[parent[p]][i] # p
  <1> DEFINE par == parent[p]
  <1>1. Live \subseteq Pid /\ p \in Pid /\ p # NoProc
    BY LiveFacts, PidNumbers DEF Core
  <1>2. /\ child \in [Pid -> [Slot -> Pid \cup {NoProc}]]
        /\ child_count \in [Pid -> 0..CHILD_MAX]
    BY DEF Core, CoreType
  <1>3. CASE ListedAt(p) = {} /\ UNCHANGED <<child, child_count>>
    <2>1. \A i \in Slot : (par \in Live /\ i < child_count[par]) => child[par][i] # p
      BY <1>3 DEF ListedAt
    <2> QED BY <2>1, <1>2, <1>3
  <1>4. ASSUME NEW k \in ListedAt(p),
               child' = [child EXCEPT ![par][k] = NoProc],
               child_count' = [child_count EXCEPT ![par] = @ - 1]
        PROVE  /\ child' \in [Pid -> [Slot -> Pid \cup {NoProc}]]
               /\ child_count' \in [Pid -> 0..CHILD_MAX]
               /\ \A q \in Pid : \A i \in Slot :
                     /\ child'[q][i] \in {child[q][i], NoProc}
                     /\ i < child_count'[q] => i < child_count[q]
               /\ \A i \in Slot : (par \in Live /\ i < child_count'[par])
                                     => child'[par][i] # p
    <2>1. par \in Live /\ par \in Pid /\ k \in Slot /\ k < child_count[par]
          /\ child[par][k] = p
      BY <1>1, <1>4 DEF ListedAt
    <2>2. Slot \subseteq Int /\ \A i \in Slot : i \in Nat
      BY PidNumbers DEF Slot
    <2>3. child_count[par] \in 0..CHILD_MAX
      BY <2>1, <1>2
    <2>4. /\ child' \in [Pid -> [Slot -> Pid \cup {NoProc}]]
          /\ \A q \in Pid \ {par} : child'[q] = child[q]
          /\ child'[par][k] = NoProc
          /\ \A i \in Slot \ {k} : child'[par][i] = child[par][i]
      BY <2>1, <1>2, <1>4
    <2>5. /\ child_count[par] - 1 \in 0..CHILD_MAX
          /\ child_count'[par] = child_count[par] - 1
          /\ \A q \in Pid \ {par} : child_count'[q] = child_count[q]
      <3>1. child_count[par] \in 0..CHILD_MAX /\ k \in Nat
        BY <2>2, <2>1, <2>3
      <3>2. child_count[par] - 1 \in 0..CHILD_MAX
        BY <3>1, <2>1, PidNumbers
      <3>3. /\ child_count'[par] = child_count[par] - 1
            /\ \A q \in Pid \ {par} : child_count'[q] = child_count[q]
        BY <2>1, <1>2, <1>4
      <3> QED BY <3>2, <3>3
    <2>6. child_count' \in [Pid -> 0..CHILD_MAX]
      BY <2>1, <2>5, <1>2, <1>4
    <2>7. \A i \in Slot : i < child_count'[par] => i < child_count[par]
      <3>1. child_count[par] \in Int
        BY <2>3, PidNumbers
      <3> QED BY <3>1, <2>2, <2>5
    <2>8. \A i \in Slot : child'[par][i] # p
      BY <2>1, <2>4, <1>1 DEF Core, ChildOnce
    <2> QED BY <2>1, <2>4, <2>5, <2>6, <2>7, <2>8
  <1> QED BY <1>3, <1>4 DEF Remove

LEMMA RemoveStep ==
    ASSUME Core, NEW p \in Live, NEW used, Remove(p, used), UNCHANGED thread
    PROVE  Core'
  <1>1. /\ processes' \in Seq(Pid) /\ proc_count' \in Nat /\ Live' = Live \ {p}
        /\ ListConsistent'
    BY UnlinkStep DEF Core, Remove
  <1>2. /\ next_pid' = next_pid /\ curr_pid' = curr_pid /\ parent' = parent
        /\ status' = status /\ signal_handler' = signal_handler /\ signum' = signum
        /\ regs' = regs /\ thread' = thread /\ dirs' \subseteq dirs
    BY DEF Remove, signals
  <1>3. CoreType'
    BY <1>1, <1>2, OrphanStep DEF Core, CoreType
  <1>4. Live \subseteq Pid
    BY LiveFacts DEF Core
  <1>5. ThreadsUnique' /\ OneRunning'
    BY <1>1, <1>2 DEF Core, ThreadsUnique, OneRunning
  <1>6. ChildOnce'
    <2> SUFFICES ASSUME NEW q \in Pid, NEW i \in Slot, NEW j \in Slot,
                        child'[q][i] = child'[q][j], child'[q][i] # NoProc
                 PROVE  i = j
      BY DEF ChildOnce
    <2>1. child'[q][i] = child[q][i] /\ child'[q][j] = child[q][j]
      BY OrphanStep
    <2> QED BY <2>1 DEF Core, ChildOnce
  <1>7. Unused'
    <2>1. next_pid \in Nat /\ 0 < next_pid
      BY PidNumbers DEF Core, CoreType
    <2>2. \A q \in Pid : \A i \in Slot : child'[q][i] < next_pid
      BY <2>1, OrphanStep DEF Core, Unused, NoProc
    <2> QED BY <2>2, <1>1, <1>2 DEF Core, Unused
  <1>8. WindowChildren'
    <2> SUFFICES ASSUME NEW q \in Live', NEW i \in Slot,
                        i < child_count'[q], child'[q][i] # NoProc
                 PROVE  /\ child'[q][i] \in Live'
                        /\ parent'[child'[q][i]] = q
                        /\ \A j \in Slot : child'[q][j] = child'[q][i] => i = j
      BY DEF WindowChildren
    <2>1. q \in Live /\ q \in Pid
      BY <1>1, <1>4
    <2>2. child'[q][i] = child[q][i] /\ i < child_count[q]
      BY <2>1, OrphanStep
    <2>3. child[q][i] \in Live /\ parent[child[q][i]] = q
      BY <2>1, <2>2 DEF Core, WindowChildren
    <2>4. child[q][i] # p
      BY <2>1, <2>2, <2>3, OrphanStep
    <2>5. \A j \in Slot : child'[q][j] = child'[q][i] => i = j
      BY <1>6, <2>1 DEF ChildOnce
    <2> QED BY <2>2, <2>3, <2>4, <2>5, <1>1, <1>2
  <1> QED BY <1>1, <1>3, <1>5, <1>6, <1>7, <1>8 DEF Core

----------------------------------------------------------------------------
(* The other steps *)

LEMMA CoreStutter == Core /\ UNCHANGED core => Core'
  BY DEF Core, core, table, family, signals, CoreType, ListConsistent, ThreadsUnique,
         OneRunning, WindowChildren, Unused, ChildOnce, Live

LEMMA ScheduleStep == ASSUME IInv, schedule PROVE IInv'
  <1> DEFINE c == curr_pid
             n == process_next
  <1>1. n \in Live /\ c \in Live /\ Live \subseteq Pid
    BY NextLive, LiveFacts DEF IInv, Core, schedule
  <1>2. /\ regs \in [Pid -> Context]
        /\ regs' = [regs EXCEPT ![c] = [thread |-> thread, iflag |-> TRUE, cr3 |-> cr3]]
        /\ [thread |-> thread, iflag |-> TRUE, cr3 |-> cr3] \in Context
    BY DEF IInv, Core, CoreType, RestType, Context, schedule, proc_regswitch
  <1>3. /\ regs' \in [Pid -> Context]
        /\ regs'[c].thread = thread
        /\ \A q \in Pid \ {c} : regs'[q] = regs[q]
    BY <1>1, <1>2
  <1>4. /\ thread' = regs'[n].thread /\ iflag' = regs'[n].iflag /\ cr3' = regs'[n].cr3
        /\ regs'[n] \in Context
    BY <1>1, <1>3 DEF schedule, proc_regswitch
  <1>5. /\ processes' = processes /\ proc_count' = proc_count /\ next_pid' = next_pid
        /\ parent' = parent /\ child' = child /\ child_count' = child_count
        /\ signal_handler' = signal_handler /\ signum' = signum /\ dirs' = dirs
        /\ call' = call /\ nullref' = nullref /\ curr_pid' = n /\ Live' = Live
    BY DEF schedule, family, signals, Live
  <1>6. status' = [status EXCEPT ![c] = "READY", ![n] = "RUNNING"]
    BY DEF schedule, Mark
  <1>7. thread' \in Thread /\ iflag' \in BOOLEAN /\ cr3' \in Dir
    BY <1>4 DEF Context
  <1>8. status' \in [Pid -> Status]
    BY <1>6 DEF IInv, Core, CoreType, Status
  <1>9. CoreType'
    BY <1>1, <1>3, <1>5, <1>7, <1>8 DEF IInv, Core, CoreType
  <1>10. RestType'
    <2>1. ticks' \in 0..(SCHED_RECCOUNT - 1)
      BY PidNumbers DEF schedule, ChargeTick, IInv, RestType
    <2>2. sched_rec' \in [0..(SCHED_RECCOUNT - 1) -> Pid \cup {NoProc}]
      BY <1>1 DEF schedule, ChargeTick, IInv, RestType
    <2> QED BY <2>1, <2>2, <1>5, <1>7 DEF IInv, RestType
  <1>11. ListConsistent'
    <2>1. n < next_pid /\ n # NoProc
      BY <1>1, LiveFacts, PidNumbers DEF IInv, Core
    <2> QED BY <2>1, <1>5 DEF IInv, Core, ListConsistent
  <1>12. \A q \in Live \ {n} : regs'[q].thread = IF q = c THEN thread ELSE regs[q].thread
    BY <1>1, <1>3
  <1>13. thread' = IF n = c THEN thread ELSE regs[n].thread
    BY <1>1, <1>3, <1>4
  <1>14. ThreadsUnique'
    BY <1>1, <1>5, <1>12, <1>13 DEF IInv, Core, ThreadsUnique
  <1>15. OneRunning'
    BY <1>1, <1>5, <1>6 DEF IInv, Core, CoreType, OneRunning
  <1>16. WindowChildren' /\ ChildOnce'
    BY <1>5 DEF IInv, Core, WindowChildren, ChildOnce
  <1>17. Unused'
    <2>1. \A q \in Live : regs'[q].thread \in {thread, regs[q].thread}
      BY <1>1, <1>3
    <2> QED BY <2>1, <1>1, <1>4, <1>5 DEF IInv, Core, Unused
  <1> QED BY <1>9, <1>10, <1>11, <1>14, <1>15, <1>16, <1>17 DEF IInv, Core

\* A saved page directory changes.
LEMMA DirStep ==
    ASSUME Core, NEW c, NEW d \in Dir, NEW used, SwitchPgdir(c, d, used),
           c \in Pid \cup {NoProc},
           UNCHANGED <<table, status, family, signals, thread, dirs>>
    PROVE  Core'
  <1>1. regs \in [Pid -> Context] /\ NoProc \notin Pid
    BY PidNumbers DEF Core, CoreType
  <1>2. /\ regs' \in [Pid -> Context]
        /\ \A q \in Pid : regs'[q].thread = regs[q].thread
    <2>1. CASE c = NoProc
      BY <2>1, <1>1 DEF SwitchPgdir
    <2>2. CASE c \in Pid
      <3>1. regs' = [regs EXCEPT ![c].cr3 = d]
        BY <2>2, <1>1 DEF SwitchPgdir
      <3>2. [regs[c] EXCEPT !.cr3 = d] \in Context
            /\ [regs[c] EXCEPT !.cr3 = d].thread = regs[c].thread
        BY <2>2, <1>1 DEF Context
      <3> QED BY <3>1, <3>2, <2>2, <1>1
    <2> QED BY <2>1, <2>2
  <1>3. Live' = Live /\ Live \subseteq Pid
    BY LiveFacts DEF Core, table, Live
  <1>4. CoreType'
    BY <1>2 DEF Core, CoreType, table, family, signals
  <1>5. ThreadsUnique' /\ Unused'
    BY <1>2, <1>3 DEF Core, ThreadsUnique, Unused, table, family
  <1>6. ListConsistent' /\ OneRunning' /\ WindowChildren' /\ ChildOnce'
    BY <1>3 DEF Core, ListConsistent, OneRunning, WindowChildren, ChildOnce, table, family
  <1> QED BY <1>4, <1>5, <1>6 DEF Core

\* irq_restore leaves a Boolean.
LEMMA RestoredType == \A f \in BOOLEAN : Restored(f) \subseteq BOOLEAN
  BY DEF Restored

LEMMA IdleType == Idle \in CallState
  BY ProcAssumption, PidNumbers DEF Idle, CallState, NoProc, KrnlDir, Dir

LEMMA SignalStep ==
    ASSUME IInv, NEW p \in Live,
           \/ \E s \in Signals : proc_sigenter(p, s)
           \/ proc_sigleave(p) \/ set_handler(p)
    PROVE  IInv'
  <1>1. Live \subseteq Pid /\ p \in Pid
    BY LiveFacts DEF IInv, Core
  <1>2. /\ processes' = processes /\ proc_count' = proc_count /\ next_pid' = next_pid
        /\ curr_pid' = curr_pid /\ parent' = parent /\ child' = child
        /\ child_count' = child_count /\ regs' = regs /\ thread' = thread /\ dirs' = dirs
        /\ Live' = Live /\ UNCHANGED <<ticks, sched_rec, iflag, cr3, call, nullref>>
    BY DEF proc_sigenter, proc_sigleave, set_handler, table, record, family, cpu, Live
  <1>3. status' = status \/ status' = [status EXCEPT ![p] = "ZOMBIE"]
    BY DEF proc_sigenter, proc_sigleave, set_handler
  <1>4. /\ signum' \in [Pid -> Signals \cup {NoSignal}]
        /\ signal_handler' \in [Pid -> BOOLEAN]
    BY <1>1 DEF proc_sigenter, proc_sigleave, set_handler, IInv, Core, CoreType
  <1>5. status' \in [Pid -> Status] /\ OneRunning'
    BY <1>1, <1>2, <1>3 DEF IInv, Core, CoreType, Status, OneRunning
  <1>6. CoreType' /\ RestType'
    BY <1>2, <1>4, <1>5 DEF IInv, Core, CoreType, RestType
  <1>7. ListConsistent' /\ ThreadsUnique' /\ WindowChildren' /\ Unused' /\ ChildOnce'
    BY <1>2 DEF IInv, Core, ListConsistent, ThreadsUnique, WindowChildren, Unused, ChildOnce
  <1> QED BY <1>5, <1>6, <1>7 DEF IInv, Core

\* Creating and destroying from a thread, and sti.
LEMMA TableStep ==
    ASSUME IInv,
           \/ sti
           \/ \E par \in Live \cup {NoProc}, user \in BOOLEAN : proc_create(par, user)
           \/ \E par \in Live : proc_create_fails(par)
           \/ \E p \in Live : proc_destroy(p)
    PROVE  IInv'
  <1>1. CASE sti
    <2>1. Core'
      BY <1>1, CoreStutter DEF IInv, sti, core
    <2> QED BY <1>1, <2>1 DEF IInv, RestType, sti, record
  <1>2. ASSUME NEW par \in Live \cup {NoProc}, NEW user \in BOOLEAN, proc_create(par, user)
        PROVE  IInv'
    <2>1. PICK d \in NewDir(user) : Enter(par, d)
      BY <1>2 DEF proc_create
    <2>2. d \in Dir
      BY <2>1 DEF NewDir, Dir, Enter
    <2>3. Core'
      BY <1>2, <2>1, <2>2, EnterStep DEF IInv, proc_create
    <2>4. RestType'
      BY <1>2, RestoredType DEF IInv, RestType, proc_create, record
    <2> QED BY <2>3, <2>4 DEF IInv
  <1>3. ASSUME NEW par \in Live, proc_create_fails(par)
        PROVE  IInv'
    <2>1. Core'
      BY <1>3, CoreStutter DEF IInv, proc_create_fails, core
    <2>2. RestType'
      BY <1>3, RestoredType DEF IInv, RestType, proc_create_fails, record
    <2> QED BY <2>1, <2>2 DEF IInv
  <1>4. ASSUME NEW p \in Live, proc_destroy(p)
        PROVE  IInv'
    <2>1. Core'
      BY <1>4, RemoveStep DEF IInv, proc_destroy
    <2>2. nullref' \subseteq Site
      BY <1>4 DEF IInv, RestType, proc_destroy, Remove, Site
    <2>3. RestType'
      BY <1>4, <2>2, RestoredType DEF IInv, RestType, proc_destroy, record
    <2> QED BY <2>1, <2>3 DEF IInv
  <1> QED BY <1>1, <1>2, <1>3, <1>4

\* The cursor of processes_cleanup.
LEMMA CursorType ==
    ASSUME CoreType, NEW p \in Live
    PROVE  SlistNext(processes, p, NoProc) \in Pid \cup {NoProc}
  <1>1. processes \in Seq(Pid) /\ Live \subseteq Pid
    BY ElemsIn DEF CoreType, Live
  <1>2. SlistNext(processes, p, NoProc) \in Live \cup {NoProc}
    BY <1>1, NextElem DEF Live
  <1> QED BY <1>1, <1>2

LEMMA LinkType ==
    ASSUME CoreType, NEW p \in Pid
    PROVE  SLIST_NEXT(p) \subseteq Pid \cup {NoProc}
  <1>1. CASE p \in Live
    BY <1>1, CursorType DEF SLIST_NEXT
  <1>2. CASE p \notin Live
    <2>1. 1..(p - 1) \subseteq Pid
      BY PidNumbers DEF Pid
    <2> QED BY <1>2, <2>1 DEF SLIST_NEXT
  <1> QED BY <1>1, <1>2

\* What a pointer may point at.
LEMMA PointerType ==
    ASSUME CoreType, NEW p \in Pid \cup {NoProc}
    PROVE  /\ PointsTo(p) \subseteq Pid \cup {NoProc}
           /\ p # NoProc => PointsTo(p) \subseteq Pid
           /\ p \in Live \cup {NoProc} => PointsTo(p) = {p}
  <1>1. Live \subseteq Pid /\ NoProc \notin Pid
    BY ElemsIn, PidNumbers DEF CoreType, Live
  <1> QED BY <1>1 DEF PointsTo

\* A process is destroyed a second time.
LEMMA FreedStep ==
    ASSUME IInv, NEW used \in SUBSET Site, RemoveFreed(used)
    PROVE  IInv'
  <1>1. Core'
    BY CoreStutter DEF IInv, RemoveFreed, core, cpu
  <1>2. nullref' \subseteq Site
    BY DEF IInv, RestType, RemoveFreed, Site
  <1> QED BY <1>1, <1>2 DEF IInv, RestType, RemoveFreed, record, cpu

LEMMA CleanupStep == ASSUME IInv, cleanup PROVE IInv'
  <1> DEFINE p == call[thread].child
  <1>1. thread \in Thread /\ call \in [Thread -> CallState] /\ call[thread] \in CallState
    BY DEF IInv, Core, CoreType, RestType
  <1>2. CASE cleanup_begin
    <2>1. (IF processes = <<>> THEN NoProc ELSE processes[1]) \in Pid \cup {NoProc}
      <3>1. processes \in Seq(Pid)
        BY DEF IInv, Core, CoreType
      <3> QED BY <3>1
    <2>2. [Idle EXCEPT !.pc = "cleanup",
             !.child = IF processes = <<>> THEN NoProc ELSE processes[1]] \in CallState
      BY <2>1, IdleType DEF CallState
    <2>3. call' \in [Thread -> CallState]
      BY <1>1, <1>2, <2>2 DEF cleanup_begin
    <2>4. Core'
      BY <1>2, CoreStutter DEF IInv, cleanup_begin, core, cpu
    <2> QED BY <1>2, <2>3, <2>4 DEF IInv, RestType, cleanup_begin, record, cpu
  <1>3. CASE cleanup_visit
    <2>1. p \in Pid
      BY <1>1, <1>3 DEF cleanup_visit, CallState
    <2>2. \A q \in PointsTo(p) : q \in Pid /\ SLIST_NEXT(q) \subseteq Pid \cup {NoProc}
      BY <2>1, PointerType, LinkType, PidNumbers DEF IInv, Core
    <2>3. /\ \A q \in Pid : [call[thread] EXCEPT !.pc = "reap", !.child = q] \in CallState
          /\ \A q \in Pid \cup {NoProc} : [call[thread] EXCEPT !.child = q] \in CallState
      <3>1. call[thread].pc = "cleanup"
        BY <1>3 DEF cleanup_visit
      <3>2. \A q \in Pid : [call[thread] EXCEPT !.pc = "reap", !.child = q] \in CallState
        <4> SUFFICES ASSUME NEW q \in Pid
                     PROVE  [call[thread] EXCEPT !.pc = "reap", !.child = q] \in CallState
          OBVIOUS
        <4>1. q # NoProc
          BY PidNumbers
        <4>2. PICK a : a = call[thread]
          OBVIOUS
        <4>3. a \in CallState
          BY <1>1, <4>2
        <4>4. [a EXCEPT !.pc = "reap", !.child = q] \in CallState
          BY <4>1, <4>3 DEF CallState
        <4> QED BY <4>2, <4>4
      <3>3. \A q \in Pid \cup {NoProc} : [call[thread] EXCEPT !.child = q] \in CallState
        BY <1>1, <3>1 DEF CallState
      <3> QED BY <3>2, <3>3
    <2>4. call' \in [Thread -> CallState]
      <3>1. PICK x \in Pid \cup {NoProc} :
               \/ x \in Pid /\ call' = [call EXCEPT ![thread] =
                                          [call[thread] EXCEPT !.pc = "reap", !.child = x]]
               \/ call' = [call EXCEPT ![thread] = [call[thread] EXCEPT !.child = x]]
        BY <1>3, <2>2 DEF cleanup_visit
      <3>2. PICK e \in CallState : call' = [call EXCEPT ![thread] = e]
        BY <2>3, <3>1
      <3> QED BY <1>1, <3>2
    <2>5. Core'
      BY <1>3, CoreStutter DEF IInv, cleanup_visit, core, cpu
    <2>6. nullref' \subseteq Site
      BY <1>3 DEF IInv, RestType, cleanup_visit, CursorFreed, Site
    <2> QED BY <1>3, <2>4, <2>5, <2>6 DEF IInv, RestType, cleanup_visit, record, cpu
  <1>4. CASE cleanup_reap
    <2>1. PICK q \in PointsTo(p) \cap Live :
             /\ Remove(q, CursorFreed(p))
             /\ call' = [call EXCEPT ![thread] = [call[thread] EXCEPT !.pc = "cleanup",
                                        !.child = SlistNext(processes, q, NoProc)]]
      BY <1>4 DEF cleanup_reap
    <2>2. SlistNext(processes, q, NoProc) \in Pid \cup {NoProc}
      BY CursorType DEF IInv, Core
    <2>3. [call[thread] EXCEPT !.pc = "cleanup",
             !.child = SlistNext(processes, q, NoProc)] \in CallState
      BY <1>1, <2>2 DEF CallState
    <2>4. call' \in [Thread -> CallState]
      BY <1>1, <2>1, <2>3
    <2>5. Core'
      BY <1>4, <2>1, RemoveStep DEF IInv, cleanup_reap
    <2>6. nullref' \subseteq Site
      BY <2>1 DEF IInv, RestType, Remove, CursorFreed, Site
    <2> QED BY <1>4, <2>4, <2>5, <2>6, RestoredType DEF IInv, RestType, cleanup_reap, record
  <1>5. CASE cleanup_end
    <2>1. call' \in [Thread -> CallState]
      BY <1>1, <1>5, IdleType DEF cleanup_end
    <2>2. Core'
      BY <1>5, CoreStutter DEF IInv, cleanup_end, core, cpu
    <2> QED BY <1>5, <2>1, <2>2 DEF IInv, RestType, cleanup_end, record, cpu
  <1>6. CASE cleanup_reap_freed
    BY <1>6, FreedStep DEF cleanup_reap_freed, Site
  <1> QED BY <1>2, <1>3, <1>4, <1>5, <1>6 DEF cleanup, cleanup_goes

LEMMA ExecStep == ASSUME IInv, exec PROVE IInv'
  <1> DEFINE c == call[thread]
  <1>1. /\ thread \in Thread /\ call \in [Thread -> CallState] /\ c \in CallState
        /\ iflag \in BOOLEAN /\ regs \in [Pid -> Context]
    BY DEF IInv, Core, CoreType, RestType
  <1>2. /\ c.flags \in BOOLEAN /\ c.child \in Pid \cup {NoProc}
        /\ c.curr \in Pid \cup {NoProc} /\ c.old \in Dir
    BY <1>1 DEF CallState
  <1>3. Live \subseteq Pid /\ NoProc \notin Pid
    BY LiveFacts, PidNumbers DEF IInv, Core
  <1>4. CASE exec_reject
    <2>1. Core'
      BY <1>4, CoreStutter DEF IInv, exec_reject, core
    <2> QED BY <1>1, <1>4, <2>1, RestoredType DEF IInv, RestType, exec_reject, record
  <1>5. CASE exec_create
    <2>1. PICK d \in NewDir(TRUE), n \in 0..MaxSegs :
             /\ Enter(process_curr, d)
             /\ call' = [call EXCEPT ![thread] =
                   [Idle EXCEPT !.pc = "seg", !.flags = iflag, !.child = next_pid,
                                !.curr = process_curr, !.segs = n]]
      BY <1>5 DEF exec_create
    <2>2. next_pid \in Pid /\ d \in Dir
      BY <2>1 DEF NewDir, Dir, Enter
    <2>3. process_curr \in Live \cup {NoProc}
      BY DEF process_curr
    <2>4. Core'
      BY <1>5, <2>1, <2>2, <2>3, EnterStep DEF IInv, exec_create
    <2>5. [Idle EXCEPT !.pc = "seg", !.flags = iflag, !.child = next_pid,
             !.curr = process_curr, !.segs = n] \in CallState
      BY <1>1, <1>3, <2>2, <2>3, IdleType DEF CallState
    <2>6. call' \in [Thread -> CallState]
      BY <1>1, <2>1, <2>5
    <2>7. UNCHANGED <<ticks, sched_rec, cr3, nullref>> /\ iflag' \in BOOLEAN
      BY <1>5, RestoredType DEF exec_create, record
    <2> QED BY <2>4, <2>6, <2>7 DEF IInv, RestType
  <1>6. CASE exec_skip
    <2>1. c.segs \in 0..MaxSegs /\ c.segs > 0
      BY <1>1, <1>6 DEF exec_skip, AtSegment, CallState
    <2>2. [c EXCEPT !.segs = c.segs - 1] \in CallState
      <3>1. c.segs - 1 \in 0..MaxSegs
        BY <2>1, ProcAssumption
      <3> QED BY <1>1, <3>1 DEF CallState
    <2>3. call' \in [Thread -> CallState]
      BY <1>1, <1>6, <2>2 DEF exec_skip
    <2>4. Core'
      BY <1>6, CoreStutter DEF IInv, exec_skip, core, cpu
    <2> QED BY <1>6, <2>3, <2>4 DEF IInv, RestType, exec_skip, record, cpu
  <1>7. CASE exec_map
    <2>1. PICK p \in PointsTo(c.child), q \in PointsTo(c.curr) :
             /\ SwitchPgdir(q, regs[p].cr3, ChildFreed(c.child))
             /\ call' = [call EXCEPT ![thread] =
                    [c EXCEPT !.pc = "mapped", !.segs = c.segs - 1, !.child = p, !.curr = q,
                              !.old = IF q = NoProc THEN LowWord ELSE regs[q].cr3]]
      BY <1>7 DEF exec_map
    <2>2. c.child # NoProc
      BY <1>1, <1>7 DEF exec_map, AtSegment, CallState
    <2>3. p \in Pid /\ q \in Pid \cup {NoProc} /\ p # NoProc
      BY <1>2, <1>3, <2>2, PointerType DEF IInv, Core
    <2>4. regs[p].cr3 \in Dir /\ (IF q = NoProc THEN LowWord ELSE regs[q].cr3) \in Dir
      BY <1>1, <2>3 DEF Context, Dir
    <2>5. [c EXCEPT !.pc = "mapped", !.segs = c.segs - 1, !.child = p, !.curr = q,
             !.old = IF q = NoProc THEN LowWord ELSE regs[q].cr3] \in CallState
      <3>1. c.segs \in 0..MaxSegs /\ c.segs > 0
        BY <1>1, <1>7 DEF exec_map, AtSegment, CallState
      <3>2. c.segs - 1 \in 0..MaxSegs
        BY <3>1, ProcAssumption
      <3> QED BY <1>1, <2>2, <2>3, <2>4, <3>2 DEF CallState
    <2>6. call' \in [Thread -> CallState]
      BY <1>1, <2>1, <2>5
    <2>7. Core'
      BY <1>7, <2>1, <2>3, <2>4, DirStep DEF IInv, exec_map
    <2>8. cr3' \in Dir /\ nullref' \subseteq Site
      BY <2>1, <2>4 DEF SwitchPgdir, ChildFreed, IInv, RestType, Site
    <2> QED BY <1>7, <2>6, <2>7, <2>8 DEF IInv, RestType, exec_map, record
  <1>8. CASE exec_read
    <2>1. PICK q \in PointsTo(c.curr) :
             /\ SwitchPgdir(q, c.old, {})
             /\ call' = [call EXCEPT ![thread] = [c EXCEPT !.pc = "seg", !.curr = q]]
      BY <1>8 DEF exec_read
    <2>2. q \in Pid \cup {NoProc}
      BY <1>2, PointerType DEF IInv, Core
    <2>3. [c EXCEPT !.pc = "seg", !.curr = q] \in CallState
      BY <1>1, <1>8, <2>2 DEF CallState, exec_read
    <2>4. call' \in [Thread -> CallState]
      BY <1>1, <2>1, <2>3
    <2>5. Core'
      BY <1>2, <1>8, <2>1, <2>2, DirStep DEF IInv, exec_read
    <2>6. cr3' \in Dir /\ nullref' \subseteq Site
      BY <1>2, <2>1 DEF SwitchPgdir, IInv, RestType, Site
    <2> QED BY <1>8, <2>4, <2>5, <2>6 DEF IInv, RestType, exec_read, record
  <1>9. CASE exec_read_fails
    <2>1. PICK p \in Live : Remove(p, ChildFreed(c.child))
      BY <1>9 DEF exec_read_fails
    <2>2. Core'
      BY <1>9, <2>1, RemoveStep DEF IInv, exec_read_fails
    <2>3. nullref' \subseteq Site
      BY <2>1 DEF IInv, RestType, Remove, ChildFreed, Site
    <2>4. call' \in [Thread -> CallState]
      BY <1>1, <1>9, IdleType DEF exec_read_fails, Return
    <2>5. iflag' \in BOOLEAN /\ UNCHANGED <<ticks, sched_rec, cr3>>
      BY <1>2, <1>9, RestoredType DEF exec_read_fails, record
    <2> QED BY <2>2, <2>3, <2>4, <2>5 DEF IInv, RestType
  <1>10. CASE exec_done
    <2>1. Core'
      BY <1>10, CoreStutter DEF IInv, exec_done, core
    <2>2. call' \in [Thread -> CallState]
      BY <1>1, <1>10, IdleType DEF exec_done, Return
    <2>3. iflag' \in BOOLEAN /\ UNCHANGED <<ticks, sched_rec, cr3>>
      BY <1>2, <1>10, RestoredType DEF exec_done, record
    <2>4. nullref' \subseteq Site
      BY <1>10 DEF IInv, RestType, exec_done, ChildFreed, Site
    <2> QED BY <2>1, <2>2, <2>3, <2>4 DEF IInv, RestType
  <1>11. CASE exec_read_fails_freed
    BY <1>11, FreedStep DEF exec_read_fails_freed, Site
  <1> QED BY <1>4, <1>5, <1>6, <1>7, <1>8, <1>9, <1>10, <1>11 DEF exec, exec_goes

----------------------------------------------------------------------------
(* The theorems *)

LEMMA InitIInv == Init => IInv
  <1> SUFFICES ASSUME Init PROVE IInv
    OBVIOUS
  <1>1. Live = {} /\ processes \in Seq(Pid) /\ Len(processes) = 0
    BY DEF Init, Live, SlistElems
  <1>2. CoreType
    <2>1. regs \in [Pid -> Context]
      BY PidNumbers DEF Init, Context, Thread, Pid, Dir
    <2>2. child \in [Pid -> [Slot -> Pid \cup {NoProc}]]
      BY DEF Init
    <2>3. status \in [Pid -> Status] /\ next_pid \in 1..(MaxPid + 1) /\ thread \in Thread
      BY PidNumbers DEF Init, Status, Thread, Boot
    <2> QED BY <1>1, <2>1, <2>2, <2>3, PidNumbers DEF Init, CoreType
  <1>3. RestType
    <2>1. call \in [Thread -> CallState]
      BY IdleType DEF Init
    <2> QED BY <2>1, PidNumbers DEF Init, RestType, Dir, KrnlDir
  <1>4. ListConsistent
    BY <1>1, PidNumbers DEF Init, ListConsistent, NoProc
  <1>5. ThreadsUnique /\ OneRunning /\ WindowChildren
    BY <1>1 DEF ThreadsUnique, OneRunning, WindowChildren
  <1>6. Unused /\ ChildOnce
    BY <1>1 DEF Init, Unused, ChildOnce, NoProc, Boot
  <1> QED BY <1>2, <1>3, <1>4, <1>5, <1>6 DEF IInv, Core

LEMMA NextIInv == IInv /\ [Next]_vars => IInv'
  <1> SUFFICES ASSUME IInv, [Next]_vars PROVE IInv'
    OBVIOUS
  <1>1. CASE schedule
    BY <1>1, ScheduleStep
  <1>2. CASE \/ sti
             \/ \E par \in Live \cup {NoProc}, user \in BOOLEAN : proc_create(par, user)
             \/ \E par \in Live : proc_create_fails(par)
             \/ \E p \in Live : proc_destroy(p)
    BY <1>2, TableStep
  <1>3. ASSUME NEW p \in Live, NEW s \in Signals, proc_sigenter(p, s)
        PROVE  IInv'
    BY <1>3, SignalStep
  <1>4. ASSUME NEW p \in Live, proc_sigleave(p) \/ set_handler(p)
        PROVE  IInv'
    BY <1>4, SignalStep
  <1>5. CASE cleanup
    BY <1>5, CleanupStep
  <1>6. CASE exec
    BY <1>6, ExecStep
  <1>7. CASE UNCHANGED vars
    <2>1. Core'
      BY <1>7, CoreStutter DEF IInv, vars, core, cpu
    <2> QED BY <1>7, <2>1 DEF IInv, RestType, vars, record, cpu
  <1> QED BY <1>1, <1>2, <1>3, <1>4, <1>5, <1>6, <1>7 DEF Next

\* The inductive invariant holds in every behaviour.
LEMMA Invariance == Spec => []IInv
  BY InitIInv, NextIInv, PTL DEF Spec

\* Type correctness: in particular proc_count never goes below zero, child_count
\* stays within the child array (proc.c:75, 134) and the usage index within the
\* record (proc.c:199), whatever the threads call and whatever irq_disable
\* returns.
THEOREM TypeCorrect == Spec => []TypeOK
  <1>1. IInv => TypeOK
    BY TypeSplit DEF IInv, Core
  <1> QED BY <1>1, Invariance, PTL

\* The process list, its count and the pids stay consistent (proc.c:114-117,
\* 140-141).
THEOREM ListSafe == Spec => []ListConsistent
  <1>1. IInv => ListConsistent
    BY DEF IInv, Core
  <1> QED BY <1>1, Invariance, PTL

\* No context switch duplicates a thread of control (proc.c:193-207).
THEOREM ThreadsSafe == Spec => []ThreadsUnique
  <1>1. IInv => ThreadsUnique
    BY DEF IInv, Core
  <1> QED BY <1>1, Invariance, PTL

\* Only the current process is marked running (proc.c:201-203).
THEOREM RunningSafe == Spec => []OneRunning
  <1>1. IInv => OneRunning
    BY DEF IInv, Core
  <1> QED BY <1>1, Invariance, PTL

\* The counted part of a child array names live children only, each once
\* (proc.c:66-83, 129-138).
THEOREM ChildrenSafe == Spec => []WindowChildren
  <1>1. IInv => WindowChildren
    BY DEF IInv, Core
  <1> QED BY <1>1, Invariance, PTL

----------------------------------------------------------------------------
(* proc_exec runs with the interrupt flag clear *)

Loading(t) == call[t].pc \in {"seg", "mapped"}

\* While a thread is inside proc_exec, it is on the CPU with interrupts off, and
\* the child it loads exists and is not that thread.
LoadInv ==
    \A t \in Thread : Loading(t) =>
        /\ t = thread /\ ~iflag
        /\ call[t].child \in Live
        /\ call[t].child # thread

\* proc_exec never goes on with a child that was destroyed meanwhile.
ExecKept == "proc_exec" \notin nullref

\* The kernel calls other than proc_exec, from a thread that is in no call.
LEMMA LoadTable ==
    ASSUME IInv, LoadInv,
           \/ schedule \/ sti
           \/ \E par \in Live \cup {NoProc}, user \in BOOLEAN : proc_create(par, user)
           \/ \E par \in Live : proc_create_fails(par)
           \/ \E p \in Live : proc_destroy(p)
           \/ \E p \in Live, s \in Signals : proc_sigenter(p, s)
           \/ \E p \in Live : proc_sigleave(p) \/ set_handler(p)
    PROVE  LoadInv' /\ nullref' \subseteq nullref \cup {"proc_destroy", "mem_free_pgdir"}
  <1>1. thread \in Thread
    BY DEF IInv, Core, CoreType
  <1>2. CASE schedule
    <2>1. \A t \in Thread : ~Loading(t)
      BY <1>2 DEF schedule, LoadInv
    <2>2. call' = call /\ nullref' = nullref
      BY <1>2 DEF schedule
    <2> QED BY <2>1, <2>2 DEF LoadInv, Loading
  <1>3. CASE ~schedule
    <2>1. call[thread].pc = "idle" /\ call' = call
      BY <1>3 DEF Calling, sti, proc_create, proc_create_fails, proc_destroy,
                  proc_sigenter, proc_sigleave, set_handler
    <2>2. nullref' \subseteq nullref \cup {"proc_destroy", "mem_free_pgdir"}
      BY <1>3 DEF sti, proc_create, proc_create_fails, proc_destroy, Remove,
                  proc_sigenter, proc_sigleave, set_handler
    <2>3. \A t \in Thread : ~Loading(t)
      BY <1>1, <2>1 DEF LoadInv, Loading
    <2> QED BY <2>1, <2>2, <2>3 DEF LoadInv, Loading
  <1> QED BY <1>2, <1>3

\* processes_cleanup moves the running thread's call between its own points.
LEMMA CleanupCall ==
    ASSUME IInv, cleanup, ~cleanup_reap_freed
    PROVE  \E c : /\ call' = [call EXCEPT ![thread] = c]
                  /\ c.pc \in {"idle", "cleanup", "reap"}
  <1>0. thread \in Thread /\ call \in [Thread -> CallState]
    BY DEF IInv, Core, CoreType, RestType
  <1> DEFINE e == call[thread]
  <1>1. e \in CallState
    BY <1>0
  <1>2. CASE cleanup_begin
    <2>1. \A x : [Idle EXCEPT !.pc = "cleanup", !.child = x].pc = "cleanup"
      BY DEF Idle
    <2> QED BY <1>2, <2>1 DEF cleanup_begin
  <1>3. CASE cleanup_visit
    <2>1. \A x : /\ [e EXCEPT !.pc = "reap", !.child = x].pc = "reap"
                 /\ [e EXCEPT !.child = x].pc = e.pc
      BY <1>1 DEF CallState
    <2>2. e.pc = "cleanup"
      BY <1>3 DEF cleanup_visit
    <2>3. PICK x : \/ call' = [call EXCEPT ![thread] = [e EXCEPT !.pc = "reap", !.child = x]]
                   \/ call' = [call EXCEPT ![thread] = [e EXCEPT !.child = x]]
      BY <1>3 DEF cleanup_visit
    <2>4. /\ [e EXCEPT !.pc = "reap", !.child = x].pc \in {"idle", "cleanup", "reap"}
          /\ [e EXCEPT !.child = x].pc \in {"idle", "cleanup", "reap"}
      BY <2>1, <2>2
    <2>5. CASE call' = [call EXCEPT ![thread] = [e EXCEPT !.pc = "reap", !.child = x]]
      <3> WITNESS [e EXCEPT !.pc = "reap", !.child = x]
      <3> QED BY <2>4, <2>5
    <2>6. CASE call' = [call EXCEPT ![thread] = [e EXCEPT !.child = x]]
      <3> WITNESS [e EXCEPT !.child = x]
      <3> QED BY <2>4, <2>6
    <2> QED BY <2>3, <2>5, <2>6
  <1>4. CASE cleanup_reap
    <2>1. \A x : [e EXCEPT !.pc = "cleanup", !.child = x].pc = "cleanup"
      BY <1>1 DEF CallState
    <2>2. \E x : call' = [call EXCEPT ![thread] = [e EXCEPT !.pc = "cleanup", !.child = x]]
      BY <1>4 DEF cleanup_reap
    <2> QED BY <2>1, <2>2
  <1>5. CASE cleanup_end
    <2>1. call' = [call EXCEPT ![thread] = Idle] /\ Idle.pc = "idle"
      BY <1>5 DEF cleanup_end, Idle
    <2> QED BY <2>1
  <1> QED BY <1>2, <1>3, <1>4, <1>5 DEF cleanup, cleanup_goes

LEMMA LoadCleanup ==
    ASSUME IInv, LoadInv, cleanup
    PROVE  LoadInv' /\ nullref' \subseteq nullref
                  \cup {"proc_destroy", "mem_free_pgdir", "processes_cleanup", "SLIST_REMOVE"}
  <1>1. thread \in Thread /\ call \in [Thread -> CallState]
    BY DEF IInv, Core, CoreType, RestType
  <1>2. call[thread].pc \in {"idle", "cleanup", "reap"}
    BY DEF cleanup, cleanup_goes, cleanup_begin, cleanup_visit, cleanup_reap,
           cleanup_reap_freed, cleanup_end, Calling
  <1>3. \A t \in Thread : ~Loading(t)
    BY <1>1, <1>2 DEF LoadInv, Loading
  <1>4. CASE cleanup_reap_freed
    BY <1>3, <1>4 DEF cleanup_reap_freed, RemoveFreed, LoadInv, Loading
  <1>5. ASSUME ~cleanup_reap_freed PROVE LoadInv'
    <2>0. PICK c : call' = [call EXCEPT ![thread] = c] /\ c.pc \in {"idle", "cleanup", "reap"}
      BY <1>5, CleanupCall
    <2>1. call'[thread].pc \in {"idle", "cleanup", "reap"}
          /\ \A t \in Thread \ {thread} : call'[t] = call[t]
      BY <1>1, <2>0
    <2>2. ASSUME NEW t \in Thread PROVE ~Loading(t)'
      <3>1. CASE t = thread
        BY <2>1, <3>1 DEF Loading
      <3>2. CASE t # thread
        BY <2>1, <3>2, <1>3 DEF Loading
      <3> QED BY <3>1, <3>2
    <2> QED BY <2>2 DEF LoadInv
  <1>6. nullref' \subseteq nullref
           \cup {"proc_destroy", "mem_free_pgdir", "processes_cleanup", "SLIST_REMOVE"}
    BY DEF cleanup, cleanup_goes, cleanup_begin, cleanup_visit, cleanup_reap,
           cleanup_reap_freed, cleanup_end, Remove, RemoveFreed, CursorFreed
  <1> QED BY <1>4, <1>5, <1>6

\* proc_exec itself: it enters with a new pid, which is no thread's, and with
\* the flag off (irq_restore gives back what irq_disable found); it leaves in
\* one step with the flag it came with.
LEMMA LoadExec ==
    ASSUME IInv, LoadInv, IrqFlagsKept, exec
    PROVE  LoadInv' /\ nullref' \subseteq nullref
                         \cup {"proc_destroy", "mem_free_pgdir", "proc_switch_pgdir"}
  <1> DEFINE c == call[thread]
  <1>1. thread \in Thread /\ call \in [Thread -> CallState] /\ c \in CallState
    BY DEF IInv, Core, CoreType, RestType
  <1>2. \A t \in Thread \ {thread} : ~Loading(t)
    BY DEF LoadInv
  <1>3. Loading(thread) => ~iflag /\ c.child \in Live /\ c.child # thread
    BY <1>1 DEF LoadInv
  <1>4. CASE exec_reject
    <2>1. ~Loading(thread) /\ call' = call /\ nullref' = nullref
      BY <1>4 DEF exec_reject, Calling, Loading
    <2> QED BY <2>1, <1>2 DEF LoadInv, Loading
  <1>5. CASE exec_create
    <2>1. PICK d \in NewDir(TRUE), n \in 0..MaxSegs :
             /\ Enter(process_curr, d)
             /\ call' = [call EXCEPT ![thread] =
                   [Idle EXCEPT !.pc = "seg", !.flags = iflag, !.child = next_pid,
                                !.curr = process_curr, !.segs = n]]
      BY <1>5 DEF exec_create
    <2>2. next_pid \in Live'
      <3>1. next_pid \in Pid /\ Link(next_pid)
        BY <2>1 DEF Enter
      <3> QED BY <3>1, LinkStep DEF IInv, Core
    <2>3. thread < next_pid /\ thread # next_pid
      BY <1>1, PidNumbers DEF IInv, Core, CoreType, Unused, Thread
    <2>4. thread' = thread /\ iflag' = FALSE /\ nullref' = nullref
      BY <1>5 DEF exec_create, Restored
    <2>5. call'[thread].child = next_pid /\ \A t \in Thread \ {thread} : call'[t] = call[t]
      BY <1>1, <2>1 DEF Idle
    <2> QED BY <1>2, <2>2, <2>3, <2>4, <2>5 DEF LoadInv, Loading
  <1>9. Loading(thread) => PointsTo(c.child) = {c.child} /\ ChildFreed(c.child) = {}
    BY <1>3 DEF PointsTo, ChildFreed
  <1>6. CASE exec_skip \/ exec_map \/ exec_read
    <2>1. Loading(thread)
      BY <1>6 DEF exec_skip, exec_map, exec_read, AtSegment, Loading
    <2>2. call'[thread].child = c.child /\ \A t \in Thread \ {thread} : call'[t] = call[t]
      <3>1. \A w, x, y, z :
               /\ [c EXCEPT !.segs = x].child = c.child
               /\ [c EXCEPT !.pc = w, !.segs = x, !.child = c.child, !.curr = y,
                            !.old = z].child = c.child
               /\ [c EXCEPT !.pc = x, !.curr = y].child = c.child
        BY <1>1 DEF CallState
      <3>2. \A e : [call EXCEPT ![thread] = e][thread] = e
        BY <1>1
      <3>3. CASE exec_skip
        BY <1>1, <3>1, <3>2, <3>3 DEF exec_skip
      <3>4. CASE exec_map
        <4>1. PICK p \in PointsTo(c.child), q \in PointsTo(c.curr) :
                 call' = [call EXCEPT ![thread] =
                    [c EXCEPT !.pc = "mapped", !.segs = c.segs - 1, !.child = p, !.curr = q,
                              !.old = IF q = NoProc THEN LowWord ELSE regs[q].cr3]]
          BY <3>4 DEF exec_map
        <4>2. p = c.child
          BY <1>9, <2>1
        <4> QED BY <1>1, <3>1, <3>2, <4>1, <4>2
      <3>5. CASE exec_read
        BY <1>1, <3>1, <3>2, <3>5 DEF exec_read
      <3> QED BY <1>6, <3>3, <3>4, <3>5
    <2>3. thread' = thread /\ iflag' = iflag /\ Live' = Live
      BY <1>6 DEF exec_skip, exec_map, exec_read, cpu, table, Live
    <2>4. nullref' \subseteq nullref \cup {"proc_switch_pgdir"}
      BY <1>6, <1>9, <2>1 DEF exec_skip, exec_map, exec_read, SwitchPgdir
    <2> QED BY <1>2, <1>3, <2>1, <2>2, <2>3, <2>4 DEF LoadInv, Loading
  <1>7. CASE exec_read_fails \/ exec_done
    <2>1. call' = [call EXCEPT ![thread] = Idle]
      BY <1>7 DEF exec_read_fails, exec_done, Return
    <2>2. \A t \in Thread : ~Loading(t)'
      BY <1>1, <1>2, <2>1 DEF Loading, Idle
    <2>3. nullref' \subseteq nullref \cup {"proc_destroy", "mem_free_pgdir"}
      <3>1. ChildFreed(c.child) = {}
        BY <1>7, <1>9 DEF exec_read_fails, exec_done, AtSegment, Loading
      <3> QED BY <1>7, <3>1 DEF exec_read_fails, exec_done, Remove
    <2> QED BY <2>2, <2>3 DEF LoadInv
  <1>8. CASE exec_read_fails_freed
    BY <1>3, <1>8 DEF exec_read_fails_freed, AtSegment, Loading
  <1> QED BY <1>4, <1>5, <1>6, <1>7, <1>8 DEF exec, exec_goes

LEMMA LoadInvariance == ASSUME IrqFlagsKept PROVE Spec => [](LoadInv /\ ExecKept)
  <1>1. Init => LoadInv /\ ExecKept
    BY DEF Init, Idle, LoadInv, Loading, ExecKept
  <1>2. IInv /\ LoadInv /\ ExecKept /\ [Next]_vars => (LoadInv /\ ExecKept)'
    <2> SUFFICES ASSUME IInv, LoadInv, ExecKept, [Next]_vars
                 PROVE  (LoadInv /\ ExecKept)'
      OBVIOUS
    <2>1. LoadInv' /\ nullref' \subseteq nullref \cup
              {"proc_destroy", "mem_free_pgdir", "proc_switch_pgdir", "processes_cleanup",
               "SLIST_REMOVE"}
      <3>1. CASE exec
        BY <3>1, LoadExec
      <3>2. CASE cleanup
        BY <3>2, LoadCleanup
      <3>3. CASE UNCHANGED vars
        <4>1. call' = call /\ thread' = thread /\ iflag' = iflag /\ nullref' = nullref
              /\ processes' = processes
          BY <3>3 DEF vars, table, cpu
        <4> QED BY <4>1 DEF LoadInv, Loading, Live
      <3>4. CASE Next /\ ~exec /\ ~cleanup
        BY <3>4, LoadTable DEF Next
      <3> QED BY <3>1, <3>2, <3>3, <3>4
    <2> QED BY <2>1 DEF ExecKept
  <1> QED BY <1>1, <1>2, Invariance, PTL DEF Spec

\* Where irq_restore gives back what irq_disable found, no process runs before
\* proc_exec has loaded it (proc.c:210-273), however many processes there are
\* and whatever else the threads call.
THEOREM LoadingSafe == ASSUME IrqFlagsKept PROVE Spec => []LoadingNotRun
  <1>1. LoadInv => LoadingNotRun
    BY DEF LoadInv, LoadingNotRun, Loading
  <1> QED BY <1>1, LoadInvariance, PTL

\* Under the same assumption the interrupt bracket of proc_exec (proc.c:212,
\* 272) is enough: it never goes on with a child another thread destroyed.
THEOREM ExecChildKept == ASSUME IrqFlagsKept PROVE Spec => []ExecKept
  BY LoadInvariance, PTL

----------------------------------------------------------------------------
(* Taking turns *)

\* x[k] had its turn k ticks before the last, and whose turn it was came next.
Rotation(s, n, x) ==
    /\ x \in [0..(n - 1) -> SlistElems(s)]
    /\ \A k \in 0..(n - 2) : x[k] = SlistNext(s, x[k + 1], s[1])

\* The turn goes one position on, and from the last position to the first.
LEMMA TurnPosition ==
    ASSUME NEW S, NEW s \in Seq(S), SlistNoDup(s), NEW e \in SlistElems(s)
    PROVE  SlistFind(s, SlistNext(s, e, s[1]))
              = IF SlistFind(s, e) < Len(s) THEN SlistFind(s, e) + 1 ELSE 1
  <1>1. Len(s) \in Nat /\ SlistFind(s, e) \in 1..Len(s)
    BY FindPosition
  <1>2. \A i \in 1..Len(s) : SlistFind(s, s[i]) = i
    <2> TAKE i \in 1..Len(s)
    <2>1. s[i] \in SlistElems(s)
      BY DEF SlistElems
    <2>2. SlistFind(s, s[i]) \in 1..Len(s) /\ s[SlistFind(s, s[i])] = s[i]
      BY <2>1, FindPosition
    <2> QED BY <2>2 DEF SlistNoDup
  <1>3. CASE SlistFind(s, e) < Len(s)
    <2>1. SlistFind(s, e) + 1 \in 1..Len(s)
      BY <1>1, <1>3
    <2> QED BY <2>1, <1>2, <1>3 DEF SlistNext
  <1>4. CASE ~(SlistFind(s, e) < Len(s))
    <2>1. 1 \in 1..Len(s) /\ SlistNext(s, e, s[1]) = s[1]
      BY <1>1, <1>4 DEF SlistNext
    <2> QED BY <2>1, <1>2, <1>4
  <1> QED BY <1>3, <1>4

\* Between two turns of p everyone else has one.
LEMMA TurnBetween ==
    ASSUME NEW S, NEW s \in Seq(S), SlistNoDup(s), NEW n \in Nat \ {0}, NEW x,
           Rotation(s, n, x), NEW p \in SlistElems(s), NEW q \in SlistElems(s), p # q,
           NEW a \in 0..(n - 1), NEW b \in 0..(n - 1), a < b, x[a] = p, x[b] = p
    PROVE  \E j \in 0..(n - 1) : a < j /\ j < b /\ x[j] = q
  <1> DEFINE at == [k \in 0..(n - 1) |-> SlistFind(s, x[k])]
             P == SlistFind(s, p)
             Q == SlistFind(s, q)
             L == Len(s)
  <1>1. L \in Nat /\ P \in 1..L /\ Q \in 1..L /\ P # Q
    <2>1. s[P] = p /\ s[Q] = q
      BY FindPosition
    <2> QED BY <2>1, FindPosition
  <1>2. \A k \in 0..(n - 1) : at[k] \in 1..L /\ x[k] = s[at[k]]
    BY FindPosition DEF Rotation
  <1>3. \A k \in 0..(n - 2) : at[k] = IF at[k + 1] < L THEN at[k + 1] + 1 ELSE 1
    <2> TAKE k \in 0..(n - 2)
    <2>1. k \in 0..(n - 1) /\ k + 1 \in 0..(n - 1)
      OBVIOUS
    <2>2. x[k + 1] \in SlistElems(s) /\ x[k] = SlistNext(s, x[k + 1], s[1])
      BY <2>1 DEF Rotation
    <2> QED BY <2>1, <2>2, TurnPosition
  <1>4. at[a] = P /\ at[b] = P
    OBVIOUS
  <1>5. \A k \in 0..(n - 1) : at[k] = Q => x[k] = q
    BY <1>2, FindPosition
  <1> HIDE DEF at, P, Q, L
  \* From the earlier turn of p on the position goes up to the end of the list.
  <1>6. \A i \in 0..(b - a) : P + i <= L => at[b - i] = P + i
    <2> DEFINE T == {i \in 0..(b - a) : P + i <= L => at[b - i] = P + i}
    <2>1. 0 \in T
      BY <1>1, <1>4
    <2>2. ASSUME NEW i \in 0..((b - a) - 1), i \in T
          PROVE  i + 1 \in T
      <3>1. b - (i + 1) \in 0..(n - 2) /\ (b - (i + 1)) + 1 = b - i /\ i + 1 \in 0..(b - a)
        OBVIOUS
      <3>2. P + (i + 1) <= L => at[b - i] = P + i /\ at[b - i] < L
        BY <1>1, <2>2
      <3>3. at[b - (i + 1)] = IF at[b - i] < L THEN at[b - i] + 1 ELSE 1
        BY <1>3, <3>1
      <3>4. P + (i + 1) <= L => at[b - (i + 1)] = P + (i + 1)
        BY <3>2, <3>3, <1>1
      <3> QED BY <3>1, <3>4
    <2>3. b - a \in Nat
      OBVIOUS
    <2> HIDE DEF T
    <2>4. \A i \in 0..(b - a) : i \in T
      BY <2>1, <2>2, <2>3, SetInduction
    <2> QED BY <2>4 DEF T
  \* Back from the later turn of p it goes down to the head of the list.
  <1>7. \A i \in 0..(b - a) : P - i >= 1 => at[a + i] = P - i
    <2> DEFINE T == {i \in 0..(b - a) : P - i >= 1 => at[a + i] = P - i}
    <2>1. 0 \in T
      BY <1>1, <1>4
    <2>2. ASSUME NEW i \in 0..((b - a) - 1), i \in T
          PROVE  i + 1 \in T
      <3>1. a + i \in 0..(n - 2) /\ (a + i) + 1 = a + (i + 1) /\ i + 1 \in 0..(b - a)
            /\ a + (i + 1) \in 0..(n - 1)
        OBVIOUS
      <3>2. P - (i + 1) >= 1 => at[a + i] = P - i /\ at[a + i] > 1
        BY <1>1, <2>2
      <3>3. at[a + i] = IF at[a + (i + 1)] < L THEN at[a + (i + 1)] + 1 ELSE 1
        BY <1>3, <3>1
      <3>4. at[a + (i + 1)] \in 1..L
        BY <1>2, <3>1
      <3>5. P - (i + 1) >= 1 => at[a + (i + 1)] = P - (i + 1)
        BY <3>2, <3>3, <3>4, <1>1
      <3> QED BY <3>1, <3>5
    <2>3. b - a \in Nat
      OBVIOUS
    <2> HIDE DEF T
    <2>4. \A i \in 0..(b - a) : i \in T
      BY <2>1, <2>2, <2>3, SetInduction
    <2> QED BY <2>4 DEF T
  <1>8. CASE P < Q
    <2>1. Q - P < b - a
      <3> SUFFICES ASSUME Q - P >= b - a PROVE FALSE
        BY <1>1
      <3>1. b - a \in 0..(b - a) /\ P + (b - a) <= L /\ b - (b - a) = a
        BY <1>1
      <3>2. at[b - (b - a)] = P + (b - a)
        BY <3>1, <1>6
      <3>3. P = P + (b - a)
        BY <3>1, <3>2, <1>4
      <3> QED BY <3>3, <1>1
    <2>2. Q - P \in 0..(b - a) /\ P + (Q - P) = Q /\ Q <= L
      BY <2>1, <1>1, <1>8
    <2>3. at[b - (Q - P)] = Q
      BY <2>2, <1>6
    <2>4. b - (Q - P) \in 0..(n - 1) /\ a < b - (Q - P) /\ b - (Q - P) < b
      BY <2>1, <1>1, <1>8
    <2> QED BY <2>3, <2>4, <1>5
  <1>9. CASE Q < P
    <2>1. P - Q < b - a
      <3> SUFFICES ASSUME P - Q >= b - a PROVE FALSE
        BY <1>1
      <3>1. b - a \in 0..(b - a) /\ P - (b - a) >= 1 /\ a + (b - a) = b
        BY <1>1
      <3>2. at[a + (b - a)] = P - (b - a)
        BY <3>1, <1>7
      <3>3. P = P - (b - a)
        BY <3>1, <3>2, <1>4
      <3> QED BY <3>3, <1>1
    <2>2. P - Q \in 0..(b - a) /\ P - (P - Q) = Q /\ Q >= 1
      BY <2>1, <1>1, <1>9
    <2>3. at[a + (P - Q)] = Q
      BY <2>2, <1>7
    <2>4. a + (P - Q) \in 0..(n - 1) /\ a < a + (P - Q) /\ a + (P - Q) < b
      BY <2>1, <1>1, <1>9
    <2> QED BY <2>3, <2>4, <1>5
  <1> QED BY <1>1, <1>8, <1>9

\* The turns of p but one are followed, in order, by turns of q.
LEMMA TurnsFair ==
    ASSUME NEW S, NEW s \in Seq(S), SlistNoDup(s), NEW n \in Nat \ {0}, NEW x,
           Rotation(s, n, x), NEW p \in SlistElems(s), NEW q \in SlistElems(s)
    PROVE  Cardinality({k \in 0..(n - 1) : x[k] = p})
              <= Cardinality({k \in 0..(n - 1) : x[k] = q}) + 1
  <1> DEFINE I == 0..(n - 1)
             A == {k \in I : x[k] = p}
             B == {k \in I : x[k] = q}
             Above(k) == {j \in B : k < j}
             C == {k \in A : Above(k) # {}}
  <1>1. IsFiniteSet(I)
    BY FS_Interval
  <1>2. IsFiniteSet(A) /\ IsFiniteSet(B) /\ IsFiniteSet(C)
    <2>1. A \in SUBSET I /\ B \in SUBSET I /\ C \in SUBSET I
      OBVIOUS
    <2> HIDE DEF A, B, C, I
    <2> QED BY <2>1, <1>1, FS_Subset
  <1>3. Cardinality(A) \in Nat /\ Cardinality(B) \in Nat /\ Cardinality(C) \in Nat
    <2> HIDE DEF A, B, C
    <2> QED BY <1>2, FS_CardinalityType
  <1>4. CASE p = q
    <2>1. Cardinality(A) <= Cardinality(B) + 1
      BY <1>3, <1>4
    <2> QED BY <2>1
  <1>5. CASE p # q
    <2>1. \A a, b \in A : a < b => \E j \in B : a < j /\ j < b
      BY <1>5, TurnBetween
    <2>2. \E i \in Int : A \subseteq C \cup {i}
      <3>1. CASE A \subseteq C
        BY <3>1
      <3>2. CASE ~(A \subseteq C)
        <4>1. PICK i \in A : i \notin C
          BY <3>2
        <4>2. ASSUME NEW k \in A, k \notin C PROVE k = i
          <5>1. ~(k < i) /\ ~(i < k)
            BY <2>1, <4>1, <4>2
          <5>2. k \in Int /\ i \in Int
            OBVIOUS
          <5> QED BY <5>1, <5>2
        <4>3. i \in Int
          OBVIOUS
        <4> HIDE DEF A, C
        <4>4. A \subseteq C \cup {i}
          BY <4>2
        <4> QED BY <4>3, <4>4
      <3> QED BY <3>1, <3>2
    <2>3. Cardinality(A) <= Cardinality(C) + 1
      <3>1. PICK i \in Int : A \subseteq C \cup {i}
        BY <2>2
      <3> HIDE DEF A, C
      <3>2. IsFiniteSet(C \cup {i}) /\ Cardinality(C \cup {i}) <= Cardinality(C) + 1
        <4>1. IsFiniteSet(C \cup {i})
          BY <1>2, FS_AddElement
        <4>2. Cardinality(C \cup {i}) = IF i \in C THEN Cardinality(C) ELSE Cardinality(C) + 1
          BY <1>2, FS_AddElement
        <4> QED BY <4>1, <4>2, <1>3
      <3>3. Cardinality(A) <= Cardinality(C \cup {i})
        BY <3>1, <3>2, FS_Subset
      <3>4. Cardinality(C \cup {i}) \in Nat
        BY <3>2, FS_CardinalityType
      <3> QED BY <3>2, <3>3, <3>4, <1>3
    <2>4. Cardinality(C) <= Cardinality(B)
      <3> DEFINE f == [k \in C |-> CHOOSE j \in Above(k) : \A l \in Above(k) : j <= l]
      <3>1. \A k \in C : f[k] \in Above(k) /\ \A l \in Above(k) : f[k] <= l
        <4> TAKE k \in C
        <4>1. Above(k) \subseteq Nat /\ Above(k) # {}
          OBVIOUS
        <4>2. \E j \in Above(k) : \A l \in Above(k) : j <= l
          <5> HIDE DEF Above
          <5> QED BY <4>1, LeastOf
        <4> HIDE DEF Above
        <4> QED BY <4>2
      <3>2. f \in [C -> B] /\ \A k \in C : k < f[k]
        BY <3>1
      <3>3. ASSUME NEW k \in C, NEW m \in C, k < m PROVE f[k] # f[m]
        <4>1. k \in A /\ m \in A
          OBVIOUS
        <4>2. PICK j \in B : k < j /\ j < m
          BY <2>1, <3>3, <4>1
        <4>3. j \in Above(k)
          BY <4>2
        <4>4. f[k] <= j /\ m < f[m] /\ f[k] \in B /\ f[m] \in B
          BY <3>1, <3>2, <4>3
        <4>5. B \subseteq Int /\ m \in Int
          OBVIOUS
        <4> HIDE DEF f, B, C
        <4>6. f[k] \in Int /\ f[m] \in Int /\ j \in Int
          BY <4>4, <4>5
        <4> QED BY <4>2, <4>4, <4>5, <4>6
      <3>4. \A k, m \in C : f[k] = f[m] => k = m
        <4>1. C \subseteq Int
          OBVIOUS
        <4> HIDE DEF f, C
        <4> QED BY <3>3, <4>1
      <3> HIDE DEF f, B, C
      <3>5. f \in Injection(C, B)
        BY <3>2, <3>4 DEF Injection, IsInjective
      <3> QED BY <3>5, <1>2, FS_Injection
    <2>5. Cardinality(A) <= Cardinality(B) + 1
      <3> HIDE DEF A, B, C
      <3> QED BY <2>3, <2>4, <1>3
    <2> QED BY <2>5
  <1> QED BY <1>4, <1>5

----------------------------------------------------------------------------
(* The usage record *)

\* Where the tick that came k ticks before the last is remembered, when the next
\* one goes to t; and to whom it went.
AgeSlot(t, k) == IF k < t THEN t - 1 - k ELSE t - 1 - k + SCHED_RECCOUNT
Charged(k) == sched_rec[AgeSlot(ticks, k)]

\* The ticks counted by the history went round the list, and the current process
\* is next after the one that had the last of them.
Turns ==
    /\ steady \in 0..SCHED_RECCOUNT
    /\ \A k \in 0..(steady - 1) : Charged(k) \in Live
    /\ steady > 0 => /\ curr_pid \in Live
                     /\ curr_pid = SlistNext(processes, Charged(0), processes[1])
    /\ \A k \in 0..(steady - 2) :
          Charged(k) = SlistNext(processes, Charged(k + 1), processes[1])

LEMMA AgeSlots ==
    ASSUME NEW t \in 0..(SCHED_RECCOUNT - 1), NEW k \in 0..(SCHED_RECCOUNT - 1)
    PROVE  /\ AgeSlot(t, k) \in 0..(SCHED_RECCOUNT - 1)
           /\ AgeSlot(t, AgeSlot(t, k)) = k
  BY PidNumbers DEF AgeSlot

\* A tick makes every other one tick older, and none of the younger is lost.
LEMMA AgeTick ==
    ASSUME NEW t \in 0..(SCHED_RECCOUNT - 1)
    PROVE  LET u == (t + 1) % SCHED_RECCOUNT
           IN  /\ u \in 0..(SCHED_RECCOUNT - 1)
               /\ AgeSlot(u, 0) = t
               /\ \A k \in 0..(SCHED_RECCOUNT - 2) :
                     AgeSlot(u, k + 1) = AgeSlot(t, k) /\ AgeSlot(t, k) # t
  <1> DEFINE R == SCHED_RECCOUNT
             u == (t + 1) % R
  <1>1. R \in Nat \ {0}
    BY PidNumbers
  <1>2. u = IF t + 1 = R THEN 0 ELSE t + 1
    <2>1. CASE t + 1 = R
      <3>1. R % R = 0
        BY <1>1
      <3> QED BY <3>1, <2>1
    <2>2. CASE t + 1 # R
      <3>1. t + 1 \in 0..(R - 1)
        BY <2>2, <1>1
      <3>2. \A i \in 0..(R - 1) : i % R = i
        BY <1>1
      <3> QED BY <3>1, <3>2, <2>2
    <2> QED BY <2>1, <2>2
  <1> HIDE DEF u
  <1>3. u \in 0..(R - 1) /\ AgeSlot(u, 0) = t
    BY <1>1, <1>2 DEF AgeSlot
  <1>4. \A k \in 0..(R - 2) : AgeSlot(u, k + 1) = AgeSlot(t, k) /\ AgeSlot(t, k) # t
    BY <1>1, <1>2 DEF AgeSlot
  <1> QED BY <1>3, <1>4 DEF u

LEMMA TurnsSchedule ==
    ASSUME IInv, Turns, schedule,
           steady' = IF steady < SCHED_RECCOUNT THEN steady + 1 ELSE steady
    PROVE  Turns'
  <1> DEFINE R == SCHED_RECCOUNT
  <1>1. R \in Nat \ {0} /\ ticks \in 0..(R - 1) /\ steady \in 0..R
    BY PidNumbers DEF IInv, RestType, Turns
  <1>2. /\ processes' = processes /\ Live' = Live /\ curr_pid \in Live
        /\ curr_pid' = process_next
        /\ ticks' = (ticks + 1) % R
        /\ sched_rec' = [sched_rec EXCEPT ![ticks] = curr_pid]
        /\ sched_rec \in [0..(R - 1) -> Pid \cup {NoProc}]
    BY DEF schedule, ChargeTick, Live, IInv, RestType
  <1>3. steady' \in 1..R /\ steady' - 1 \in 0..steady /\ steady' <= steady + 1
    BY <1>1
  <1>4. curr_pid' \in Live' /\ curr_pid' = SlistNext(processes, curr_pid, processes[1])
    <2>1. process_next \in Live
      BY <1>2, NextLive DEF IInv, Core
    <2> QED BY <2>1, <1>2 DEF process_next
  <1>5. Charged(0)' = curr_pid
    BY <1>1, <1>2, AgeTick DEF Charged
  <1>6. \A k \in 0..(R - 2) : Charged(k + 1)' = Charged(k)
    <2> TAKE k \in 0..(R - 2)
    <2>1. AgeSlot(ticks', k + 1) = AgeSlot(ticks, k) /\ AgeSlot(ticks, k) # ticks
      BY <1>1, <1>2, AgeTick
    <2>2. k \in 0..(R - 1)
      BY <1>1
    <2>3. AgeSlot(ticks, k) \in 0..(R - 1)
      BY <1>1, <2>2, AgeSlots
    <2> QED BY <2>1, <2>3, <1>2 DEF Charged
  <1>7. ASSUME NEW k \in 0..(steady' - 1)
        PROVE  Charged(k)' \in Live'
    <2>1. CASE k = 0
      BY <2>1, <1>2, <1>5
    <2>2. CASE k # 0
      <3>1. k - 1 \in 0..(R - 2) /\ k - 1 \in 0..(steady - 1) /\ (k - 1) + 1 = k
        BY <2>2, <1>1, <1>3
      <3>2. Charged((k - 1) + 1)' = Charged(k - 1)
        BY <3>1, <1>6
      <3> QED BY <3>1, <3>2, <1>2 DEF Turns
    <2> QED BY <2>1, <2>2
  <1>8. ASSUME NEW k \in 0..(steady' - 2)
        PROVE  Charged(k)' = SlistNext(processes, Charged(k + 1)', processes[1])
    <2>1. k \in 0..(R - 2) /\ steady > 0
      BY <1>1, <1>3
    <2>2. Charged(k + 1)' = Charged(k)
      BY <2>1, <1>6
    <2>3. CASE k = 0
      <3>1. curr_pid = SlistNext(processes, Charged(0), processes[1])
        BY <2>1 DEF Turns
      <3> QED BY <2>2, <2>3, <3>1, <1>5
    <2>4. CASE k # 0
      <3>1. k - 1 \in 0..(R - 2) /\ k - 1 \in 0..(steady - 2) /\ (k - 1) + 1 = k
        BY <2>4, <1>1, <1>3
      <3>2. Charged((k - 1) + 1)' = Charged(k - 1)
        BY <3>1, <1>6
      <3>3. Charged(k - 1) = SlistNext(processes, Charged((k - 1) + 1), processes[1])
        BY <3>1 DEF Turns
      <3> QED BY <2>2, <3>1, <3>2, <3>3
    <2> QED BY <2>3, <2>4
  <1>9. steady' \in 0..R
    BY <1>3
  <1>10. processes' = processes
    BY <1>2
  <1>11. \A k \in 0..(steady' - 2) :
            Charged(k)' = SlistNext(processes', Charged(k + 1)', processes'[1])
    BY <1>8, <1>10
  <1>12. curr_pid' = SlistNext(processes', Charged(0)', processes'[1])
    BY <1>4, <1>5, <1>10
  <1> QED BY <1>4, <1>7, <1>9, <1>11, <1>12 DEF Turns

\* A step that is no tick and leaves the list alone leaves the record and the
\* current process alone.
LEMMA TurnsElse ==
    ASSUME IInv, Next, ~schedule, processes' = processes
    PROVE  UNCHANGED <<ticks, sched_rec, curr_pid>>
  <1>1. processes \in Seq(Pid) /\ Len(processes) \in Nat
    BY DEF IInv, Core, CoreType
  <1>2. ~ \E par, d : Enter(par, d)
    <2> SUFFICES ASSUME NEW par, NEW d, Enter(par, d) PROVE FALSE
      OBVIOUS
    <2>1. next_pid \in Pid /\ processes' = SlistInsertHead(processes, next_pid)
      BY DEF Enter, Link
    <2>2. Len(processes') = Len(processes) + 1
      BY <1>1, <2>1, InsertOrder
    <2> QED BY <1>1, <2>2
  <1>3. ~ \E p \in Live : \E used : Remove(p, used)
    <2> SUFFICES ASSUME NEW p \in Live, NEW used, Remove(p, used) PROVE FALSE
      OBVIOUS
    <2>1. Live' = Live \ {p}
      BY UnlinkStep DEF IInv, Core, Remove
    <2>2. Live' = Live
      BY DEF Live
    <2> QED BY <2>1, <2>2
  <1>4. ASSUME NEW par \in Live \cup {NoProc}, NEW user \in BOOLEAN
        PROVE  ~proc_create(par, user)
    BY <1>2 DEF proc_create
  <1>5. ~exec_create
    BY <1>2 DEF exec_create
  <1>6. \A p \in Live : ~proc_destroy(p)
    BY <1>3 DEF proc_destroy
  <1>7. ~cleanup_reap
    BY <1>3 DEF cleanup_reap
  <1>8. ~exec_read_fails
    BY <1>3 DEF exec_read_fails
  <1>9. CASE \/ sti
             \/ \E par \in Live : proc_create_fails(par)
             \/ \E p \in Live, s \in Signals : proc_sigenter(p, s)
             \/ \E p \in Live : proc_sigleave(p) \/ set_handler(p)
    BY <1>9 DEF sti, proc_create_fails, proc_sigenter, proc_sigleave, set_handler,
                table, record
  <1>10. CASE cleanup
    BY <1>7, <1>10 DEF cleanup, cleanup_goes, cleanup_begin, cleanup_visit, cleanup_end,
                       cleanup_reap_freed, RemoveFreed, table, record
  <1>11. CASE exec
    BY <1>5, <1>8, <1>11 DEF exec, exec_goes, exec_reject, exec_skip, exec_map, exec_read,
                             exec_done, exec_read_fails_freed, RemoveFreed, table, record
  <1> QED BY <1>4, <1>6, <1>9, <1>10, <1>11 DEF Next

LEMMA TurnsStep ==
    ASSUME IInv, Turns, [ShareNext]_<<vars, steady, passed>>
    PROVE  Turns'
  <1>1. CASE UNCHANGED <<vars, steady, passed>>
    <2>1. UNCHANGED <<processes, curr_pid, ticks, sched_rec, steady>>
      BY <1>1 DEF vars, table, record
    <2> QED BY <2>1 DEF Turns, Charged, Live
  <1>2. CASE ShareNext /\ processes' # processes
    <2>1. steady' = 0
      BY <1>2 DEF ShareNext
    <2>2. 0 \in 0..SCHED_RECCOUNT
      BY PidNumbers
    <2> QED BY <2>1, <2>2 DEF Turns
  <1>3. CASE ShareNext /\ processes' = processes /\ schedule
    BY <1>3, TurnsSchedule DEF ShareNext
  <1>4. CASE ShareNext /\ processes' = processes /\ ~schedule
    <2>1. steady' = steady /\ Next
      BY <1>4 DEF ShareNext
    <2>2. UNCHANGED <<ticks, sched_rec, curr_pid>>
      BY <1>4, <2>1, TurnsElse
    <2> QED BY <1>4, <2>1, <2>2 DEF Turns, Charged, Live
  <1> QED BY <1>1, <1>2, <1>3, <1>4

\* A record full of turns is shared out evenly.
LEMMA TurnsShare ==
    ASSUME IInv, Turns
    PROVE  FairShare
  <1> DEFINE R == SCHED_RECCOUNT
             x == [k \in 0..(R - 1) |-> Charged(k)]
  <1> SUFFICES ASSUME steady = R PROVE
            /\ \A p, q \in Live : sched_getusage(p) <= sched_getusage(q) + 1
            /\ \A i \in 0..(R - 1) : sched_rec[i] \in Live
    BY DEF FairShare
  <1>1. R \in Nat \ {0} /\ ticks \in 0..(R - 1)
    BY PidNumbers DEF IInv, RestType
  <1>2. processes \in Seq(Pid) /\ SlistNoDup(processes)
    BY LiveFacts DEF IInv, Core, CoreType
  <1>3. Rotation(processes, R, x)
    <2>1. \A k \in 0..(R - 1) : x[k] \in SlistElems(processes)
      BY DEF Turns, Live
    <2>2. ASSUME NEW k \in 0..(R - 2)
          PROVE  x[k] = SlistNext(processes, x[k + 1], processes[1])
      <3>1. k \in 0..(R - 1) /\ k + 1 \in 0..(R - 1)
        BY <1>1
      <3>2. Charged(k) = SlistNext(processes, Charged(k + 1), processes[1])
        BY DEF Turns
      <3> QED BY <3>1, <3>2
    <2>3. x \in [0..(R - 1) -> SlistElems(processes)]
      BY <2>1
    <2> HIDE DEF x
    <2> QED BY <2>2, <2>3 DEF Rotation
  <1>4. ASSUME NEW p
        PROVE  sched_getusage(p) = Cardinality({k \in 0..(R - 1) : x[k] = p})
    <2> DEFINE A == {i \in 0..(R - 1) : sched_rec[i] = p}
               B == {k \in 0..(R - 1) : x[k] = p}
               f == [k \in B |-> AgeSlot(ticks, k)]
    <2>1. f \in [B -> A]
      <3> SUFFICES ASSUME NEW k \in B PROVE AgeSlot(ticks, k) \in A
        OBVIOUS
      <3>1. AgeSlot(ticks, k) \in 0..(R - 1)
        BY <1>1, AgeSlots
      <3>2. sched_rec[AgeSlot(ticks, k)] = p
        BY DEF Charged
      <3> QED BY <3>1, <3>2
    <2>2. ASSUME NEW i \in A PROVE AgeSlot(ticks, i) \in B /\ f[AgeSlot(ticks, i)] = i
      <3>1. AgeSlot(ticks, i) \in 0..(R - 1) /\ AgeSlot(ticks, AgeSlot(ticks, i)) = i
        BY <1>1, AgeSlots
      <3>2. AgeSlot(ticks, i) \in B
        BY <3>1 DEF Charged
      <3> QED BY <3>1, <3>2
    <2>3. \A k, m \in B : f[k] = f[m] => k = m
      BY <1>1, AgeSlots
    <2>4. IsFiniteSet(B)
      <3>1. B \in SUBSET (0..(R - 1)) /\ IsFiniteSet(0..(R - 1))
        BY <1>1, FS_Interval
      <3> HIDE DEF B
      <3> QED BY <3>1, FS_Subset
    <2>5. Cardinality(A) = Cardinality(B)
      <3> HIDE DEF A, B, f
      <3>1. f \in Bijection(B, A)
        BY <2>1, <2>2, <2>3 DEF Bijection, Injection, Surjection, IsInjective
      <3>2. ExistsBijection(B, A)
        BY <3>1 DEF ExistsBijection
      <3> QED BY <3>2, <2>4, FS_Bijection
    <2> QED BY <2>5 DEF sched_getusage
  <1>5. ASSUME NEW p \in Live, NEW q \in Live
        PROVE  sched_getusage(p) <= sched_getusage(q) + 1
    <2> HIDE DEF x
    <2>1. Cardinality({k \in 0..(R - 1) : x[k] = p})
             <= Cardinality({k \in 0..(R - 1) : x[k] = q}) + 1
      BY <1>1, <1>2, <1>3, TurnsFair DEF Live
    <2> QED BY <2>1, <1>4
  <1>6. ASSUME NEW i \in 0..(R - 1)
        PROVE  sched_rec[i] \in Live
    <2>1. AgeSlot(ticks, i) \in 0..(R - 1) /\ AgeSlot(ticks, AgeSlot(ticks, i)) = i
      BY <1>1, AgeSlots
    <2>2. Charged(AgeSlot(ticks, i)) \in Live
      BY <2>1 DEF Turns
    <2> QED BY <2>1, <2>2 DEF Charged
  <1> QED BY <1>5, <1>6

\* The scheduler is fair by count: once the process list has stood still for a
\* whole record, whatever its length and whatever the threads call meanwhile, no
\* two processes' usages differ by more than one tick (proc.c:51-58, 199-200,
\* 276-282).
THEOREM ShareSafe == ShareSpec => []FairShare
  <1>1. ShareInit => IInv /\ Turns
    <2>1. ShareInit => Turns
      BY PidNumbers DEF ShareInit, Turns
    <2> QED BY <2>1, InitIInv DEF ShareInit
  <1>2. IInv /\ Turns /\ [ShareNext]_<<vars, steady, passed>> => (IInv /\ Turns)'
    <2> SUFFICES ASSUME IInv, Turns, [ShareNext]_<<vars, steady, passed>>
                 PROVE  (IInv /\ Turns)'
      OBVIOUS
    <2>1. [Next]_vars
      BY DEF ShareNext
    <2> QED BY <2>1, NextIInv, TurnsStep
  <1>3. IInv /\ Turns => FairShare
    BY TurnsShare
  <1> QED BY <1>1, <1>2, <1>3, PTL DEF ShareSpec

----------------------------------------------------------------------------
(* Waiting for a turn *)

\* Those that had a turn while p waits: when the walk down the list is still to
\* reach p, the ones it has passed and those p had before it; when it has passed p,
\* the ones it came by since.
Waiting ==
    /\ passed \in [Pid -> SUBSET Pid]
    /\ \A p \in Pid : p >= next_pid => passed[p] = {}
    /\ curr_pid \in Pid => passed[curr_pid] = {}
    /\ \A p \in Live : \A q \in passed[p] :
          /\ p < curr_pid => q < p \/ q >= curr_pid
          /\ p > curr_pid => curr_pid <= q /\ q < p

\* The next process is the nearest below in the order of pids, or from the last of
\* the list the first.
LEMMA NextBelow ==
    ASSUME CoreType, ListConsistent, curr_pid \in Live
    PROVE  /\ process_next \in Live
           /\ \/ /\ process_next < curr_pid
                 /\ \A q \in Live : q < curr_pid => q <= process_next
              \/ \A q \in Live : curr_pid <= q /\ q <= process_next
  <1> DEFINE k == SlistFind(processes, curr_pid)
             n == Len(processes)
  <1>1. processes \in Seq(Pid) /\ n \in Nat /\ \A i \in 1..n : processes[i] \in Nat
    BY ListNumbers DEF CoreType
  <1>2. k \in 1..n /\ processes[k] = curr_pid
    BY <1>1, FindPosition DEF Live
  <1>3. \A i, j \in 1..n : i < j => processes[i] > processes[j]
    BY DEF ListConsistent
  <1>4. \A q \in Live : \E i \in 1..n : processes[i] = q
    BY DEF Live, SlistElems
  <1>5. process_next = IF k < n THEN processes[k + 1] ELSE processes[1]
    BY DEF process_next, SlistNext
  <1> HIDE DEF k, n
  <1>6. CASE k < n
    <2>1. k + 1 \in 1..n /\ k < k + 1
      BY <1>1, <1>2, <1>6
    <2>2. processes[k + 1] < curr_pid
      BY <1>1, <1>2, <1>3, <2>1
    <2>3. ASSUME NEW q \in Live, q < curr_pid PROVE q <= processes[k + 1]
      <3>1. PICK i \in 1..n : processes[i] = q
        BY <1>4
      <3>2. ~(i <= k)
        BY <1>1, <1>2, <1>3, <2>3, <3>1
      <3>3. i = k + 1 \/ k + 1 < i
        BY <1>1, <1>2, <3>2
      <3> QED BY <1>1, <1>3, <2>1, <3>1, <3>3
    <2> QED BY <1>5, <1>6, <2>2, <2>3, NextLive
  <1>7. CASE k = n
    <2>1. ASSUME NEW q \in Live PROVE curr_pid <= q /\ q <= processes[1]
      <3>1. PICK i \in 1..n : processes[i] = q
        BY <1>4
      <3>2. 1 \in 1..n /\ (i = k \/ i < k) /\ (i = 1 \/ 1 < i)
        BY <1>1, <1>2, <1>7
      <3>3. q \in Nat /\ processes[k] \in Nat /\ processes[1] \in Nat
        BY <1>1, <1>2, <3>1, <3>2
      <3>4. processes[k] <= q
        <4>1. CASE i = k
          BY <3>1, <3>3, <4>1
        <4>2. CASE i < k
          BY <1>2, <1>3, <3>1, <3>3, <4>2
        <4> QED BY <3>2, <4>1, <4>2
      <3>5. q <= processes[1]
        <4>1. CASE i = 1
          BY <3>1, <3>3, <4>1
        <4>2. CASE 1 < i
          BY <1>3, <3>1, <3>2, <3>3, <4>2
        <4> QED BY <3>2, <4>1, <4>2
      <3>6. curr_pid <= q
        BY <1>2, <3>4
      <3> QED BY <3>5, <3>6
    <2>2. ~(k < n)
      BY <1>1, <1>7
    <2>3. process_next = processes[1]
      BY <1>5, <2>2
    <2> QED BY <2>1, <2>3, NextLive
  <1> QED BY <1>1, <1>2, <1>6, <1>7

\* A tick serves no one a second time while another waits.
LEMMA WaitingSchedule ==
    ASSUME IInv, Waiting, schedule,
           passed' = [p \in Pid |-> IF p \in Live \ {curr_pid'} THEN passed[p] \cup {curr_pid'}
                                                                ELSE {}]
    PROVE  Waiting' /\ \A p \in Live \ {curr_pid'} : curr_pid' \notin passed[p]
  <1> DEFINE n == curr_pid'
  <1>1. /\ curr_pid \in Live /\ n = process_next /\ Live' = Live /\ next_pid' = next_pid
    BY DEF schedule, Live
  <1>2. /\ n \in Live
        /\ \/ n < curr_pid /\ \A q \in Live : q < curr_pid => q <= n
           \/ \A q \in Live : curr_pid <= q /\ q <= n
    BY <1>1, NextBelow DEF IInv, Core
  <1>3. Live \subseteq Pid /\ Pid \subseteq Nat /\ \A p \in Live : p < next_pid
    BY LiveFacts, PidNumbers DEF IInv, Core
  <1>4. next_pid \in Nat /\ curr_pid \in Nat /\ n \in Nat /\ n \in Pid
    BY <1>1, <1>2, <1>3, PidNumbers DEF IInv, Core, CoreType
  <1>5. \A p \in Pid : passed[p] \in SUBSET Nat
    BY <1>3 DEF Waiting
  <1>6. /\ passed' \in [Pid -> SUBSET Pid]
        /\ passed'[n] = {}
        /\ \A p \in Live \ {n} : passed'[p] = passed[p] \cup {n}
        /\ \A p \in Pid \ Live : passed'[p] = {}
    BY <1>3, <1>4 DEF Waiting
  <1> HIDE DEF n
  <1>7. ASSUME NEW p \in Live \ {n}
        PROVE  /\ n \notin passed[p]
               /\ \A q \in passed[p] \cup {n} : /\ p < n => q < p \/ q >= n
                                                /\ p > n => n <= q /\ q < p
    <2>1. p \in Nat /\ passed[p] \in SUBSET Nat
      BY <1>3, <1>5
    <2>2. CASE p = curr_pid
      <3>1. passed[p] = {}
        BY <1>3, <2>2 DEF Waiting
      <3> QED BY <1>4, <2>1, <3>1
    <2>3. CASE p < curr_pid
      <3>1. \A q \in passed[p] : q < p \/ q >= curr_pid
        BY <2>3 DEF Waiting
      <3>2. n < curr_pid /\ p < n
        BY <1>2, <1>4, <2>1, <2>3
      <3> QED BY <1>4, <2>1, <3>1, <3>2
    <2>4. CASE p > curr_pid
      <3>1. \A q \in passed[p] : curr_pid <= q /\ q < p
        BY <2>4 DEF Waiting
      <3>2. n < curr_pid \/ p < n
        BY <1>2, <1>4, <2>1, <2>4
      <3> QED BY <1>4, <2>1, <2>4, <3>1, <3>2
    <2> QED BY <1>4, <2>1, <2>2, <2>3, <2>4
  <1>8. \A p \in Live : \A q \in passed'[p] : /\ p < n => q < p \/ q >= n
                                              /\ p > n => n <= q /\ q < p
    BY <1>6, <1>7
  <1>9. \A p \in Pid : p >= next_pid => passed'[p] = {}
    <2> TAKE p \in Pid
    <2>1. p \in Live => ~(p >= next_pid)
      BY <1>3, <1>4
    <2> QED BY <2>1, <1>6
  <1> USE DEF n
  <1>10. curr_pid' \in Pid => passed'[curr_pid'] = {}
    BY <1>6
  <1> QED BY <1>1, <1>6, <1>7, <1>8, <1>9, <1>10 DEF Waiting

\* What every other step may do to the list and the current process.
Moves ==
    /\ Live' \subseteq Live \cup ({next_pid} \cap Pid)
    /\ next_pid' \in {next_pid, next_pid + 1}
    /\ \/ curr_pid' = curr_pid
       \/ curr_pid' = next_pid /\ Live = {}

LEMMA OtherMoves ==
    ASSUME IInv, Next, ~schedule
    PROVE  Moves
  <1>1. ASSUME NEW par, NEW d, Enter(par, d) PROVE Moves
    <2>1. next_pid \in Pid /\ Link(next_pid)
      BY <1>1 DEF Enter
    <2> QED BY <2>1, LinkStep DEF IInv, Core, Moves
  <1>2. ASSUME NEW p \in Live, NEW used, Remove(p, used) PROVE Moves
    <2>1. Live' = Live \ {p} /\ next_pid' = next_pid /\ curr_pid' = curr_pid
      BY <1>2, UnlinkStep DEF IInv, Core, Remove
    <2> QED BY <2>1 DEF Moves
  <1>3. ASSUME UNCHANGED table PROVE Moves
    BY <1>3 DEF table, Moves, Live
  <1>4. CASE \/ \E par \in Live \cup {NoProc}, user \in BOOLEAN : proc_create(par, user)
             \/ exec_create
    BY <1>1, <1>4 DEF proc_create, exec_create
  <1>5. CASE (\E p \in Live : proc_destroy(p)) \/ cleanup_reap \/ exec_read_fails
    BY <1>2, <1>5 DEF proc_destroy, cleanup_reap, exec_read_fails
  <1>6. CASE \/ sti
             \/ \E par \in Live : proc_create_fails(par)
             \/ \E p \in Live, s \in Signals : proc_sigenter(p, s)
             \/ \E p \in Live : proc_sigleave(p) \/ set_handler(p)
    BY <1>3, <1>6 DEF sti, proc_create_fails, proc_sigenter, proc_sigleave, set_handler
  <1>7. CASE cleanup /\ ~cleanup_reap
    BY <1>3, <1>7 DEF cleanup, cleanup_goes, cleanup_begin, cleanup_visit, cleanup_end,
                      cleanup_reap_freed, RemoveFreed
  <1>8. CASE exec /\ ~exec_create /\ ~exec_read_fails
    BY <1>3, <1>8 DEF exec, exec_goes, exec_reject, exec_skip, exec_map, exec_read,
                      exec_done, exec_read_fails_freed, RemoveFreed
  <1> QED BY <1>4, <1>5, <1>6, <1>7, <1>8 DEF Next

LEMMA WaitingElse ==
    ASSUME IInv, Waiting, Moves, passed' = passed
    PROVE  Waiting'
  <1>1. Live \subseteq Pid /\ Pid \subseteq Nat /\ next_pid \in Nat
    BY LiveFacts, PidNumbers DEF IInv, Core, CoreType
  <1>2. \A p \in Pid : p >= next_pid' => passed[p] = {}
    BY <1>1 DEF Waiting, Moves
  <1>3. next_pid \in Pid => passed[next_pid] = {}
    BY <1>1 DEF Waiting
  <1>4. curr_pid' \in Pid => passed[curr_pid'] = {}
    BY <1>3 DEF Waiting, Moves
  <1>5. ASSUME NEW p \in Live', NEW q \in passed[p]
        PROVE  /\ p < curr_pid' => q < p \/ q >= curr_pid'
               /\ p > curr_pid' => curr_pid' <= q /\ q < p
    <2>1. p \in Live \cup ({next_pid} \cap Pid)
      BY DEF Moves
    <2>2. p # next_pid
      BY <1>1, <1>3, <1>5, <2>1
    <2>3. p \in Live /\ curr_pid' = curr_pid
      BY <2>1, <2>2 DEF Moves
    <2> QED BY <1>5, <2>3 DEF Waiting
  <1> QED BY <1>2, <1>4, <1>5 DEF Waiting

\* While a process waits for the CPU nobody is given it twice, however many
\* processes there are and however many are created or destroyed meanwhile
\* (proc.c:51-58, 114, 139-140, 193-207).
THEOREM OvertakingSafe == ShareSpec => NoOvertaking
  <1>1. ShareInit => IInv /\ Waiting
    <2>1. ShareInit => Waiting
      BY DEF ShareInit, Init, Waiting, Live, SlistElems
    <2> QED BY <2>1, InitIInv DEF ShareInit
  <1>2. IInv /\ Waiting /\ [ShareNext]_<<vars, steady, passed>> => (IInv /\ Waiting)'
    <2> SUFFICES ASSUME IInv, Waiting, [ShareNext]_<<vars, steady, passed>>
                 PROVE  (IInv /\ Waiting)'
      OBVIOUS
    <2>1. IInv'
      BY NextIInv DEF ShareNext
    <2>2. ASSUME ShareNext, schedule PROVE Waiting'
      BY <2>2, WaitingSchedule DEF ShareNext
    <2>3. ASSUME ShareNext, ~schedule PROVE Waiting'
      BY <2>3, OtherMoves, WaitingElse DEF ShareNext
    <2>4. ASSUME UNCHANGED <<vars, steady, passed>> PROVE Waiting'
      <3>1. Moves /\ passed' = passed
        BY <2>4 DEF vars, table, Moves, Live
      <3> QED BY <3>1, WaitingElse
    <2> QED BY <2>1, <2>2, <2>3, <2>4
  <1>3. IInv /\ Waiting /\ [ShareNext]_<<vars, steady, passed>> =>
          [schedule => \A p \in Live \ {curr_pid'} : curr_pid' \notin passed[p]]_<<vars, steady, passed>>
    BY WaitingSchedule DEF ShareNext
  <1> QED BY <1>1, <1>2, <1>3, PTL DEF ShareSpec, NoOvertaking
=============================================================================

-------------------------------- MODULE Proc --------------------------------
(***************************************************************************)
(* Processes and the scheduler of the NewLand kernel on x86:               *)
(* newland/arch/x86/src/proc.c with irq.c, asm/proc.s and asm/irq.s.       *)
(*                                                                         *)
(* One CPU executes one thread of control at a time.  The thread that      *)
(* booted the kernel is thread Boot; the code a process starts at its      *)
(* entry point is the thread named by its pid.  Which process a thread     *)
(* runs under is decided by the context switch alone (it saves whatever    *)
(* the CPU holds into the current process), so threads and processes are   *)
(* separate.  The timer interrupt runs schedule() between any two steps    *)
(* while the interrupt flag is set; everything the code does with the      *)
(* flag clear is one step.                                                 *)
(*                                                                         *)
(* The kernel calls that threads make are the workload: Calls names the    *)
(* ones a model uses.                                                      *)
(***************************************************************************)
EXTENDS Slist, FiniteSets

CONSTANTS
    MaxPid,          \* bound: processes created in one behaviour
    CHILD_MAX,       \* proc.h: size of the child array
    SCHED_RECCOUNT,  \* proc.h: ticks that the usage record remembers
    MaxSegs,         \* bound: program headers of an executable
    Calls,           \* the kernel calls that threads make
    Signals,         \* the signals that are sent
    IrqFlagsKept     \* what irq_disable returns, see Restored

ASSUME ProcAssumption ==
    /\ MaxPid \in Nat \ {0}
    /\ CHILD_MAX \in Nat \ {0}
    /\ SCHED_RECCOUNT \in Nat \ {0}
    /\ MaxSegs \in Nat
    /\ IrqFlagsKept \in BOOLEAN

VARIABLES
    processes,       \* the list of processes, a sequence of pids
    proc_count, next_pid, curr_pid, ticks, sched_rec,
    status, parent, child, child_count,      \* fields of proc_t, by pid
    signal_handler,  \* proc_t.signal_handler # NULL
    signum,          \* proc_t.issignaling and signum in one: NoSignal or the signal
    regs,            \* proc_t.regs with fpu_regs: the saved context
    thread, iflag, cr3,                      \* what the CPU runs
    dirs,            \* the page directories mem_alloc_pgdir handed out
    call,            \* by thread: the kernel call in progress
    nullref          \* where the code used a NULL or a freed process: see Lost

table   == <<processes, proc_count, next_pid, curr_pid>>
record  == <<ticks, sched_rec>>
family  == <<parent, child, child_count>>
signals == <<signal_handler, signum>>
cpu     == <<thread, iflag, cr3>>
vars    == <<table, record, status, family, signals, regs, cpu, dirs, call,
             nullref>>

Pid    == 1..MaxPid
Boot   == 0
Thread == 0..MaxPid
Slot   == 0..(CHILD_MAX - 1)
Live   == SlistElems(processes)

\* No process, and the pid that stands for a NULL proc_t*.
NoProc == 0

\* A page directory is named by the process it was allocated for.  NullDir is
\* what mem_alloc_pgdir returns out of memory, LowWord the word that
\* proc_switch_pgdir reads as proc->regs.cr3 through a NULL process.
KrnlDir == 0
NullDir == -1
LowWord == -2
Dir     == Pid \cup {KrnlDir, NullDir, LowWord}

Status   == {"ZOMBIE", "READY", "RUNNING"}
NoSignal == "none"
Fatal    == {"SIGKILL", "SIGSEGV", "SIGSTKFLT", "SIGILL"}

\* A context: the thread whose registers it holds (general and FPU), the
\* interrupt flag the thread continues with, and its page directory.
Context == [thread : Thread, iflag : BOOLEAN, cr3 : Dir]

\* A kernel call in progress.  proc_exec is at "seg" (the head of its loop) or
\* "mapped" (in the child's page directory); processes_cleanup is at
\* "cleanup" or "reap" with its cursor in child.
CallState == {c \in [pc : {"idle", "seg", "mapped", "cleanup", "reap"},
                     flags : BOOLEAN, child : Pid \cup {NoProc},
                     curr : Pid \cup {NoProc}, old : Dir, segs : 0..MaxSegs] :
                c.pc \in {"seg", "mapped", "reap"} => c.child # NoProc}
Idle == [pc |-> "idle", flags |-> FALSE, child |-> NoProc, curr |-> NoProc,
         old |-> KrnlDir, segs |-> 0]
Site == {"proc_destroy", "proc_switch_pgdir", "proc_exec",
         "processes_cleanup", "mem_free_pgdir", "SLIST_REMOVE"}

\* A process destroyed a second time is in no list: SLIST_REMOVE walks off the end
\* of the list through NULL, after kfree has been given the memory twice.  The
\* kernel is lost then.
Lost == "SLIST_REMOVE" \in nullref

TypeOK ==
    /\ processes \in Seq(Pid)
    /\ proc_count \in Nat
    /\ next_pid \in 1..(MaxPid + 1)
    /\ curr_pid \in Pid \cup {NoProc}
    /\ ticks \in 0..(SCHED_RECCOUNT - 1)
    /\ sched_rec \in [0..(SCHED_RECCOUNT - 1) -> Pid \cup {NoProc}]
    /\ status \in [Pid -> Status]
    /\ parent \in [Pid -> Pid \cup {NoProc}]
    /\ child \in [Pid -> [Slot -> Pid \cup {NoProc}]]
    /\ child_count \in [Pid -> 0..CHILD_MAX]
    /\ signal_handler \in [Pid -> BOOLEAN]
    /\ signum \in [Pid -> Signals \cup {NoSignal}]
    /\ regs \in [Pid -> Context]
    /\ thread \in Thread /\ iflag \in BOOLEAN /\ cr3 \in Dir
    /\ dirs \subseteq Pid
    /\ call \in [Thread -> CallState]
    /\ nullref \subseteq Site

----------------------------------------------------------------------------
\* The state bootstrap_main hands over after its sti: no process, the kernel's
\* page directory loaded.
Init ==
    /\ processes = <<>> /\ proc_count = 0 /\ next_pid = 1 /\ curr_pid = NoProc
    /\ ticks = 0
    /\ sched_rec = [i \in 0..(SCHED_RECCOUNT - 1) |-> NoProc]
    /\ status = [p \in Pid |-> "READY"]
    /\ parent = [p \in Pid |-> NoProc]
    /\ child = [p \in Pid |-> [i \in Slot |-> NoProc]]
    /\ child_count = [p \in Pid |-> 0]
    /\ signal_handler = [p \in Pid |-> FALSE]
    /\ signum = [p \in Pid |-> NoSignal]
    /\ regs = [p \in Pid |-> [thread |-> p, iflag |-> FALSE, cr3 |-> KrnlDir]]
    /\ thread = Boot /\ iflag = TRUE /\ cr3 = KrnlDir
    /\ dirs = {}
    /\ call = [t \in Thread |-> Idle]
    /\ nullref = {}

----------------------------------------------------------------------------
(* Lookups *)

\* process_curr(): the current process, NULL when there is none.
process_curr == IF curr_pid \in Live THEN curr_pid ELSE NoProc

\* Mutant: after the last process comes the last again.
process_next_stuck ==
    IF curr_pid \in Live
    THEN SlistNext(processes, curr_pid, curr_pid)
    ELSE processes[1]

\* process_next(): the process linked after the current one, the first of the
\* list after the last or when the current one is gone.
process_next ==
    IF curr_pid \in Live
    THEN SlistNext(processes, curr_pid, processes[1])
    ELSE processes[1]

\* What a proc_t* to p may point at: p, and once p is freed the memory as p left it,
\* or a process created since, when kmalloc gave it the same memory.
PointsTo(p) ==
    IF p \in Live \cup {NoProc} THEN {p} ELSE {p} \cup {q \in Live : q > p}

\* sched_getusage(): how many of the remembered ticks went to p.
sched_getusage(p) ==
    Cardinality({i \in 0..(SCHED_RECCOUNT - 1) : sched_rec[i] = p})

\* Mutant: irq_restore sets the flag whatever it was.
RestoredMutant(f) == {TRUE}

\* The interrupt flag after irq_restore of what irq_disable returned when the
\* flag was f.  irq_disable has no return statement: a build in which the
\* popped flags happen to be in the return register restores f, any other
\* restores whatever the register holds.
Restored(f) == IF IrqFlagsKept THEN {f} ELSE BOOLEAN

Calling(name) == name \in Calls /\ call[thread].pc = "idle"

----------------------------------------------------------------------------
(* The timer interrupt *)

\* Mutants: the tick is not counted; its index does not wrap; the current process
\* stays marked; the arguments of proc_regswitch are swapped.
ChargeTickMutant(p) ==
    sched_rec' = [sched_rec EXCEPT ![ticks] = p] /\ UNCHANGED ticks
ChargeTickUnwrapped(p) ==
    sched_rec' = [sched_rec EXCEPT ![ticks] = p] /\ ticks' = ticks + 1
MarkMutant(from, to) == status' = [status EXCEPT ![to] = "RUNNING"]
proc_regswitch_swapped(from, to) ==
    /\ regs' = [regs EXCEPT ![to] = [thread |-> thread, iflag |-> TRUE, cr3 |-> cr3]]
    /\ thread' = regs'[from].thread
    /\ iflag' = regs'[from].iflag
    /\ cr3' = regs'[from].cr3

\* The usage record: the tick goes to p.
ChargeTick(p) ==
    /\ sched_rec' = [sched_rec EXCEPT ![ticks] = p]
    /\ ticks' = (ticks + 1) % SCHED_RECCOUNT

\* The statuses, in the order of the assignments (from and to may be the same).
Mark(from, to) == status' = [status EXCEPT ![from] = "READY", ![to] = "RUNNING"]

\* proc_regswitch with the FPU save and load before it: the CPU goes into the
\* context of one process and comes from that of the other.  The interrupted
\* code returns through the stub's sti, so it continues with the flag set.
proc_regswitch(from, to) ==
    /\ regs' = [regs EXCEPT ![from] = [thread |-> thread, iflag |-> TRUE, cr3 |-> cr3]]
    /\ thread' = regs'[to].thread
    /\ iflag' = regs'[to].iflag
    /\ cr3' = regs'[to].cr3

\* schedule(): without a process, or with a current pid that names none, the
\* handler returns at once, which changes nothing.
schedule ==
    /\ iflag
    /\ proc_count # 0 /\ curr_pid \in Live
    /\ ChargeTick(curr_pid)
    /\ Mark(curr_pid, process_next)
    /\ curr_pid' = process_next
    /\ proc_regswitch(curr_pid, process_next)
    /\ UNCHANGED <<processes, proc_count, next_pid, family, signals, dirs, call, nullref>>

\* A thread that runs with the flag clear sets it (its own code, not the kernel's).
sti ==
    /\ Calling("sti") /\ ~iflag
    /\ iflag' = TRUE
    /\ UNCHANGED <<table, record, status, family, signals, regs, thread, cr3, dirs,
                   call, nullref>>

----------------------------------------------------------------------------
(* Creating and destroying processes *)

\* The child slot proc_create takes: the first empty one below child_count, or
\* the one at child_count when there is none.
FreeSlot(par, i) ==
    /\ i \in Slot /\ i <= child_count[par]
    /\ \A j \in 0..(i - 1) : child[par][j] # NoProc
    /\ i < child_count[par] => child[par][i] = NoProc

\* SLIST_INSERT_HEAD, the counters, and the first process ever becomes the
\* current one.
Link(p) ==
    /\ processes' = SlistInsertHead(processes, p)
    /\ proc_count' = proc_count + 1
    /\ next_pid' = p + 1
    /\ curr_pid' = IF proc_count + 1 = 1 /\ curr_pid = NoProc THEN p ELSE curr_pid

\* proc_create from line 85 on: the new process, its entry in the parent, its
\* page directory (d, for a user process) and its place in the list.
Enter(par, d) ==
    LET p == next_pid
        fresh == [child EXCEPT ![p] = [i \in Slot |-> NoProc]]
        zeroed == [child_count EXCEPT ![p] = 0]
    IN  /\ p \in Pid
        /\ \/ par = NoProc /\ child' = fresh /\ child_count' = zeroed
           \/ /\ par # NoProc
              /\ \E i \in Slot :
                    /\ FreeSlot(par, i)
                    /\ child' = [fresh EXCEPT ![par][i] = p]
                    /\ child_count' = [zeroed EXCEPT ![par] =
                                         IF i = child_count[par] THEN @ + 1 ELSE @]
        /\ parent' = [parent EXCEPT ![p] = par]
        /\ status' = [status EXCEPT ![p] = "READY"]
        /\ signal_handler' = [signal_handler EXCEPT ![p] = FALSE]
        /\ signum' = [signum EXCEPT ![p] = NoSignal]
        /\ regs' = [regs EXCEPT ![p] = [thread |-> p, iflag |-> FALSE, cr3 |-> d]]
        /\ dirs' = dirs \cup ({d} \cap Pid)
        /\ Link(p)

\* What get_krnlpgdir or mem_alloc_pgdir returns for the next process.
NewDir(user) ==
    IF user THEN {next_pid} \cup (IF "nomem" \in Calls THEN {NullDir} ELSE {})
            ELSE {KrnlDir}

\* The child array of the parent is full: proc_create fails.
ChildrenFull(par) == par # NoProc /\ ~ \E i \in Slot : FreeSlot(par, i)

\* proc_create() called by a thread for a parent it looked up.
proc_create(par, user) ==
    /\ Calling("create")
    /\ \E d \in NewDir(user) : Enter(par, d)
    /\ iflag' \in Restored(iflag)
    /\ UNCHANGED <<record, thread, cr3, call, nullref>>

\* proc_create() that finds no child slot.
proc_create_fails(par) ==
    /\ Calling("create")
    /\ ChildrenFull(par)
    /\ iflag' \in Restored(iflag)
    /\ UNCHANGED <<table, record, status, family, signals, regs, thread, cr3, dirs,
                   call, nullref>>

\* Mutants: proc_destroy stops its search one early; it forgets the count.
ListedAtShort(p) ==
    IF parent[p] \in Live
    THEN {i \in Slot : i + 1 < child_count[parent[p]] /\ child[parent[p]][i] = p}
    ELSE {}
UnlinkMutant(p) == processes' = SlistRemove(processes, p) /\ UNCHANGED proc_count

\* SLIST_REMOVE and the count.  curr_pid keeps its value.
Unlink(p) ==
    /\ processes' = SlistRemove(processes, p)
    /\ proc_count' = proc_count - 1

\* Where proc_destroy finds p in its parent's child array: it looks below
\* child_count only.
ListedAt(p) ==
    IF parent[p] \in Live
    THEN {i \in Slot : i < child_count[parent[p]] /\ child[parent[p]][i] = p}
    ELSE {}

\* proc_destroy() without its interrupt bracket: free the page directory, take
\* the process out of its parent's child array, unlink it.  A parent that is
\* gone is used all the same, through NULL.  used is where p was freed before.
Remove(p, used) ==
    /\ dirs' = dirs \ {regs[p].cr3}
    /\ \/ /\ ListedAt(p) = {}
          /\ UNCHANGED <<child, child_count>>
       \/ \E i \in ListedAt(p) :
             /\ child' = [child EXCEPT ![parent[p]][i] = NoProc]
             /\ child_count' = [child_count EXCEPT ![parent[p]] = @ - 1]
    /\ nullref' = nullref \cup used
         \cup (IF parent[p] \notin Live \cup {NoProc} THEN {"proc_destroy"} ELSE {})
         \cup (IF regs[p].cr3 \notin dirs \cup {KrnlDir} THEN {"mem_free_pgdir"} ELSE {})
    /\ Unlink(p)
    /\ UNCHANGED <<next_pid, curr_pid, parent, status, signals, regs>>

\* proc_destroy() of a process that is freed.
RemoveFreed(used) ==
    /\ nullref' = nullref \cup used \cup {"SLIST_REMOVE"}
    /\ UNCHANGED <<table, record, status, family, signals, regs, cpu, dirs, call>>

\* proc_destroy() of a process a thread looked up.
proc_destroy(p) ==
    /\ Calling("destroy")
    /\ Remove(p, {})
    /\ iflag' \in Restored(iflag)
    /\ UNCHANGED <<record, thread, cr3, call>>

----------------------------------------------------------------------------
(* Signals *)

\* proc_sigenter() for a process that is not in a signal already (it returns
\* EINPROGRESS then): without a handler a fatal signal makes a zombie and any
\* other is refused, with one the signal is recorded.
proc_sigenter(p, s) ==
    /\ Calling("sigenter")
    /\ signum[p] = NoSignal
    /\ \/ /\ ~signal_handler[p] /\ s \in Fatal
          /\ status' = [status EXCEPT ![p] = "ZOMBIE"]
          /\ UNCHANGED signum
       \/ /\ signal_handler[p]
          /\ signum' = [signum EXCEPT ![p] = s]
          /\ UNCHANGED status
    /\ UNCHANGED <<table, record, family, signal_handler, regs, cpu, dirs, call, nullref>>

\* proc_sigleave() of a process that is in a signal.
proc_sigleave(p) ==
    /\ Calling("sigenter")
    /\ signum[p] # NoSignal
    /\ signum' = [signum EXCEPT ![p] = NoSignal]
    /\ UNCHANGED <<table, record, status, family, signal_handler, regs, cpu, dirs,
                   call, nullref>>

\* Kernel code installs a handler in the proc_t (nothing under newland/ does).
set_handler(p) ==
    /\ Calling("handler")
    /\ signal_handler' = [signal_handler EXCEPT ![p] = TRUE]
    /\ UNCHANGED <<table, record, status, family, signum, regs, cpu, dirs, call, nullref>>

----------------------------------------------------------------------------
(* processes_cleanup(): one step per element of its SLIST_FOREACH *)

cleanup_begin ==
    /\ Calling("cleanup")
    /\ call' = [call EXCEPT ![thread] = [Idle EXCEPT !.pc = "cleanup",
                   !.child = IF processes = <<>> THEN NoProc ELSE processes[1]]]
    /\ UNCHANGED <<table, record, status, family, signals, regs, cpu, dirs,
                   nullref>>

\* The link of a process.  That of a freed one is as it was: to an older process or
\* to none.
SLIST_NEXT(p) ==
    IF p \in Live THEN {SlistNext(processes, p, NoProc)} ELSE {NoProc} \cup 1..(p - 1)

\* Where the walk uses a process that another thread has destroyed.
CursorFreed(p) == IF p \in Live THEN {} ELSE {"processes_cleanup"}

\* The process under the cursor: a zombie is to be destroyed, any other is passed
\* over.
cleanup_visit ==
    LET c == call[thread]
    IN  /\ c.pc = "cleanup" /\ c.child # NoProc
        /\ \E p \in PointsTo(c.child) :
              \/ /\ status[p] = "ZOMBIE"
                 /\ call' = [call EXCEPT ![thread] = [c EXCEPT !.pc = "reap", !.child = p]]
              \/ /\ status[p] # "ZOMBIE"
                 /\ \E q \in SLIST_NEXT(p) : call' = [call EXCEPT ![thread] = [c EXCEPT !.child = q]]
        /\ nullref' = nullref \cup CursorFreed(c.child)
        /\ UNCHANGED <<table, record, status, family, signals, regs, cpu, dirs>>

\* Destroy the process seen as a zombie, then step to the element its link
\* named, which is read from the freed proc_t.
cleanup_reap ==
    LET c == call[thread]
    IN  /\ c.pc = "reap"
        /\ \E p \in PointsTo(c.child) \cap Live :
              /\ Remove(p, CursorFreed(c.child))
              /\ call' = [call EXCEPT ![thread] = [c EXCEPT !.pc = "cleanup",
                             !.child = SlistNext(processes, p, NoProc)]]
        /\ iflag' \in Restored(iflag)
        /\ UNCHANGED <<record, thread, cr3>>

\* Another thread has destroyed it since.
cleanup_reap_freed ==
    /\ call[thread].pc = "reap" /\ call[thread].child \notin Live
    /\ RemoveFreed({"processes_cleanup"})

\* The end of the list.
cleanup_end ==
    /\ call[thread].pc = "cleanup" /\ call[thread].child = NoProc
    /\ call' = [call EXCEPT ![thread] = Idle]
    /\ UNCHANGED <<table, record, status, family, signals, regs, cpu, dirs, nullref>>

----------------------------------------------------------------------------
(* proc_exec(): the steps between which the flag may be set again *)

Return == call' = [call EXCEPT ![thread] = Idle]

\* fs_resolve, the ELF header's read or its check fails, or proc_create returns
\* NULL: nothing happened but the interrupt bracket.
exec_reject ==
    /\ Calling("exec")
    /\ iflag' \in Restored(iflag)
    /\ UNCHANGED <<table, record, status, family, signals, regs, thread, cr3, dirs,
                   call, nullref>>

\* The file is good and proc_create succeeds.  Its own irq_restore ends with the
\* flag that proc_exec's irq_disable left, clear.
exec_create ==
    /\ Calling("exec")
    /\ \E d \in NewDir(TRUE), n \in 0..MaxSegs :
          /\ Enter(process_curr, d)
          /\ call' = [call EXCEPT ![thread] =
                 [Idle EXCEPT !.pc = "seg", !.flags = iflag, !.child = next_pid,
                              !.curr = process_curr, !.segs = n]]
    /\ iflag' \in Restored(FALSE)
    /\ UNCHANGED <<record, thread, cr3, nullref>>

\* The head of the loop over program headers.
AtSegment == call[thread].pc = "seg" /\ call[thread].segs > 0

\* Where proc_exec uses a child that another thread has destroyed.
ChildFreed(p) == IF p \in Live THEN {} ELSE {"proc_exec"}

\* proc_switch_pgdir(&curr, d): the CPU and the saved cr3 of curr.  A NULL curr
\* (no process before the one being loaded) makes it access low memory, a curr
\* destroyed since makes it access a freed one.  used is what else was freed.
SwitchPgdir(curr, d, used) ==
    /\ cr3' = d
    /\ regs' = IF curr = NoProc THEN regs ELSE [regs EXCEPT ![curr].cr3 = d]
    /\ nullref' = nullref \cup used \cup (IF curr \in Live THEN {} ELSE {"proc_switch_pgdir"})

\* A segment below 1 MiB is skipped.
exec_skip ==
    LET c == call[thread]
    IN  /\ AtSegment
        /\ call' = [call EXCEPT ![thread] = [c EXCEPT !.segs = c.segs - 1]]
        /\ UNCHANGED <<table, record, status, family, signals, regs, cpu, dirs, nullref>>

\* Any other is mapped and cleared in the child's page directory.
exec_map ==
    LET c == call[thread]
    IN  /\ AtSegment
        /\ \E p \in PointsTo(c.child), q \in PointsTo(c.curr) :
              /\ SwitchPgdir(q, regs[p].cr3, ChildFreed(c.child))
              /\ call' = [call EXCEPT ![thread] =
                     [c EXCEPT !.pc = "mapped", !.segs = c.segs - 1, !.child = p, !.curr = q,
                               !.old = IF q = NoProc THEN LowWord ELSE regs[q].cr3]]
        /\ UNCHANGED <<table, record, status, family, signals, thread, iflag, dirs>>

\* The segment is read and the CPU goes back to the directory it came from.
exec_read ==
    LET c == call[thread]
    IN  /\ c.pc = "mapped"
        /\ \E q \in PointsTo(c.curr) :
              /\ SwitchPgdir(q, c.old, {})
              /\ call' = [call EXCEPT ![thread] = [c EXCEPT !.pc = "seg", !.curr = q]]
        /\ UNCHANGED <<table, record, status, family, signals, thread, iflag, dirs>>

\* A program header or a segment cannot be read: the child is destroyed, which
\* frees the page directory the CPU is in when the segment was mapped.
exec_read_fails ==
    LET c == call[thread]
    IN  /\ AtSegment \/ c.pc = "mapped"
        /\ \E p \in PointsTo(c.child) \cap Live : Remove(p, ChildFreed(c.child))
        /\ Return
        /\ iflag' \in Restored(c.flags)
        /\ UNCHANGED <<record, thread, cr3>>

\* The same with a child that another thread has destroyed.
exec_read_fails_freed ==
    /\ AtSegment \/ call[thread].pc = "mapped"
    /\ call[thread].child \notin Live
    /\ RemoveFreed({"proc_exec"})

\* Every segment is in place: proc_exec returns the pid.
exec_done ==
    LET c == call[thread]
    IN  /\ c.pc = "seg" /\ c.segs = 0
        /\ Return
        /\ iflag' \in Restored(c.flags)
        /\ nullref' = nullref \cup ChildFreed(c.child)
        /\ UNCHANGED <<table, record, status, family, signals, regs, thread, cr3, dirs>>

----------------------------------------------------------------------------
\* The steps of a call that has begun.
exec_goes ==
    \/ exec_skip \/ exec_map \/ exec_read \/ exec_read_fails \/ exec_read_fails_freed
    \/ exec_done
cleanup_goes == cleanup_visit \/ cleanup_reap \/ cleanup_reap_freed \/ cleanup_end

exec == exec_reject \/ exec_create \/ exec_goes
cleanup == cleanup_begin \/ cleanup_goes

Next ==
    /\ ~Lost
    /\ \/ schedule
       \/ sti
       \/ \E par \in Live \cup {NoProc}, user \in BOOLEAN : proc_create(par, user)
       \/ \E par \in Live : proc_create_fails(par)
       \/ \E p \in Live : proc_destroy(p)
       \/ \E p \in Live, s \in Signals : proc_sigenter(p, s)
       \/ \E p \in Live : proc_sigleave(p) \/ set_handler(p)
       \/ cleanup
       \/ exec

Spec == Init /\ [][Next]_vars

\* The timer keeps interrupting, a thread goes on with the call it is in, and code
\* that runs with the flag clear sets it in the end.  Nobody has to begin a call.
Fairness == WF_vars(~Lost /\ schedule) /\ WF_vars(~Lost /\ sti)
                /\ WF_vars(~Lost /\ cleanup_goes) /\ WF_vars(~Lost /\ exec_goes)
FairSpec == Spec /\ Fairness

----------------------------------------------------------------------------
(* Safety *)

\* The list, the count beside it and the pids agree: no process is linked twice,
\* proc_count is the length of the list, pids descend from the head (so no pid
\* is ever handed out twice) and stay below next_pid, and curr_pid is unset
\* only while there never was a process (proc.c:85, 114-117, 140-141).
ListConsistent ==
    /\ proc_count = Len(processes)
    /\ \A i, j \in 1..Len(processes) : i < j => processes[i] > processes[j]
    /\ \A i \in 1..Len(processes) : processes[i] < next_pid
    /\ curr_pid < next_pid
    /\ curr_pid = NoProc => processes = <<>>

\* No thread of control is in two places: what the CPU runs is in no saved
\* context but the current process's outdated one, and no two other processes
\* hold the same context (schedule with proc_regswitch, proc.c:193-207).
ThreadsUnique ==
    /\ \A p \in Live \ {curr_pid} : regs[p].thread # thread
    /\ \A p, q \in Live \ {curr_pid} : regs[p].thread = regs[q].thread => p = q

\* Only the current process is marked as running (proc.c:201-203).
OneRunning == \A p \in Live : status[p] = "RUNNING" => p = curr_pid

\* Below child_count, the child array of a process names each live child of its
\* own at most once and nothing else (proc.c:66-83, 99, 129-138).
WindowChildren ==
    \A p \in Live : \A i \in Slot :
        (i < child_count[p] /\ child[p][i] # NoProc) =>
            /\ child[p][i] \in Live
            /\ parent[child[p][i]] = p
            /\ \A j \in Slot : child[p][j] = child[p][i] => i = j

\* A process does not run before proc_exec has loaded it (proc.c:210-273).
LoadingNotRun ==
    \A t \in Thread :
        (call[t].pc \in {"seg", "mapped"} /\ call[t].child \in Live) =>
            thread # call[t].child

(* Liveness *)

\* A process that exists is scheduled (README.md:13, "Preemptive multiprocessing
\* kernel"; proc.c:51-58, 193-207), whether or not others are created meanwhile.
EveryProcessScheduled ==
    \A p \in Pid : p \in Live ~> (p \notin Live \/ curr_pid = p)

----------------------------------------------------------------------------
(* What a comment promises and the code does not do *)

\* proc.h:278, proc_exec "Executes a process from an executable file": the
\* program is on the CPU or waits in the context of some process.
EntryNotForgotten ==
    \A p \in Live : \/ thread = p \/ regs[p].thread = p
                    \/ \E q \in Live \ {curr_pid} : regs[q].thread = p
=============================================================================

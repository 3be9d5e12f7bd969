# Verification of StardustOS / NewLand

TLA+ models of the NewLand kernel (`src/newland`), the TLC runs that check
them on small instances, and TLAPS proofs of the main invariants for every
value of the parameters. All paths below are relative to `src/`.

StardustOS is a small operating system: a monolithic, modular kernel for x86
(NewLand), a freestanding C library, a list library, and a few user programs.
The kernel runs on one CPU. Everything that can interleave does so because the
timer interrupt runs `schedule()` between two instructions of kernel or user
code while the interrupt flag is set.

## 1. Inventory

| Component | State | Operations | Correct when |
|---|---|---|---|
| processes, scheduler (`newland/arch/x86/src/proc.c`, `asm/proc.s`) | process list, `proc_count`, `next_pid`, `curr_pid`, tick record, per process: status, parent, child array, signal state, saved registers, page directory, descriptors | `proc_create`, `proc_destroy`, `proc_exec`, `proc_sigenter/sigleave`, `processes_cleanup`, `schedule`, `proc_switch_pgdir` | list and counters agree; no thread is in two contexts; one process is running; child arrays name live children; a process runs only once loaded; each process gets its turn, and the same share |
| interrupts and exceptions (`idt.c`, `irq.c`, `asm/idt.s`, `asm/irq.s`) | EFLAGS.IF, handler tables, frames on the kernel stacks, lines in service at the two controllers | the stubs, `isr_handler`, `irq_handler`, `irq_disable`, `irq_restore` | a section bracketed by the last two is not preempted; each interrupt is acknowledged once, by its own handler; every tick is taken |
| physical and virtual memory (`mem.c`) | bitmap of frames, `used_mem`, directories and tables | `phys_alloc`, `mem_alloc`, `mem_free`, `mem_allocident`, `mem_map`, `mem_alloc_pgdir`, `mem_free_pgdir` | a frame has one owner; the accounting follows the bitmap; every directory maps the kernel alike; a mapped page is mapped |
| kernel heap (`alloc.c`; liballoc is a submodule) | what liballoc was given | `liballoc_alloc`, `liballoc_free` | gives back what it took |
| central device API (`newland/src/dev.c`) | device list, `dev_count` | `register_device`, `unregister_device`, lookups | names and numbers unique |
| TTY and block registries (`dev/tty.c`, `dev/block.c`) | a list and a counter each, beside the device list | register, unregister, lookups; block reads | the two registries agree |
| devfs (`fs/devfs.c`) | list of the nodes made | `devfs_get` | a name leads to its device |
| multiboot, boot (`multiboot.c`, `bootstrap.c`) | module list | `bootstrap_main` | the initrd is mounted on `/` |
| VFS (`newland/src/fs.c`) | file systems, mount points | `register_fs`, `unregister_fs`, `mountpoint_create`, `mountpoint_destroy`, `fs_resolve`, node operations | a path leads to a node of its name, under a mount point that covers it |
| descriptors (`newland/src/system.c`) | descriptor table of a process | `nl_open`, `nl_close`, `nl_read`, `nl_write` | a table of numbers per process that other processes do not touch; a file is open as long as a descriptor refers to it |
| initrd, procfs (`fs/initrd.c`, `fs/procfs.c`) | archive, node cache | mount, child lookup, read | the cache holds no freed node and stays bounded by the processes |
| modules (`module.c`) | lists of installed and of loaded modules, dependencies | `module_install`, `module_init`, `modules_init` | each module is initialised once, after what it depends on |
| buses, PCI (`bus.c`, `modules/bus/pci.c`) | bus list, entries of a bus with their drivers and resources | register, unregister, add, remove, attach, detach; the scan | entries have different names; the scan ends, with an entry for every function |
| log (`log.c`) | buffer, position | `printk` | the buffer is not overrun |
| time (`time.c`, `clock.c`) | boot time, CMOS registers | `time`, `boottime` | time does not go back, the conversion is right |
| serial driver, system calls (`modules/tty/serial.c`, `syscall.c`) | ports; a table | | - |
| GDT, timer, FPU | hardware tables | initialised once | - |
| libc, libfile, liblist, user programs, nvk, build files | - | pure functions, tools | - |

How they interact: `bootstrap_main` initialises memory, interrupts, the
scheduler and the multiboot modules (devices), runs the module initialisers
(which register TTYs, buses and devices), looks the initrd up among the
devices, takes its node from devfs and mounts it on `/`, then calls
`proc_exec` on the init program. `proc_exec` resolves a path through the VFS,
creates a process, and for each segment switches into its page directory, maps
pages and reads the file into them. From then on the timer calls `schedule`.
Drivers and processes share the registries without locks; the only mutual
exclusion is the interrupt flag.

What is hard here: preemption between any two statements outside an
interrupt-disabled section, with state that was read before; `irq_disable`, which
has no `return`, so that what `irq_restore` restores depends on the build; two
registries written by one call; numbers that come from counters that also go down;
error codes returned as addresses; the boot thread, which is no process and still
has its registers saved into one; walks of a directory, of the procfs cache and of
a process list that change under the walk; a context switch out of the middle of
an interrupt, a message or a reading of the clock. `PROJECT.json` lists each such
place with its line under `hazards`.

## 2. Modules

| Module | Models | Role |
|---|---|---|
| `Slist` | the SLIST macros of liblist, on sequences | operators |
| `SlistProofs` | | lemmas on them |
| `Proc` | `proc.c`, `irq.c`, `asm/proc.s` | component |
| `MCProcShare` | `Proc` with two histories: the ticks since the list last changed, and who had a turn while a process waits | for `proc_share` |
| `ProcProofs` | | theorems about `Proc` and `MCProcShare` |
| `Dev` | `dev.c`, `dev/tty.c`, `dev/block.c` (registry), `fs/devfs.c`, `mbi_modules_init`, the mount of `bootstrap_main` | four interacting registries composed |
| `MCDev` | `Dev` with one multiboot module | for `dev_unregister` |
| `Bus` | `bus.c`; extends `Dev` | component, composed with the device API |
| `Pci` | `modules/bus/pci.c`; extends `Bus` | the scan, composed with both |
| `MCBus` | `Pci` with four plans (registries, drivers, scans once and twice) and four machines | for `dev_registry` |
| `DevProofs` | | theorems about `Dev` |
| `BusProofs` | | theorems about `Bus` and `Pci`, and about `Dev` composed with them |
| `Mem` | `mem.c` and the hooks of `alloc.c` | component |
| `MCMem` | `Mem` with the history "every call was served" | for `mem_kernel` |
| `MemProofs` | | theorems about `Mem` and `MCMem` |
| `Loader` | `module.c` | component |
| `MCLoader` | `Loader` with an image of three modules and all dependency lists of length two at most | for `loader_boot` |
| `LoaderProofs` | | theorems about `Loader` |
| `Descriptors` | | abstract specification of descriptor tables |
| `Vfs` | `fs.c`, `fs/initrd.c`, the nodes of `fs/procfs.c` | state and operators of the file layer |
| `Files` | `system.c`, the descriptors in `proc_create`/`proc_destroy`, the steps of `fs_node_resolve`, `procfs_get_child` and `mountpoint_create`; extends `Vfs` | composition; implements `Descriptors` |
| `MCFiles` | `Files` with four workloads | for `files` |
| `FilesProofs` | | theorems about `Vfs` and `Files`, and that `Files` implements `Descriptors` |
| `Klog` | `log.c` | component |
| `Clock` | `time.c`, `clock.c` | component |
| `Trap` | `idt.c`, `irq.c` and their stubs; extends `Klog` and `Clock` | interrupts, composed with what prints under them |
| `MCTrap` | `Trap` with dates around the ends of months and years | for `trap` |
| `TrapProofs` | | theorems about `Trap`, `Klog` and `Clock` |

Definitions named `..._something` or `...Mutant` that stand before a definition
of the same stem are wrong variants of it; none is used by `Next`.
They exist to show that each property can be violated by a plausible change of
the code.

### Proc

A *thread* is a flow of control: 0 is the one that booted the kernel, `p` the
code at the entry point of process `p`. A process holds a saved context
(`regs[p]`: thread, interrupt flag, `cr3`); which thread it will continue is
only decided by what the CPU ran when the process was last switched out.
Keeping threads and processes apart is what makes the first-tick defect below
expressible.

Code that runs with the flag clear is one step (`proc_create`, `proc_destroy`,
the whole of `schedule` with the register switch). `proc_exec` and
`processes_cleanup` are several steps, held in `call[t]`, because the flag may
be set between them: `proc_exec` by the garbage `irq_disable` returns,
`processes_cleanup` because it disables nothing. `IrqFlagsKept` chooses between
a build in which the flags survive in the return register and one in which
`irq_restore` restores anything (`Restored`). The page directory is part of the
context and of the CPU. `nullref` records the sites at which the code went on
through a NULL or freed `proc_t`; the model lets it go on the way the memory
would. NULL is mapped low memory. A pointer to a destroyed process leads to the
`proc_t` as it was left, or to that of a process created since in the same memory
(`PointsTo`): `processes_cleanup` and `proc_exec` go on with either, switch to its
directory, follow its link, and may destroy the new process in place of the old.
Only when `proc_destroy` is given a freed `proc_t` that nobody has taken does the
behaviour end (`Lost`): `SLIST_REMOVE` then follows links from an element that is
in no list.

Left out: names, uid/gid, contents of stacks. The descriptors are in `Files`.

### Dev

The state is what the C files keep: four lists, newest first, and their
counters. `MKDEV` keeps the width of the code: minor numbers are `0..Minors-1`,
and a larger number spills into the major exactly as the `|` does, so TTY
number `Minors` has the number of the first multiboot module. Error returns
change nothing and are stuttering steps. `mount_initrd` is the search by name,
the index among all devices and the `devfs_get` of that index in
`bootstrap_main`. Names are shorter than `NAME_MAX`.

### Mem

Everything is counted in pages and scaled down: `Entries` entries per table
(1024 in the code), `KrnlTables` kernel tables (256), `Frames` frames (2^20).
Directories and tables have one layout, so `page[f]` is the content of frame
`f` read as a table; this keeps the case in which a directory is used as a page
table. Address arithmetic wraps at `Frames`; `Enomem` is the frame of the
unsigned `-ENOMEM`. The kernel's data lie in `0..Image-1`. Two environment
assumptions are marked: the kernel takes a step only while its image and
directory are mapped (`Running`: otherwise the CPU faults, which is outside the
model), and `UserPage` bounds the addresses programs are linked at so that the
contents of user pages are never walked as tables. `LayoutAssumption` says how
the numbers of the code lie to each other: the image and two more pages are in
memory and in the kernel's part of the address space, the kernel's part is not
all of it, memory ends before the address space does, and a directory reaches
every page.

### Loader

`module_init` is recursive; the calls in progress are a stack of frames, each a
module and the index into its `deps`. Dependencies are chosen in `Init` and
never change. The loaded list is what the code keeps of it: its head and the
link of each module, because the link is what `module_init` looks at
(`module.c:57`). Module initialisers are external: they succeed or fail. Ids in
an image differ, since each is part of a global symbol's name, so the `EEXIST`
return of `module_install` is not reached. Circular dependencies (`Acyclic`) are
left out: on them the code recurses until the stack is exhausted.

### Vfs and Files

Names are sequences of characters and paths sequences of names, because the code
compares prefixes of both; a slash at the start is a flag. `Vfs` has the
registries and what each lookup returns and leaves, `Files` the calls. A call of a
process is held in `call[p]` and its steps are actions of their own, so that
mounts, lookups, exits and unregistrations of other processes fall between them:
picking the descriptor, each statement of procfs's `get_child` that reads or
writes what processes share (the other file systems' children do not change, so
their walk is a step), storing the node, opening it; closing it, clearing it;
finding a mount's source, mounting. The lookup in procfs has ten such steps: the
comparison of the lengths, and for each index of the cleanup the node, its
comparison with the process there, its removal, its freeing; then the check of the
number of processes, the look into the cache, the new node, its addition, or the
node that is there. A pointer to a freed node leads to the node as it was left or
to one made since (`PointsTo`), so a preempted cleanup may remove and free a node
that is not the one it looked at; freeing a freed node sets `lost`, and reading a
pid through NULL gives any. A kernel module's file system is external: one file
that counts its openings and may refuse to open or close. A pointer that `kmalloc`
left as it was is NULL or anything; calling anything sets `lost`, after which
nothing is claimed. Some things are one step here that are several in the code: a
call on a list with the counter beside it, `fs_resolve`'s choice of a mount point
and the cut of the path after it, and a process looked up with its pid. The
position that names a node of procfs is one character however many digits it has,
and behind the last node of the initrd, whose list head is not initialised
(`initrd.c:77`), a walk that finds nothing may be lost.

The model shows which parts of the code are dead: `FS_NODE_TYPE_GET` never
returns what `FS_NODE_TYPE_SET` stored (assumption `DeadBranches`, evaluated by
TLC), so the link and `EISDIR` branches of `fs.c` are not reached.

`Files` refines `Descriptors`: a descriptor counts as open from the step in
which its node agreed to open to the step in which it agreed to close
(`Table`). The run checks `Table!Spec` as a property.

### Bus and Pci

The entries of a bus name the device that drives them, so `Bus` extends `Dev`
and calls its `device_fromname`; devices come and go between the calls. Memory
of a freed entry comes back with the driver name it had (`stale`). Neither
`bus_adddev` nor the scan initialises the list of resources of an entry: it is
empty or begins with what lay there (`Junk`).

All reads of `pci.c` leave the register out of the address and give register 0:
device number above vendor number. `Pci` therefore takes header type, class,
secondary bus, interrupt and base addresses from these two numbers. The
recursion through bridges is a stack in `scan`, a step is one `check_func`.
`MCPlan` explores the device API alone, drivers on buses, and scans, one per
behaviour: a scan runs with interrupts off and does not interleave with the
others (`PlanAssumption`: a behaviour with a machine has no other callers of
`bus.c`). `todo` is the set of buses `pci_init` has still to check, which it does
in increasing order.

### Trap, Klog and Clock

Each thread has a stack of frames; an interrupt's frame is at its
acknowledgement, at its handler or at its return. `schedule` leaves a frame
behind and goes on with any thread (which one is the business of `Proc`). The
two controllers are external: lines raised and in service, priorities, and an
end of interrupt that clears the first line in service. The stubs of
exceptions push 1 for every vector, so the handlers `sched_init` registers for
faults are never called: `isr_handler` prints, sends an end of interrupt and
returns to the instruction that faulted.

A thread prints in four steps (room, place, text, position), a handler in one. The
room is an unsigned difference, so it is huge once the position has passed the
end. The clock's registers are read one by one, each twice because `from_bcd` is a
macro that evaluates its argument for the tens and for the units, into a signed
character; the clock may go on between any two of the twelve reads, and a tick
between selecting and reading a register leaves the index at the year, because
`schedule` prints and so reads the clock too. An era is a sequence of dates of the
calendar, none before the one in front of it (`ErasAssumption`). Behaviours in
which the clock moves read it, the others run `Trap`: the two share no variable
but `boot_time`, and the text of a message is left out.

## 3. Runs

`tlc -workers 2 -config <cfg> <module>`; all bounds are CONSTANTS in the cfg.

| Run | Module / cfg | Result | Shows |
|---|---|---|---|
| `proc_preempt` | `Proc` / `ProcPreempt` | holds, 176k states | under preemption everywhere, with garbage interrupt flags and a child that may be destroyed while it is loaded: `TypeOK`, `ListConsistent`, `ThreadsUnique`, `WindowChildren` |
| `proc_signals` | `Proc` / `ProcSignals` | holds, 204k | signals, handlers and `processes_cleanup` against creation, destruction and ticks: `OneRunning`, and `ListConsistent` across a cleanup whose process another thread destroys |
| `proc_share` | `MCProcShare` / `ProcShare` | holds, 20k | with flags that survive: `LoadingNotRun`, `FairShare`, nobody has two turns while another waits (`NoOvertaking`), and round robin reaches every process (`EveryProcessScheduled`) |
| `proc_entry` | `Proc` / `ProcEntry` | violated | `EntryNotForgotten`: the first tick saves the boot thread over the entry point of the first process |
| `proc_wedge` | `Proc` / `ProcWedge` | violated | `EveryProcessScheduled`: once `curr_pid` names a destroyed process, `schedule` returns early for ever |
| `dev_registry` | `MCBus` / `Bus` | holds, 114k | registrations and unregistrations in any order, past the last minor number: `TypeOK`, `DevicesUnique`, `CountsAgree`, `InitrdKept`; drivers on buses while devices come and go: `EntriesNamed`; scans of four machines, twice: `ScanFinds`, `ScanReturns` |
| `dev_unregister` | `MCDev` / `DevUnregister` | violated | `UnregisteredCentrally`: unregistering one of two TTYs removes the other's device |
| `mem_kernel` | `MCMem` / `MemKernel` | holds, 42k | allocations and releases in any order, past the end of memory: `TypeOK`, `UsedCounted` always; `FramesOwned`, `KernelShared` while calls are served |
| `mem_map` | `Mem` / `MemMap` | violated | `MapTakesEffect`: `virt_map` enters the directory as its own page table |
| `loader_boot` | `MCLoader` / `LoaderBoot` | holds, 25k | all acyclic dependencies of three modules and an id that is not linked in: `TypeOK`, `DepsFirst`, `OnlyFirstAgain`, `AllInited`, and `modules_init` returns (`Returns`) |
| `files` | `MCFiles` / `Files` | holds, 340k | file calls of two preempted processes over the initrd, procfs and a module's file system, while mounts, processes and the file system come and go: the refinement `DescriptorTable`, `HeldOpen`, `NamedAsAsked`, `TypeOK`; two lookups of procfs interleaved statement by statement: `CacheLive` until one frees what the other has in hand, `CacheBounded` |
| `trap` | `MCTrap` / `Trap` | holds, 1.5M | the timer, a line of each controller and page faults in two threads that print: `AcksOwn`, `NoneInService`, `TicksServed`, `LogWithin`, `TypeOK`; the clock across the ends of minutes, months and years: `ClockAhead`, `SecondsCount` |

Deadlock is not checked: a kernel with nothing to do, or one whose bound on
created processes or names is used up, may stop.

**Bounds.** `MaxPid = 3` gives a parent, a child and a third process, and room
for the destroyed-while-used cases; `CHILD_MAX = 2` (1 in `proc_signals`) fills
the child array and lets children go in either order; `SCHED_RECCOUNT = 1`
where the record does not matter, 5 with four processes in `proc_share`, so that
the record is no multiple of the number of processes and wraps. `MaxSegs = 1`
suffices for the switch into the child's directory and back. With `Minors = 2`
and four names, both counters reach and would pass the last minor number; the
code's 256 changes nothing but the distance, and the proofs do not depend on it.
In `MemKernel` memory (10 of 12 frames, image 4,
one reserved frame in the middle) is exhausted by three or four calls, in
physical and in virtual space; one page of `UserPage` lies under the kernel's
tables and one above. In `LoaderBoot` three modules and lists of two are the
smallest in which a module has two dependencies, a dependency has one of its
own, the first module loaded is needed by two others, and an id may be missing.
Two buses allow one name twice, two scans a second `pci_init`; `MaxDepth = 4` is
one more than a machine whose bridges do not lead to themselves needs. The
machines of `MCBus` have an ISA bridge, two functions of one name, a function
that is never asked for, bridges to one bus, functions that stand for buses, and
a bridge on the bus it leads to. In `Files` the workloads are two processes on
one file, mounts of every kind on nested and on prefix-sharing paths, and, twice,
processes that come and go while two of them walk procfs: three processes and two
nodes, or two processes and three nodes; `OPEN_MAX = 2`
lets the table be full, `OffMax = 2` lets an offset wrap, `MaxIno = 7` leaves
procfs nodes to make and to remake after a removal. In `Trap` the log has room
for two messages, so that the third wraps and `MaxPos` is a message past the
end; lines 0, 4 and 8 are the timer, one line after the cascade and one of the
second controller. `MCEras` has the end of every month in a leap year, another
and the year 0, the ends of a minute, an hour and a year, and the end of
February in 2084, whose register is negative as a character.

**Fairness.** `WF(schedule)`: the programmable timer fires for ever, and
`schedule` is enabled whenever the flag is set and the current process is alive.
`WF(sti)`, `WF(exec_goes)`, `WF(cleanup_goes)`: a thread on the CPU that is inside
a call executes its next statement. No call ever has to begin: processes are
created, or not, at any time, and each creation enters in front of the list, where
`schedule` starts again after its end. In the run creations end at `MaxPid`;
`NoOvertaking`, which is proved, says without that bound that they cannot keep
another process waiting for more than one turn of each. `sti` is the assumption
that a new thread sets the interrupt flag at some time: `proc_create` starts it
with the flag clear (`proc.c:64` clears EFLAGS) and nothing in the kernel sets it
for it, so a program that does not is never preempted. `WF(Next)` in `Loader` and
`WF(Scan)` in `Pci`: the boot thread, alone on the CPU, keeps executing. In
`Trap`, `WF(Handling)`: code that runs with the flag clear runs on;
`SF(deliver(0))`: a processor whose flag is set and whose controller asks takes
the interrupt before the next instruction, so that a tick is taken when the flag
is set again and again, however shortly. `TicksServed` is under the premise that
the flag is.

## 4. Proofs

`tlapm <module>`. Proved for every value of the constants that satisfies the
`ASSUME`s.

Every invariant and every action property that a passing run checks is proved.
Each proof module has one inductive invariant, `IInv` (or
`SysInv`), a lemma per action or group of actions, and a `THEOREM` per property.
The invariants were checked by TLC on the runs' instances first.

### ProcProofs

`TypeCorrect`, `ListSafe`, `ThreadsSafe`, `RunningSafe`, `ChildrenSafe`:
`Spec => []P` for `TypeOK`, `ListConsistent`, `ThreadsUnique`, `OneRunning` and
`WindowChildren`. `IInv` adds to these
- `Unused`: pids from `next_pid` on are in nobody's child array and no saved
  context or the CPU holds the thread of one; without it `proc_create` could
  hand out a thread or a child that is already somewhere;
- `ChildOnce`: over the *whole* child array, not only below `child_count`, a pid
  stands at most once. The window alone is not inductive: it grows over slots
  that `proc_destroy` left outside.

One lemma per group of actions (`EnterStep`, `RemoveStep`, `ScheduleStep`,
`SignalStep`, `CleanupStep`, `ExecStep`), on top of lemmas about the list
operators in `SlistProofs` (insertion at the head and removal preserve order and
add or remove exactly one element).

`LoadingSafe` and `ExecChildKept` are about a build in which `irq_restore` gives
back the flag that `irq_disable` found (`ASSUME IrqFlagsKept`; without it
`LoadingNotRun` is violated, section 5). `LoadInv`: a thread inside `proc_exec`
is the one on the CPU, the flag is clear, and the child it loads lives and is
not that thread. So the bracket in `proc_exec` is enough: nothing can run or
destroy the child.

`ShareSafe` is `FairShare` for any length of the record and any number of
processes. `Turns` counts back from the last tick: as many ticks as the list has
stood still were charged each to the process behind the one before, in list
order, cyclically. So the occurrences of two processes in a window of the record
alternate, and their numbers differ by one at most (`TurnBetween`, `TurnsFair`);
the record's slots are a window because `ticks` wraps where it is as long as the
history (`AgeSlots`, `AgeTick`).

`OvertakingSafe` is `NoOvertaking`. `Waiting` says where in the list those stand that
had a turn while `p` waits: while the walk down the list is still to reach `p`, at or
above the current process, where the walk came by, or below `p`, where it came by
before it began again; once it has passed `p`, between `p` and the current process.
The next process, just below the current one or the head again (`NextBelow`), is in
neither place, and a new process stands above all that the walk has still to reach.

### DevProofs

`TypeCorrect`, `DevicesSafe`, `CountsSafe`, `InitrdSafe` for
`TypeOK`, `DevicesUnique`, `CountsAgree`, `InitrdKept`; and `Inductive` for the
whole. `IInv` adds `NamesOnce` (no name twice in the TTY or block list, needed
for the lengths after a removal) and `DevfsLater` (no node is made before the
initrd is mounted, which makes the index found among the devices an index of a
new node). The interesting argument is why the counters never pass `Minors`
although nothing compares them with it: TTY number `Minors` spills into the
major number and collides with the initrd's device, which is never removed; and
with `Minors` block devices each of the minor numbers is taken (a cardinality
argument, `BlockNumbersTaken`), so the wrapped number is refused.

### LoaderProofs

`TypeCorrect`, `DepsSafe`, `OnceSafe`, `AllSafe` for `TypeOK`,
`DepsFirst`, `OnlyFirstAgain`, `AllInited`, for any modules, any image and any
dependencies without a circle. `IInv` adds what the links stand for (`Marked`: a
link is set just when the module was initialised other than as the first;
`HeadSet`), what each frame has done (`Frames`: the dependencies before its index
are initialised but for the one the next frame is about, and its own module has
no link), `Installed` and `Visited`. The step that makes it inductive is
`NoRepeat`: no module is in two frames at once, because the modules between the
two frames would be a set in which each depends on another of the set. Without
it, initialising the innermost module could set the link of one further out.

### MemProofs

`TypeCorrect`, `UsedStaysCounted` about `Mem`, `FramesStayOwned`,
`KernelStaysShared` about `MCMem`, for any layout that `LayoutAssumption` allows.
The calls are functions from a memory state to another, so there is a lemma per
function rather than per action, and the loops over pages and tables are
inductions over their rounds (`LoopRuns` of `SlistProofs`: an invariant of the
round is one of the loop; the library's induction cannot be used, a set of
numbers with a least missing one can). `used_mem` is right in the arithmetic of
its width, whatever is marked or freed twice: `SetUsed` and `SetFree` move bitmap
and counter together (`Counted`).

`FramesOwned` needs what a frame is used for (`Owned`): the kernel's own directory
and tables are where boot put them and map themselves, no two kernel pages share
a frame, a block that `virt_alloc` gave is still mapped page by page, blocks do
not overlap, and the directories made since boot have the kernel's tables in
their lower part. The pages `mem_alloc` maps are exactly the pages that had no
entry, so an allocation adds frames nobody has and a release removes those of one
block. All of it under `served`: the first call that finds no room ends it, see
section 5.

### FilesProofs

`TypeCorrect`, `FilesStayOpen`, `CacheStaysLive`, `CacheStaysBounded` for
`TypeOK`, `HeldOpen`, `CacheLive` and `CacheBounded`, and `ImplementsTable`: `Spec
=> Table!Spec`, the refinement of `Descriptors`. `IInv` is mostly about what a
call finds again when it goes on (`CallOK`): while a walk runs the descriptor it
will use is free and every lower one is open, since only the process itself
changes its table; when the file is opened the offset is still 0. So the step at
which `nl_open` succeeds takes the lowest free number of the *abstract* table
although it chose it many steps before, and every other step of a call leaves that
table alone or closes or moves one descriptor.

`CacheLive` is under `torn`, the history that a node was freed which another lookup
had in hand; the code does that (section 5), and from then on a node may be freed
that is linked. Before, every pointer leads to the node it was taken from, and what
makes the invariant inductive is who holds a node at which statement (`Sound`): what
a lookup is about to add is in no list and in no other hand, what one is about to
free is in no list (`NewFor`), and what is made next is newer than every pointer
(`Older`). `CacheBounded` counts the lookups between the look
into the cache and the addition with the cache: a lookup gets there only with an
index below the number of processes (`Counts`) and at or past the end of the cache,
so that the cache was shorter than `most` then, and each of the other callers can
add one node beyond.
`most` is the largest number of processes there has been, since processes go while
a lookup is under way and nodes only at the next cleanup.

`HeldOpen` is a statement about a cardinality over all processes: a step changes one
row of the table, and `HeldStep` carries the count over.

`FoundAsAsked` for `NamedAsAsked`, by an invariant of its own over `IInv`
(`Named`): of the path a walk has left, when it is one or two names, the first
ends the name that stands as far from the end of the path `nl_open` was given
(`EndOf`). That holds where the walk starts because a target covers characters
and `Below` cuts them off (`BelowEnds`); going down a directory leaves no name,
and no child bears none; and where the walk stops, the child bears the first name
left (`FoundBears`). Mounts that come and go meanwhile do not matter, since the
path was cut when the call began.

### TrapProofs

`TypeCorrect`, `NothingInService`, `AcknowledgesOwn`, `LogStaysWithin` for
`TypeOK`, `NoneInService`, `AcksOwn`, `LogWithin`. `Core`: what is in service is
the interrupt on top of the running stack until it is acknowledged, and nothing
otherwise (`Service`); that depends on the flag being set only over an empty
stack and a second frame being a fault with the flag clear (`Nesting`), and a
thread that does not run having been left in a tick (`Left`). `Log`: as long as
no message was torn there is one call of `print` at a time and it stands where
the position is.

`ClockSafe` and `SecondsRight` for `ClockAhead` and `SecondsCount`, for any dates.
The loop over the months is an induction along a sequence (`MonthTable`: the
table of days before a month). A reading is that of moments in increasing order, two
per register (`Reading`); a register that did not slip reads no less than at the
first of its two moments, and since the higher fields come from the later moments
the date they make is not before the first (`TornDates`), which is no fewer seconds
(`SecondsOrder`) in a year that the two digits share. A register slips when its
digits lie on two sides of a carry and make less than either (`Slips`); that reading
and the one in which a register was read for another are left out of the property,
because they do go back.

### BusProofs

`EntriesAlwaysNamed` and `ScanAlwaysFinds` for `EntriesNamed` and `ScanFinds`,
`SystemTyped` for the types, and
`SystemImplementsDev`: the composed system of `Pci` is a behaviour of `Dev`'s
specification, so what `DevProofs` proves holds in it (`SystemDevices`).

`SysInv` is `BusTyped`, `Numbered` (counters and lengths, names of a list differ),
`ScanTyped` and `ScanInv`, the argument that a scan misses nothing. All bridges
lead to bus 6, since `pci.c` reads the secondary bus from register 0 too. The
stack of `check_bus` is a chain of bridges (`Chain`); what is before the position
of a frame has an entry (`Checked`); and a bridge that the scan has left behind
(`Past`, `Behind`) has had bus 6 checked to its end (`Complete`). When the stack is
empty and nothing is to do, everything reachable has an entry, and every entry is
a function that can be reached (`Sound`). For any machine: the ones on which the
scan does not end have no `done`. The
resources of an entry are those of functions of its name, in front of what the
memory of the entry began with.

### Only model-checked

Liveness (`EveryProcessScheduled`, `Returns`, `ScanReturns`, `TicksServed`), which
rests on fairness and ENABLED and is beyond TLAPS.

What the attempts to prove showed:
- `NamedAsAsked` was too strong: with a mount on `/b` the path `/bx/y` leads to the
  child `x` of its root, the end of the name in front of the last. It now says so.
- `ClockAhead` does not hold from year 80 on: 2084 reads as -66, which is no leap
  year, so the time falls back a day at the end of February. The property and the
  dates TLC checks were changed accordingly.
- The layout of memory, the order of dates, the plans of a scan and that a path has
  no empty name had been left to the configurations; the proofs need them, and they
  are assumptions now.

## 5. Findings

Four runs show that the code does not do what its comments or documents say:
`proc_entry` (`proc.c:117`, the comment at `proc.h:280` describes the symptom),
`proc_wedge` (`proc.c:197`), `dev_unregister`
(`tty.c:71`, `block.c:111` against `docs/devices/`), `mem_map` (`mem.c:107`).

Further behaviour that the models contain and no property states, because the
code promises nothing about it:
- `irq.c:9`: `irq_disable` returns nothing, against `irq.h:20`. With
  `IrqFlagsKept = FALSE` and the rest of `ProcShare`, `LoadingNotRun` is violated:
  a tick runs a process that `proc_exec` is still loading.
- `asm/idt.s:9,18`: exceptions push 1, so no fault is ever turned into a signal
  and a faulting instruction faults for ever, with a message each time.
- `fs.c:94`: `dirname` changes the path it is given in place, so that a lookup
  below a directory with a name of one character gives the directory, and the
  source of a mount is stored cut; with a longer name it searches the directory
  for the empty name. Targets are matched as prefixes of characters, newest
  first; the `EBUSY` check compares a target before its slash is stripped.
- `fs.c:99`, `system.c:71, 86`: nodes of file systems that set no `get_child`,
  `open` or `close`, and descriptors that are not open, are called through
  whatever the memory held. An error code is added to the offset, and
  `initrd_read` reports the size of the whole file.
- `fs/procfs.c:14-53`: nodes are named by position, not by pid, compared with the
  process at their position, and freed while descriptors and walks have them; with
  more nodes than processes the pid is read through NULL. The lookup runs with
  interrupts on: two of them in the cleanup free one node twice; a node made in the
  memory of a freed one is freed through the old pointer and then linked; and a node
  is added when the process it was made for is gone or another lookup has added one,
  so the cache outgrows the process list. `CacheLive` and `CacheBounded` state what
  is left.
- `proc.c:126`: a process destroyed inside `nl_open` or `nl_close` closes its file
  once more than it opened it.
- `bus.c:94, 110`: the list head of a new bus is not initialised, an entry's link
  is read after it was freed, a new entry may be born with a driver, and its list of
  resources starts with what the memory held. `bus.h:168` says that `bus_getdev`
  takes the name of the device on the bus; the code (`bus.c:53`) compares the name of
  its driver, so `bus_regdev` refuses a driver that another entry has, and `bus_unregdev`
  takes whatever driver the named entry has.
- `pci.c:15`: the register is left out of the address. `pci.c:89`: two functions
  may get one name, and the second is written over the first.
- `log.c:27, 42`: the terminator is written a time stamp past the room that was
  compared. A tick inside a message moves the position under it; once it has
  passed the end it does not come back.
- `clock.c:13, 35`: each register is read twice, the tens from the first read and the
  units from the second: seconds that go from 09 to 10 in between read as 00, months
  as January, and the time goes back.
- `clock.c`, `time.c`: the year has two digits and is compared with 1970, so the
  time is that within the year; from year 80 on it is negative, and a leap year
  is not one (2084 reads as -66): the time goes back a day after its February.
- `proc.c:131`: destroying children out of order shrinks the window below
  `child_count` over slots that are in use; those children are not found again
  and the count differs from the number of children.
- `proc.c:201`: `schedule` makes the current process ready even if it is a
  zombie, which `processes_cleanup` then passes by.
- `proc.c:139`: the parent of a child may be gone; `proc_destroy` then works
  through NULL. `proc.c:188`: `processes_cleanup` reads the link of a freed
  element; when another thread has destroyed the process under it, or under
  `proc_exec` (`proc.c:249-273`), both go on with the freed `proc_t` and may destroy
  it once more.
- `proc.c:257-267`: `proc_switch_pgdir` without a current process saves and
  restores a word of low memory as `cr3`; when a segment cannot be read the
  directory the CPU is in is freed. So no property says whose the page directories
  are: the first `proc_exec` at boot, the only caller of `proc_switch_pgdir` there
  is, already breaks any such rule.
- `mem.c:57`: `-ENOMEM` is used as a frame by every caller; `mem.c:50`: only the
  start of a run is compared with the size of memory, in `mem_allocident`
  nothing is; `mem.c:260`: the inner loop of `mem_free_pgdir` advances the outer
  index, so the frames of a program are never freed.
- `alloc.c:17`: the hooks multiply the page count by `PAGE_SIZE`.
- `module.c:57`: the module loaded first has a NULL link and is initialised again
  by the next module that depends on it or when the loop comes to it; the loaded
  list then is a circle. `OnlyFirstAgain` is what is left of "once".
- after unregistering the newer of two TTYs its number is lost to the other: the
  remaining TTY can be neither unregistered nor joined by a new one
  (`tty.c:55, 71`).

## 6. Not modelled

The components marked `not_modelled` in `PROJECT.json`, with reasons: the serial
driver (port I/O; its registrations are calls of `Dev`), the system call table (a
lookup with a range check that nothing installs), the GDT, the timer's divisor
and the FPU, user programs and host tools, submodules that are not in the tree
(liballoc, miniz, unicorn, the toolchain). From modelled components: what
programs write into their pages, the write and user bits of page table entries,
names of processes, messages torn by others beyond their positions, and block
device I/O: nothing in the tree registers a block device, and no file system
reads one.

## 7. Plan

1. Done: all modules of section 2 with their runs, and the proofs of section 4.
2. Liveness stays with TLC.

Modules with theorems avoid RECURSIVE operators.

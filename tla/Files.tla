------------------------------- MODULE Files -------------------------------
(***************************************************************************)
(* The file calls of newland/src/system.c on the descriptors each process  *)
(* keeps in its proc_t, over the nodes of Vfs, with what proc_create and   *)
(* proc_destroy (newland/arch/x86/src/proc.c) do to them.                  *)
(*                                                                         *)
(* Processes are preempted anywhere, so the calls that take several steps  *)
(* are several actions: nl_open and mountpoint_create walk the children of *)
(* a directory one get_child at a time, that of procfs statement by        *)
(* statement, nl_open stores the node before it asks the node to open,     *)
(* nl_close clears it after the node has closed.  Another process may look *)
(* up, mount or destroy in between.  A call on a list is one step, with    *)
(* the counter beside the list, and so are fs_resolve's choice of a mount  *)
(* point and its cut of the path, and a process looked up and its pid.     *)
(*                                                                         *)
(* mode, uid and gid of a descriptor are copied and never looked at, and   *)
(* are left out.  A call that is refused (EINVAL, EMFILE, ENOENT, EBUSY)   *)
(* changes nothing else and ends where it is refused.                      *)
(***************************************************************************)
EXTENDS Vfs

CONSTANTS MaxPid,      \* bound on the processes created
          OPEN_MAX,    \* descriptors of a process: 512
          OffMax,      \* offsets are unsigned numbers below it: 2^32
          FileSize,    \* bytes in a file of the initrd
          MaxMounts,   \* bound on the mount points
          Workload     \* what is done in a behaviour, see below

ASSUME MaxPidAssumption == MaxPid \in Nat \ {0}
ASSUME OPEN_MAXAssumption == OPEN_MAX \in Nat \ {0}
ASSUME OffMaxAssumption == OffMax \in Nat /\ OffMax >= FileSize /\ FileSize \in Nat \ {0}

\* A behaviour explores one of several mixtures of calls: the paths opened, what
\* is mounted from where and on what, the other calls made, how many processes
\* there are, which of them make calls, and the last node procfs makes.
ASSUME WorkloadAssumption ==
    \A w \in Workload :
        /\ w.fs \subseteq {MS_BIND, "procfs", ModFs} /\ NoSource \notin w.targets
        /\ w.calls \subseteq {"close", "transfer", "umount", "fs", "exit"}
        /\ w.pids \in 1..MaxPid /\ w.callers \subseteq 1..w.pids /\ w.inodes \in 0..MaxIno
        /\ w.paths \subseteq Seq(Seq(Int) \ {<<>>})
        /\ \A target \in w.targets : target.comps \in Seq(Seq(Int))

VARIABLES fd,         \* the descriptors of each process
          call,       \* the call each process is in
          next_pid,
          opened,     \* external: how often the module's file is open at its driver
          unmatched,  \* the file was asked to close a descriptor it had not opened
          lost,       \* the kernel called through a wild pointer or freed twice
          most,       \* history: the most processes there have been at a time
          torn,       \* history: procfs freed a node that another lookup held
          workload    \* chosen at the start

history == <<most, torn>>
vars == <<vfs_vars, fd, call, next_pid, opened, unmatched, lost, history, workload>>

Pid == 1..MaxPid
Fd == 0..(OPEN_MAX - 1)
Live == SlistElems(processes)

\* A descriptor, and a call: where it is, the path it was made with (as), the rest
\* of it (path) to be found below root, the child asked for next (i); the node that
\* procfs has in hand, and where its cleanup is (k).
NoFd == [node |-> NoNode, offset |-> 0]
Idle == [st |-> "idle", slot |-> 0, root |-> NoNode, path |-> <<>>, i |-> 0, as |-> <<>>,
         fs |-> MS_BIND, src |-> NoSource, target |-> NoSource, node |-> NoNode, k |-> 0]

\* -ENOSYS and the other error codes as an unsigned number.
Errno == OffMax - 1
-----------------------------------------------------------------------------
(* Processes *)

\* proc_create clears the descriptors.
proc_create ==
    /\ next_pid <= workload.pids
    /\ processes' = SlistInsertHead(processes, next_pid)
    /\ next_pid' = next_pid + 1
    /\ fd' = [fd EXCEPT ![next_pid] = [i \in Fd |-> NoFd]]
    /\ most' = Max({most, Len(processes) + 1})
    /\ UNCHANGED <<fs_list, mp_list, next_inode, procfs, call, opened, unmatched, lost, torn>>

\* The descriptors of p that refer to the module's file, and the ones among them
\* that it has opened and not closed yet.
OfMod(p) == {i \in Fd : fd[p][i].node.kind = "mod"}
Held(p) == {i \in OfMod(p) : call[p].st \in {"open", "clear"} => call[p].slot # i}

\* fs_node_open and the others call the pointer in the node unless it is NULL: it
\* may be anything when the file system did not set it, or there is no node.
Wild(n, op) == ~(n.kind = "mod" \/ (n.kind = "file" /\ op = "read"))

\* proc_destroy asks every node to close, whatever it answers, before it frees
\* the process: any number of the closings may fail.  A node whose file system
\* sets no close has NULL there or anything.
proc_destroy(p) ==
    /\ p \in Live
    /\ \/ /\ \E n \in 0..Cardinality(OfMod(p)) : opened' = opened - n
          /\ unmatched' = (unmatched \/ OfMod(p) # Held(p))
          /\ UNCHANGED lost
       \/ /\ \E i \in Fd : fd[p][i].node # NoNode /\ Wild(fd[p][i].node, "close")
          /\ lost' = TRUE /\ UNCHANGED <<opened, unmatched>>
    /\ processes' = SlistRemove(processes, p)
    /\ fd' = [fd EXCEPT ![p] = [i \in Fd |-> NoFd]]
    /\ call' = [call EXCEPT ![p] = Idle]
    /\ UNCHANGED <<fs_list, mp_list, next_inode, procfs, next_pid, history>>
-----------------------------------------------------------------------------
(* procfs_get_child, one statement on shared state at a time *)

\* What a pointer to a node may point at: the node, and once that is freed the memory
\* as it was left, or a node of procfs made since.
PointsTo(n) ==
    IF n \notin freed THEN {n}
    ELSE LET nodes == SlistElems(procs) \cup {call[q].node : q \in Pid}
                        \cup {mountpoints[k].rootnode : k \in 1..Len(mountpoints)}
         IN  {n} \cup {m \in nodes \ freed : m.ino > n.ino}

\* The next child of a node is asked for.
Walking(p) == p \in Live /\ call[p].st = "walk" /\ Walkable(call[p].root)

At(p, st) == p \in Live /\ call[p].st = st
Goes(p, st, node, k) ==
    call' = [call EXCEPT ![p].st = st, ![p].node = node, ![p].k = k]
Returns(p) == call' = [call EXCEPT ![p] = Idle]
Quietly == UNCHANGED <<fs_list, mp_list, processes, fd, next_pid, opened, unmatched, most>>

\* Is there anything to clean up?
procfs_cleanup(p) ==
    /\ Walking(p) /\ call[p].root.kind = "procfs"
    /\ Goes(p, IF Len(procs) = Len(processes) THEN "ask" ELSE "clean", NoNode, 0)
    /\ Quietly /\ UNCHANGED <<next_inode, procfs, lost, torn>>

\* The head of its loop, and the node at the running index.
procfs_visit(p) ==
    /\ At(p, "clean")
    /\ IF call[p].k < Len(procs)
       THEN Goes(p, "compare", procs[call[p].k + 1], call[p].k)
       ELSE Goes(p, "ask", NoNode, 0)
    /\ Quietly /\ UNCHANGED <<next_inode, procfs, lost, torn>>

\* Is it the node of the process at that index?
procfs_compare(p) ==
    /\ At(p, "compare")
    /\ \E n \in PointsTo(call[p].node) :
          \/ Stays(n, call[p].k) /\ Goes(p, "clean", NoNode, call[p].k + 1)
          \/ Drops(n, call[p].k) /\ Goes(p, "remove", n, call[p].k)
    /\ Quietly /\ UNCHANGED <<next_inode, procfs, lost, torn>>

\* Mutant: the node is freed and stays in the list.
procfs_remove_kept(p) ==
    /\ At(p, "remove")
    /\ Goes(p, "free", call[p].node, call[p].k)
    /\ Quietly /\ UNCHANGED <<next_inode, procfs, lost, torn>>

procfs_remove(p) ==
    /\ At(p, "remove")
    /\ \E n \in PointsTo(call[p].node) :
          procs' = liblist_remove(procs, n) /\ Goes(p, "free", n, call[p].k)
    /\ Quietly /\ UNCHANGED <<next_inode, freed, lost, torn>>

\* kfree of a node, which another lookup may have in hand; a second one loses the
\* kernel.
kfree(p, n) ==
    IF n \in freed THEN lost' = TRUE /\ UNCHANGED <<freed, torn>>
    ELSE /\ freed' = freed \cup {n}
         /\ torn' = (torn \/ \E q \in Pid \ {p} : call[q].node = n)
         /\ UNCHANGED lost

procfs_free(p) ==
    /\ At(p, "free")
    /\ \E n \in PointsTo(call[p].node) : kfree(p, n)
    /\ Goes(p, "clean", NoNode, call[p].k + 1)
    /\ Quietly /\ UNCHANGED <<next_inode, procs>>

\* Mutant: the number of processes is not asked for.
procfs_ask_unbounded(p) ==
    /\ At(p, "ask")
    /\ Goes(p, "look", NoNode, 0)
    /\ Quietly /\ UNCHANGED <<next_inode, procfs, lost, torn>>

\* Is there a process with the index?  ENOENT ends the walk.
procfs_ask(p) ==
    /\ At(p, "ask")
    /\ IF call[p].i < Len(processes) THEN Goes(p, "look", NoNode, 0) ELSE Returns(p)
    /\ Quietly /\ UNCHANGED <<next_inode, procfs, lost, torn>>

\* Is there a node at the index?
procfs_look(p) ==
    /\ At(p, "look")
    /\ Goes(p, IF call[p].i < Len(procs) THEN "get" ELSE "make", NoNode, 0)
    /\ Quietly /\ UNCHANGED <<next_inode, procfs, lost, torn>>

\* A new node, unless there is no memory for it.
procfs_make(p) ==
    /\ At(p, "make")
    /\ \/ /\ next_inode <= workload.inodes /\ next_inode' = next_inode + 1
          /\ Goes(p, "add", procfs_node(call[p].i), 0)
       \/ Returns(p) /\ UNCHANGED next_inode
    /\ Quietly /\ UNCHANGED <<procfs, lost, torn>>

\* It is added, or there is no memory for its place in the list.
procfs_add(p) ==
    /\ At(p, "add")
    /\ \/ /\ procs' = liblist_add(procs, call[p].node)
          /\ Goes(p, "match", call[p].node, 0)
          /\ UNCHANGED <<freed, lost, torn>>
       \/ kfree(p, call[p].node) /\ Returns(p) /\ UNCHANGED procs
    /\ Quietly /\ UNCHANGED next_inode

\* The node at the index, which may be gone by now.
procfs_get(p) ==
    /\ At(p, "get")
    /\ Goes(p, "match", liblist_get(procs, call[p].i, NoNode), 0)
    /\ Quietly /\ UNCHANGED <<next_inode, procfs, lost, torn>>

procfs_get_child(p) ==
    \/ procfs_cleanup(p) \/ procfs_visit(p) \/ procfs_compare(p) \/ procfs_remove(p)
    \/ procfs_free(p) \/ procfs_ask(p) \/ procfs_look(p) \/ procfs_make(p) \/ procfs_add(p)
    \/ procfs_get(p)
-----------------------------------------------------------------------------
(* Walking a path: the loop of fs_node_resolve *)

\* A process that is in no call starts one.
Ready(p) == p \in Live \cap workload.callers /\ call[p].st = "idle"

\* fs_resolve picks the mount point and hands the rest of the path to
\* fs_node_resolve; without a mount point it is EINVAL.
fs_resolve(p, path, c) ==
    /\ Covering(path) # {}
    /\ call' = [call EXCEPT ![p] =
          [c EXCEPT !.root = fs_resolve_mp(path).rootnode,
                    !.path = Below(fs_resolve_mp(path).target, path),
                    !.as = path]]

\* What the walk of p has before it: the child it stops at, or the one procfs gave.
Answer(p) ==
    IF call[p].st = "match" THEN PointsTo(call[p].node) ELSE {get_child(call[p].root, call[p].path)}
Answered(p) ==
    \/ Walking(p) /\ call[p].root.kind # "procfs"
    \/ p \in Live /\ call[p].st = "match"
Found(p, n) == n # NoNode /\ Matches(call[p].path, n.name) /\ ~LongDir(call[p].path)
Walks(p) ==
    /\ Answered(p)
    /\ UNCHANGED <<vfs_vars, next_pid, opened, unmatched, history>>

\* Another child of procfs (it may have given NULL, through which a name is read),
\* or the children of a directory whose name starts with the first component, to be
\* searched for the empty name.
walk_on(p) ==
    /\ Walks(p)
    /\ \E n \in Answer(p) :
          /\ n # NoNode \/ call[p].st = "match"
          /\ ~Found(p, n)
          /\ call' = [call EXCEPT ![p] =
                IF n # NoNode /\ Matches(@.path, n.name)
                THEN [@ EXCEPT !.st = "walk", !.root = n, !.path = <<>>, !.i = 0, !.node = NoNode]
                ELSE [@ EXCEPT !.st = "walk", !.i = call[p].i + 1, !.node = NoNode]]
    /\ UNCHANGED <<fd, lost>>

\* ENOENT ends the call of nl_open or mountpoint_create; the descriptor that was
\* picked still has no node.  In the initrd the walk first goes on behind the last
\* node, where anything may follow.
walk_fails(p) ==
    /\ Walks(p)
    /\ call[p].st = "walk" /\ NoNode \in Answer(p)
    /\ call' = [call EXCEPT ![p] = Idle]
    /\ lost' \in {FALSE, call[p].root.kind # "modroot"}
    /\ UNCHANGED fd

\* A node whose file system sets no get_child is walked, or one that has been freed, or
\* what is read through NULL is the name asked for.
walk_astray(p) ==
    /\ p \in Live
    /\ \/ call[p].st = "walk" /\ ~Walkable(call[p].root)
       \/ call[p].st = "walk" /\ call[p].root \in freed
       \/ call[p].st = "match" /\ call[p].node = NoNode
    /\ lost' = TRUE
    /\ UNCHANGED <<vfs_vars, fd, call, next_pid, opened, unmatched, history>>
-----------------------------------------------------------------------------
(* nl_open *)

\* Mutant: the search for a descriptor starts at its end.
nl_open_last(p, path) ==
    /\ Ready(p)
    /\ LET free == {i \in Fd : fd[p][i].node = NoNode}
       IN  /\ free # {}
           /\ fs_resolve(p, path, [Idle EXCEPT !.st = "walk", !.slot = Max(free)])
    /\ UNCHANGED <<vfs_vars, fd, next_pid, opened, unmatched, lost, history>>

\* The first descriptor without a node is picked, or it is EMFILE.
nl_open(p, path) ==
    /\ Ready(p)
    /\ LET free == {i \in Fd : fd[p][i].node = NoNode}
       IN  /\ free # {}
           /\ fs_resolve(p, path, [Idle EXCEPT !.st = "walk", !.slot = Min(free)])
    /\ UNCHANGED <<vfs_vars, fd, next_pid, opened, unmatched, lost, history>>

\* The node found is stored, and the rest of the descriptor is set.
nl_open_found(p) ==
    /\ Walks(p)
    /\ call[p].target = NoSource
    /\ \E n \in Answer(p) :
          /\ Found(p, n)
          /\ fd' = [fd EXCEPT ![p][call[p].slot] = [node |-> n, offset |-> 0]]
    /\ call' = [call EXCEPT ![p] =
          [Idle EXCEPT !.st = "open", !.slot = call[p].slot, !.as = call[p].as]]
    /\ UNCHANGED lost

\* Mutant: a node that refuses to open stays in the descriptor.
nl_open_opens_kept(p) ==
    /\ p \in Live /\ call[p].st = "open"
    /\ call' = [call EXCEPT ![p] = Idle]
    /\ opened' \in {opened, opened + 1}
    /\ UNCHANGED <<vfs_vars, fd, next_pid, unmatched, lost, history>>

\* fs_node_open: the module's file opens or refuses, which takes the node back;
\* a node without an open of its own has NULL there, or anything.
nl_open_opens(p) ==
    /\ p \in Live /\ call[p].st = "open"
    /\ call' = [call EXCEPT ![p] = Idle]
    /\ LET n == fd[p][call[p].slot].node
       IN  \/ opened' = (IF n.kind = "mod" THEN opened + 1 ELSE opened) /\ UNCHANGED <<fd, lost>>
           \/ /\ n.kind = "mod"
              /\ fd' = [fd EXCEPT ![p][call[p].slot].node = NoNode]
              /\ UNCHANGED <<opened, lost>>
           \/ Wild(n, "open") /\ lost' = TRUE /\ UNCHANGED <<fd, opened>>
    /\ UNCHANGED <<vfs_vars, next_pid, unmatched, history>>
-----------------------------------------------------------------------------
(* nl_close, nl_read, nl_write *)

\* fs_node_close of a descriptor that may not be open: the node's close is asked,
\* and when it refuses the descriptor stays.  Through the NULL node of a
\* descriptor that is not open, or a close nobody set, anything is called.
nl_close(p, i) ==
    /\ Ready(p)
    /\ LET n == fd[p][i].node
       IN  \/ /\ n # NoNode
              /\ call' = [call EXCEPT ![p].st = "clear", ![p].slot = i]
              /\ opened' = IF n.kind = "mod" THEN opened - 1 ELSE opened
              /\ UNCHANGED lost
           \/ Wild(n, "close") /\ lost' = TRUE /\ UNCHANGED <<call, opened>>
    /\ UNCHANGED <<vfs_vars, fd, next_pid, unmatched, history>>

\* The offset stays in the descriptor.
nl_close_clears(p) ==
    /\ p \in Live /\ call[p].st = "clear"
    /\ fd' = [fd EXCEPT ![p][call[p].slot].node = NoNode]
    /\ call' = [call EXCEPT ![p] = Idle]
    /\ UNCHANGED <<vfs_vars, next_pid, opened, unmatched, lost, history>>

\* What fs_node_read and fs_node_write return: initrd_read the size of the file
\* whatever was asked for, or EINVAL; a node without a read or a write ENOSYS.
initrd_read == {FileSize, Errno}
fs_node_read(n) ==
    CASE n.kind = "file" -> initrd_read
      [] n.kind = "mod"  -> {0, 1, Errno}
      [] OTHER           -> {Errno}
fs_node_write(n) == IF n.kind = "mod" THEN {0, 1, Errno} ELSE {Errno}

\* Whatever comes back, an error code too, is added to the offset.
nl_transfer(p, i, op) ==
    /\ Ready(p)
    /\ LET n == fd[p][i].node
       IN  \/ /\ n # NoNode
              /\ \E r \in IF op = "read" THEN fs_node_read(n) ELSE fs_node_write(n) :
                     fd' = [fd EXCEPT ![p][i].offset = (@ + r) % OffMax]
              /\ UNCHANGED lost
           \/ Wild(n, op) /\ lost' = TRUE /\ UNCHANGED fd
    /\ UNCHANGED <<vfs_vars, call, next_pid, opened, unmatched, history>>
nl_read(p, i) == nl_transfer(p, i, "read")
nl_write(p, i) == nl_transfer(p, i, "write")
-----------------------------------------------------------------------------
(* Mounting *)

\* mountpoint_create looks for the source and the target as they are given, and
\* resolves the source, in whose string dirname cuts.
mountpoint_create(p, fs, src, target) ==
    /\ Ready(p) /\ Len(mountpoints) < MaxMounts
    /\ fs = MS_BIND \/ fs \in SlistElems(filesystems)
    /\ FromSource(src) = {} /\ AtTarget(target) = {}
    /\ fs_resolve(p, src.comps,
          [Idle EXCEPT !.st = "walk", !.fs = fs, !.target = target,
                       !.src = [src EXCEPT !.comps = fs_resolve_cuts(src.comps)]])
    /\ UNCHANGED <<vfs_vars, fd, next_pid, opened, unmatched, lost, history>>

mountpoint_create_found(p) ==
    /\ Walks(p)
    /\ call[p].target # NoSource
    /\ \E n \in Answer(p) :
          /\ Found(p, n)
          /\ call' = [call EXCEPT ![p].st = "mount", ![p].root = n, ![p].node = NoNode]
    /\ UNCHANGED <<fd, lost>>

\* The file system may have been unregistered, and freed, during the walk.
mountpoint_create_mounts(p) ==
    /\ p \in Live /\ call[p].st = "mount"
    /\ mountpoint_create_fromnode(call[p].fs, call[p].root, call[p].src, call[p].target)
    /\ lost' \in {FALSE, call[p].fs \notin SlistElems(filesystems) \cup {MS_BIND}}
    /\ call' = [call EXCEPT ![p] = Idle]
    /\ UNCHANGED <<fs_list, processes, procfs, fd, next_pid, opened, unmatched, history>>

\* Mutant: the result of the mount is not looked at.
mountpoint_create_fails_linked(p) ==
    /\ p \in Live /\ call[p].st = "mount" /\ call[p].fs # MS_BIND
    /\ mountpoint_link(NoNode, call[p].src, call[p].target)
    /\ call' = [call EXCEPT ![p] = Idle]
    /\ UNCHANGED <<fs_list, next_inode, processes, procfs, fd, next_pid, opened, unmatched, lost, history>>

\* The file system's mount may fail.
mountpoint_create_fails(p) ==
    /\ p \in Live /\ call[p].st = "mount" /\ call[p].fs # MS_BIND
    /\ call' = [call EXCEPT ![p] = Idle]
    /\ UNCHANGED <<vfs_vars, fd, next_pid, opened, unmatched, lost, history>>
-----------------------------------------------------------------------------
\* The initrd is mounted and the first process runs.
Init ==
    /\ VfsInit
    /\ processes = <<1>> /\ next_pid = 2
    /\ fd = [p \in Pid |-> [i \in Fd |-> NoFd]]
    /\ call = [p \in Pid |-> Idle]
    /\ opened = 0 /\ unmatched = FALSE /\ lost = FALSE
    /\ most = 1 /\ torn = FALSE
    /\ workload \in Workload

FileCalls(p) ==
    \/ \E path \in workload.paths : nl_open(p, path)
    \/ walk_on(p) \/ walk_fails(p) \/ walk_astray(p) \/ procfs_get_child(p)
    \/ nl_open_found(p) \/ nl_open_opens(p)
    \/ "close" \in workload.calls /\ \E i \in Fd : nl_close(p, i)
    \/ nl_close_clears(p)
    \/ "transfer" \in workload.calls /\ \E i \in Fd : nl_read(p, i) \/ nl_write(p, i)

MountCalls(p) ==
    \/ \E fs \in workload.fs, src \in workload.sources, target \in workload.targets :
          mountpoint_create(p, fs, src, target)
    \/ mountpoint_create_found(p) \/ mountpoint_create_mounts(p) \/ mountpoint_create_fails(p)

\* Calls on the two registries that are over at once.
RegistryCalls ==
    /\ \/ "umount" \in workload.calls /\ \E target \in workload.targets : mountpoint_destroy(target)
       \/ ModFs \in workload.fs /\ register_fs(ModFs)
       \/ "fs" \in workload.calls /\ unregister_fs(ModFs)
    /\ UNCHANGED <<fd, call, next_pid, opened, unmatched, lost, history>>

Next ==
    /\ ~lost
    /\ \/ \E p \in Pid : FileCalls(p) \/ MountCalls(p)
       \/ RegistryCalls
       \/ proc_create
       \/ "exit" \in workload.calls /\ \E p \in Pid : proc_destroy(p)
    /\ UNCHANGED workload

Spec == Init /\ [][Next]_vars
-----------------------------------------------------------------------------
TypeOK ==
    /\ filesystem_count \in Nat /\ mp_count \in Nat
    /\ next_inode \in 0..(MaxIno + 1)
    /\ \A n \in freed \cup SlistElems(procs) : IsNode(n)
    /\ \A k \in 1..Len(mountpoints) : IsNode(mountpoints[k].rootnode)
    /\ Live \subseteq Pid /\ next_pid \in 1..(MaxPid + 1)
    /\ \A p \in Pid, i \in Fd :
          /\ fd[p][i].node = NoNode \/ IsNode(fd[p][i].node)
          /\ fd[p][i].offset \in 0..(OffMax - 1)
    /\ \A p \in Pid :
          /\ call[p].st \in {"idle", "walk", "open", "clear", "mount", "clean", "compare",
                            "remove", "free", "ask", "look", "make", "add", "get", "match"}
          /\ call[p].node = NoNode \/ IsNode(call[p].node)

(***************************************************************************)
(* Step by step, with other processes at work between the steps, the calls *)
(* implement the descriptor table of module Descriptors: a descriptor is   *)
(* open from the moment its node has agreed to open until its node has     *)
(* agreed to close, nl_open takes the lowest free number although it picks *)
(* it long before, and no call of one process touches another's.           *)
(***************************************************************************)
Table == INSTANCE Descriptors WITH
    Node <- 0..MaxIno, NoNode <- -1,
    Offset <- 0..(OffMax - 1),
    table <- [p \in Pid |-> [i \in Fd |->
                IF \/ fd[p][i].node = NoNode
                   \/ call[p].st \in {"open", "clear"} /\ call[p].slot = i
                THEN [node |-> -1, offset |-> 0]
                ELSE [node |-> fd[p][i].node.ino, offset |-> fd[p][i].offset]]]
DescriptorTable == Table!Spec

(***************************************************************************)
(* A file with an open and a close of its own is open at its driver at     *)
(* least as often as descriptors refer to it, whatever openings and        *)
(* closings fail and whichever processes are destroyed, with one           *)
(* exception: a process destroyed between storing the node and opening it, *)
(* or between closing it and clearing the descriptor, makes proc_destroy   *)
(* close the file once more than it was opened.                            *)
(***************************************************************************)
HeldOpen ==
    unmatched \/ opened >= Cardinality({d \in Pid \X Fd : d[2] \in Held(d[1])})

(***************************************************************************)
(* What nl_open finds bears the last name of the path it was given, or the *)
(* end of it after a target that is a part of the name, whatever was       *)
(* mounted during the walk, except that the directory is found when two    *)
(* names are left and the first of them is one character long.             *)
(***************************************************************************)
NamedAsAsked ==
    \A p \in Pid : call[p].st = "open" =>
        LET name == fd[p][call[p].slot].node.name
            as == call[p].as
        IN  \/ IsSuffix(name, Last(as))
            \/ Len(as) > 1 /\ IsSuffix(name, as[Len(as) - 1]) /\ Len(name) = 1

(***************************************************************************)
(* procfs frees nodes of its cache while it walks it by a running index    *)
(* and compares it with a list of processes that moves: what stays cached, *)
(* and what a lookup has in hand, is linked at most once and allocated,    *)
(* until a node is freed that another lookup holds.                        *)
(***************************************************************************)
CacheLive ==
    torn \/ /\ SlistNoDup(procs)
            /\ SlistElems(procs) \cap freed = {}
            /\ \A p \in Pid : call[p].node \notin freed

(***************************************************************************)
(* procfs asks for the number of processes long before it adds a node, and *)
(* only a lookup takes nodes out again: the cache, with the nodes lookups  *)
(* are about to add, never holds more than the most processes there have   *)
(* been at a time and one for each further process that may look up.       *)
(***************************************************************************)
Adding == {p \in Pid : call[p].st \in {"make", "add"}}
CacheBounded == Len(procs) + Cardinality(Adding) < most + Cardinality(workload.callers)
=============================================================================

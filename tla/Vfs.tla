-------------------------------- MODULE Vfs --------------------------------
(***************************************************************************)
(* File systems, mount points and the resolution of paths of               *)
(* newland/src/fs.c, with the nodes its two file systems make:             *)
(* newland/src/fs/initrd.c (an archive unpacked into a flat list) and      *)
(* newland/src/fs/procfs.c (a cache of one node per process).              *)
(*                                                                         *)
(* A name is the sequence of its characters, because the code compares     *)
(* prefixes of names; a path is the sequence of its components, without    *)
(* doubled or trailing slashes.  A path given to the kernel also says      *)
(* whether it starts with a slash, which the stored targets never do.      *)
(*                                                                         *)
(* Nodes come from kmalloc, which clears nothing: an operation pointer the *)
(* file system does not set holds NULL or anything, and calling anything   *)
(* loses the kernel.  A call that fails for want of memory changes nothing *)
(* and is a stuttering step.                                               *)
(***************************************************************************)
EXTENDS Slist, SequencesExt

CONSTANTS Archive,    \* the entries of the initrd, in order: [name, dir]
          ModFs,      \* the file system of a kernel module ...
          ModFile,    \* ... and the name of the one file in it
          MaxIno      \* bound on the nodes created

\* Directories of the archive are at its top, so that the dirname calls of
\* initrd_get_child leave their stored paths alone.
ASSUME ArchiveAssumption ==
    /\ Archive \in Seq([name : Seq(Int), dir : BOOLEAN]) /\ Archive # <<>>
    /\ \A i \in 1..Len(Archive) : Archive[i].name # <<>>
ASSUME ModFileAssumption == ModFile \in Seq(Int) \ {<<>>}
ASSUME MaxInoAssumption == MaxIno \in Nat /\ MaxIno > Len(Archive)

VARIABLES filesystems,        \* the list of registered file systems, newest first
          filesystem_count,
          mountpoints,        \* the list of mount points, newest first
          mp_count,
          next_inode,
          processes,          \* the pids of the process list, newest first
          procs,              \* the cache of procfs, newest first
          freed               \* the nodes given to kfree

fs_list == <<filesystems, filesystem_count>>
mp_list == <<mountpoints, mp_count>>
procfs == <<procs, freed>>
vfs_vars == <<fs_list, mp_list, next_inode, processes, procfs>>

\* The type of a node is put into its mode as 6 << type and taken out as
\* mode >> 6.
FS_NODE_DIR == 2
FS_NODE_LINK == 4
FS_NODE_TYPE_SET(type) == 6 * 2^type
FS_NODE_TYPE_GET(mode) == mode \div 64

\* Neither the type of a directory nor that of a link ever comes out, so the
\* branches of fs_node_read, fs_node_write and fs_node_vioctl for them, EISDIR
\* and the link's target, are dead and have no action below.
ASSUME DeadBranches ==
    \A type \in 1..6 :
        FS_NODE_TYPE_GET(FS_NODE_TYPE_SET(type)) \notin {FS_NODE_DIR, FS_NODE_LINK}

\* The character the others are told from; the roots are named "/".
Slash == -1

\* kind says who made the node, and with it which operations are set.
Kind == {"root", "dir", "file",   \* of the initrd
         "procfs", "proc", "gone",   \* the root of procfs, a process in it or none
         "modroot", "mod"}        \* of the module's file system
NoNode == [ino |-> -1, name |-> <<>>, kind |-> "none"]
IsNode(n) ==
    DOMAIN n = {"ino", "name", "kind"} /\ n.ino \in 0..MaxIno /\ n.kind \in Kind

MS_BIND == "bind"
NoSource == [abs |-> FALSE, comps |-> <<>>]   \* what mountpoint_create_fromnode leaves
-----------------------------------------------------------------------------
(* Registered file systems *)

register_fs(name) ==
    /\ name \notin SlistElems(filesystems)
    /\ filesystems' = SlistInsertHead(filesystems, name)
    /\ filesystem_count' = filesystem_count + 1
    /\ UNCHANGED <<mp_list, next_inode, processes, procfs>>

unregister_fs(name) ==
    /\ name \in SlistElems(filesystems)
    /\ filesystems' = SlistRemove(filesystems, name)
    /\ filesystem_count' = filesystem_count - 1
    /\ UNCHANGED <<mp_list, next_inode, processes, procfs>>
-----------------------------------------------------------------------------
(* Children of a node *)

\* A new node; the caller counts next_inode up.
fs_node_create(name, kind) == [ino |-> next_inode, name |-> name, kind |-> kind]

\* initrd_mount makes the root and adds a node per entry at the head of a list, whose
\* old head it never set: what follows the last node is whatever the memory held.
\* Its own source, the device node, has inode 0.
InitrdRoot == [ino |-> 1, name |-> <<Slash>>, kind |-> "root"]
InitrdNodes ==
    [i \in 1..Len(Archive) |->
        LET k == Len(Archive) + 1 - i
        IN  [ino |-> k + 1, name |-> Archive[k].name,
             kind |-> IF Archive[k].dir THEN "dir" ELSE "file"]]

\* initrd_get_child: of the root as of a top-level directory the "dirname" is the
\* empty string, so that every node of the archive is a child.  The module's
\* file system has one file, which exists once.
initrd_children == InitrdNodes
mod_children == <<[ino |-> 0, name |-> ModFile, kind |-> "mod"]>>

\* A node of procfs is named by the position it was asked for at (of any number of
\* digits, in the model one character) and keeps the process at that position in its
\* impl, which is NULL when the process is gone by then.
procfs_node(i) == fs_node_create(<<i>>, IF i < Len(processes) THEN "proc" ELSE "gone")

\* procfs_cleanup compares a node with the pid of the process at its position k.
\* Where no process is left the pid is read through NULL and may be any.
Stays(n, k) == n.kind = "proc" /\ (k < Len(processes) => n.name = <<processes[k + 1]>>)
Drops(n, k) == n.kind = "gone" \/ (k < Len(processes) => n.name # <<processes[k + 1]>>)

\* The nodes whose get_child is set; the others must not be walked.
Walkable(node) == node.kind \in {"root", "dir", "procfs", "modroot"}
-----------------------------------------------------------------------------
(* Paths *)

\* dirname cuts a path of two or more components in place; of a shorter one it
\* returns "." or "/" and leaves it alone.
dirname(path) == IF Len(path) > 1 THEN Front(path) ELSE path

\* plen > 1: the directory part is longer than one character.
LongDir(path) == Len(path) > 2 \/ (Len(path) = 2 /\ Len(path[1]) > 1)

\* Mutant: the child's name is compared as far as it goes.
Matches_child(path, name) == Len(dirname(path)) = 1 /\ IsPrefix(name, path[1])

\* What the loop of fs_node_resolve compares a child with is the path after
\* dirname cut it.  No name contains a slash.
Matches(path, name) ==
    /\ Len(dirname(path)) = 1
    /\ IF LongDir(path) THEN IsPrefix(path[1], name) ELSE path[1] = name

\* The child the loop of fs_node_resolve stops at in the initrd and in the module's
\* file system, whose children do not change: the walk is one step.
get_child(node, path) ==
    LET list == IF node.kind = "modroot" THEN mod_children ELSE initrd_children
        hits == {k \in 1..Len(list) : Matches(path, list[k].name)}
    IN  IF hits = {} THEN NoNode ELSE list[Min(hits)]

\* Mutant: strncmp(path, mp->target, strlen(path)).
Covers_short(target, path) == IsPrefix(path, target)

\* strncmp(path, mp->target, strlen(mp->target)): a prefix of characters.
Covers(target, path) ==
    \/ target = <<>>
    \/ /\ Len(target) <= Len(path)
       /\ Front(target) = SubSeq(path, 1, Len(target) - 1)
       /\ IsPrefix(Last(target), path[Len(target)])

\* path + strlen(mp->target), less the slash fs_node_resolve skips.
Below(target, path) ==
    IF target = <<>> THEN path
    ELSE LET tail == SubSeq(path[Len(target)], Len(Last(target)) + 1, Len(path[Len(target)]))
         IN  (IF tail = <<>> THEN <<>> ELSE <<tail>>)
               \o SubSeq(path, Len(target) + 1, Len(path))

\* The mount point fs_resolve takes: the newest that covers the path.  Its
\* fallback, the mount point whose stored target is "/", never exists.
Covering(path) == {k \in 1..Len(mountpoints) : Covers(mountpoints[k].target, path)}
fs_resolve_mp(path) == mountpoints[Min(Covering(path))]

\* What the dirname in fs_node_resolve leaves of the caller's string.
fs_resolve_cuts(path) ==
    IF Len(Below(fs_resolve_mp(path).target, path)) > 1 THEN Front(path) ELSE path
-----------------------------------------------------------------------------
(* Mount points *)

\* mountpoint_fromtarget and mountpoint_fromsrc compare whole strings: no stored
\* target starts with a slash.
AtTarget(path) ==
    {k \in 1..Len(mountpoints) : ~path.abs /\ mountpoints[k].target = path.comps}
FromSource(path) == {k \in 1..Len(mountpoints) : mountpoints[k].source = path}

\* mountpoint_create_fromnode, and the source mountpoint_create adds.
mountpoint_link(node, src, target) ==
    /\ mountpoints' = SlistInsertHead(mountpoints,
          [rootnode |-> node, source |-> src, target |-> target.comps])
    /\ mp_count' = mp_count + 1

\* The root a file system's mount makes.
procfs_mount(fs) == fs_node_create(<<Slash>>, IF fs = ModFs THEN "modroot" ELSE "procfs")

\* mountpoint_create_fromnode with MS_BIND, or with the mount of a file system.
mountpoint_create_fromnode(fs, node, src, target) ==
    IF fs = MS_BIND
    THEN mountpoint_link(node, src, target) /\ UNCHANGED next_inode
    ELSE /\ next_inode <= MaxIno
         /\ mountpoint_link(procfs_mount(fs), src, target)
         /\ next_inode' = next_inode + 1

\* The rest of the mount point goes on as a list; nothing is unmounted and the
\* root node stays allocated.
mountpoint_destroy(target) ==
    /\ AtTarget(target) # {}
    /\ mountpoints' = RemoveAt(mountpoints, Min(AtTarget(target)))
    /\ mp_count' = mp_count - 1
    /\ UNCHANGED <<fs_list, next_inode, processes, procfs>>
-----------------------------------------------------------------------------
\* After bootstrap_main has registered the file systems and mounted the initrd.
VfsInit ==
    /\ filesystems = <<"initrd", "procfs">> /\ filesystem_count = 2
    /\ mountpoints = <<[rootnode |-> InitrdRoot, source |-> NoSource, target |-> <<>>]>>
    /\ mp_count = 1
    /\ next_inode = Len(Archive) + 2
    /\ procs = <<>> /\ freed = {}
=============================================================================

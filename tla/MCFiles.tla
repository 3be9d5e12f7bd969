------------------------------ MODULE MCFiles ------------------------------
(***************************************************************************)
(* Files with an archive of a directory "b" and a file "bx", spelled in    *)
(* numbers: b is 12 and x is 13.  The digits of procfs are numbers below   *)
(* ten.  A mount on /b covers /b/bx, and the characters of /bx too.        *)
(***************************************************************************)
EXTENDS Files

B == <<12>>
Bx == <<12, 13>>
One == <<1>>

MCArchive == <<[name |-> Bx, dir |-> FALSE], [name |-> B, dir |-> TRUE]>>
MCModFile == Bx
Abs(comps) == [abs |-> TRUE, comps |-> comps]
Rel(comps) == [abs |-> FALSE, comps |-> comps]

\* Two processes and the module's file.
FileUse ==
    [paths |-> {<<B, Bx>>}, fs |-> {"mod"}, sources |-> {Abs(<<B>>)}, targets |-> {Abs(<<B>>)},
     calls |-> {"close", "transfer", "exit"}, pids |-> 2, callers |-> {1, 2}, inodes |-> 7]
\* Mounts of every kind come and go while paths are resolved.
Mounts ==
    [paths |-> {<<Bx>>, <<B, Bx>>, <<B, One>>}, fs |-> {MS_BIND, "procfs", "mod"},
     sources |-> {Abs(<<B>>), Abs(<<B, One>>), Abs(<<Bx, One>>)}, targets |-> {Abs(<<B>>), Rel(<<B>>)},
     calls |-> {"umount", "fs"}, pids |-> 2, callers |-> {1}, inodes |-> 6]
\* procfs is walked for a process that never exists, while processes come and go:
\* three of them and two nodes, or two and three.
C == <<14>>
Processes(pids, inodes) ==
    [paths |-> {<<C, <<5>>>>}, fs |-> {"procfs"}, sources |-> {Abs(<<B>>)}, targets |-> {Abs(<<C>>)},
     calls |-> {"exit"}, pids |-> pids, callers |-> {1, 2}, inodes |-> inodes]
MCWorkload == {FileUse, Mounts, Processes(3, 6), Processes(2, 7)}
=============================================================================

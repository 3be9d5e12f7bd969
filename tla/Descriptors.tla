---------------------------- MODULE Descriptors ----------------------------
(***************************************************************************)
(* What the file descriptors of newland/src/system.c promise a process: a  *)
(* table of its own, in which opening takes the lowest free number at one  *)
(* moment and puts the offset at zero, a failed opening takes none,        *)
(* closing frees one number, transfers move the offset of the descriptor   *)
(* they were made on, and the end of the process frees them all.           *)
(*                                                                         *)
(* Files implements it step by step and is shown to by refinement.         *)
(***************************************************************************)
EXTENDS Integers, FiniteSetsExt

CONSTANTS Pid, Fd, Node, NoNode, Offset

VARIABLE table   \* for each process, what its descriptors refer to

Closed == [node |-> NoNode, offset |-> 0]
Open == [node : Node, offset : Offset]

TypeOK == table \in [Pid -> [Fd -> Open \cup {Closed}]]

Free(p) == {i \in Fd : table[p][i].node = NoNode}

open(p) ==
    /\ Free(p) # {}
    /\ \E n \in Node : table' = [table EXCEPT ![p][Min(Free(p))] = [node |-> n, offset |-> 0]]

close(p) ==
    \E i \in Fd \ Free(p) : table' = [table EXCEPT ![p][i] = Closed]

transfer(p) ==
    \E i \in Fd \ Free(p), o \in Offset : table' = [table EXCEPT ![p][i].offset = o]

exit(p) == table' = [table EXCEPT ![p] = [i \in Fd |-> Closed]]

Init == table = [p \in Pid |-> [i \in Fd |-> Closed]]
Next == \E p \in Pid : open(p) \/ close(p) \/ transfer(p) \/ exit(p)

Spec == Init /\ [][Next]_table
=============================================================================

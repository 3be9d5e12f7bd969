------------------------------- MODULE MCMem -------------------------------
(***************************************************************************)
(* Mem with the history of one fact: whether every call so far found the   *)
(* memory it asked for and no page was mapped outside the pages the kernel *)
(* tables cover.  What else happens then is part of Mem too, but leaves no *)
(* order to state.                                                         *)
(***************************************************************************)
EXTENDS Mem

VARIABLE served

\* Physical and virtual room for the pages of a call.
Roomy(count) == phys_fits(Memory, count) /\ virt_fit(Memory, count) # 0

ServedInit == Init /\ served = TRUE

ServedNext ==
    \/ \E pages \in 1..MaxPages :
          /\ liballoc_alloc(pages)
          /\ served' = (served /\ Roomy(pages * PageSize))
    \/ \E b \in blocks : liballoc_free(b) /\ UNCHANGED served
    \/ mem_alloc_pgdir /\ UNCHANGED served
    \/ \E dir \in dirs : mem_free_pgdir(dir) /\ UNCHANGED served
    \/ \E dir \in dirs, v \in UserPage, count \in 1..MaxPages :
          /\ mem_map(dir, v, count)
          /\ served' = (served /\ v + count - 1 \in KrnlPage
                               /\ count <= Cardinality((0..(Total - 1)) \ used))

ServedSpec == ServedInit /\ [][ServedNext]_<<vars, served>>

KrnlMapped == {v \in KrnlPage : KrnlEntry(Memory, v) # Absent}

(***************************************************************************)
(* As long as calls are served the bitmap and the kernel tables say the    *)
(* same: a frame is in use just when it is reserved or mapped, and is      *)
(* mapped by one page.  Heap blocks, page directories and segments never   *)
(* share a frame, no frame is marked that nothing maps, and the image and  *)
(* the directories stay where they are.                                    *)
(***************************************************************************)
FramesOwned ==
    served =>
        /\ used = Reserved \cup {KrnlEntry(Memory, v) : v \in KrnlMapped}
        /\ \A v, w \in KrnlMapped : KrnlEntry(Memory, v) = KrnlEntry(Memory, w) => v = w
        /\ \A v \in Mapped \cup dirs : KrnlEntry(Memory, v) = v

(***************************************************************************)
(* As long as calls are served the directory of every process maps the     *)
(* kernel as krnl_pgdir does, so that a switch of directories inside the   *)
(* kernel (proc_regswitch, proc_switch_pgdir) is invisible to it.          *)
(***************************************************************************)
KernelShared ==
    served => \A dir \in dirs, v \in KrnlPage :
                 /\ page_ispresent(Memory, dir, v) <=> page_ispresent(Memory, krnl_pgdir, v)
                 /\ page_ispresent(Memory, dir, v)
                       => virt2phys(Memory, dir, v) = virt2phys(Memory, krnl_pgdir, v)
=============================================================================
